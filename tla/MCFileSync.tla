----------------------------- MODULE MCFileSync -----------------------------
(* Instances of FileSync for TLC.  Slots for operations, tabs and files    *)
(* are interchangeable; u1 and x1 are edits of the same line, as are the   *)
(* two edits of the user.                                                  *)
EXTENDS FileSync, TLC

CONSTANTS u1, u2, x1,
          SerialUses, SerialEvents  \* Uses and MaxEvents when operations do not overlap

SameLine == {{u1, x1}, {u1, u2}}

Interchangeable == Permutations(Ops) \cup Permutations(Tabs) \cup Permutations(Paths)

(* Either some uses, with operations that overlap, or all of them one at a *)
(* time, in the slot `only`.                                               *)
VARIABLE only
Serial(o) == INSTANCE FileSync WITH Ops <- {o}, Uses <- SerialUses, MaxEvents <- SerialEvents
OverlapOrSerialInit == only \in Ops \cup {None} /\ Init
OverlapOrSerialNext ==
  \/ only = None /\ Next /\ UNCHANGED only
  \/ \E o \in Ops : only = o /\ Serial(o)!Next /\ UNCHANGED only
OverlapOrSerialSpec == OverlapOrSerialInit /\ [][OverlapOrSerialNext]_<<vars, only>>

(* Tabs keep in step with the folder and, as long as operations do not     *)
(* overlap, the editor with the tabs, one for each file.                   *)
TabsInOrder == TabHasFile /\ (only # None => ActiveTabIsOpen /\ OneTabPerFile)

(* Nothing the user typed and that is on disk is taken off it again by     *)
(* what they did not ask for (where they take nothing back): neither by an *)
(* older save that arrives late nor, when the file is open in two tabs, by *)
(* the save or the merge of the other tab.                                 *)
TypedStaysSaved == [][only = None => SavedStays]_vars
=============================================================================
