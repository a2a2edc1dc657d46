----------------------------- MODULE HistoryLog -----------------------------
(***************************************************************************)
(* The execution history of one connection (history.rs): a file of lines,  *)
(* one appended per execution, cut to the newest when it has too many.     *)
(* The window's process appends under a lock and remembers the number of   *)
(* lines; it may be killed at any write.  Entries are numbered.            *)
(***************************************************************************)
EXTENDS Naturals, Sequences, SequencesExt

CONSTANTS
  MaxLines,  \* MAX_HISTORY_LINES
  KeepLines, \* ROTATED_KEEP_LINES
  MaxEntries, MaxKills \* bounds: executions, crashes

ASSUME LimitsAssumption == MaxLines \in Nat /\ KeepLines \in 1 .. MaxLines /\ {MaxEntries, MaxKills} \subseteq Nat

Broken == 0  \* a line that does not parse
NotCounted == MaxEntries + 1
VARIABLES
  lines,     \* the file
  cutShort,  \* whether its last line has no end
  garbled,   \* whether a line was cut inside a character: the file is no UTF-8
  count,     \* the remembered number of lines
  phase,     \* of the append under way
  entry,     \* executions so far
  kept,      \* the temporary file of a rotation
  returned,  \* history: entries whose append returned Ok
  afterCrash,\* history: entries appended to a line without an end
  overdue,   \* history: the last rotation that was due did not take place
  kills

hiVars == <<lines, cutShort, garbled, count, phase, entry, kept, returned, afterCrash, overdue, kills>>

Entries == 1 .. MaxEntries
HiTypeOK ==
  /\ lines \in Seq(Entries \cup {Broken}) /\ kept \in Seq(Entries \cup {Broken})
  /\ cutShort \in BOOLEAN /\ garbled \in BOOLEAN /\ overdue \in BOOLEAN
  /\ count \in 0 .. NotCounted
  /\ phase \in {"idle", "counted", "rotate", "renaming"}
  /\ entry \in 0 .. MaxEntries /\ kills \in 0 .. MaxKills
  /\ returned \subseteq Entries /\ afterCrash \subseteq Entries

HiInit ==
  /\ lines = <<>> /\ cutShort = FALSE /\ garbled = FALSE /\ kept = <<>>
  /\ count = NotCounted
  /\ phase = "idle"
  /\ entry = 0 /\ kills = 0
  /\ returned = {} /\ afterCrash = {} /\ overdue = FALSE

----------------------------------------------------------------------------
(* append_with_limits *)

BeginAppend ==
  /\ phase = "idle" /\ entry < MaxEntries
  /\ entry' = entry + 1
  /\ phase' = "counted"
  /\ UNCHANGED <<lines, cutShort, garbled, count, kept, returned, afterCrash, overdue, kills>>

(* writeln!: after a line without an end the new one joins it.             *)
Appended == IF cutShort THEN Append(Front(lines), Broken) ELSE Append(lines, entry)
StartAtZero == 1  \* fault: the lines of an earlier start are not counted
CountLines == Len(lines) + 1
NewCount == IF count = NotCounted THEN CountLines ELSE count + 1
AppendLine ==
  /\ phase = "counted"
  /\ lines' = Appended
  /\ cutShort' = FALSE
  /\ afterCrash' = IF cutShort THEN afterCrash \cup {entry} ELSE afterCrash
  /\ IF NewCount > MaxLines
       THEN phase' = "rotate" /\ UNCHANGED <<count, returned>>
       ELSE phase' = "idle" /\ count' = NewCount /\ returned' = returned \cup {entry}
  /\ overdue' = (overdue \/ NewCount > MaxLines)
  /\ UNCHANGED <<garbled, entry, kept, kills>>

----------------------------------------------------------------------------
(* rotate_file *)

KeepOldest == SubSeq(lines, 1, KeepLines)  \* fault: the first lines are kept
Newest == SubSeq(lines, 1 + (IF Len(lines) > KeepLines THEN Len(lines) - KeepLines ELSE 0), Len(lines))
(* Any of its steps may fail: the file stays as it was, and the append     *)
(* returns an error without a new count.  It reads the lines as UTF-8, and *)
(* always fails once one of them is none.                                  *)
WriteKept ==
  /\ phase = "rotate"
  /\ \/ ~garbled /\ kept' = Newest /\ phase' = "renaming"
     \/ kept' = <<>> /\ phase' = "idle"
  /\ UNCHANGED <<lines, cutShort, garbled, count, entry, returned, afterCrash, overdue, kills>>

CountOfAll == Len(lines)  \* fault: the count goes on as if nothing was cut
CountOfKept == Len(kept)
RenameKept ==
  /\ phase = "renaming" /\ phase' = "idle"
  /\ \/ /\ lines' = kept /\ count' = CountOfKept /\ overdue' = FALSE
        /\ returned' = returned \cup {entry}
     \/ UNCHANGED <<lines, count, overdue, returned>>
  /\ kept' = <<>>
  /\ UNCHANGED <<cutShort, garbled, entry, afterCrash, kills>>

(* The process is killed; a line may have been written in part, up to the  *)
(* middle of a character.  (A line that lacks only its end, which is still *)
(* read until the next one joins it, counts as cut.)                       *)
Kill ==
  /\ kills < MaxKills /\ kills' = kills + 1
  /\ count' = NotCounted /\ phase' = "idle" /\ kept' = <<>>
  /\ \/ UNCHANGED <<lines, cutShort, garbled>>
     \/ /\ phase = "counted"
        /\ lines' = IF cutShort THEN Append(Front(lines), Broken) ELSE Append(lines, Broken)
        /\ cutShort' = TRUE
        /\ garbled' \in {garbled, TRUE}
  /\ UNCHANGED <<entry, returned, afterCrash, overdue>>

HiNext == BeginAppend \/ AppendLine \/ WriteKept \/ RenameKept \/ Kill
HiSpec == HiInit /\ [][HiNext]_hiVars

----------------------------------------------------------------------------
(* Properties *)

Readable == ToSet(lines) \ {Broken}
Listed == IF garbled THEN {} ELSE Readable  \* list_history fails as a whole

(* The limit holds again with the first rotation that succeeds, whatever   *)
(* failed or was killed before; a line cut short may be one too many.      *)
LogIsBounded == ~overdue => Len(lines) <= MaxLines + (IF cutShort THEN 1 ELSE 0)

(* Only the oldest executions are given up: the lines that parse are in    *)
(* the order of the executions, and nothing newer than one of them is      *)
(* missing.                                                                *)
NewestAreKept ==
  /\ \A i, j \in 1 .. Len(lines) : i < j /\ Broken \notin {lines[i], lines[j]} => lines[i] < lines[j]
  /\ \A e \in returned \ afterCrash : (\E f \in Readable : f < e) => e \in Readable

(* The file is rewritten only when it has too many lines, not at every     *)
(* append from the first rotation on, and no more is thrown away than has  *)
(* to be.  An entry that joined a cut line was counted as one more.        *)
RotationIsDue ==
  [][/\ phase = "counted" /\ phase' = "rotate" =>
          Len(lines') + (IF Broken \in ToSet(lines') THEN 1 ELSE 0) > MaxLines
     /\ phase = "renaming" /\ lines' # lines => Len(lines') = KeepLines /\ IsSuffix(lines', lines)]_hiVars

(* "Skip broken lines (e.g. partially written during a crash) and keep     *)
(* reading": the listing misses the line that was cut short and no other,  *)
(* neither the next execution's nor, when it was cut inside a character,   *)
(* every line of the file.                                                 *)
OnlyCutLinesAreBroken == \A e \in returned : e = entry => e \in Readable
BrokenLinesAreSkipped == Readable \subseteq Listed

(* The log keeps the newest entries, in order, within its limit.           *)
LogPromise == [](LogIsBounded /\ NewestAreKept) /\ RotationIsDue
=============================================================================
