---------------------------- MODULE QueryFolder ----------------------------
(***************************************************************************)
(* Operations on query files (query_files.rs) that overlap: commands of    *)
(* the application run concurrently, and `queryfolio write` is a process   *)
(* of its own.  One action per system call that others can come between.   *)
(***************************************************************************)
EXTENDS FiniteSets

CONSTANTS
  FileOps,          \* operations
  FileCalls,        \* what they may be asked to do: kind and places
  Folders, FileNames,
  LetterCase,       \* names that differ only in case have the same value
  Missing, Empty, Half, \* contents: no file, an empty one, one partly written
  Original,         \* contents of a file that was there before
  FirstPlaces       \* bound: where such a file may be

Places == Folders \X FileNames
FileKinds == {"write", "guarded", "create", "ensure", "move", "rename", "delete"}

ASSUME FolderAssumption ==
  /\ FileCalls \subseteq [kind : FileKinds, at : Places, to : Places]
  /\ \A c \in FileCalls : /\ c.kind = "rename" => c.at[1] = c.to[1]
                          /\ c.kind = "move" => c.at[2] = c.to[2]
  /\ FirstPlaces \subseteq Places
  /\ \A p, q \in FirstPlaces : p # q => p[1] # q[1] \/ LetterCase[p[2]] # LetterCase[q[2]]
  /\ FileOps \cap {Missing, Empty, Half, Original} = {}
  /\ Missing \notin {Empty, Half, Original} /\ Half \notin {Empty, Original}

VARIABLES
  call,   \* what each operation does
  disk,   \* contents of each place; those an operation writes are the operation
  step,   \* where each operation is
  temps,  \* temporary files
  base,   \* what a guarded write read
  moving  \* history: the contents an operation took as its own to move

qfVars == <<call, disk, step, temps, base, moving>>

WholeContents == FileOps \cup {Missing, Empty, Original}
QfTypeOK ==
  /\ call \in [FileOps -> FileCalls]
  /\ disk \in [Places -> WholeContents \cup {Half}]
  /\ step \in [FileOps -> {"new", "toTemp", "temp", "synced", "toCreate", "reserve", "reserved",
                           "toRename", "ok", "refused", "crashed"}]
  /\ temps \subseteq FileOps
  /\ base \in [FileOps -> WholeContents]
  /\ moving \in [FileOps -> WholeContents]

Kind(o) == call[o].kind
QfAt(o) == call[o].at
Destination(o) == call[o].to
QfGoto(o, s) == step' = [step EXCEPT ![o] = s]
Exists(p) == disk[p] # Missing
SameLetters(p, q) == p[1] = q[1] /\ LetterCase[p[2]] = LetterCase[q[2]]
Put(p, c) == disk' = [disk EXCEPT ![p] = c]

QfInit ==
  /\ call \in [FileOps -> FileCalls]
  /\ \E first \in SUBSET FirstPlaces :
       disk = [p \in Places |-> IF p \in first THEN Original ELSE Missing]
  /\ step = [o \in FileOps |-> "new"]
  /\ temps = {}
  /\ base = [o \in FileOps |-> Missing]
  /\ moving = [o \in FileOps |-> Missing]

----------------------------------------------------------------------------
(* write_query_file and write_query_file_if_unchanged                      *)

Writes == {"write", "guarded"}

(* The editor read `base` at some point; the command compares it with the  *)
(* file right before it writes.  A missing file is created again.          *)
BeginWrite(o) ==
  /\ step[o] = "new" /\ Kind(o) \in Writes
  /\ IF Kind(o) # "guarded"
       THEN QfGoto(o, "toTemp") /\ UNCHANGED base
       ELSE \E b \in {disk[QfAt(o)], Original, Empty} :
              /\ base' = [base EXCEPT ![o] = b]
              /\ QfGoto(o, IF disk[QfAt(o)] \in {b, Missing} THEN "toTemp" ELSE "refused")
  /\ UNCHANGED <<call, disk, temps, moving>>

(* create_new with the next free sequence number                           *)
CreateTemp(o) ==
  /\ step[o] = "toTemp"
  /\ \/ QfGoto(o, "temp") /\ temps' = temps \cup {o}
     \/ QfGoto(o, "refused") /\ UNCHANGED temps
  /\ UNCHANGED <<call, disk, base, moving>>

WriteInPlace(o) == Put(QfAt(o), Half)  \* fault: fs::write on the file itself
WriteBeside(o) == UNCHANGED disk
FillTemp(o) ==
  /\ step[o] = "temp"
  /\ \/ QfGoto(o, "synced") /\ WriteBeside(o) /\ UNCHANGED temps
     \/ QfGoto(o, "refused") /\ temps' = temps \ {o} /\ UNCHANGED disk
  /\ UNCHANGED <<call, base, moving>>

KeepTemp(o) == temps  \* fault: the error path leaves the temporary file
WithoutTemp(o) == temps \ {o}
ReplaceFile(o) ==
  /\ step[o] = "synced"
  /\ \/ QfGoto(o, "ok") /\ Put(QfAt(o), o) /\ temps' = temps \ {o}
     \/ QfGoto(o, "refused") /\ UNCHANGED disk /\ temps' = WithoutTemp(o)
  /\ UNCHANGED <<call, base, moving>>

----------------------------------------------------------------------------
(* create_query_file and ensure_query_file                                 *)

BeginCreate(o) ==
  /\ step[o] = "new" /\ Kind(o) \in {"create", "ensure"}
  /\ QfGoto(o, IF Kind(o) = "create" /\ Exists(QfAt(o)) THEN "refused" ELSE "toCreate")
  /\ UNCHANGED <<call, disk, temps, base, moving>>

TruncateNew(p) == TRUE  \* fault: File::create instead of create_new
Vacant(p) == ~Exists(p)
(* ensure takes what it finds.                                             *)
CreateNew(o) ==
  /\ step[o] = "toCreate"
  /\ IF Vacant(QfAt(o))
       THEN \/ QfGoto(o, "ok") /\ Put(QfAt(o), Empty)
            \/ QfGoto(o, "refused") /\ UNCHANGED disk
       ELSE QfGoto(o, IF Kind(o) = "ensure" THEN "ok" ELSE "refused") /\ UNCHANGED disk
  /\ UNCHANGED <<call, temps, base, moving>>

----------------------------------------------------------------------------
(* move_query_file and rename_query_file                                   *)

(* A move refuses any name of the same letters at the destination, a       *)
(* rename any but the file itself.                                         *)
Collides(o) ==
  \E p \in Places : /\ Exists(p) /\ SameLetters(p, Destination(o))
                    /\ Kind(o) = "rename" => p # QfAt(o)
LookBeforeMoving(o) ==
  /\ step[o] = "new" /\ Kind(o) \in {"move", "rename"}
  /\ LET stays == QfAt(o) = Destination(o) IN
     QfGoto(o, CASE stays /\ (Kind(o) = "rename" \/ Exists(QfAt(o))) -> "ok"
                 [] ~stays /\ Exists(QfAt(o)) /\ ~Collides(o) -> IF Kind(o) = "move" THEN "reserve" ELSE "toRename"
                 [] OTHER -> "refused")
  /\ UNCHANGED <<call, disk, temps, base, moving>>

TakeAnyway(o) == TRUE  \* fault: the look above is enough
NameIsFree(o) == ~Exists(Destination(o))
Reserve(o) ==
  /\ step[o] = "reserve"
  /\ IF NameIsFree(o)
       THEN QfGoto(o, "reserved") /\ Put(Destination(o), Empty)
       ELSE QfGoto(o, "refused") /\ UNCHANGED disk
  /\ UNCHANGED <<call, temps, base, moving>>

CopyOver(o) == [disk EXCEPT ![Destination(o)] = disk[QfAt(o)]]  \* fault: the source stays
Renamed(o) == [disk EXCEPT ![Destination(o)] = disk[QfAt(o)], ![QfAt(o)] = Missing]
LeaveReserved(o) == UNCHANGED disk  \* fault: the reservation stays
Unreserve(o) == IF step[o] = "reserved" THEN Put(Destination(o), Missing) ELSE UNCHANGED disk
(* fs::rename replaces what it finds; it fails when the source is gone.    *)
Rename(o) ==
  /\ step[o] \in {"reserved", "toRename"}
  /\ \/ /\ Exists(QfAt(o))
        /\ disk' = Renamed(o)
        /\ moving' = [moving EXCEPT ![o] = disk[QfAt(o)]]
        /\ QfGoto(o, "ok")
     \/ Unreserve(o) /\ QfGoto(o, "refused") /\ UNCHANGED moving
  /\ UNCHANGED <<call, temps, base>>

Delete(o) ==
  /\ step[o] = "new" /\ Kind(o) = "delete"
  /\ IF Exists(QfAt(o)) THEN QfGoto(o, "ok") /\ Put(QfAt(o), Missing)
                      ELSE QfGoto(o, "refused") /\ UNCHANGED disk
  /\ UNCHANGED <<call, temps, base, moving>>

(* The process is killed.                                                  *)
CrashOf(o) ==
  /\ step[o] \notin {"new", "ok", "refused", "crashed"}
  /\ QfGoto(o, "crashed")
  /\ UNCHANGED <<call, disk, temps, base, moving>>

----------------------------------------------------------------------------
QfNext ==
  \E o \in FileOps :
    \/ BeginWrite(o) \/ CreateTemp(o) \/ FillTemp(o) \/ ReplaceFile(o)
    \/ BeginCreate(o) \/ CreateNew(o)
    \/ LookBeforeMoving(o) \/ Reserve(o) \/ Rename(o) \/ Delete(o) \/ CrashOf(o)
QfSpec == QfInit /\ [][QfNext]_qfVars

----------------------------------------------------------------------------
(* Properties *)

(* Whoever reads a query file, at any time and after a crash at any time,  *)
(* sees contents somebody wrote as a whole.                                *)
FilesAreWhole == \A p \in Places : disk[p] \in WholeContents

(* Creating a file never changes one, whatever another process creates     *)
(* between the look and the creation.                                      *)
CreateKeepsFiles ==
  [][\A o \in FileOps : step[o] = "toCreate" /\ step'[o] # "toCreate" =>
       \A p \in Places : Exists(p) => disk'[p] = disk[p]]_qfVars

(* Two moves never take the same name: a move replaces its reservation, or *)
(* what a save or a rename put over the reservation meanwhile - unless     *)
(* somebody deleted the reservation or moved it away.                      *)
TookAway(w, p) ==
  /\ step[w] = "ok" /\ QfAt(w) = p
  /\ Kind(w) = "delete" \/ (Kind(w) \in {"move", "rename"} /\ Destination(w) # p)
SavedOver(p) ==
  \E w \in FileOps : Kind(w) \in Writes \cup {"rename"} /\ disk[p] \in {w, moving[w]}
MovesDoNotCollide ==
  [][\A o \in FileOps : step[o] = "reserved" /\ step'[o] = "ok" =>
       \/ disk[Destination(o)] \in {Empty, Missing}
       \/ SavedOver(Destination(o))
       \/ \E w \in FileOps : TookAway(w, Destination(o))]_qfVars

(* What is moved or renamed is in exactly one place afterwards.            *)
MovedIsInOnePlace ==
  [][\A o \in FileOps : step[o] \in {"reserved", "toRename"} /\ step'[o] = "ok" =>
       /\ disk'[Destination(o)] = disk[QfAt(o)]
       /\ QfAt(o) # Destination(o) => disk'[QfAt(o)] = Missing]_qfVars

(* A move that failed leaves no empty file that would refuse the next one. *)
FailedMoveLeavesNothing ==
  [][\A o \in FileOps : step[o] = "reserved" /\ step'[o] = "refused" =>
       disk'[Destination(o)] # Empty]_qfVars

(* Only a killed process leaves a temporary file behind.                   *)
NoTempLeft == \A o \in temps : step[o] \in {"temp", "synced", "crashed"}

(* "The only thing replaced here is the empty file we reserved."           *)
OnlyReservedIsReplaced ==
  [][\A o \in FileOps : step[o] = "reserved" /\ step'[o] \in {"ok", "refused"} =>
       disk[Destination(o)] \in {Empty, Missing}]_qfVars

(* Query files survive whatever operations overlap and wherever they stop. *)
FilesSurvive ==
  /\ [](FilesAreWhole /\ NoTempLeft)
  /\ CreateKeepsFiles /\ MovesDoNotCollide /\ MovedIsInOnePlace /\ FailedMoveLeavesNothing
=============================================================================
