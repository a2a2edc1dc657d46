--------------------------- MODULE ServicesProofs ---------------------------
(***************************************************************************)
(* Theorems about the files the application keeps, and about all of the    *)
(* services together.  They hold for any numbers of calls, folders, saves, *)
(* loads, executions and crashes, and any limits.                          *)
(***************************************************************************)
EXTENDS MCServices, AccessProofs, TasksProofs, FiniteSetTheorems

----------------------------------------------------------------------------
(***************************************************************************)
(* QueryFolder                                                             *)
(***************************************************************************)

(* Types, with contents that are always whole.                             *)
WholeFiles == QfTypeOK /\ FilesAreWhole

(* Who moves, where to, and what it moved.                                 *)
MovesGoElsewhere ==
  \A o \in FileOps :
    /\ step[o] \in {"reserve", "reserved"} => Kind(o) = "move"
    /\ step[o] = "toRename" => Kind(o) = "rename"
    /\ step[o] \in {"toTemp", "temp", "synced"} => Kind(o) \in Writes
    /\ step[o] \in {"reserve", "reserved", "toRename"} => QfAt(o) # Destination(o)
    /\ moving[o] # Missing => step[o] = "ok"

(* A reservation is one operation's, until somebody takes it away; saves   *)
(* and renames may put their contents over it.                             *)
ReservationsStand ==
  \A o \in FileOps : step[o] = "reserved" =>
    \/ \E w \in FileOps : TookAway(w, Destination(o))
    \/ /\ \A m \in FileOps : step[m] = "reserved" /\ Destination(m) = Destination(o) => m = o
       /\ disk[Destination(o)] # Missing
       /\ disk[Destination(o)] = Empty \/ SavedOver(Destination(o))

QfInv == WholeFiles /\ NoTempLeft /\ MovesGoElsewhere /\ ReservationsStand

----------------------------------------------------------------------------
LEMMA PlacesOfCalls ==
  ASSUME QfTypeOK, NEW o \in FileOps
  PROVE  Kind(o) \in FileKinds /\ QfAt(o) \in Places /\ Destination(o) \in Places
  BY FolderAssumption DEF QfTypeOK, Kind, QfAt, Destination

(* Nothing partly written reaches a query file. *)
LEMMA WholeFilesStep == WholeFiles /\ [QfNext]_qfVars => WholeFiles'
  <1> SUFFICES ASSUME WholeFiles, [QfNext]_qfVars PROVE WholeFiles'
    OBVIOUS
  <1> USE PlacesOfCalls DEF WholeFiles, QfTypeOK, FilesAreWhole, WholeContents
  <1>1. ASSUME NEW o \in FileOps, BeginWrite(o) PROVE WholeFiles'
    BY <1>1 DEF BeginWrite, Kind, Writes, QfGoto
  <1>2. ASSUME NEW o \in FileOps, CreateTemp(o) PROVE WholeFiles'
    BY <1>2 DEF CreateTemp, QfGoto
  <1>3. ASSUME NEW o \in FileOps, FillTemp(o) PROVE WholeFiles'
    BY <1>3 DEF FillTemp, WriteBeside, QfGoto
  <1>4. ASSUME NEW o \in FileOps, ReplaceFile(o) PROVE WholeFiles'
    BY <1>4 DEF ReplaceFile, Put, WithoutTemp, QfGoto
  <1>5. ASSUME NEW o \in FileOps, BeginCreate(o) PROVE WholeFiles'
    BY <1>5 DEF BeginCreate, Kind, Exists, QfGoto
  <1>6. ASSUME NEW o \in FileOps, CreateNew(o) PROVE WholeFiles'
    BY <1>6 DEF CreateNew, Kind, Put, Vacant, Exists, QfGoto
  <1>7. ASSUME NEW o \in FileOps, LookBeforeMoving(o) PROVE WholeFiles'
    BY <1>7 DEF LookBeforeMoving, Kind, QfGoto
  <1>8. ASSUME NEW o \in FileOps, Reserve(o) PROVE WholeFiles'
    BY <1>8 DEF Reserve, Put, NameIsFree, Exists, QfGoto
  <1>9. ASSUME NEW o \in FileOps, Rename(o) PROVE WholeFiles'
    BY <1>9 DEF Rename, Renamed, Unreserve, Put, Exists, QfGoto
  <1>10. ASSUME NEW o \in FileOps, Delete(o) PROVE WholeFiles'
    BY <1>10 DEF Delete, Kind, Put, Exists, QfGoto
  <1>11. ASSUME NEW o \in FileOps, CrashOf(o) PROVE WholeFiles'
    BY <1>11 DEF CrashOf, QfGoto
  <1>12. CASE UNCHANGED qfVars
    BY <1>12 DEF qfVars
  <1> QED
    BY <1>1, <1>2, <1>3, <1>4, <1>5, <1>6, <1>7, <1>8, <1>9, <1>10, <1>11, <1>12 DEF QfNext

(* A temporary file belongs to a write under way, or to one that was killed. *)
LEMMA NoTempLeftStep == WholeFiles /\ NoTempLeft /\ [QfNext]_qfVars => NoTempLeft'
  <1> SUFFICES ASSUME WholeFiles /\ NoTempLeft, [QfNext]_qfVars PROVE NoTempLeft'
    OBVIOUS
  <1> USE  DEF WholeFiles, QfTypeOK, NoTempLeft
  <1>1. ASSUME NEW o \in FileOps, BeginWrite(o) PROVE NoTempLeft'
    BY <1>1 DEF BeginWrite, Kind, Writes, QfGoto
  <1>2. ASSUME NEW o \in FileOps, CreateTemp(o) PROVE NoTempLeft'
    BY <1>2 DEF CreateTemp, QfGoto
  <1>3. ASSUME NEW o \in FileOps, FillTemp(o) PROVE NoTempLeft'
    BY <1>3 DEF FillTemp, WriteBeside, QfGoto
  <1>4. ASSUME NEW o \in FileOps, ReplaceFile(o) PROVE NoTempLeft'
    BY <1>4 DEF ReplaceFile, Put, WithoutTemp, QfGoto
  <1>5. ASSUME NEW o \in FileOps, BeginCreate(o) PROVE NoTempLeft'
    BY <1>5 DEF BeginCreate, Kind, Exists, QfGoto
  <1>6. ASSUME NEW o \in FileOps, CreateNew(o) PROVE NoTempLeft'
    BY <1>6 DEF CreateNew, Kind, Put, Vacant, Exists, QfGoto
  <1>7. ASSUME NEW o \in FileOps, LookBeforeMoving(o) PROVE NoTempLeft'
    BY <1>7 DEF LookBeforeMoving, Kind, QfGoto
  <1>8. ASSUME NEW o \in FileOps, Reserve(o) PROVE NoTempLeft'
    BY <1>8 DEF Reserve, Put, NameIsFree, Exists, QfGoto
  <1>9. ASSUME NEW o \in FileOps, Rename(o) PROVE NoTempLeft'
    BY <1>9 DEF Rename, Renamed, Unreserve, Put, Exists, QfGoto
  <1>10. ASSUME NEW o \in FileOps, Delete(o) PROVE NoTempLeft'
    BY <1>10 DEF Delete, Kind, Put, Exists, QfGoto
  <1>11. ASSUME NEW o \in FileOps, CrashOf(o) PROVE NoTempLeft'
    BY <1>11 DEF CrashOf, QfGoto
  <1>12. CASE UNCHANGED qfVars
    BY <1>12 DEF qfVars
  <1> QED
    BY <1>1, <1>2, <1>3, <1>4, <1>5, <1>6, <1>7, <1>8, <1>9, <1>10, <1>11, <1>12 DEF QfNext

(* An operation keeps to its kind. *)
LEMMA MovesGoElsewhereStep == WholeFiles /\ MovesGoElsewhere /\ [QfNext]_qfVars => MovesGoElsewhere'
  <1> SUFFICES ASSUME WholeFiles /\ MovesGoElsewhere, [QfNext]_qfVars PROVE MovesGoElsewhere'
    OBVIOUS
  <1> USE  DEF WholeFiles, QfTypeOK, MovesGoElsewhere, Writes
  <1>1. ASSUME NEW o \in FileOps, BeginWrite(o) PROVE MovesGoElsewhere'
    BY <1>1 DEF BeginWrite, Kind, Writes, QfGoto, Kind, QfAt, Destination
  <1>2. ASSUME NEW o \in FileOps, CreateTemp(o) PROVE MovesGoElsewhere'
    BY <1>2 DEF CreateTemp, QfGoto, Kind, QfAt, Destination
  <1>3. ASSUME NEW o \in FileOps, FillTemp(o) PROVE MovesGoElsewhere'
    BY <1>3 DEF FillTemp, WriteBeside, QfGoto, Kind, QfAt, Destination
  <1>4. ASSUME NEW o \in FileOps, ReplaceFile(o) PROVE MovesGoElsewhere'
    BY <1>4 DEF ReplaceFile, Put, WithoutTemp, QfGoto, Kind, QfAt, Destination
  <1>5. ASSUME NEW o \in FileOps, BeginCreate(o) PROVE MovesGoElsewhere'
    BY <1>5 DEF BeginCreate, Kind, Exists, QfGoto, Kind, QfAt, Destination
  <1>6. ASSUME NEW o \in FileOps, CreateNew(o) PROVE MovesGoElsewhere'
    BY <1>6 DEF CreateNew, Kind, Put, Vacant, Exists, QfGoto, Kind, QfAt, Destination
  <1>7. ASSUME NEW o \in FileOps, LookBeforeMoving(o) PROVE MovesGoElsewhere'
    <2>1. /\ step'[o] = "reserve" => Kind(o) = "move" /\ QfAt(o) # Destination(o)
          /\ step'[o] = "toRename" => Kind(o) = "rename" /\ QfAt(o) # Destination(o)
          /\ step'[o] \in {"ok", "refused", "reserve", "toRename"}
      <3>1. CASE QfAt(o) = Destination(o)
        BY <1>7, <3>1 DEF LookBeforeMoving, QfGoto
      <3>2. CASE QfAt(o) # Destination(o)
        BY <1>7, <3>2 DEF LookBeforeMoving, QfGoto
      <3> QED
        BY <3>1, <3>2
    <2>2. \A m \in FileOps : Kind(m)' = Kind(m) /\ QfAt(m)' = QfAt(m) /\ Destination(m)' = Destination(m)
      BY <1>7 DEF LookBeforeMoving, Kind, QfAt, Destination
    <2>3. step[o] = "new" /\ moving' = moving /\ \A m \in FileOps : m # o => step'[m] = step[m]
      BY <1>7 DEF LookBeforeMoving, QfGoto
    <2> HIDE DEF WholeFiles, QfTypeOK
    <2> QED
      BY <2>1, <2>2, <2>3
  <1>8. ASSUME NEW o \in FileOps, Reserve(o) PROVE MovesGoElsewhere'
    BY <1>8 DEF Reserve, Put, NameIsFree, Exists, QfGoto, Kind, QfAt, Destination
  <1>9. ASSUME NEW o \in FileOps, Rename(o) PROVE MovesGoElsewhere'
    BY <1>9 DEF Rename, Renamed, Unreserve, Put, Exists, QfGoto, Kind, QfAt, Destination
  <1>10. ASSUME NEW o \in FileOps, Delete(o) PROVE MovesGoElsewhere'
    BY <1>10 DEF Delete, Kind, Put, Exists, QfGoto, Kind, QfAt, Destination
  <1>11. ASSUME NEW o \in FileOps, CrashOf(o) PROVE MovesGoElsewhere'
    BY <1>11 DEF CrashOf, QfGoto, Kind, QfAt, Destination
  <1>12. CASE UNCHANGED qfVars
    BY <1>12 DEF qfVars, Kind, QfAt, Destination
  <1> QED
    BY <1>1, <1>2, <1>3, <1>4, <1>5, <1>6, <1>7, <1>8, <1>9, <1>10, <1>11, <1>12 DEF QfNext

(* What is done stays done. *)
LEMMA DoneStays ==
  ASSUME WholeFiles, MovesGoElsewhere, [QfNext]_qfVars
  PROVE  /\ call' = call
         /\ \A o \in FileOps : step[o] = "ok" => step'[o] = "ok" /\ moving'[o] = moving[o]
  <1> USE DEF WholeFiles, QfTypeOK, MovesGoElsewhere
  <1>1. ASSUME NEW o \in FileOps, BeginWrite(o) PROVE call' = call /\ \A m \in FileOps : step[m] = "ok" => step'[m] = "ok" /\ moving'[m] = moving[m]
    BY <1>1 DEF BeginWrite, QfGoto
  <1>2. ASSUME NEW o \in FileOps, CreateTemp(o) PROVE call' = call /\ \A m \in FileOps : step[m] = "ok" => step'[m] = "ok" /\ moving'[m] = moving[m]
    BY <1>2 DEF CreateTemp, QfGoto
  <1>3. ASSUME NEW o \in FileOps, FillTemp(o) PROVE call' = call /\ \A m \in FileOps : step[m] = "ok" => step'[m] = "ok" /\ moving'[m] = moving[m]
    BY <1>3 DEF FillTemp, QfGoto
  <1>4. ASSUME NEW o \in FileOps, ReplaceFile(o) PROVE call' = call /\ \A m \in FileOps : step[m] = "ok" => step'[m] = "ok" /\ moving'[m] = moving[m]
    BY <1>4 DEF ReplaceFile, QfGoto
  <1>5. ASSUME NEW o \in FileOps, BeginCreate(o) PROVE call' = call /\ \A m \in FileOps : step[m] = "ok" => step'[m] = "ok" /\ moving'[m] = moving[m]
    BY <1>5 DEF BeginCreate, QfGoto
  <1>6. ASSUME NEW o \in FileOps, CreateNew(o) PROVE call' = call /\ \A m \in FileOps : step[m] = "ok" => step'[m] = "ok" /\ moving'[m] = moving[m]
    BY <1>6 DEF CreateNew, QfGoto
  <1>7. ASSUME NEW o \in FileOps, LookBeforeMoving(o) PROVE call' = call /\ \A m \in FileOps : step[m] = "ok" => step'[m] = "ok" /\ moving'[m] = moving[m]
    BY <1>7 DEF LookBeforeMoving, QfGoto
  <1>8. ASSUME NEW o \in FileOps, Reserve(o) PROVE call' = call /\ \A m \in FileOps : step[m] = "ok" => step'[m] = "ok" /\ moving'[m] = moving[m]
    BY <1>8 DEF Reserve, QfGoto
  <1>9. ASSUME NEW o \in FileOps, Rename(o) PROVE call' = call /\ \A m \in FileOps : step[m] = "ok" => step'[m] = "ok" /\ moving'[m] = moving[m]
    BY <1>9 DEF Rename, QfGoto
  <1>10. ASSUME NEW o \in FileOps, Delete(o) PROVE call' = call /\ \A m \in FileOps : step[m] = "ok" => step'[m] = "ok" /\ moving'[m] = moving[m]
    BY <1>10 DEF Delete, QfGoto
  <1>11. ASSUME NEW o \in FileOps, CrashOf(o) PROVE call' = call /\ \A m \in FileOps : step[m] = "ok" => step'[m] = "ok" /\ moving'[m] = moving[m]
    BY <1>11 DEF CrashOf, QfGoto
  <1> QED
    BY <1>1, <1>2, <1>3, <1>4, <1>5, <1>6, <1>7, <1>8, <1>9, <1>10, <1>11 DEF QfNext, qfVars

LEMMA TakenStaysTaken ==
  ASSUME WholeFiles, MovesGoElsewhere, [QfNext]_qfVars, NEW w \in FileOps, NEW p \in Places, TookAway(w, p)
  PROVE  TookAway(w, p)'
  BY DoneStays DEF TookAway, QfAt, Kind, Destination

LEMMA SavedStaysSaved ==
  ASSUME WholeFiles, MovesGoElsewhere, [QfNext]_qfVars, NEW p \in Places, SavedOver(p),
         disk'[p] = disk[p], disk[p] # Missing
  PROVE  SavedOver(p)'
  <1>1. PICK w \in FileOps : Kind(w) \in Writes \cup {"rename"} /\ disk[p] \in {w, moving[w]}
    BY DEF SavedOver
  <1>2. moving[w] = disk[p] => moving'[w] = disk[p]
    BY DoneStays DEF MovesGoElsewhere
  <1> QED
    BY <1>1, <1>2, DoneStays DEF SavedOver, Kind

(* A step that neither reserves nor touches a place in use leaves its      *)
(* reservation standing.                                                   *)
LEMMA ReservationsKept ==
  ASSUME WholeFiles, MovesGoElsewhere, ReservationsStand, [QfNext]_qfVars,
         NEW o \in FileOps, step[o] = "reserved",
         (\A m \in FileOps : step[m] = "reserved" /\ Destination(m) = Destination(o) => m = o)
           /\ disk[Destination(o)] # Missing =>
             \/ \E w \in FileOps : TookAway(w, Destination(o))'
             \/ /\ \A m \in FileOps : step'[m] = "reserved" /\ Destination(m) = Destination(o) => step[m] = "reserved"
                /\ disk'[Destination(o)] # Missing
                /\ disk'[Destination(o)] = disk[Destination(o)] \/ SavedOver(Destination(o))'
  PROVE  \/ \E w \in FileOps : TookAway(w, Destination(o))'
         \/ /\ \A m \in FileOps : step'[m] = "reserved" /\ Destination(m)' = Destination(o)' => m = o
            /\ disk'[Destination(o)] # Missing
            /\ disk'[Destination(o)] = Empty \/ SavedOver(Destination(o))'
  <1>a. PICK p \in Places : p = Destination(o)
    BY PlacesOfCalls DEF WholeFiles
  <1>0. call' = call /\ p = Destination(o)'
    BY <1>a, DoneStays DEF Destination
  <1>1. CASE \E w \in FileOps : TookAway(w, p)
    BY <1>a, <1>0, <1>1, TakenStaysTaken DEF TookAway
  <1>2. CASE ~\E w \in FileOps : TookAway(w, p)
    <2>1. /\ \A m \in FileOps : step[m] = "reserved" /\ Destination(m) = p => m = o
          /\ disk[p] # Missing
          /\ disk[p] = Empty \/ SavedOver(p)
      BY <1>a, <1>2 DEF ReservationsStand, SavedOver
    <2>2. disk'[p] = disk[p] => disk'[p] = Empty \/ SavedOver(p)'
      BY <2>1, SavedStaysSaved
    <2>3. \A m \in FileOps : Destination(m)' = Destination(m)
      BY <1>0 DEF Destination
    <2> QED
      BY <1>a, <1>0, <2>1, <2>2, <2>3 DEF TookAway, SavedOver
  <1> QED
    BY <1>1, <1>2

(* Only a move reserves, when nothing is there; and only a delete, a move  *)
(* or a rename empties a place that is not its own reservation.            *)
LEMMA ReservationsStep == WholeFiles /\ MovesGoElsewhere /\ ReservationsStand /\ [QfNext]_qfVars => ReservationsStand'
  <1> SUFFICES ASSUME WholeFiles, MovesGoElsewhere, ReservationsStand, [QfNext]_qfVars,
                      NEW r \in FileOps, step'[r] = "reserved"
               PROVE  \/ \E w \in FileOps : TookAway(w, Destination(r))'
                      \/ /\ \A m \in FileOps : step'[m] = "reserved" /\ Destination(m)' = Destination(r)' => m = r
                         /\ disk'[Destination(r)'] # Missing
                         /\ disk'[Destination(r)'] = Empty \/ SavedOver(Destination(r))'
    BY DEF ReservationsStand
  <1> DEFINE Kept ==
        (\A m \in FileOps : step[m] = "reserved" /\ Destination(m) = Destination(r) => m = r)
          /\ disk[Destination(r)] # Missing =>
            \/ \E w \in FileOps : TookAway(w, Destination(r))'
            \/ /\ \A m \in FileOps : step'[m] = "reserved" /\ Destination(m) = Destination(r) => step[m] = "reserved"
               /\ disk'[Destination(r)] # Missing
               /\ disk'[Destination(r)] = disk[Destination(r)] \/ SavedOver(Destination(r))'
  <1>p. PICK p \in Places : p = Destination(r)
    BY PlacesOfCalls DEF WholeFiles
  <1>q. call' = call /\ p = Destination(r)'
    BY <1>p, DoneStays DEF Destination
  <1>1. CASE step[r] # "reserved"
    <2>1. Reserve(r) /\ disk[p] = Missing /\ disk'[p] = Empty
      <3>1. PICK o \in FileOps : Reserve(o)
        BY <1>1 DEF WholeFiles, QfTypeOK, QfNext, qfVars, BeginWrite, CreateTemp, FillTemp, ReplaceFile, BeginCreate,
              CreateNew, LookBeforeMoving, Rename, Delete, CrashOf, QfGoto, Unreserve
      <3> QED
        BY <1>p, <1>1, <3>1 DEF Reserve, QfGoto, Put, NameIsFree, Exists, WholeFiles, QfTypeOK
    <2>2. ASSUME NEW m \in FileOps, step'[m] = "reserved", Destination(m)' = Destination(r)', m # r
          PROVE  \E w \in FileOps : TookAway(w, Destination(r))'
      <3>1. step[m] = "reserved" /\ Destination(m) = p
        BY <1>p, <1>q, <2>1, <2>2 DEF Reserve, QfGoto, WholeFiles, QfTypeOK, Destination
      <3>2. PICK w \in FileOps : TookAway(w, p)
        BY <2>1, <3>1 DEF ReservationsStand, TookAway
      <3> QED
        BY <1>q, <3>2, TakenStaysTaken DEF TookAway
    <2> QED
      BY <1>q, <2>1, <2>2, FolderAssumption
  <1>2. CASE step[r] = "reserved"
    <2> SUFFICES Kept
      BY <1>2, <1>p, <1>q, ReservationsKept
    <2> SUFFICES ASSUME \A m \in FileOps : step[m] = "reserved" /\ Destination(m) = p => m = r, disk[p] # Missing
                 PROVE  \/ \E w \in FileOps : TookAway(w, p)'
                        \/ /\ \A m \in FileOps : step'[m] = "reserved" /\ Destination(m) = p => step[m] = "reserved"
                           /\ disk'[p] # Missing
                           /\ disk'[p] = disk[p] \/ SavedOver(p)'
      BY <1>p, <1>q DEF TookAway, SavedOver
    <2>1. ASSUME NEW o \in FileOps, BeginWrite(o) \/ CreateTemp(o) \/ BeginCreate(o) \/ LookBeforeMoving(o) \/ CrashOf(o) \/ FillTemp(o)
          PROVE  disk' = disk /\ \A m \in FileOps : step'[m] = "reserved" => step[m] = "reserved"
      BY <2>1 DEF BeginWrite, CreateTemp, BeginCreate, LookBeforeMoving, CrashOf, FillTemp, WriteBeside, QfGoto, WholeFiles, QfTypeOK
    <2>2. ASSUME NEW o \in FileOps, ReplaceFile(o)
          PROVE  /\ \A m \in FileOps : step'[m] = "reserved" => step[m] = "reserved"
                 /\ disk'[p] # Missing
                 /\ disk'[p] = disk[p] \/ SavedOver(p)'
      <3>1. Kind(o)' \in Writes
        BY <1>q, <2>2 DEF ReplaceFile, MovesGoElsewhere, Kind
      <3>2. disk' = disk \/ disk' = [disk EXCEPT ![QfAt(o)] = o]
        BY <2>2 DEF ReplaceFile, Put
      <3>3. disk'[p] = disk[p] \/ disk'[p] = o
        BY <3>2 DEF WholeFiles, QfTypeOK
      <3> QED
        BY <2>2, <3>1, <3>3, FolderAssumption DEF ReplaceFile, QfGoto, WholeFiles, QfTypeOK, SavedOver
    <2>3. ASSUME NEW o \in FileOps, CreateNew(o) \/ Reserve(o)
          PROVE  /\ \A m \in FileOps : step'[m] = "reserved" /\ Destination(m) = p => step[m] = "reserved"
                 /\ disk'[p] = disk[p]
      BY <2>3 DEF CreateNew, Vacant, Reserve, NameIsFree, Exists, Put, QfGoto, WholeFiles, QfTypeOK
    <2>4. ASSUME NEW o \in FileOps, Delete(o)
          PROVE  /\ \A m \in FileOps : step'[m] = "reserved" => step[m] = "reserved"
                 /\ disk'[p] = disk[p] \/ TookAway(o, p)'
      <3>1. QfAt(o) # p => disk'[p] = disk[p]
        BY <2>4 DEF Delete, Put, WholeFiles, QfTypeOK
      <3>2. QfAt(o) = p => TookAway(o, p)'
        BY <2>4 DEF Delete, Exists, TookAway, QfGoto, WholeFiles, QfTypeOK, QfAt, Kind
      <3> QED
        BY <2>4, <3>1, <3>2 DEF Delete, QfGoto, WholeFiles, QfTypeOK
    <2>5. ASSUME NEW o \in FileOps, Rename(o)
          PROVE  /\ \A m \in FileOps : step'[m] = "reserved" => step[m] = "reserved"
                 /\ \/ step'[r] # "reserved"
                    \/ disk'[p] # Missing /\ (disk'[p] = disk[p] \/ SavedOver(p)')
                    \/ TookAway(o, p)'
      <3>1. \A m \in FileOps : step'[m] = "reserved" => step[m] = "reserved" /\ m # o
        BY <2>5 DEF Rename, QfGoto, WholeFiles, QfTypeOK
      <3>2. CASE step[o] = "reserved" /\ Destination(o) = p
        BY <3>1, <3>2
      <3>3. CASE ~(step[o] = "reserved" /\ Destination(o) = p)
        <4>1. CASE step'[o] = "refused"
          BY <2>5, <3>1, <3>3, <4>1 DEF Rename, QfGoto, Unreserve, Put, WholeFiles, QfTypeOK
        <4>2. CASE step'[o] # "refused"
          <5>1. /\ disk' = Renamed(o) /\ moving' = [moving EXCEPT ![o] = disk[QfAt(o)]]
                /\ Exists(QfAt(o)) /\ step'[o] = "ok" /\ QfAt(o) # Destination(o)
            BY <2>5, <4>2 DEF Rename, QfGoto, WholeFiles, QfTypeOK, MovesGoElsewhere
          <5>2. QfAt(o) \in Places /\ Destination(o) \in Places /\ Kind(o)' = Kind(o) /\ QfAt(o)' = QfAt(o) /\ Destination(o)' = Destination(o)
            BY <1>q, PlacesOfCalls DEF WholeFiles, Kind, QfAt, Destination
          <5>3. Kind(o) \in {"move", "rename"} /\ (Destination(o) = p => Kind(o) = "rename")
            BY <2>5, <3>3 DEF Rename, MovesGoElsewhere
          <5>4. CASE QfAt(o) = p
            <6>1. step'[o] = "ok" /\ QfAt(o)' = p /\ Kind(o)' \in {"move", "rename"} /\ Destination(o)' # p
              BY <5>1, <5>2, <5>3, <5>4
            <6> QED
              BY <3>1, <6>1 DEF TookAway
          <5>5. CASE Destination(o) = p
            <6>1. disk'[p] = disk[QfAt(o)] /\ disk'[p] # Missing
              BY <5>1, <5>2, <5>5 DEF Renamed, Exists, WholeFiles, QfTypeOK
            <6>2. moving'[o] = disk'[p]
              BY <5>1, <6>1 DEF WholeFiles, QfTypeOK
            <6> QED
              BY <3>1, <5>2, <5>3, <5>5, <6>1, <6>2 DEF SavedOver
          <5>6. CASE QfAt(o) # p /\ Destination(o) # p
            BY <3>1, <5>1, <5>2, <5>6 DEF Renamed, WholeFiles, QfTypeOK
          <5> QED
            BY <3>1, <5>4, <5>5, <5>6
        <4> QED
          BY <4>1, <4>2
      <3> QED
        BY <3>2, <3>3
    <2>6. CASE UNCHANGED qfVars
      BY <2>6 DEF qfVars
    <2>7. CASE QfNext
      <3>1. PICK o \in FileOps : BeginWrite(o) \/ CreateTemp(o) \/ FillTemp(o) \/ ReplaceFile(o) \/ BeginCreate(o)
              \/ CreateNew(o) \/ LookBeforeMoving(o) \/ Reserve(o) \/ Rename(o) \/ Delete(o) \/ CrashOf(o)
        BY <2>7 DEF QfNext
      <3>2. CASE Rename(o)
        BY <3>2, <2>5, <1>2
      <3>3. CASE Delete(o)
        BY <3>3, <2>4
      <3>4. CASE ~Rename(o) /\ ~Delete(o)
        BY <3>1, <3>4, <2>1, <2>2, <2>3
      <3> QED
        BY <3>2, <3>3, <3>4
    <2> QED
      BY <2>6, <2>7
  <1> QED
    BY <1>1, <1>2

(* The invariant of QueryFolder. *)
THEOREM QfInvariance == QfSpec => []QfInv
  <1>1. QfInit => QfInv
    <2> SUFFICES ASSUME QfInit PROVE QfInv
      OBVIOUS
    <2>1. WholeFiles
      BY DEF QfInit, WholeFiles, QfTypeOK, FilesAreWhole, WholeContents
    <2>2. NoTempLeft /\ MovesGoElsewhere /\ ReservationsStand
      BY DEF QfInit, NoTempLeft, MovesGoElsewhere, ReservationsStand
    <2> QED
      BY <2>1, <2>2 DEF QfInv
  <1>2. QfInv /\ [QfNext]_qfVars => QfInv'
    BY WholeFilesStep, NoTempLeftStep, MovesGoElsewhereStep, ReservationsStep DEF QfInv
  <1> QED
    BY <1>1, <1>2, PTL DEF QfSpec

(* Whatever operations overlap, however many and whatever they are asked,  *)
(* and wherever one is killed.                                             *)
THEOREM QueryFilesSurvive == QfSpec => FilesSurvive
  <1> DEFINE
        Creates == \A o \in FileOps : step[o] = "toCreate" /\ step'[o] # "toCreate" =>
                     \A p \in Places : Exists(p) => disk'[p] = disk[p]
        Collides0 == \A o \in FileOps : step[o] = "reserved" /\ step'[o] = "ok" =>
                     \/ disk[Destination(o)] \in {Empty, Missing}
                     \/ SavedOver(Destination(o))
                     \/ \E w \in FileOps : TookAway(w, Destination(o))
        MovesWhole == \A o \in FileOps : step[o] \in {"reserved", "toRename"} /\ step'[o] = "ok" =>
                     /\ disk'[Destination(o)] = disk[QfAt(o)]
                     /\ QfAt(o) # Destination(o) => disk'[QfAt(o)] = Missing
        Failed == \A o \in FileOps : step[o] = "reserved" /\ step'[o] = "refused" => disk'[Destination(o)] # Empty
  <1>1. QfInv => FilesAreWhole /\ NoTempLeft
    BY DEF QfInv, WholeFiles
  <1>2. QfInv => Collides0
    BY DEF QfInv, ReservationsStand
  <1>3. QfInv /\ [QfNext]_qfVars => [Creates /\ MovesWhole /\ Failed]_qfVars
    <2> SUFFICES ASSUME QfInv, QfNext PROVE Creates /\ MovesWhole /\ Failed
      OBVIOUS
    <2> USE DEF QfInv, WholeFiles, QfTypeOK
    <2>1. ASSUME NEW o \in FileOps, step[o] = "toCreate", step'[o] # "toCreate"
          PROVE  CreateNew(o) \/ CrashOf(o)
      BY <2>1 DEF QfNext, BeginWrite, CreateTemp, FillTemp, ReplaceFile, BeginCreate,
              CreateNew, LookBeforeMoving, Reserve, Rename, Delete, CrashOf, QfGoto
    <2>2. Creates
      <3> SUFFICES ASSUME NEW o \in FileOps, step[o] = "toCreate", step'[o] # "toCreate", NEW p \in Places, Exists(p)
                   PROVE  disk'[p] = disk[p]
        OBVIOUS
      <3> QED
        BY <2>1 DEF CreateNew, CrashOf, Vacant, Exists, Put
    <2>3. ASSUME NEW o \in FileOps, step[o] \in {"reserved", "toRename"}, step'[o] \in {"ok", "refused"}
          PROVE  Rename(o)
      BY <2>3 DEF QfNext, BeginWrite, CreateTemp, FillTemp, ReplaceFile, BeginCreate,
              CreateNew, LookBeforeMoving, Reserve, Delete, CrashOf, QfGoto, Rename
    <2>4. MovesWhole
      <3> SUFFICES ASSUME NEW o \in FileOps, step[o] \in {"reserved", "toRename"}, step'[o] = "ok"
                   PROVE  disk'[Destination(o)] = disk[QfAt(o)] /\ disk'[QfAt(o)] = Missing
        OBVIOUS
      <3>1. disk' = Renamed(o) /\ QfAt(o) # Destination(o)
        BY <2>3 DEF Rename, QfGoto, MovesGoElsewhere
      <3> QED
        BY <3>1, PlacesOfCalls DEF Renamed
    <2>5. Failed
      <3> SUFFICES ASSUME NEW o \in FileOps, step[o] = "reserved", step'[o] = "refused"
                   PROVE  disk'[Destination(o)] # Empty
        OBVIOUS
      <3>1. disk' = [disk EXCEPT ![Destination(o)] = Missing]
        BY <2>3 DEF Rename, QfGoto, Unreserve, Put
      <3> QED
        BY <3>1, PlacesOfCalls, FolderAssumption
    <2> QED
      BY <2>2, <2>4, <2>5
  <1> QED
    BY <1>1, <1>2, <1>3, QfInvariance, PTL
    DEF QfSpec, FilesSurvive, CreateKeepsFiles, MovesDoNotCollide, MovedIsInOnePlace, FailedMoveLeavesNothing

----------------------------------------------------------------------------
(***************************************************************************)
(* ConfigFile                                                              *)
(***************************************************************************)

Texts == {Gone, Nothing, HalfText} \cup WholeTexts
ConfigFiles == ConfigNames \cup {"tmp"}
WindowSteps == {"idle", "create", "created", "half", "opened", "toWrite", "temp", "private", "halfTemp", "synced"}
Commands0 == [at : WindowSteps, edit : ConfigEdits \cup {Gone}, read : Texts, path : ConfigNames]

(* The types, as functions.                                                *)
CfTyped ==
  /\ text \in [ConfigFiles -> Texts]
  /\ open \in [ConfigFiles -> BOOLEAN]
  /\ window \in Commands0
  /\ load \in [Loads -> {"new", "yml", "yaml", "missing", "read", "broken"}]
  /\ deaths \in 0 .. MaxDeaths

(* Every write from outside uses an edit up.                               *)
WritesUseEdits == made \subseteq ConfigEdits /\ outside \in 0 .. Cardinality(made)

(* While the template is written nothing else is there, and it is private; *)
(* so is the temporary file once its mode is set, and whole at the end.    *)
WrittenPrivately ==
  /\ window.at = "created" => text["yml"] = Nothing
  /\ window.at \in {"created", "half"} => ~open["yml"]
  /\ window.at \in {"private", "halfTemp", "synced"} => ~open["tmp"]
  /\ window.at \in {"toWrite", "temp", "private", "halfTemp", "synced"} => window.edit \in ConfigEdits
  /\ window.at = "synced" => text["tmp"] \in WholeTexts /\ window.edit \in text["tmp"]

(* The file that goes before the one being written came from outside.      *)
WritesWhatIsRead ==
  window.at \in {"toWrite", "temp", "private", "halfTemp", "synced"} /\ window.path = "yaml" =>
    text["yml"] = Gone \/ outside # 0

TemplatesBreak ==
  \A p \in ConfigNames : text[p] \in {Nothing, HalfText} =>
    p = "yml" /\ (window.at \in {"created", "half"} \/ deaths > 0)

CfInv == CfTyped /\ WritesUseEdits /\ WrittenPrivately /\ WritesWhatIsRead /\ TemplatesBreak

----------------------------------------------------------------------------
LEMMA WholeIsText ==
  /\ \A x \in Texts : IsWhole(x) <=> x \in WholeTexts
  /\ {} \in WholeTexts
  /\ \A x \in WholeTexts, e \in ConfigEdits : x \cup {e} \in WholeTexts /\ {e} \in WholeTexts
  BY ConfigAssumption DEF IsWhole, WholeTexts, Texts

LEMMA MarksAreNoTexts ==
  /\ Gone \notin ConfigEdits /\ Gone # Nothing /\ Gone # HalfText /\ Nothing # HalfText
  /\ Gone \notin WholeTexts /\ Nothing \notin WholeTexts /\ HalfText \notin WholeTexts
  BY ConfigAssumption DEF IsWhole

(* What tightening does and how the window's command goes on.              *)
LEMMA TightenTyped ==
  ASSUME CfTyped, NEW paths, Tighten(paths)
  PROVE  /\ open' \in [ConfigFiles -> BOOLEAN]
         /\ \A p \in ConfigFiles : (open'[p] => open[p]) /\ (p \in paths => ~open'[p])
  BY DEF CfTyped, Tighten

LEMMA CommandTyped ==
  ASSUME CfTyped, NEW at \in WindowSteps, Command(at)
  PROVE  /\ window' \in Commands0 /\ window'.at = at
         /\ window'.edit = window.edit /\ window'.read = window.read /\ window'.path = window.path
  BY DEF CfTyped, Command, Commands0

LEMMA NoCommandTyped == NoCommand \in Commands0 /\ NoCommand.at = "idle" /\ NoCommand.path = "yml"
  BY DEF NoCommand, Commands0, WindowSteps, ConfigNames, Texts

LEMMA ConfigPathIsName == ConfigPath \in ConfigNames
  BY DEF ConfigPath, ConfigNames

(* Every step keeps the types. *)
LEMMA CfTypedStep == CfTyped /\ WrittenPrivately /\ [CfNext]_cfVars => CfTyped'
  <1> SUFFICES ASSUME CfTyped /\ WrittenPrivately, [CfNext]_cfVars PROVE CfTyped'
    OBVIOUS
  <1> USE ConfigPathIsName DEF CfTyped, WrittenPrivately, ConfigFiles, ConfigNames, WindowSteps, Commands0, Texts
  <1>1. CASE EnsureConfigFile
    BY <1>1, TightenTyped, CommandTyped DEF EnsureConfigFile, EnsureExisting, There
  <1>2. CASE CreateTemplate
    BY <1>2, TightenTyped, CommandTyped, MarksAreNoTexts DEF CreateTemplate, MayCreate, There
  <1>3. CASE WriteTemplate
    <2>1. CASE window.at = "created" /\ text' = [text EXCEPT !["yml"] = HalfText] /\ Command("half")
      BY <1>3, <2>1, CommandTyped, MarksAreNoTexts DEF WriteTemplate
    <2>2. CASE window.at = "half" /\ text' = [text EXCEPT !["yml"] = {}] /\ Command("idle")
      <3>1. {} \in WholeTexts
        BY WholeIsText
      <3> HIDE DEF WholeTexts
      <3> QED
        BY <1>3, <2>2, <3>1, CommandTyped, MarksAreNoTexts DEF WriteTemplate
    <2> QED
      BY <1>3, <2>1, <2>2 DEF WriteTemplate
  <1>4. CASE EditorReads
    BY <1>4, TightenTyped DEF EditorReads, ConfigPath, There
  <1>5. CASE Save
    BY <1>5 DEF Save, PathToWrite, ConfigPath, There
  <1>6. CASE AddFileConnection
    BY <1>6, TightenTyped, WholeIsText DEF AddFileConnection, PathToWrite, ConfigPath, There
  <1>7. CASE OpenTemp
    BY <1>7, CommandTyped DEF OpenTemp, There
  <1>8. CASE TempIsPrivate
    BY <1>8, TightenTyped, CommandTyped DEF TempIsPrivate, SetMode
  <1>9. CASE FillConfig
    <2>1. window.at = "halfTemp" => Edited \in WholeTexts
      BY WholeIsText DEF Edited
    <2> QED
      BY <1>9, <2>1, CommandTyped, MarksAreNoTexts DEF FillConfig, Texts
  <1>10. CASE ReplaceConfig
    BY <1>10, NoCommandTyped, MarksAreNoTexts, WholeIsText DEF ReplaceConfig
  <1>11. CASE WriteFails
    BY <1>11, NoCommandTyped DEF WriteFails
  <1>12. CASE KillApplication
    BY <1>12, NoCommandTyped, ConfigAssumption DEF KillApplication
  <1>13. ASSUME NEW l \in Loads, BeginLoad(l) PROVE CfTyped'
    BY <1>13, TightenTyped, ConfigPathIsName DEF BeginLoad, ConfigPath, There
  <1>14. ASSUME NEW l \in Loads, ReadText(l) PROVE CfTyped'
    BY <1>14, WholeIsText DEF ReadText
  <1>15. CASE WriteOutside
    <2>1. PICK p \in ConfigNames, e \in ConfigEdits \ made, o \in BOOLEAN :
            /\ text' = [text EXCEPT ![p] = (IF IsWhole(text[p]) THEN text[p] ELSE {}) \cup {e}]
            /\ open' = [open EXCEPT ![p] = o]
      BY <1>15 DEF WriteOutside
    <2>2. (IF IsWhole(text[p]) THEN text[p] ELSE {}) \cup {e} \in WholeTexts
      BY <2>1, WholeIsText
    <2> QED
      BY <1>15, <2>1, <2>2 DEF WriteOutside, Texts
  <1>16. CASE UNCHANGED cfVars
    BY <1>16 DEF cfVars
  <1> QED
    BY <1>1, <1>2, <1>3, <1>4, <1>5, <1>6, <1>7, <1>8, <1>9, <1>10, <1>11, <1>12, <1>13, <1>14, <1>15, <1>16 DEF CfNext

(* One edit for every write from outside. *)
LEMMA WritesUseEditsStep == WritesUseEdits /\ [CfNext]_cfVars => WritesUseEdits'
  <1> SUFFICES ASSUME WritesUseEdits, [CfNext]_cfVars PROVE WritesUseEdits'
    OBVIOUS
  <1> USE ConfigAssumption DEF WritesUseEdits
  <1>1. CASE EnsureConfigFile
    BY <1>1 DEF EnsureConfigFile, EnsureExisting
  <1>2. CASE CreateTemplate
    BY <1>2 DEF CreateTemplate, MayCreate, There
  <1>3. CASE WriteTemplate
    BY <1>3 DEF WriteTemplate
  <1>4. CASE EditorReads
    BY <1>4 DEF EditorReads, ConfigPath, There
  <1>5. CASE Save
    <2>1. PICK e \in ConfigEdits \ made : made' = made \cup {e}
      BY <1>5 DEF Save
    <2>2. IsFiniteSet(made)
      BY FS_Subset
    <2>3. Cardinality(made') = Cardinality(made) + 1 /\ Cardinality(made) \in Nat
      BY <2>1, <2>2, FS_AddElement, FS_CardinalityType
    <2> QED
      BY <1>5, <2>1, <2>3 DEF Save
  <1>6. CASE AddFileConnection
    <2>1. PICK e \in ConfigEdits \ made : made' = made \cup {e}
      BY <1>6 DEF AddFileConnection
    <2>2. IsFiniteSet(made)
      BY FS_Subset
    <2>3. Cardinality(made') = Cardinality(made) + 1 /\ Cardinality(made) \in Nat
      BY <2>1, <2>2, FS_AddElement, FS_CardinalityType
    <2> QED
      BY <1>6, <2>1, <2>3 DEF AddFileConnection
  <1>7. CASE OpenTemp
    BY <1>7 DEF OpenTemp, There
  <1>8. CASE TempIsPrivate
    BY <1>8 DEF TempIsPrivate, SetMode
  <1>9. CASE FillConfig
    BY <1>9 DEF FillConfig, Edited
  <1>10. CASE ReplaceConfig
    BY <1>10 DEF ReplaceConfig
  <1>11. CASE WriteFails
    BY <1>11 DEF WriteFails
  <1>12. CASE KillApplication
    BY <1>12 DEF KillApplication
  <1>13. ASSUME NEW l \in Loads, BeginLoad(l) PROVE WritesUseEdits'
    BY <1>13 DEF BeginLoad, ConfigPath, There
  <1>14. ASSUME NEW l \in Loads, ReadText(l) PROVE WritesUseEdits'
    BY <1>14 DEF ReadText
  <1>15. CASE WriteOutside
    <2>1. PICK e \in ConfigEdits \ made : made' = made \cup {e}
      BY <1>15 DEF WriteOutside
    <2>2. IsFiniteSet(made)
      BY FS_Subset
    <2>3. Cardinality(made') = Cardinality(made) + 1 /\ Cardinality(made) \in Nat
      BY <2>1, <2>2, FS_AddElement, FS_CardinalityType
    <2> QED
      BY <1>15, <2>1, <2>3 DEF WriteOutside
  <1>16. CASE UNCHANGED cfVars
    BY <1>16 DEF cfVars
  <1> QED
    BY <1>1, <1>2, <1>3, <1>4, <1>5, <1>6, <1>7, <1>8, <1>9, <1>10, <1>11, <1>12, <1>13, <1>14, <1>15, <1>16 DEF CfNext

(* What is written is private before it is whole. *)
LEMMA WrittenPrivatelyStep == CfTyped /\ WrittenPrivately /\ [CfNext]_cfVars => WrittenPrivately'
  <1> SUFFICES ASSUME CfTyped /\ WrittenPrivately, [CfNext]_cfVars PROVE WrittenPrivately'
    OBVIOUS
  <1> USE ConfigPathIsName DEF CfTyped, WrittenPrivately, ConfigFiles, ConfigNames, WindowSteps, Commands0
  <1>1. CASE EnsureConfigFile
    BY <1>1, TightenTyped, CommandTyped DEF EnsureConfigFile, EnsureExisting, There
  <1>2. CASE CreateTemplate
    BY <1>2, TightenTyped, CommandTyped, MarksAreNoTexts DEF CreateTemplate, MayCreate, There
  <1>3. CASE WriteTemplate
    <2>1. CASE window.at = "created" /\ text' = [text EXCEPT !["yml"] = HalfText] /\ Command("half")
      BY <1>3, <2>1, CommandTyped, MarksAreNoTexts DEF WriteTemplate
    <2>2. CASE window.at = "half" /\ text' = [text EXCEPT !["yml"] = {}] /\ Command("idle")
      <3>1. {} \in WholeTexts
        BY WholeIsText
      <3> HIDE DEF WholeTexts
      <3> QED
        BY <1>3, <2>2, <3>1, CommandTyped, MarksAreNoTexts DEF WriteTemplate
    <2> QED
      BY <1>3, <2>1, <2>2 DEF WriteTemplate
  <1>4. CASE EditorReads
    BY <1>4, TightenTyped DEF EditorReads, ConfigPath, There
  <1>5. CASE Save
    BY <1>5 DEF Save, PathToWrite, ConfigPath, There
  <1>6. CASE AddFileConnection
    BY <1>6, TightenTyped, WholeIsText DEF AddFileConnection, PathToWrite, ConfigPath, There
  <1>7. CASE OpenTemp
    BY <1>7, CommandTyped DEF OpenTemp, There
  <1>8. CASE TempIsPrivate
    BY <1>8, TightenTyped, CommandTyped DEF TempIsPrivate, SetMode
  <1>9. CASE FillConfig
    <2>1. window.at = "halfTemp" => Edited \in WholeTexts /\ window.edit \in Edited
      BY WholeIsText DEF Edited
    <2> QED
      BY <1>9, <2>1, CommandTyped, MarksAreNoTexts DEF FillConfig
  <1>10. CASE ReplaceConfig
    BY <1>10, NoCommandTyped, MarksAreNoTexts, WholeIsText DEF ReplaceConfig
  <1>11. CASE WriteFails
    BY <1>11, NoCommandTyped DEF WriteFails
  <1>12. CASE KillApplication
    BY <1>12, NoCommandTyped, ConfigAssumption DEF KillApplication
  <1>13. ASSUME NEW l \in Loads, BeginLoad(l) PROVE WrittenPrivately'
    BY <1>13, TightenTyped, ConfigPathIsName DEF BeginLoad, ConfigPath, There
  <1>14. ASSUME NEW l \in Loads, ReadText(l) PROVE WrittenPrivately'
    BY <1>14, WholeIsText DEF ReadText
  <1>15. CASE WriteOutside
    BY <1>15, WholeIsText, MarksAreNoTexts DEF WriteOutside
  <1>16. CASE UNCHANGED cfVars
    BY <1>16 DEF cfVars
  <1> QED
    BY <1>1, <1>2, <1>3, <1>4, <1>5, <1>6, <1>7, <1>8, <1>9, <1>10, <1>11, <1>12, <1>13, <1>14, <1>15, <1>16 DEF CfNext

(* Only another program creates a file that goes before. *)
LEMMA WritesWhatIsReadStep == CfTyped /\ WritesUseEdits /\ WritesWhatIsRead /\ [CfNext]_cfVars => WritesWhatIsRead'
  <1> SUFFICES ASSUME CfTyped /\ WritesUseEdits /\ WritesWhatIsRead, [CfNext]_cfVars PROVE WritesWhatIsRead'
    OBVIOUS
  <1> USE  DEF CfTyped, WritesUseEdits, WritesWhatIsRead, ConfigFiles, ConfigNames, WindowSteps, Commands0
  <1>1. CASE EnsureConfigFile
    BY <1>1, TightenTyped, CommandTyped DEF EnsureConfigFile, EnsureExisting, There
  <1>2. CASE CreateTemplate
    BY <1>2, TightenTyped, CommandTyped, MarksAreNoTexts DEF CreateTemplate, MayCreate, There
  <1>3. CASE WriteTemplate
    BY <1>3, CommandTyped, WholeIsText, MarksAreNoTexts DEF WriteTemplate
  <1>4. CASE EditorReads
    BY <1>4, TightenTyped DEF EditorReads, ConfigPath, There
  <1>5. CASE Save
    BY <1>5 DEF Save, PathToWrite, ConfigPath, There
  <1>6. CASE AddFileConnection
    BY <1>6, TightenTyped, WholeIsText DEF AddFileConnection, PathToWrite, ConfigPath, There
  <1>7. CASE OpenTemp
    BY <1>7, CommandTyped DEF OpenTemp, There
  <1>8. CASE TempIsPrivate
    BY <1>8, TightenTyped, CommandTyped DEF TempIsPrivate, SetMode
  <1>9. CASE FillConfig
    BY <1>9, CommandTyped, WholeIsText DEF FillConfig, Edited
  <1>10. CASE ReplaceConfig
    BY <1>10, NoCommandTyped, MarksAreNoTexts, WholeIsText DEF ReplaceConfig
  <1>11. CASE WriteFails
    BY <1>11, NoCommandTyped DEF WriteFails
  <1>12. CASE KillApplication
    BY <1>12, NoCommandTyped, ConfigAssumption DEF KillApplication
  <1>13. ASSUME NEW l \in Loads, BeginLoad(l) PROVE WritesWhatIsRead'
    BY <1>13, TightenTyped, ConfigPathIsName DEF BeginLoad, ConfigPath, There
  <1>14. ASSUME NEW l \in Loads, ReadText(l) PROVE WritesWhatIsRead'
    BY <1>14, WholeIsText DEF ReadText
  <1>15. CASE WriteOutside
    BY <1>15, WholeIsText, MarksAreNoTexts DEF WriteOutside
  <1>16. CASE UNCHANGED cfVars
    BY <1>16 DEF cfVars
  <1> QED
    BY <1>1, <1>2, <1>3, <1>4, <1>5, <1>6, <1>7, <1>8, <1>9, <1>10, <1>11, <1>12, <1>13, <1>14, <1>15, <1>16 DEF CfNext

(* Only the template is written in place. *)
LEMMA TemplatesBreakStep == CfTyped /\ WrittenPrivately /\ TemplatesBreak /\ [CfNext]_cfVars => TemplatesBreak'
  <1> SUFFICES ASSUME CfTyped /\ WrittenPrivately /\ TemplatesBreak, [CfNext]_cfVars PROVE TemplatesBreak'
    OBVIOUS
  <1> USE  DEF CfTyped, WrittenPrivately, TemplatesBreak, ConfigFiles, ConfigNames, WindowSteps, Commands0
  <1>1. CASE EnsureConfigFile
    BY <1>1, TightenTyped, CommandTyped DEF EnsureConfigFile, EnsureExisting, There
  <1>2. CASE CreateTemplate
    BY <1>2, TightenTyped, CommandTyped, MarksAreNoTexts DEF CreateTemplate, MayCreate, There
  <1>3. CASE WriteTemplate
    <2>1. CASE window.at = "created" /\ text' = [text EXCEPT !["yml"] = HalfText] /\ Command("half")
      BY <1>3, <2>1, CommandTyped, MarksAreNoTexts DEF WriteTemplate
    <2>2. CASE window.at = "half" /\ text' = [text EXCEPT !["yml"] = {}] /\ Command("idle")
      <3>1. {} \in WholeTexts
        BY WholeIsText
      <3> HIDE DEF WholeTexts
      <3> QED
        BY <1>3, <2>2, <3>1, CommandTyped, MarksAreNoTexts DEF WriteTemplate
    <2> QED
      BY <1>3, <2>1, <2>2 DEF WriteTemplate
  <1>4. CASE EditorReads
    BY <1>4, TightenTyped DEF EditorReads, ConfigPath, There
  <1>5. CASE Save
    BY <1>5 DEF Save, PathToWrite, ConfigPath, There
  <1>6. CASE AddFileConnection
    BY <1>6, TightenTyped, WholeIsText DEF AddFileConnection, PathToWrite, ConfigPath, There
  <1>7. CASE OpenTemp
    BY <1>7, CommandTyped DEF OpenTemp, There
  <1>8. CASE TempIsPrivate
    BY <1>8, TightenTyped, CommandTyped DEF TempIsPrivate, SetMode
  <1>9. CASE FillConfig
    BY <1>9, CommandTyped, WholeIsText DEF FillConfig, Edited
  <1>10. CASE ReplaceConfig
    BY <1>10, NoCommandTyped, MarksAreNoTexts, WholeIsText DEF ReplaceConfig
  <1>11. CASE WriteFails
    BY <1>11, NoCommandTyped DEF WriteFails
  <1>12. CASE KillApplication
    BY <1>12, NoCommandTyped, ConfigAssumption DEF KillApplication
  <1>13. ASSUME NEW l \in Loads, BeginLoad(l) PROVE TemplatesBreak'
    BY <1>13, TightenTyped, ConfigPathIsName DEF BeginLoad, ConfigPath, There
  <1>14. ASSUME NEW l \in Loads, ReadText(l) PROVE TemplatesBreak'
    BY <1>14, WholeIsText DEF ReadText
  <1>15. CASE WriteOutside
    <2>1. PICK p \in ConfigNames, e \in ConfigEdits \ made :
            text' = [text EXCEPT ![p] = (IF IsWhole(text[p]) THEN text[p] ELSE {}) \cup {e}]
      BY <1>15 DEF WriteOutside
    <2>2. (IF IsWhole(text[p]) THEN text[p] ELSE {}) \cup {e} \in WholeTexts
      BY <2>1, WholeIsText
    <2>3. text'[p] \in WholeTexts /\ \A q \in ConfigNames : q # p => text'[q] = text[q]
      BY <2>1, <2>2
    <2> QED
      BY <1>15, <2>3, MarksAreNoTexts DEF WriteOutside
  <1>16. CASE UNCHANGED cfVars
    BY <1>16 DEF cfVars
  <1> QED
    BY <1>1, <1>2, <1>3, <1>4, <1>5, <1>6, <1>7, <1>8, <1>9, <1>10, <1>11, <1>12, <1>13, <1>14, <1>15, <1>16 DEF CfNext

(* The invariant of ConfigFile. *)
THEOREM CfInvariance == CfSpec => []CfInv
  <1>1. CfInit => CfInv
    <2> SUFFICES ASSUME CfInit PROVE CfInv
      OBVIOUS
    <2>1. CfTyped
      BY ConfigAssumption DEF CfInit, CfTyped, NoCommand, Texts, ConfigFiles, ConfigNames, WindowSteps, Commands0
    <2>2. WritesUseEdits
      BY FS_EmptySet DEF CfInit, WritesUseEdits
    <2>3. WrittenPrivately /\ WritesWhatIsRead /\ TemplatesBreak
      BY ConfigAssumption DEF CfInit, WrittenPrivately, WritesWhatIsRead, TemplatesBreak, NoCommand, ConfigNames
    <2> QED
      BY <2>1, <2>2, <2>3 DEF CfInv
  <1>2. CfInv /\ [CfNext]_cfVars => CfInv'
    BY CfTypedStep, WritesUseEditsStep, WrittenPrivatelyStep, WritesWhatIsReadStep, TemplatesBreakStep DEF CfInv
  <1> QED
    BY <1>1, <1>2, PTL DEF CfSpec

(* The types of ConfigFile. *)
THEOREM CfTypeCorrect == CfSpec => []CfTypeOK
  <1>1. CfInv => CfTypeOK
    <2> SUFFICES ASSUME CfInv PROVE CfTypeOK
      OBVIOUS
    <2>1. Cardinality(made) <= Cardinality(ConfigEdits) /\ Cardinality(made) \in Nat /\ Cardinality(ConfigEdits) \in Nat
      BY ConfigAssumption, FS_Subset, FS_CardinalityType DEF CfInv, WritesUseEdits
    <2>2. outside \in 0 .. Cardinality(ConfigEdits)
      BY <2>1 DEF CfInv, WritesUseEdits
    <2> QED
      BY <2>2, WholeIsText DEF CfInv, CfTyped, CfTypeOK, WritesUseEdits, ConfigFiles, ConfigNames, WindowSteps, Commands0
  <1> QED
    BY <1>1, CfInvariance, PTL

(* A whole file is only replaced by a whole one. *)
LEMMA WholeStaysWhole ==
  ASSUME CfInv, CfNext
  PROVE  \A p \in ConfigNames : IsWhole(text[p]) => IsWhole(text'[p])
  <1> USE DEF CfInv, CfTyped, WrittenPrivately, ConfigFiles, ConfigNames, WindowSteps, Commands0, IsWhole
  <1>1. CASE EnsureConfigFile
    BY <1>1, TightenTyped, CommandTyped DEF EnsureConfigFile, EnsureExisting, There
  <1>2. CASE CreateTemplate
    BY <1>2, TightenTyped, CommandTyped, MarksAreNoTexts DEF CreateTemplate, MayCreate, There
  <1>3. CASE WriteTemplate
    <2>1. \A p \in ConfigNames : p # "yml" => text'[p] = text[p]
      BY <1>3 DEF WriteTemplate
    <2>2. CASE window.at = "created"
      <3>1. ~IsWhole(text["yml"])
        BY <2>2
      <3> QED
        BY <2>1, <3>1
    <2>3. CASE window.at = "half"
      <3>1. text'["yml"] = {}
        BY <1>3, <2>3 DEF WriteTemplate
      <3> QED
        BY <2>1, <3>1, MarksAreNoTexts, WholeIsText
    <2> QED
      BY <1>3, <2>2, <2>3 DEF WriteTemplate
  <1>4. CASE EditorReads
    BY <1>4, TightenTyped DEF EditorReads, ConfigPath, There
  <1>5. CASE Save
    BY <1>5 DEF Save, PathToWrite, ConfigPath, There
  <1>6. CASE AddFileConnection
    BY <1>6, TightenTyped, WholeIsText DEF AddFileConnection, PathToWrite, ConfigPath, There
  <1>7. CASE OpenTemp
    BY <1>7, CommandTyped DEF OpenTemp, There
  <1>8. CASE TempIsPrivate
    BY <1>8, TightenTyped, CommandTyped DEF TempIsPrivate, SetMode
  <1>9. CASE FillConfig
    BY <1>9, CommandTyped, WholeIsText DEF FillConfig, Edited
  <1>10. CASE ReplaceConfig
    BY <1>10, NoCommandTyped, MarksAreNoTexts, WholeIsText DEF ReplaceConfig
  <1>11. CASE WriteFails
    BY <1>11, NoCommandTyped DEF WriteFails
  <1>12. CASE KillApplication
    BY <1>12, NoCommandTyped, ConfigAssumption DEF KillApplication
  <1>13. ASSUME NEW l \in Loads, BeginLoad(l) PROVE \A p \in ConfigNames : IsWhole(text[p]) => IsWhole(text'[p])
    BY <1>13, TightenTyped, ConfigPathIsName DEF BeginLoad, ConfigPath, There
  <1>14. ASSUME NEW l \in Loads, ReadText(l) PROVE \A p \in ConfigNames : IsWhole(text[p]) => IsWhole(text'[p])
    BY <1>14, WholeIsText DEF ReadText
  <1>15. CASE WriteOutside
    <2>1. PICK q \in ConfigNames, e \in ConfigEdits \ made :
            text' = [text EXCEPT ![q] = (IF IsWhole(text[q]) THEN text[q] ELSE {}) \cup {e}]
      BY <1>15 DEF WriteOutside
    <2>2. (IF IsWhole(text[q]) THEN text[q] ELSE {}) \cup {e} \in WholeTexts
      BY <2>1, WholeIsText
    <2>3. text'[q] \in WholeTexts /\ \A p \in ConfigNames : p # q => text'[p] = text[p]
      BY <2>1, <2>2
    <2> QED
      BY <2>3, WholeIsText DEF Texts
  <1> QED
    BY <1>1, <1>2, <1>3, <1>4, <1>5, <1>6, <1>7, <1>8, <1>9, <1>10, <1>11, <1>12, <1>13, <1>14, <1>15 DEF CfNext

(* What this program writes is private. *)
LEMMA ExposedByOthers ==
  ASSUME CfInv, CfNext
  PROVE  \A p \in ConfigFiles : text'[p] \notin {text[p], Nothing} /\ open'[p] => text'[p] = Gone \/ outside' # outside
  <1> USE DEF CfInv, CfTyped, WrittenPrivately, ConfigFiles, ConfigNames, WindowSteps, Commands0, WritesUseEdits
  <1>1. CASE EnsureConfigFile
    BY <1>1, TightenTyped, CommandTyped DEF EnsureConfigFile, EnsureExisting, There
  <1>2. CASE CreateTemplate
    BY <1>2, TightenTyped, CommandTyped, MarksAreNoTexts DEF CreateTemplate, MayCreate, There
  <1>3. CASE WriteTemplate
    BY <1>3, CommandTyped, WholeIsText, MarksAreNoTexts DEF WriteTemplate
  <1>4. CASE EditorReads
    BY <1>4, TightenTyped DEF EditorReads, ConfigPath, There
  <1>5. CASE Save
    BY <1>5 DEF Save, PathToWrite, ConfigPath, There
  <1>6. CASE AddFileConnection
    BY <1>6, TightenTyped, WholeIsText DEF AddFileConnection, PathToWrite, ConfigPath, There
  <1>7. CASE OpenTemp
    BY <1>7, CommandTyped DEF OpenTemp, There
  <1>8. CASE TempIsPrivate
    BY <1>8, TightenTyped, CommandTyped DEF TempIsPrivate, SetMode
  <1>9. CASE FillConfig
    BY <1>9, CommandTyped, WholeIsText DEF FillConfig, Edited
  <1>10. CASE ReplaceConfig
    BY <1>10, NoCommandTyped, MarksAreNoTexts, WholeIsText DEF ReplaceConfig
  <1>11. CASE WriteFails
    BY <1>11, NoCommandTyped DEF WriteFails
  <1>12. CASE KillApplication
    BY <1>12, NoCommandTyped, ConfigAssumption DEF KillApplication
  <1>13. ASSUME NEW l \in Loads, BeginLoad(l) PROVE \A p \in ConfigFiles : text'[p] \notin {text[p], Nothing} /\ open'[p] => text'[p] = Gone \/ outside' # outside
    BY <1>13, TightenTyped, ConfigPathIsName DEF BeginLoad, ConfigPath, There
  <1>14. ASSUME NEW l \in Loads, ReadText(l) PROVE \A p \in ConfigFiles : text'[p] \notin {text[p], Nothing} /\ open'[p] => text'[p] = Gone \/ outside' # outside
    BY <1>14, WholeIsText DEF ReadText
  <1>15. CASE WriteOutside
    BY <1>15, WholeIsText, MarksAreNoTexts DEF WriteOutside
  <1> QED
    BY <1>1, <1>2, <1>3, <1>4, <1>5, <1>6, <1>7, <1>8, <1>9, <1>10, <1>11, <1>12, <1>13, <1>14, <1>15 DEF CfNext

(* What was saved is what the next load reads. *)
LEMMA SavedIsRead ==
  ASSUME CfInv, CfNext
  PROVE  window.at = "synced" /\ window' = NoCommand /\ text'["tmp"] = Gone =>
            window.edit \in text'[ConfigPath'] \/ (window.path = "yaml" /\ outside # 0)
  <1> USE DEF CfInv, CfTyped, WrittenPrivately, ConfigFiles, ConfigNames, WindowSteps, Commands0, WritesWhatIsRead
  <1>1. CASE EnsureConfigFile
    BY <1>1, TightenTyped, CommandTyped, NoCommandTyped, MarksAreNoTexts DEF EnsureConfigFile, EnsureExisting, There
  <1>2. CASE CreateTemplate
    BY <1>2, TightenTyped, CommandTyped, MarksAreNoTexts, NoCommandTyped, MarksAreNoTexts DEF CreateTemplate, MayCreate, There
  <1>3. CASE WriteTemplate
    BY <1>3, CommandTyped, WholeIsText, MarksAreNoTexts, NoCommandTyped, MarksAreNoTexts DEF WriteTemplate
  <1>4. CASE EditorReads
    BY <1>4, TightenTyped, NoCommandTyped, MarksAreNoTexts DEF EditorReads, ConfigPath, There
  <1>5. CASE Save
    BY <1>5, NoCommandTyped, MarksAreNoTexts DEF Save, PathToWrite, ConfigPath, There
  <1>6. CASE AddFileConnection
    BY <1>6, TightenTyped, WholeIsText, NoCommandTyped, MarksAreNoTexts DEF AddFileConnection, PathToWrite, ConfigPath, There
  <1>7. CASE OpenTemp
    BY <1>7, CommandTyped, NoCommandTyped, MarksAreNoTexts DEF OpenTemp, There
  <1>8. CASE TempIsPrivate
    BY <1>8, TightenTyped, CommandTyped, NoCommandTyped, MarksAreNoTexts DEF TempIsPrivate, SetMode
  <1>9. CASE FillConfig
    BY <1>9, CommandTyped, WholeIsText, NoCommandTyped, MarksAreNoTexts DEF FillConfig, Edited
  <1>10. CASE ReplaceConfig
    <2>1. text'[window.path] = text["tmp"] /\ \A p \in ConfigNames : p # window.path => text'[p] = text[p]
      BY <1>10 DEF ReplaceConfig
    <2>2. window.edit \in text["tmp"] /\ text["tmp"] # Gone
      BY <1>10, MarksAreNoTexts DEF ReplaceConfig
    <2>3. CASE window.path = "yml"
      BY <2>1, <2>2, <2>3 DEF ConfigPath, There
    <2>4. CASE window.path = "yaml"
      BY <1>10, <2>1, <2>2, <2>4 DEF ReplaceConfig, ConfigPath, There
    <2> QED
      BY <2>3, <2>4
  <1>11. CASE WriteFails
    BY <1>11, NoCommandTyped, NoCommandTyped, MarksAreNoTexts DEF WriteFails
  <1>12. CASE KillApplication
    BY <1>12, NoCommandTyped, ConfigAssumption, NoCommandTyped, MarksAreNoTexts DEF KillApplication
  <1>13. ASSUME NEW l \in Loads, BeginLoad(l) PROVE window.at = "synced" /\ window' = NoCommand /\ text'["tmp"] = Gone =>
            window.edit \in text'[ConfigPath'] \/ (window.path = "yaml" /\ outside # 0)
    BY <1>13, TightenTyped, ConfigPathIsName, NoCommandTyped, MarksAreNoTexts DEF BeginLoad, ConfigPath, There
  <1>14. ASSUME NEW l \in Loads, ReadText(l) PROVE window.at = "synced" /\ window' = NoCommand /\ text'["tmp"] = Gone =>
            window.edit \in text'[ConfigPath'] \/ (window.path = "yaml" /\ outside # 0)
    BY <1>14, WholeIsText, NoCommandTyped, MarksAreNoTexts DEF ReadText
  <1>15. CASE WriteOutside
    BY <1>15, WholeIsText, MarksAreNoTexts, NoCommandTyped, MarksAreNoTexts DEF WriteOutside
  <1> QED
    BY <1>1, <1>2, <1>3, <1>4, <1>5, <1>6, <1>7, <1>8, <1>9, <1>10, <1>11, <1>12, <1>13, <1>14, <1>15 DEF CfNext

(* However the template, the window's saves, other programs and loads      *)
(* overlap, and wherever the application is killed.                        *)
THEOREM ConfigKeepsPromise == CfSpec => ConfigPromise
  <1>1. CfInv => \A p \in ConfigNames : text[p] \in {Nothing, HalfText} =>
                   p = "yml" /\ (window.at \in {"created", "half"} \/ deaths > 0)
    BY DEF CfInv, TemplatesBreak
  <1>2. CfInv => DOMAIN text = ConfigFiles
    BY DEF CfInv, CfTyped
  <1>3. CfInv /\ [CfNext]_cfVars =>
          /\ [\A p \in ConfigNames : IsWhole(text[p]) => IsWhole(text'[p])]_cfVars
          /\ [\A p \in DOMAIN text : text'[p] \notin {text[p], Nothing} /\ open'[p] => text'[p] = Gone \/ outside' # outside]_cfVars
          /\ [window.at = "synced" /\ window' = NoCommand /\ text'["tmp"] = Gone =>
                 window.edit \in text'[ConfigPath'] \/ (window.path = "yaml" /\ outside # 0)]_cfVars
    BY <1>2, WholeStaysWhole, ExposedByOthers, SavedIsRead
  <1> QED
    BY <1>1, <1>3, CfInvariance, PTL
    DEF CfSpec, ConfigPromise, ConfigSurvives, NothingIsExposed, EditedIsUsed, OnlyTemplatesBreak

----------------------------------------------------------------------------
(***************************************************************************)
(* HistoryLog                                                              *)
(***************************************************************************)

BrokenOnes == IF Broken \in ToSet(lines) THEN 1 ELSE 0
LastLine == lines[Len(lines)]

(* The lines are of executions that have begun; the one under way is not   *)
(* among them before its append.                                           *)
LinesHaveBegun ==
  /\ Len(lines) <= entry /\ (phase = "counted" => Len(lines) < entry)
  /\ \A i \in 1 .. Len(lines) : lines[i] <= entry /\ (phase = "counted" => lines[i] < entry)
  /\ \A e \in returned : e <= entry /\ (phase = "counted" => e < entry)
  /\ phase # "idle" => entry \in Entries

(* The count is of the lines, and of one more when an entry joined a line  *)
(* cut short; only while a rotation is overdue are there more lines.       *)
CountIsOfLines ==
  count # NotCounted =>
    /\ count <= MaxLines /\ count <= entry /\ (phase = "counted" => count < entry)
    /\ count <= Len(lines) + BrokenOnes
    /\ ~overdue => Len(lines) <= count
    /\ ~cutShort

(* Only the last line lacks its end, and the next append puts it right.    *)
CutIsLast == cutShort => lines # <<>> /\ LastLine = Broken /\ phase \in {"idle", "counted"}

(* A rotation ends an append whose entry is in the last line.              *)
RotatesAfterAppend ==
  /\ phase \in {"rotate", "renaming"} =>
       /\ Len(lines) + BrokenOnes > MaxLines
       /\ lines # <<>> /\ (entry \in afterCrash \/ LastLine = entry)
  /\ phase = "renaming" => kept = Newest

HiInv ==
  /\ HiTypeOK /\ LinesHaveBegun /\ CountIsOfLines /\ CutIsLast /\ RotatesAfterAppend
  /\ LogIsBounded /\ NewestAreKept

----------------------------------------------------------------------------
(* What the file is after an append, a crash and a rotation. *)
Lines == Entries \cup {Broken}

LEMMA InFile == ASSUME NEW s \in Seq(Lines), NEW e PROVE e \in ToSet(s) <=> \E i \in 1 .. Len(s) : s[i] = e
  BY LenProperties DEF ToSet

LEMMA OneMore ==
  ASSUME NEW s \in Seq(Lines), NEW e \in Lines
  PROVE  /\ Append(s, e) \in Seq(Lines) /\ Len(Append(s, e)) = Len(s) + 1
         /\ \A i \in 1 .. Len(s) : Append(s, e)[i] = s[i]
         /\ Append(s, e)[Len(s) + 1] = e
  BY AppendProperties

LEMMA CutStays ==
  ASSUME NEW s \in Seq(Lines), s # <<>>, s[Len(s)] = Broken
  PROVE  Append(Front(s), Broken) = s
  <1>1. Len(s) \in Nat /\ Len(s) >= 1
    BY LenProperties, EmptySeq
  <1>2. \A i \in 1 .. Len(s) : s[i] \in Lines
    BY ElementOfSeq
  <1>3. /\ Front(s) \in Seq(Lines) /\ Len(Front(s)) = Len(s) - 1
        /\ \A i \in 1 .. Len(s) - 1 : Front(s)[i] = s[i]
    <2>1. \A i \in 1 .. Len(s) - 1 : s[i] \in Lines
      BY <1>1, <1>2
    <2> DEFINE n == Len(s) - 1
    <2>2. n \in Int /\ n >= 0 /\ n - 1 + 1 = n /\ \A i \in 1 .. n : s[i] \in Lines /\ 1 + i - 1 = i
      BY <1>1, <2>1
    <2>3. Front(s) = SubSeq(s, 1, n)
      BY DEF Front
    <2> HIDE DEF n
    <2>4. /\ SubSeq(s, 1, n) \in Seq(Lines) /\ Len(SubSeq(s, 1, n)) = IF 1 <= n THEN n - 1 + 1 ELSE 0
          /\ \A i \in 1 .. n - 1 + 1 : SubSeq(s, 1, n)[i] = s[1 + i - 1]
      BY <2>2, SubSeqProperties
    <2>5. /\ Front(s) \in Seq(Lines) /\ Len(Front(s)) = n
          /\ \A i \in 1 .. n : Front(s)[i] = s[i]
      BY <2>2, <2>3, <2>4
    <2> QED
      BY <2>5 DEF n
  <1>4. Broken \in Lines
    BY DEF Lines
  <1>5. /\ Append(Front(s), Broken) \in Seq(Lines) /\ Len(Append(Front(s), Broken)) = Len(s)
        /\ \A i \in 1 .. Len(s) : Append(Front(s), Broken)[i] = s[i]
    BY <1>1, <1>3, <1>4, OneMore
  <1> QED
    BY <1>5, SeqEqual

LEMMA NewestLines ==
  ASSUME lines \in Seq(Lines), Len(lines) >= KeepLines
  PROVE  /\ Newest \in Seq(Lines) /\ Len(Newest) = KeepLines
         /\ \A i \in 1 .. KeepLines : Newest[i] = lines[Len(lines) - KeepLines + i]
         /\ IsSuffix(Newest, lines)
  <1>1. Len(lines) \in Nat /\ KeepLines \in Nat /\ KeepLines >= 1
    BY LenProperties, LimitsAssumption
  <1> DEFINE m == 1 + (Len(lines) - KeepLines)
  <1>2. Newest = SubSeq(lines, m, Len(lines)) /\ m \in Nat /\ m >= 1
    <2>1. (IF Len(lines) > KeepLines THEN Len(lines) - KeepLines ELSE 0) = Len(lines) - KeepLines
      BY <1>1
    <2>2. Newest = SubSeq(lines, 1 + (IF Len(lines) > KeepLines THEN Len(lines) - KeepLines ELSE 0), Len(lines))
      BY Zenon DEF Newest
    <2>3. Newest = SubSeq(lines, m, Len(lines))
      BY <2>1, <2>2, Zenon
    <2> QED
      BY <1>1, <2>3
  <1>3. \A i \in m .. Len(lines) : lines[i] \in Lines
    BY <1>1, <1>2, ElementOfSeq
  <1>4. /\ Newest \in Seq(Lines) /\ Len(Newest) = KeepLines
        /\ \A i \in 1 .. KeepLines : Newest[i] = lines[Len(lines) - KeepLines + i]
    <2> HIDE DEF m
    <2>1. m = 1 + (Len(lines) - KeepLines)
      BY DEF m
    <2>2. /\ Newest \in Seq(Lines) /\ Len(Newest) = IF m <= Len(lines) THEN Len(lines) - m + 1 ELSE 0
          /\ \A i \in 1 .. Len(lines) - m + 1 : Newest[i] = lines[m + i - 1]
      BY <1>1, <1>2, <1>3, SubSeqProperties
    <2>3. Len(lines) - m + 1 = KeepLines /\ m <= Len(lines) /\ \A i \in 1 .. KeepLines : m + i - 1 = Len(lines) - KeepLines + i
      BY <1>1, <2>1
    <2> QED
      BY <2>2, <2>3
  <1>5. IsSuffix(Newest, lines)
    <2> DEFINE R == Reverse(Newest)  T == Reverse(lines)
    <2>1. /\ Len(R) = KeepLines /\ Len(T) = Len(lines)
          /\ \A i \in 1 .. KeepLines : R[i] = T[i]
      BY <1>1, <1>4 DEF Reverse
    <2>2. \A i \in 1 .. KeepLines : R[i] \in Lines /\ T[i] \in Lines
      <3>1. \A i \in 1 .. Len(lines) : lines[i] \in Lines
        BY ElementOfSeq
      <3>2. \A i \in 1 .. KeepLines : T[i] = lines[Len(lines) - i + 1] /\ Len(lines) - i + 1 \in 1 .. Len(lines)
        BY <1>1 DEF Reverse
      <3> QED
        BY <2>1, <3>1, <3>2
    <2> HIDE DEF R, T
    <2>3. /\ SubSeq(R, 1, KeepLines) \in Seq(Lines) /\ Len(SubSeq(R, 1, KeepLines)) = KeepLines
          /\ \A i \in 1 .. KeepLines : SubSeq(R, 1, KeepLines)[i] = R[i]
      BY <1>1, <2>2, SubSeqProperties
    <2>4. /\ SubSeq(T, 1, KeepLines) \in Seq(Lines) /\ Len(SubSeq(T, 1, KeepLines)) = KeepLines
          /\ \A i \in 1 .. KeepLines : SubSeq(T, 1, KeepLines)[i] = T[i]
      BY <1>1, <2>2, SubSeqProperties
    <2>5. SubSeq(R, 1, KeepLines) = SubSeq(T, 1, KeepLines)
      <3> DEFINE RK == SubSeq(R, 1, KeepLines)  TK == SubSeq(T, 1, KeepLines)
      <3>1. RK \in Seq(Lines) /\ TK \in Seq(Lines) /\ Len(RK) = Len(TK)
        BY <2>3, <2>4
      <3>2. \A i \in 1 .. Len(RK) : RK[i] = TK[i]
        BY <2>1, <2>3, <2>4
      <3> HIDE DEF RK, TK
      <3>3. RK = TK
        BY <3>1, <3>2, SeqEqual
      <3> QED
        BY <3>3 DEF RK, TK
    <2> QED
      BY <1>1, <2>1, <2>5 DEF IsSuffix, IsPrefix, R, T
  <1> QED
    BY <1>4, <1>5

(* A file that has one more line. *)
Grown(e) ==
  /\ lines' \in Seq(Lines) /\ Len(lines') = Len(lines) + 1
  /\ \A i \in 1 .. Len(lines) : lines'[i] = lines[i]
  /\ lines'[Len(lines) + 1] = e

LEMMA AppendGrows == HiInv /\ AppendLine => IF cutShort THEN lines' = lines ELSE Grown(entry)
  <1> SUFFICES ASSUME HiInv, AppendLine PROVE IF cutShort THEN lines' = lines ELSE Grown(entry)
    OBVIOUS
  <1>1. lines \in Seq(Lines) /\ entry \in Lines /\ lines' = Appended
    BY DEF HiInv, HiTypeOK, LinesHaveBegun, AppendLine, Lines
  <1>2. CASE cutShort
    BY <1>1, <1>2, CutStays DEF HiInv, CutIsLast, LastLine, Appended
  <1>3. CASE ~cutShort
    BY <1>1, <1>3, OneMore DEF Appended, Grown
  <1> QED
    BY <1>2, <1>3

LEMMA KillGrows ==
  HiInv /\ Kill => lines' = lines \/ (phase = "counted" /\ ~cutShort /\ cutShort' /\ Grown(Broken))
  <1> SUFFICES ASSUME HiInv, Kill, lines' # lines PROVE phase = "counted" /\ ~cutShort /\ cutShort' /\ Grown(Broken)
    OBVIOUS
  <1>1. lines \in Seq(Lines) /\ Broken \in Lines
    BY DEF HiInv, HiTypeOK, Lines
  <1>2. /\ phase = "counted" /\ cutShort'
        /\ lines' = IF cutShort THEN Append(Front(lines), Broken) ELSE Append(lines, Broken)
    BY DEF Kill
  <1>3. CASE cutShort
    BY <1>1, <1>2, <1>3, CutStays DEF HiInv, CutIsLast, LastLine
  <1>4. CASE ~cutShort
    BY <1>1, <1>2, <1>4, OneMore DEF Grown
  <1> QED
    BY <1>3, <1>4

LEMMA RenameKeepsNewest ==
  HiInv /\ RenameKept /\ lines' # lines =>
    /\ lines' = Newest /\ Len(lines) >= KeepLines /\ entry \in Entries /\ lines # <<>>
    /\ count' = Len(lines') /\ returned' = returned \cup {entry} /\ ~overdue'
    /\ entry \in afterCrash \/ LastLine = entry
  BY LenProperties, LimitsAssumption
  DEF HiInv, HiTypeOK, RenameKept, RotatesAfterAppend, LinesHaveBegun, CountOfKept, BrokenOnes

----------------------------------------------------------------------------
(* Every step keeps the types. *)
LEMMA HiTypeStep == HiInv /\ [HiNext]_hiVars => HiTypeOK'
  <1> SUFFICES ASSUME HiInv, [HiNext]_hiVars PROVE HiTypeOK'
    OBVIOUS
  <1>0. HiTypeOK /\ MaxEntries \in Nat /\ MaxKills \in Nat /\ Len(lines) \in Nat
    BY LenProperties, LimitsAssumption DEF HiInv, HiTypeOK
  <1>1. CASE BeginAppend
    BY <1>0, <1>1 DEF BeginAppend, HiTypeOK
  <1>2. CASE AppendLine
    <2>1. lines' \in Seq(Entries \cup {Broken})
      BY <1>0, <1>2, AppendGrows DEF Grown, Lines, HiTypeOK
    <2>2. entry \in Entries /\ count \in 0 .. NotCounted
      BY <1>0, <1>2 DEF AppendLine, HiInv, LinesHaveBegun, HiTypeOK
    <2>3. NewCount \in 1 .. MaxEntries
      BY <1>0, <1>2, <2>2 DEF AppendLine, HiInv, LinesHaveBegun, CountIsOfLines, NewCount, CountLines, NotCounted, Entries
    <2>4. count' \in 0 .. NotCounted
      BY <1>0, <1>2, <2>2, <2>3 DEF AppendLine, NotCounted
    <2>5. returned' \subseteq Entries /\ afterCrash' \subseteq Entries /\ phase' \in {"idle", "rotate"}
      BY <1>0, <1>2, <2>2 DEF AppendLine, HiTypeOK
    <2>6. overdue' \in BOOLEAN /\ cutShort' \in BOOLEAN
      BY <1>0, <1>2 DEF AppendLine
    <2> QED
      BY <1>0, <1>2, <2>1, <2>4, <2>5, <2>6 DEF AppendLine, HiTypeOK
  <1>3. CASE WriteKept
    <2>1. phase = "rotate" /\ Len(lines) >= KeepLines
      BY <1>0, <1>3, LimitsAssumption DEF WriteKept, HiInv, RotatesAfterAppend, BrokenOnes
    <2>2. Newest \in Seq(Lines) /\ <<>> \in Seq(Lines)
      BY <1>0, <2>1, NewestLines, EmptySeq DEF HiTypeOK, Lines
    <2> QED
      BY <1>0, <1>3, <2>2 DEF WriteKept, HiTypeOK, Lines
  <1>4. CASE RenameKept
    <2>1. entry \in Entries
      BY <1>4 DEF RenameKept, HiInv, LinesHaveBegun
    <2>2. Len(kept) \in Nat /\ (lines' = lines \/ Len(kept) = Len(lines'))
      BY <1>0, <1>4, LenProperties DEF RenameKept, HiTypeOK
    <2>3. count' \in 0 .. NotCounted
      <3>1. kept = Newest /\ Len(lines) >= KeepLines /\ Len(lines) <= MaxEntries
        BY <1>0, <1>4, LimitsAssumption DEF RenameKept, HiInv, HiTypeOK, RotatesAfterAppend, BrokenOnes, LinesHaveBegun
      <3>2. Len(kept) = KeepLines
        BY <1>0, <3>1, NewestLines DEF HiTypeOK, Lines
      <3> QED
        BY <1>0, <1>4, <3>1, <3>2, LimitsAssumption DEF RenameKept, HiTypeOK, CountOfKept, NotCounted
    <2>4. <<>> \in Seq(Lines)
      BY EmptySeq
    <2> QED
      BY <1>0, <1>4, <2>1, <2>3, <2>4 DEF RenameKept, HiTypeOK, Lines
  <1>5. CASE Kill
    <2>1. lines' \in Seq(Lines) /\ <<>> \in Seq(Lines)
      BY <1>0, <1>5, KillGrows, EmptySeq DEF Grown, Lines, HiTypeOK
    <2>2. kills' \in 0 .. MaxKills /\ NotCounted \in 0 .. NotCounted
      BY <1>0, <1>5 DEF Kill, HiTypeOK, NotCounted
    <2>3. cutShort' \in BOOLEAN /\ garbled' \in BOOLEAN /\ afterCrash' = afterCrash
      BY <1>0, <1>5 DEF Kill, HiTypeOK
    <2> QED
      BY <1>0, <1>5, <2>1, <2>2, <2>3 DEF Kill, HiTypeOK, Lines
  <1>6. CASE UNCHANGED hiVars
    BY <1>0, <1>6 DEF hiVars, HiTypeOK
  <1> QED
    BY <1>1, <1>2, <1>3, <1>4, <1>5, <1>6 DEF HiNext

(* Every step keeps the entries of the lines, and the count of them. *)
LEMMA BegunStep == HiInv /\ HiTypeOK' /\ [HiNext]_hiVars => LinesHaveBegun'
  <1> SUFFICES ASSUME HiInv, HiTypeOK', [HiNext]_hiVars PROVE LinesHaveBegun'
    OBVIOUS
  <1>0. /\ lines \in Seq(Lines) /\ Len(lines) \in Nat /\ entry \in Nat /\ LinesHaveBegun
        /\ \A i \in 1 .. Len(lines) : lines[i] \in Nat
        /\ returned \subseteq Nat /\ entry' \in 0 .. MaxEntries /\ MaxEntries \in Nat
    <2>1. HiTypeOK /\ HiTypeOK' /\ MaxEntries \in Nat
      BY LimitsAssumption DEF HiInv
    <2>2. lines \in Seq(Lines) /\ entry \in Nat /\ returned \subseteq Nat /\ Lines \subseteq Nat /\ entry' \in 0 .. MaxEntries
      BY <2>1 DEF HiTypeOK, Lines, Entries, Broken
    <2>3. \A i \in 1 .. Len(lines) : lines[i] \in Lines
      BY <2>2, ElementOfSeq
    <2> QED
      BY <2>1, <2>2, <2>3, LenProperties DEF HiInv
  <1>1. CASE BeginAppend
    BY <1>0, <1>1 DEF BeginAppend, LinesHaveBegun, Entries
  <1>2. CASE AppendLine
    <2>1. /\ phase = "counted" /\ phase' # "counted" /\ entry' = entry /\ entry \in Entries
          /\ \A e \in returned' : e \in returned \/ e = entry
      BY <1>0, <1>2 DEF AppendLine, LinesHaveBegun
    <2>2. Len(lines') <= entry' /\ \A i \in 1 .. Len(lines') : lines'[i] <= entry'
      <3>1. CASE lines' = lines
        BY <1>0, <2>1, <3>1 DEF LinesHaveBegun
      <3>2. CASE Grown(entry)
        BY <1>0, <2>1, <3>2 DEF LinesHaveBegun, Grown
      <3> QED
        BY <1>2, <3>1, <3>2, AppendGrows
    <2> QED
      <3>1. \A e \in returned' : e <= entry'
        <4>1. entry <= entry /\ \A e \in returned : e <= entry
          BY <1>0 DEF LinesHaveBegun
        <4> QED
          BY <2>1, <4>1, Zenon
      <3> QED
        BY <2>1, <2>2, <3>1 DEF LinesHaveBegun, Entries
  <1>3. CASE WriteKept
    BY <1>0, <1>3 DEF WriteKept, LinesHaveBegun
  <1>4. CASE RenameKept
    <2>1. /\ phase' = "idle" /\ entry' = entry
          /\ \A e \in returned' : e \in returned \/ e = entry
      BY <1>4 DEF RenameKept
    <2>2. Len(lines') <= entry' /\ \A i \in 1 .. Len(lines') : lines'[i] <= entry'
      <3>1. CASE lines' = lines
        BY <1>0, <2>1, <3>1 DEF LinesHaveBegun
      <3>2. CASE lines' # lines
        <4>1. lines' = Newest /\ Len(lines) >= KeepLines /\ KeepLines \in Nat
          BY <1>4, <3>2, RenameKeepsNewest, LimitsAssumption
        <4>2. Len(lines') = KeepLines /\ \A i \in 1 .. KeepLines : lines'[i] = lines[Len(lines) - KeepLines + i]
          BY <1>0, <4>1, NewestLines
        <4>3. \A i \in 1 .. KeepLines : Len(lines) - KeepLines + i \in 1 .. Len(lines)
          BY <1>0, <4>1
        <4> QED
          BY <1>0, <2>1, <4>1, <4>2, <4>3 DEF LinesHaveBegun
      <3> QED
        BY <3>1, <3>2
    <2> QED
      <3>1. \A e \in returned' : e <= entry'
        <4>1. entry <= entry /\ \A e \in returned : e <= entry
          BY <1>0 DEF LinesHaveBegun
        <4> QED
          BY <2>1, <4>1, Zenon
      <3> QED
        BY <2>1, <2>2, <3>1 DEF LinesHaveBegun, Entries
  <1>5. CASE Kill
    <2>1. phase' = "idle" /\ entry' = entry /\ returned' = returned
      BY <1>5 DEF Kill
    <2>2. Len(lines') <= entry' /\ \A i \in 1 .. Len(lines') : lines'[i] <= entry'
      <3>1. CASE lines' = lines
        BY <1>0, <2>1, <3>1 DEF LinesHaveBegun
      <3>2. CASE phase = "counted" /\ Grown(Broken)
        BY <1>0, <2>1, <3>2 DEF LinesHaveBegun, Grown, Broken
      <3> QED
        BY <1>5, <3>1, <3>2, KillGrows
    <2> QED
      BY <1>0, <2>1, <2>2 DEF LinesHaveBegun
  <1>6. CASE UNCHANGED hiVars
    BY <1>0, <1>6 DEF hiVars, LinesHaveBegun
  <1> QED
    BY <1>1, <1>2, <1>3, <1>4, <1>5, <1>6 DEF HiNext

LEMMA BrokenGrows ==
  ASSUME lines \in Seq(Lines), NEW e \in Lines, Grown(e)
  PROVE  BrokenOnes \in {0, 1} /\ BrokenOnes' \in {BrokenOnes, 1} /\ (e = Broken => BrokenOnes' = 1)
  <1>1. Len(lines) \in Nat
    BY LenProperties
  <1>2. \A i \in 1 .. Len(lines) : i \in 1 .. Len(lines') /\ lines'[i] = lines[i]
    BY <1>1 DEF Grown
  <1>3. Len(lines) + 1 \in 1 .. Len(lines') /\ lines'[Len(lines) + 1] = e
    BY <1>1 DEF Grown
  <1>4. lines' \in Seq(Lines)
    BY DEF Grown
  <1>5. Broken \in ToSet(lines) => Broken \in ToSet(lines')
    BY <1>2, <1>4, InFile
  <1>6. e = Broken => Broken \in ToSet(lines')
    BY <1>3, <1>4, InFile
  <1> QED
    BY <1>5, <1>6 DEF BrokenOnes

LEMMA CountStep == HiInv /\ [HiNext]_hiVars => CountIsOfLines'
  <1> SUFFICES ASSUME HiInv, [HiNext]_hiVars PROVE CountIsOfLines'
    OBVIOUS
  <1>0. /\ lines \in Seq(Lines) /\ Len(lines) \in Nat /\ entry \in 0 .. MaxEntries /\ count \in 0 .. NotCounted
        /\ LinesHaveBegun /\ CountIsOfLines /\ BrokenOnes \in {0, 1}
        /\ MaxEntries \in Nat /\ MaxLines \in Nat /\ KeepLines \in 1 .. MaxLines
    BY LenProperties, LimitsAssumption DEF HiInv, HiTypeOK, Lines, BrokenOnes
  <1>1. CASE BeginAppend
    BY <1>0, <1>1 DEF BeginAppend, CountIsOfLines, BrokenOnes
  <1>2. CASE AppendLine
    <2>1. phase = "counted" /\ phase' # "counted" /\ entry' = entry /\ entry \in Entries /\ ~cutShort'
      BY <1>0, <1>2 DEF AppendLine, LinesHaveBegun
    <2>2. Len(lines) + BrokenOnes <= Len(lines') + BrokenOnes' /\ Len(lines') \in Nat /\ BrokenOnes' \in {0, 1}
      <3>1. CASE lines' = lines
        BY <1>0, <3>1 DEF BrokenOnes
      <3>2. CASE Grown(entry)
        BY <1>0, <2>1, <3>2, BrokenGrows DEF Grown, Lines
      <3> QED
        BY <1>2, <3>1, <3>2, AppendGrows
    <2>3. NewCount \in Nat /\ NewCount <= entry /\ NewCount <= Len(lines') + BrokenOnes'
      <3>1. CASE count # NotCounted
        <4>1. ~cutShort /\ Len(lines') = Len(lines) + 1 /\ count <= Len(lines) + BrokenOnes /\ count < entry
          BY <1>0, <1>2, <2>1, <3>1, AppendGrows DEF CountIsOfLines, Grown
        <4>2. BrokenOnes' \in {BrokenOnes, 1}
          BY <1>0, <1>2, <2>1, <4>1, AppendGrows, BrokenGrows DEF Lines
        <4> QED
          BY <1>0, <2>1, <3>1, <4>1, <4>2 DEF NewCount
      <3>2. CASE count = NotCounted /\ ~cutShort
        BY <1>0, <1>2, <2>1, <2>2, <3>2, AppendGrows DEF NewCount, CountLines, LinesHaveBegun, Grown
      <3>3. CASE count = NotCounted /\ cutShort
        <4>1. lines' = lines /\ Len(lines) \in 1 .. Len(lines) /\ lines[Len(lines)] = Broken
          BY <1>0, <1>2, <3>3, AppendGrows, EmptySeq, LenProperties DEF HiInv, CutIsLast, LastLine
        <4>2. BrokenOnes' = 1
          BY <1>0, <4>1, InFile DEF BrokenOnes
        <4> QED
          BY <1>0, <2>1, <3>3, <4>1, <4>2 DEF NewCount, CountLines, LinesHaveBegun
      <3> QED
        BY <3>1, <3>2, <3>3
    <2>4. CASE NewCount > MaxLines
      <3>1. count' = count /\ overdue'
        BY <1>2, <2>4 DEF AppendLine
      <3> QED
        BY <1>0, <2>1, <2>2, <3>1 DEF CountIsOfLines
    <2>5. CASE ~(NewCount > MaxLines)
      <3>1. count' = NewCount /\ (overdue' <=> overdue)
        BY <1>2, <2>5 DEF AppendLine
      <3>2. ~overdue => Len(lines') <= NewCount
        <4>1. CASE count # NotCounted
          BY <1>0, <1>2, <2>1, <4>1, AppendGrows DEF CountIsOfLines, NewCount, Grown
        <4>2. CASE count = NotCounted
          BY <1>0, <1>2, <2>1, <4>2, AppendGrows DEF NewCount, CountLines, Grown
        <4> QED
          BY <4>1, <4>2
      <3> QED
        BY <1>0, <2>1, <2>3, <2>5, <3>1, <3>2 DEF CountIsOfLines
    <2> QED
      BY <2>4, <2>5
  <1>3. CASE WriteKept
    BY <1>0, <1>3 DEF WriteKept, CountIsOfLines, BrokenOnes
  <1>4. CASE RenameKept
    <2>1. /\ phase' = "idle" /\ cutShort' = cutShort /\ entry' = entry /\ entry \in Entries
          /\ phase = "renaming" /\ ~cutShort /\ kept = Newest /\ Len(lines) >= KeepLines
      BY <1>0, <1>4 DEF RenameKept, HiInv, CutIsLast, LinesHaveBegun, RotatesAfterAppend
    <2>2. CASE lines' = kept /\ count' = CountOfKept
      <3>1. Len(lines') = KeepLines /\ count' = KeepLines /\ lines' \in Seq(Lines)
        BY <1>0, <2>1, <2>2, NewestLines DEF CountOfKept
      <3>2. BrokenOnes' \in {0, 1}
        BY DEF BrokenOnes
      <3> QED
        <4>1. KeepLines <= entry /\ KeepLines <= MaxLines /\ KeepLines \in Nat
          BY <1>0, <2>1 DEF LinesHaveBegun
        <4>2. count' <= MaxLines /\ count' <= entry' /\ count' <= Len(lines') + BrokenOnes' /\ Len(lines') <= count'
          <5>1. \A b \in {0, 1} : KeepLines <= KeepLines + b
            BY <4>1
          <5>2. entry' = entry /\ count' = KeepLines /\ Len(lines') = KeepLines
            BY <2>1, <3>1
          <5>3. KeepLines <= KeepLines
            BY <4>1
          <5>4. count' <= Len(lines') + BrokenOnes'
            BY <3>2, <5>1, <5>2
          <5> QED
            BY <4>1, <5>2, <5>3, <5>4
        <4> QED
          BY <2>1, <4>2 DEF CountIsOfLines
    <2>3. CASE UNCHANGED <<lines, count, overdue>>
      BY <1>0, <2>1, <2>3 DEF CountIsOfLines, BrokenOnes
    <2> QED
      BY <1>4, <2>2, <2>3 DEF RenameKept
  <1>5. CASE Kill
    BY <1>5 DEF Kill, CountIsOfLines, NotCounted
  <1>6. CASE UNCHANGED hiVars
    BY <1>0, <1>6 DEF hiVars, CountIsOfLines, BrokenOnes
  <1> QED
    BY <1>1, <1>2, <1>3, <1>4, <1>5, <1>6 DEF HiNext

(* Every step keeps the cut line last, and the limit. *)
LEMMA CutStep == HiInv /\ [HiNext]_hiVars => CutIsLast'
  <1> SUFFICES ASSUME HiInv, [HiNext]_hiVars PROVE CutIsLast'
    OBVIOUS
  <1>0. lines \in Seq(Lines) /\ Len(lines) \in Nat /\ CutIsLast /\ RotatesAfterAppend
    BY LenProperties DEF HiInv, HiTypeOK, Lines
  <1>1. CASE BeginAppend
    BY <1>0, <1>1 DEF BeginAppend, CutIsLast, LastLine
  <1>2. CASE AppendLine
    BY <1>2 DEF AppendLine, CutIsLast
  <1>3. CASE WriteKept
    BY <1>0, <1>3 DEF WriteKept, CutIsLast, LastLine
  <1>4. CASE RenameKept
    BY <1>0, <1>4 DEF RenameKept, CutIsLast
  <1>5. CASE Kill
    <2>1. phase' = "idle" /\ ((lines' = lines /\ cutShort' = cutShort) \/ (phase = "counted" /\ cutShort'))
      BY <1>5 DEF Kill
    <2>2. CASE lines' = lines /\ ~cutShort'
      BY <2>2 DEF CutIsLast
    <2>3. CASE lines' = lines /\ cutShort
      BY <1>0, <2>1, <2>3 DEF CutIsLast, LastLine
    <2>4. CASE ~cutShort /\ cutShort'
      <3>1. lines' # lines
        <4>1. phase = "counted" /\ lines' = Append(lines, Broken)
          BY <1>5, <2>4 DEF Kill
        <4>2. Len(lines') = Len(lines) + 1
          BY <1>0, <4>1, OneMore DEF Lines
        <4> QED
          BY <1>0, <4>2
      <3>2. Grown(Broken)
        BY <1>5, <3>1, KillGrows
      <3>3. Len(lines') = Len(lines) + 1 /\ lines'[Len(lines')] = Broken
        BY <3>2 DEF Grown
      <3>4. lines' # <<>>
        BY <1>0, <3>3, LenProperties, EmptySeq
      <3> QED
        BY <2>1, <3>3, <3>4 DEF CutIsLast, LastLine
    <2>5. CASE lines' # lines
      <3>1. ~cutShort /\ cutShort'
        BY <1>5, <2>5, KillGrows
      <3> QED
        BY <2>4, <3>1
    <2> QED
      BY <1>5, <2>1, <2>2, <2>3, <2>4, <2>5
  <1>6. CASE UNCHANGED hiVars
    BY <1>0, <1>6 DEF hiVars, CutIsLast, LastLine
  <1> QED
    BY <1>1, <1>2, <1>3, <1>4, <1>5, <1>6 DEF HiNext

LEMMA BoundStep == HiInv /\ [HiNext]_hiVars => LogIsBounded'
  <1> SUFFICES ASSUME HiInv, [HiNext]_hiVars PROVE LogIsBounded'
    OBVIOUS
  <1>0. /\ Len(lines) \in Nat /\ LogIsBounded /\ lines \in Seq(Lines)
        /\ MaxLines \in Nat /\ KeepLines \in 1 .. MaxLines /\ count \in 0 .. NotCounted /\ NotCounted \in Nat
        /\ CountIsOfLines /\ cutShort \in BOOLEAN
    BY LenProperties, LimitsAssumption DEF HiInv, HiTypeOK, Lines, NotCounted
  <1>1. CASE BeginAppend
    BY <1>0, <1>1 DEF BeginAppend, LogIsBounded
  <1>2. CASE AppendLine
    <2> SUFFICES ASSUME ~overdue' PROVE Len(lines') <= MaxLines
      BY <1>0, <1>2 DEF LogIsBounded, AppendLine
    <2>1. ~overdue /\ ~(NewCount > MaxLines)
      BY <1>2 DEF AppendLine
    <2>2. CASE count = NotCounted /\ lines' = lines
      BY <1>0, <2>1, <2>2 DEF NewCount, CountLines
    <2>3. CASE count = NotCounted /\ Grown(entry)
      BY <1>0, <2>1, <2>3 DEF NewCount, CountLines, Grown
    <2>4. CASE count # NotCounted
      <3>1. Len(lines) <= count /\ Grown(entry)
        BY <1>2, <2>1, <2>4, AppendGrows DEF HiInv, CountIsOfLines
      <3> QED
        BY <1>0, <2>1, <2>4, <3>1 DEF NewCount, Grown
    <2> QED
      BY <1>2, <2>2, <2>3, <2>4, AppendGrows
  <1>3. CASE WriteKept
    BY <1>0, <1>3 DEF WriteKept, LogIsBounded
  <1>4. CASE RenameKept
    <2>1. CASE lines' = lines /\ overdue' = overdue
      BY <1>0, <1>4, <2>1 DEF RenameKept, LogIsBounded
    <2>2. CASE lines' = kept
      <3>1. kept = Newest /\ Len(lines) >= KeepLines /\ ~cutShort'
        BY <1>0, <1>4 DEF RenameKept, HiInv, CutIsLast, RotatesAfterAppend, BrokenOnes
      <3>2. Len(lines') = KeepLines
        BY <1>0, <2>2, <3>1, NewestLines
      <3> QED
        BY <1>0, <3>1, <3>2 DEF LogIsBounded
    <2> QED
      BY <1>4, <2>1, <2>2 DEF RenameKept
  <1>5. CASE Kill
    <2>1. overdue' = overdue
      BY <1>5 DEF Kill
    <2>2. CASE Grown(Broken) /\ ~cutShort /\ cutShort'
      BY <1>0, <2>1, <2>2 DEF LogIsBounded, Grown
    <2>3. CASE lines' = lines /\ (cutShort' = cutShort \/ cutShort')
      BY <1>0, <2>1, <2>3 DEF LogIsBounded
    <2> QED
      BY <1>5, <2>2, <2>3, KillGrows DEF Kill
  <1>6. CASE UNCHANGED hiVars
    BY <1>0, <1>6 DEF hiVars, LogIsBounded
  <1> QED
    BY <1>1, <1>2, <1>3, <1>4, <1>5, <1>6 DEF HiNext

(* Every step keeps what a rotation relies on. *)
LEMMA RotatesStep == HiInv /\ [HiNext]_hiVars => RotatesAfterAppend'
  <1> SUFFICES ASSUME HiInv, [HiNext]_hiVars PROVE RotatesAfterAppend'
    OBVIOUS
  <1>0. /\ Len(lines) \in Nat /\ lines \in Seq(Lines) /\ RotatesAfterAppend
        /\ MaxLines \in Nat /\ count \in 0 .. NotCounted /\ NotCounted \in Nat
        /\ CountIsOfLines /\ BrokenOnes \in {0, 1}
    BY LenProperties, LimitsAssumption DEF HiInv, HiTypeOK, Lines, NotCounted, BrokenOnes
  <1>1. CASE BeginAppend
    BY <1>1 DEF BeginAppend, RotatesAfterAppend
  <1>2. CASE AppendLine
    <2>1. phase' # "renaming" /\ entry' = entry /\ (phase' = "rotate" => NewCount > MaxLines)
      BY <1>2 DEF AppendLine
    <2>2. CASE cutShort
      <3>1. /\ lines' = lines /\ lines # <<>> /\ Len(lines) \in 1 .. Len(lines) /\ lines[Len(lines)] = Broken
            /\ entry \in afterCrash' /\ count = NotCounted
        BY <1>0, <1>2, <2>2, AppendGrows, EmptySeq DEF HiInv, CutIsLast, LastLine, AppendLine, CountIsOfLines
      <3>2. BrokenOnes' = 1
        BY <1>0, <3>1, InFile DEF BrokenOnes
      <3>3. phase' = "rotate" => Len(lines') + BrokenOnes' > MaxLines
        BY <1>0, <2>1, <3>1, <3>2 DEF NewCount, CountLines
      <3> QED
        BY <2>1, <3>1, <3>3 DEF RotatesAfterAppend
    <2>3. CASE ~cutShort
      <3>1. Grown(entry) /\ entry \in Lines
        BY <1>2, <2>3, AppendGrows DEF HiInv, LinesHaveBegun, AppendLine, Lines
      <3>2. BrokenOnes' \in {BrokenOnes, 1} /\ lines' # <<>> /\ LastLine' = entry
        <4>1. BrokenOnes' \in {BrokenOnes, 1}
          BY <1>0, <3>1, BrokenGrows
        <4>2. Len(lines') = Len(lines) + 1 /\ lines'[Len(lines')] = entry /\ lines' \in Seq(Lines)
          BY <3>1 DEF Grown
        <4>3. lines' # <<>>
          BY <1>0, <4>2, EmptySeq
        <4> QED
          BY <4>1, <4>2, <4>3 DEF LastLine
      <3>3. phase' = "rotate" => Len(lines') + BrokenOnes' > MaxLines
        <4>1. CASE count = NotCounted
          BY <1>0, <2>1, <3>1, <3>2, <4>1 DEF NewCount, CountLines, Grown
        <4>2. CASE count # NotCounted
          BY <1>0, <2>1, <3>1, <3>2, <4>2 DEF NewCount, CountIsOfLines, Grown
        <4> QED
          BY <4>1, <4>2
      <3> QED
        BY <2>1, <3>2, <3>3 DEF RotatesAfterAppend
    <2> QED
      BY <2>2, <2>3
  <1>3. CASE WriteKept
    BY <1>0, <1>3 DEF WriteKept, RotatesAfterAppend, LastLine, BrokenOnes, Newest
  <1>4. CASE RenameKept
    BY <1>4 DEF RenameKept, RotatesAfterAppend
  <1>5. CASE Kill
    BY <1>5 DEF Kill, RotatesAfterAppend
  <1>6. CASE UNCHANGED hiVars
    BY <1>0, <1>6 DEF hiVars, RotatesAfterAppend, LastLine, BrokenOnes, Newest
  <1> QED
    BY <1>1, <1>2, <1>3, <1>4, <1>5, <1>6 DEF HiNext

(* The listing, by the places of the lines. *)
LEMMA Listing ==
  ASSUME NEW s \in Seq(Lines), NEW e
  PROVE  e \in ToSet(s) \ {Broken} <=> e # Broken /\ \E i \in 1 .. Len(s) : s[i] = e
  BY InFile

LinesInOrder(s) == \A i, j \in 1 .. Len(s) : i < j /\ Broken \notin {s[i], s[j]} => s[i] < s[j]

LEMMA GrownInOrder ==
  ASSUME HiInv, NEW e \in Lines, Grown(e), phase = "counted", e \in {Broken, entry}
  PROVE  LinesInOrder(lines')
  <1>0. Len(lines) \in Nat /\ LinesInOrder(lines) /\ Len(lines') = Len(lines) + 1
    BY LenProperties DEF HiInv, HiTypeOK, NewestAreKept, LinesInOrder, Grown
  <1>1. \A i \in 1 .. Len(lines) : lines'[i] = lines[i] /\ lines[i] < entry
    BY DEF Grown, HiInv, LinesHaveBegun
  <1> SUFFICES ASSUME NEW i \in 1 .. Len(lines'), NEW j \in 1 .. Len(lines'), i < j, Broken \notin {lines'[i], lines'[j]}
               PROVE  lines'[i] < lines'[j]
    BY DEF LinesInOrder
  <1>2. CASE j = Len(lines) + 1
    <2>1. lines'[j] = e /\ e = entry /\ i \in 1 .. Len(lines)
      BY <1>0, <1>2 DEF Grown
    <2> QED
      BY <1>1, <2>1
  <1>3. CASE j # Len(lines) + 1
    <2>1. i \in 1 .. Len(lines) /\ j \in 1 .. Len(lines)
      BY <1>0, <1>3
    <2> QED
      BY <1>0, <1>1, <2>1 DEF LinesInOrder
  <1> QED
    BY <1>2, <1>3

LEMMA GrownListed ==
  ASSUME HiInv, NEW e \in Lines, Grown(e)
  PROVE  Readable' = Readable \cup ({e} \ {Broken})
  <1>0. Len(lines) \in Nat /\ lines \in Seq(Lines) /\ lines' \in Seq(Lines)
    BY LenProperties DEF HiInv, HiTypeOK, Lines, Grown
  <1>1. \A f : (\E i \in 1 .. Len(lines') : lines'[i] = f) <=> (f = e \/ \E i \in 1 .. Len(lines) : lines[i] = f)
    <2> SUFFICES ASSUME NEW f
                 PROVE  (\E i \in 1 .. Len(lines') : lines'[i] = f) <=> (f = e \/ \E i \in 1 .. Len(lines) : lines[i] = f)
      OBVIOUS
    <2>1. ASSUME NEW i \in 1 .. Len(lines'), lines'[i] = f PROVE f = e \/ \E k \in 1 .. Len(lines) : lines[k] = f
      <3>1. i = Len(lines) + 1 \/ i \in 1 .. Len(lines)
        BY <1>0, <2>1 DEF Grown
      <3> QED
        BY <2>1, <3>1 DEF Grown
    <2>2. ASSUME NEW i \in 1 .. Len(lines), lines[i] = f PROVE \E k \in 1 .. Len(lines') : lines'[k] = f
      <3>1. i \in 1 .. Len(lines') /\ lines'[i] = f
        BY <1>0, <2>2 DEF Grown
      <3> QED
        BY <3>1
    <2>3. ASSUME f = e PROVE \E k \in 1 .. Len(lines') : lines'[k] = f
      <3>1. Len(lines) + 1 \in 1 .. Len(lines') /\ lines'[Len(lines) + 1] = f
        BY <1>0, <2>3 DEF Grown
      <3> QED
        BY <3>1
    <2> QED
      BY <2>1, <2>2, <2>3
  <1>2. \A f : f \in Readable' <=> f # Broken /\ \E i \in 1 .. Len(lines') : lines'[i] = f
    BY <1>0, Listing DEF Readable
  <1>3. \A f : f \in Readable <=> f # Broken /\ \E i \in 1 .. Len(lines) : lines[i] = f
    BY <1>0, Listing DEF Readable
  <1> QED
    BY <1>1, <1>2, <1>3

(* Nothing newer than a listed one is missing from the newest lines. *)
LEMMA NewestStep ==
  ASSUME HiInv, RenameKept, lines' # lines
  PROVE  NewestAreKept'
  <1>1. /\ lines' = Newest /\ Len(lines) >= KeepLines /\ entry \in Entries /\ lines # <<>>
        /\ returned' = returned \cup {entry} /\ (entry \in afterCrash \/ LastLine = entry)
        /\ afterCrash' = afterCrash
    BY RenameKeepsNewest DEF RenameKept
  <1>2. lines \in Seq(Lines) /\ Len(lines) \in Nat /\ KeepLines \in Nat /\ KeepLines >= 1
    BY LenProperties, LimitsAssumption DEF HiInv, HiTypeOK, Lines
  <1> DEFINE cut == Len(lines) - KeepLines
  <1>3. cut \in Nat /\ Len(lines) = cut + KeepLines
    BY <1>1, <1>2
  <1>4. /\ lines' \in Seq(Lines) /\ Len(lines') = KeepLines
        /\ \A i \in 1 .. KeepLines : lines'[i] = lines[cut + i] /\ cut + i \in 1 .. Len(lines)
    BY <1>1, <1>2, NewestLines
  <1> HIDE DEF cut
  <1>5. \A i, j \in 1 .. Len(lines) : i < j /\ Broken \notin {lines[i], lines[j]} => lines[i] < lines[j]
    BY DEF HiInv, NewestAreKept
  <1>6. \A i, j \in 1 .. Len(lines') : i < j /\ Broken \notin {lines'[i], lines'[j]} => lines'[i] < lines'[j]
    <2> SUFFICES ASSUME NEW i \in 1 .. Len(lines'), NEW j \in 1 .. Len(lines'), i < j, Broken \notin {lines'[i], lines'[j]}
                 PROVE  lines'[i] < lines'[j]
      OBVIOUS
    <2>1. i \in 1 .. KeepLines /\ j \in 1 .. KeepLines /\ cut + i < cut + j
      BY <1>2, <1>3, <1>4
    <2>2. lines'[i] = lines[cut + i] /\ cut + i \in 1 .. Len(lines) /\ lines'[j] = lines[cut + j] /\ cut + j \in 1 .. Len(lines)
      BY <1>4, <2>1
    <2> QED
      BY <1>5, <2>1, <2>2
  <1>7. ASSUME NEW e \in returned' \ afterCrash', NEW f \in Readable', f < e PROVE e \in Readable'
    <2>1. PICK j \in 1 .. KeepLines : lines'[j] = f /\ f # Broken
      BY <1>4, Listing DEF Readable
    <2>2. cut + j \in 1 .. Len(lines) /\ lines[cut + j] = f
      BY <1>4, <2>1
    <2>3. ASSUME NEW i \in 1 .. KeepLines, lines[cut + i] = e, e # Broken PROVE e \in Readable'
      BY <1>4, <2>3, Listing DEF Readable
    <2>4. CASE e = entry
      <3>1. lines[cut + KeepLines] = e /\ e # Broken /\ KeepLines \in 1 .. KeepLines
        BY <1>1, <1>2, <1>3, <2>4 DEF LastLine, Entries, Broken
      <3> QED
        BY <2>3, <3>1
    <2>5. CASE e # entry
      <3>1. e \in returned \ afterCrash
        BY <1>1, <2>5
      <3>2. f \in Readable
        BY <1>2, <2>1, <2>2, Listing DEF Readable
      <3>3. e \in Readable
        BY <1>7, <3>1, <3>2 DEF HiInv, NewestAreKept
      <3>4. PICK i \in 1 .. Len(lines) : lines[i] = e /\ e # Broken
        BY <1>2, <3>3, Listing DEF Readable
      <3>5. f \in Nat /\ e \in Nat
        <4>1. f \in Lines /\ e \in Lines
          BY <1>2, <2>2, <3>4, ElementOfSeq
        <4> QED
          BY <4>1, LimitsAssumption DEF Lines, Entries, Broken
      <3>6. ~(i <= cut + j)
        <4>1. i # cut + j
          BY <1>7, <2>2, <3>4, <3>5
        <4>2. ~(i < cut + j)
          <5>1. i < cut + j => e < f
            BY <1>5, <2>1, <2>2, <3>4
          <5> QED
            BY <1>7, <3>5, <5>1
        <4> QED
          BY <1>2, <2>2, <3>4, <4>1, <4>2
      <3>7. i - cut \in 1 .. KeepLines /\ cut + (i - cut) = i
        BY <1>2, <1>3, <2>2, <3>4, <3>6
      <3> QED
        BY <2>3, <3>4, <3>7
    <2> QED
      BY <2>4, <2>5
  <1> QED
    BY <1>6, <1>7 DEF NewestAreKept

LEMMA ListedStep == HiInv /\ [HiNext]_hiVars => NewestAreKept'
  <1> SUFFICES ASSUME HiInv, [HiNext]_hiVars PROVE NewestAreKept'
    OBVIOUS
  <1>0. /\ NewestAreKept /\ Broken \in Lines /\ LinesHaveBegun
        /\ entry \in Nat /\ returned \subseteq Nat
    BY LimitsAssumption DEF HiInv, HiTypeOK, Lines, Entries
  <1>1. CASE UNCHANGED <<lines, returned, afterCrash>>
    BY <1>0, <1>1 DEF NewestAreKept, Readable
  <1>2. CASE AppendLine
    <2>1. /\ phase = "counted" /\ entry \in Entries /\ entry \in Lines /\ entry # Broken
          /\ \A e \in returned : e < entry
          /\ \A e \in returned' : e \in returned \/ e = entry
      BY <1>2, LimitsAssumption DEF AppendLine, HiInv, LinesHaveBegun, Lines, Entries, Broken
    <2>2. CASE cutShort
      <3>1. lines' = lines /\ afterCrash' = afterCrash \cup {entry}
        BY <1>2, <2>2, AppendGrows DEF AppendLine
      <3>2. \A e \in returned' \ afterCrash' : e \in returned \ afterCrash
        BY <2>1, <3>1
      <3> QED
        BY <1>0, <3>1, <3>2 DEF NewestAreKept, Readable
    <2>3. CASE ~cutShort
      <3>1. Grown(entry) /\ afterCrash' = afterCrash
        BY <1>2, <2>3, AppendGrows DEF AppendLine
      <3>2. LinesInOrder(lines') /\ Readable' = Readable \cup {entry}
        BY <2>1, <3>1, GrownInOrder, GrownListed
      <3>3. ASSUME NEW e \in returned' \ afterCrash', NEW f \in Readable', f < e PROVE e \in Readable'
        <4>1. CASE e = entry
          BY <3>2, <4>1
        <4>2. CASE e # entry
          <5>1. e \in returned \ afterCrash /\ e < entry
            BY <2>1, <3>1, <4>2
          <5>2. f # entry
            BY <1>0, <3>3, <5>1
          <5> QED
            BY <1>0, <3>2, <3>3, <5>1, <5>2 DEF NewestAreKept
        <4> QED
          BY <4>1, <4>2
      <3> QED
        BY <3>2, <3>3 DEF NewestAreKept, LinesInOrder
    <2> QED
      BY <2>2, <2>3
  <1>3. CASE RenameKept
    <2>1. CASE lines' # lines
      BY <1>3, <2>1, NewestStep
    <2>2. CASE lines' = lines
      <3>1. afterCrash' = afterCrash /\ returned' \subseteq returned \cup {entry}
        BY <1>3 DEF RenameKept
      <3>2. entry \in afterCrash \/ entry \in Readable
        <4>1. lines # <<>> /\ (entry \in afterCrash \/ LastLine = entry) /\ entry \in Entries
          BY <1>3 DEF RenameKept, HiInv, RotatesAfterAppend, LinesHaveBegun
        <4>2. lines \in Seq(Lines) /\ entry # Broken
          BY <4>1 DEF HiInv, HiTypeOK, Lines, Entries, Broken
        <4>3. Len(lines) \in 1 .. Len(lines)
          BY <4>1, <4>2, LenProperties, EmptySeq
        <4> QED
          BY <4>1, <4>2, <4>3, Listing DEF Readable, LastLine
      <3>3. Readable' = Readable
        BY <2>2 DEF Readable
      <3> QED
        BY <1>0, <2>2, <3>1, <3>2, <3>3 DEF NewestAreKept
    <2> QED
      BY <2>1, <2>2
  <1>4. CASE Kill
    <2>1. returned' = returned /\ afterCrash' = afterCrash
      BY <1>4 DEF Kill
    <2>2. CASE Grown(Broken) /\ phase = "counted"
      <3>1. LinesInOrder(lines') /\ Readable' = Readable
        BY <1>0, <2>2, GrownInOrder, GrownListed
      <3> QED
        BY <1>0, <2>1, <3>1 DEF NewestAreKept, LinesInOrder
    <2> QED
      BY <1>1, <1>4, <2>1, <2>2, KillGrows
  <1>5. CASE BeginAppend \/ WriteKept
    BY <1>1, <1>5 DEF BeginAppend, WriteKept
  <1>6. CASE UNCHANGED hiVars
    BY <1>1, <1>6 DEF hiVars
  <1> QED
    BY <1>2, <1>3, <1>4, <1>5, <1>6 DEF HiNext

----------------------------------------------------------------------------
(* The invariant holds whatever fails or is killed, and whenever. *)
THEOREM HiInvariance == HiSpec => []HiInv
  <1>1. HiInit => HiInv
    <2> SUFFICES ASSUME HiInit PROVE HiInv
      OBVIOUS
    <2>1. <<>> \in Seq(Lines) /\ Len(<<>>) = 0
      BY EmptySeq
    <2>2. HiTypeOK
      <3>1. MaxEntries \in Nat /\ MaxKills \in Nat
        BY LimitsAssumption
      <3>2. lines \in Seq(Entries \cup {Broken}) /\ kept \in Seq(Entries \cup {Broken})
        BY <2>1 DEF HiInit, Lines
      <3>3. NotCounted \in 0 .. NotCounted /\ 0 \in 0 .. MaxEntries /\ 0 \in 0 .. MaxKills
        BY <3>1 DEF NotCounted
      <3> QED
        BY <3>2, <3>3 DEF HiInit, HiTypeOK
    <2>3. LinesHaveBegun /\ CutIsLast /\ RotatesAfterAppend /\ CountIsOfLines
      BY <2>1 DEF HiInit, LinesHaveBegun, CutIsLast, RotatesAfterAppend, CountIsOfLines
    <2>4. LogIsBounded /\ NewestAreKept
      BY <2>1, LimitsAssumption DEF HiInit, LogIsBounded, NewestAreKept
    <2> QED
      BY <2>2, <2>3, <2>4 DEF HiInv
  <1>2. HiInv /\ [HiNext]_hiVars => HiInv'
    BY HiTypeStep, BegunStep, CountStep, CutStep, RotatesStep, BoundStep, ListedStep DEF HiInv
  <1> QED
    BY <1>1, <1>2, PTL DEF HiSpec

THEOREM HiTypeCorrect == HiSpec => []HiTypeOK
  BY HiInvariance, PTL DEF HiInv

(* A rotation is of a file with too many lines, and keeps as many of its   *)
(* last ones as it may.                                                    *)
LEMMA RotationStep ==
  HiInv /\ [HiNext]_hiVars =>
    /\ phase = "counted" /\ phase' = "rotate" =>
         Len(lines') + (IF Broken \in ToSet(lines') THEN 1 ELSE 0) > MaxLines
    /\ phase = "renaming" /\ lines' # lines => Len(lines') = KeepLines /\ IsSuffix(lines', lines)
  <1> SUFFICES ASSUME HiInv, [HiNext]_hiVars
               PROVE  /\ phase = "counted" /\ phase' = "rotate" =>
                           Len(lines') + (IF Broken \in ToSet(lines') THEN 1 ELSE 0) > MaxLines
                      /\ phase = "renaming" /\ lines' # lines => Len(lines') = KeepLines /\ IsSuffix(lines', lines)
    OBVIOUS
  <1>1. phase' = "rotate" => Len(lines') + BrokenOnes' > MaxLines
    BY RotatesStep DEF RotatesAfterAppend
  <1>2. ASSUME phase = "renaming", lines' # lines PROVE Len(lines') = KeepLines /\ IsSuffix(lines', lines)
    <2>1. RenameKept
      BY <1>2 DEF HiNext, BeginAppend, AppendLine, WriteKept, Kill, hiVars
    <2>2. lines \in Seq(Lines) /\ lines' = Newest /\ Len(lines) >= KeepLines
      BY <1>2, <2>1, RenameKeepsNewest DEF HiInv, HiTypeOK, Lines
    <2> QED
      BY <2>2, NewestLines
  <1> QED
    BY <1>1, <1>2 DEF BrokenOnes

(* The log keeps the newest entries, in order and within its limit, for    *)
(* every limit and whatever is killed or fails.                            *)
THEOREM LogKeepsPromise == HiSpec => LogPromise
  <1>1. HiInv => LogIsBounded /\ NewestAreKept
    BY DEF HiInv
  <1>2. HiInv /\ [HiNext]_hiVars =>
          [/\ phase = "counted" /\ phase' = "rotate" =>
                 Len(lines') + (IF Broken \in ToSet(lines') THEN 1 ELSE 0) > MaxLines
           /\ phase = "renaming" /\ lines' # lines => Len(lines') = KeepLines /\ IsSuffix(lines', lines)]_hiVars
    BY RotationStep
  <1> QED
    BY <1>1, <1>2, HiInvariance, PTL DEF HiSpec, LogPromise, RotationIsDue

----------------------------------------------------------------------------
(***************************************************************************)
(* The services together                                                   *)
(***************************************************************************)

(* Each service behaves as it does by itself: the others leave its state   *)
(* alone.                                                                  *)
servicesVars ==
  <<focus, pwVars, psVars, scVars, caVars, duVars, trVars, tsVars, qfVars, laVars, hiVars, cfVars>>

LEMMA EachByItself ==
  ServicesSpec => /\ PwSpec /\ PsSpec /\ ScSpec /\ CaSpec /\ DuSpec /\ TrSpec
                  /\ TsSpec /\ QfSpec /\ LaSpec /\ HiSpec /\ CfSpec
  <1>1. ServicesInit => /\ PwInit /\ PsInit /\ ScInit /\ CaInit /\ DuInit /\ TrInit
                        /\ TsInit /\ QfInit /\ LaInit /\ HiInit /\ CfInit
    BY DEF ServicesInit
  <1>2. [ServicesNext]_servicesVars => [PwNext]_pwVars /\ [PsNext]_psVars /\ [ScNext]_scVars
    BY DEF servicesVars, ServicesNext, OthersStay
  <1>3. [ServicesNext]_servicesVars => [CaNext]_caVars /\ [DuNext]_duVars /\ [TrNext]_trVars
    BY DEF servicesVars, ServicesNext, OthersStay
  <1>4. [ServicesNext]_servicesVars => [TsNext]_tsVars /\ [QfNext]_qfVars /\ [LaNext]_laVars
    BY DEF servicesVars, ServicesNext, OthersStay
  <1>5. [ServicesNext]_servicesVars => [HiNext]_hiVars /\ [CfNext]_cfVars
    BY DEF servicesVars, ServicesNext, OthersStay
  <1> QED
    BY <1>1, <1>2, <1>3, <1>4, <1>5, PTL
    DEF ServicesSpec, servicesVars, PwSpec, PsSpec, ScSpec, CaSpec, DuSpec, TrSpec, TsSpec, QfSpec, LaSpec, HiSpec, CfSpec

(* The state of every service keeps its types, however long it runs.       *)
THEOREM ServicesTypeCorrect == ServicesSpec => []ServicesTypeOK
  <1>1. PwSpec => []PwTypeOK
    BY PwInvariance, PTL DEF PwInv
  <1>2. PsSpec => []PsTypeOK
    BY PsInvariance, PTL DEF PsInv
  <1>3. ScSpec => []ScTypeOK
    BY ScInvariance, PTL DEF ScInv
  <1>4. DuSpec => []DuTypeOK
    BY DuInvariance, PTL DEF DuInv
  <1>5. TsSpec => []TsTypeOK
    BY TsInitially, TsInductive, PTL DEF TsSpec, TsInv
  <1>6. QfSpec => []QfTypeOK
    BY QfInvariance, PTL DEF QfInv, WholeFiles
  <1>7. LaSpec => []LaTypeOK
    BY LaInvariance, PTL DEF LaInv
  <1> QED
    BY <1>1, <1>2, <1>3, <1>4, <1>5, <1>6, <1>7, CaTypeCorrect, TrTypeCorrect, HiTypeCorrect, CfTypeCorrect,
       EachByItself, PTL DEF ServicesTypeOK

(* Query files, the configuration and the history survive every overlap of *)
(* calls, every failure and every crash.                                   *)
THEOREM FilesStaySafe == ServicesSpec => FilesAreSafe
  BY EachByItself, QueryFilesSurvive, ConfigKeepsPromise, LogKeepsPromise DEF FilesAreSafe

=============================================================================
