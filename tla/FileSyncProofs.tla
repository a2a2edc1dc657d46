--------------------------- MODULE FileSyncProofs ---------------------------
(***************************************************************************)
(* Theorems about the editor tabs and the query files, for any number of   *)
(* tabs, files, edits and events.                                          *)
(*                                                                         *)
(* Types hold whatever overlaps.  That no file is open in two tabs and no  *)
(* tab left without its file is proved under Orderly: either files are     *)
(* neither renamed nor deleted and none is opened twice at once (then any  *)
(* number of operations may overlap), or operations follow each other.     *)
(* That no edit is lost is proved under OneByOne: operations follow each   *)
(* other, and the user types in neither of the windows where the code does *)
(* lose one (during a merge's write, and during a reload).  They are the   *)
(* two instances that MCFileSync checks.                                   *)
(***************************************************************************)
EXTENDS FileSync, FiniteSetTheorems, TLAPS

----------------------------------------------------------------------------
(* Where an operation has a tab, and where it has a file.                  *)
OfTab == {"write", "force", "wrote", "refused", "read", "got", "merge", "merged",
          "mergeRefused", "reread", "gotAgain"}
OfPath == OfTab \cup {"open", "opened", "delete", "deleted"}
Renames == {"rename", "list"}

(* The locals an operation has set, by the await it is in and its caller.  *)
WellFormed(r) ==
  /\ r.at \in OfTab => r.tab \in Tabs
  /\ r.at \in OfPath => r.path \in Paths
  /\ r.at \in Renames => r.then = "rename"
  /\ r.at = "goto" => r.then = "activate"
  /\ r.then \in {"activate", "close"} => r.to \in Tabs
  /\ r.then = "select" => r.to \in Paths
  /\ r.then = "rename" => r.from \in Paths /\ r.to \in Paths
Proper(r) == r \in Operation /\ WellFormed(r)
OpsTyped == op \in [Ops -> Operation] /\ \A o \in Ops : Proper(op[o])

TabsTyped ==
  /\ files \in [Paths -> Texts \cup {None}]
  /\ path \in [Tabs -> Paths \cup {None}]
  /\ content \in [Tabs -> Texts] /\ base \in [Tabs -> Texts]
  /\ dirty \in [Tabs -> BOOLEAN] /\ conflicted \in [Tabs -> BOOLEAN]
  /\ active \in Tabs \cup {None} /\ pending \in Tabs \cup {None} /\ navigator \in Ops \cup {None}
  /\ events \in Nat
ClosedIsBlank ==
  \A t \in Tabs : path[t] = None => content[t] = {} /\ base[t] = {} /\ ~dirty[t] /\ ~conflicted[t]
FsTyped == TabsTyped /\ OpsTyped /\ ClosedIsBlank

LEMMA NoneIsApart == None \notin Tabs /\ None \notin Paths /\ None \notin Texts /\ None # "failed"
  BY NoneAssumption DEF Texts

LEMMA IdleIsProper == Proper(Idle)
  BY NoneIsApart DEF Proper, WellFormed, Idle, Operation, Awaiting, Resuming, Callers, Texts,
     OfTab, OfPath, Renames

LEMMA SetOp ==
  ASSUME OpsTyped, NEW o \in Ops, NEW r, Proper(r), Begin(o, r)
  PROVE  OpsTyped' /\ op'[o] = r /\ \A p \in Ops \ {o} : op'[p] = op[p]
  BY DEF OpsTyped, Proper, Begin

LEMMA EndOp ==
  ASSUME OpsTyped, NEW o \in Ops, End(o)
  PROVE  OpsTyped' /\ op'[o] = Idle /\ \A p \in Ops \ {o} : op'[p] = op[p]
  BY IdleIsProper DEF OpsTyped, Proper, End

(* The stages an operation may go on to with the locals it has.            *)
MayGo(r, place) ==
  /\ place \in Awaiting \cup Resuming \cup {"idle"}
  /\ place \in OfTab => r.at \in OfTab
  /\ place \in OfPath => r.at \in OfPath
  /\ place \in Renames => r.then = "rename"
  /\ place = "goto" => r.then = "activate"

LEMMA GoOp ==
  ASSUME OpsTyped, NEW o \in Ops, NEW place, MayGo(op[o], place), Go(o, place)
  PROVE  /\ OpsTyped'
         /\ op'[o] = [op[o] EXCEPT !.at = place]
         /\ op'[o].at = place
         /\ \A p \in Ops \ {o} : op'[p] = op[p]
  <1>1. op'[o] = [op[o] EXCEPT !.at = place] /\ op' \in [Ops -> {op'[p] : p \in Ops}]
    BY DEF OpsTyped, Go
  <1>2. op[o] \in Operation /\ WellFormed(op[o])
    BY DEF OpsTyped, Proper
  <1>3. op'[o] \in Operation
    BY <1>1, <1>2 DEF Operation, MayGo
  <1>4. WellFormed(op'[o])
    BY <1>1, <1>2 DEF Operation, WellFormed, MayGo
  <1>5. op'[o].at = place
    BY <1>1, <1>2 DEF Operation
  <1>6. \A p \in Ops \ {o} : op'[p] = op[p]
    BY DEF OpsTyped, Go
  <1> QED
    BY <1>1, <1>3, <1>4, <1>5, <1>6 DEF OpsTyped, Proper

LEMMA EndCheckOp ==
  ASSUME OpsTyped, NEW o \in Ops, EndCheck(o)
  PROVE  /\ OpsTyped'
         /\ \E place \in {"saved", "unsaved"} : op'[o] = [op[o] EXCEPT !.at = place] /\ op'[o].at = place
         /\ \A p \in Ops \ {o} : op'[p] = op[p]
  <1>1. PICK place \in {"saved", "unsaved"} : Go(o, place)
    BY DEF EndCheck
  <1>2. MayGo(op[o], place)
    BY DEF MayGo, Awaiting, Resuming, OfTab, OfPath, Renames
  <1> QED
    BY <1>1, <1>2, GoOp

(* An operation that saves a tab, by itself and for a flush.               *)
LEMMA SavingIsProper ==
  ASSUME TabsTyped, NEW t \in Tabs, Open(t), NEW caller \in Callers,
         NEW to \in Tabs \cup Paths \cup {None, "failed"}, NEW rest \in SUBSET Tabs,
         caller \in {"activate", "close"} => to \in Tabs, caller = "select" => to \in Paths,
         caller # "rename"
  PROVE  LET r == Saving(caller, t, to, rest) IN
         /\ Proper(r)
         /\ r.at = "write" /\ r.then = caller /\ r.tab = t /\ r.path = path[t] /\ r.text = content[t]
         /\ r.base = base[t] /\ r.disk = {} /\ r.from = None /\ r.to = to /\ r.rest = rest
  <1> DEFINE r == Saving(caller, t, to, rest)
  <1>1. path[t] \in Paths /\ content[t] \in Texts /\ base[t] \in Texts /\ {} \in Texts
    BY DEF TabsTyped, Open, Texts
  <1>2. /\ r.at = "write" /\ r.then = caller /\ r.tab = t /\ r.path = path[t] /\ r.text = content[t]
        /\ r.base = base[t] /\ r.disk = {} /\ r.from = None /\ r.to = to /\ r.rest = rest
    BY DEF Saving, Idle
  <1>3. r \in Operation
    BY <1>1 DEF Saving, Idle, Operation, Awaiting, Resuming, Callers
  <1> HIDE DEF r
  <1>4. WellFormed(r)
    BY <1>1, <1>2 DEF WellFormed, OfTab, OfPath, Renames
  <1> QED
    BY <1>2, <1>3, <1>4 DEF Proper, r

LEMMA SavingFromIsProper ==
  ASSUME TabsTyped, NEW t \in Tabs, Open(t), NEW from \in Paths \cup {None}, NEW caller \in Callers,
         NEW to \in Tabs \cup Paths \cup {None, "failed"}, NEW rest \in SUBSET Tabs,
         caller \in {"activate", "close"} => to \in Tabs, caller = "select" => to \in Paths,
         caller = "rename" => from \in Paths /\ to \in Paths
  PROVE  LET r == [Saving(caller, t, to, rest) EXCEPT !.from = from] IN
         /\ Proper(r)
         /\ r.at = "write" /\ r.then = caller /\ r.tab = t /\ r.path = path[t] /\ r.text = content[t]
         /\ r.base = base[t] /\ r.disk = {} /\ r.from = from /\ r.to = to /\ r.rest = rest
  <1> DEFINE r == [Saving(caller, t, to, rest) EXCEPT !.from = from]
  <1>1. path[t] \in Paths /\ content[t] \in Texts /\ base[t] \in Texts /\ {} \in Texts
    BY DEF TabsTyped, Open, Texts
  <1>2. /\ r.at = "write" /\ r.then = caller /\ r.tab = t /\ r.path = path[t] /\ r.text = content[t]
        /\ r.base = base[t] /\ r.disk = {} /\ r.from = from /\ r.to = to /\ r.rest = rest
    BY DEF Saving, Idle
  <1>3. r \in Operation
    BY <1>1 DEF Saving, Idle, Operation, Awaiting, Resuming, Callers
  <1> HIDE DEF r
  <1>4. WellFormed(r)
    BY <1>1, <1>2 DEF WellFormed, OfTab, OfPath, Renames
  <1> QED
    BY <1>2, <1>3, <1>4 DEF Proper, r

LEMMA ForcingIsProper ==
  ASSUME TabsTyped, NEW t \in Tabs, Open(t)
  PROVE  LET r == [Saving("none", t, None, {}) EXCEPT !.at = "force"] IN
         /\ Proper(r)
         /\ r.at = "force" /\ r.then = "none" /\ r.tab = t /\ r.path = path[t] /\ r.text = content[t]
         /\ r.base = base[t] /\ r.from = None /\ r.to = None /\ r.rest = {}
  <1> DEFINE r == [Saving("none", t, None, {}) EXCEPT !.at = "force"]
  <1>1. path[t] \in Paths /\ content[t] \in Texts /\ base[t] \in Texts /\ {} \in Texts
    BY DEF TabsTyped, Open, Texts
  <1>2. /\ r.at = "force" /\ r.then = "none" /\ r.tab = t /\ r.path = path[t] /\ r.text = content[t]
        /\ r.base = base[t] /\ r.from = None /\ r.to = None /\ r.rest = {}
    BY DEF Saving, Idle
  <1>3. r \in Operation
    BY <1>1 DEF Saving, Idle, Operation, Awaiting, Resuming, Callers
  <1> HIDE DEF r
  <1>4. WellFormed(r)
    BY <1>1, <1>2 DEF WellFormed, OfTab, OfPath, Renames
  <1> QED
    BY <1>2, <1>3, <1>4 DEF Proper, r

(* One whose save is over, or was not needed.                             *)
LEMMA ResumedIsProper ==
  ASSUME NEW caller \in Callers, NEW to \in Tabs \cup Paths \cup {None, "failed"}, NEW rest \in SUBSET Tabs,
         caller \in {"activate", "close"} => to \in Tabs, caller = "select" => to \in Paths,
         caller # "rename"
  PROVE  LET r == Resumed(caller, to, rest) IN
         /\ Proper(r)
         /\ r.at = "saved" /\ r.then = caller /\ r.from = None /\ r.to = to /\ r.rest = rest
  <1> DEFINE r == Resumed(caller, to, rest)
  <1>1. {} \in Texts
    BY DEF TabsTyped, Open, Texts
  <1>2. /\ r.at = "saved" /\ r.then = caller /\ r.from = None /\ r.to = to /\ r.rest = rest
    BY DEF Resumed, Idle
  <1>3. r \in Operation
    BY <1>1 DEF Resumed, Idle, Operation, Awaiting, Resuming, Callers
  <1> HIDE DEF r
  <1>4. WellFormed(r)
    BY <1>1, <1>2 DEF WellFormed, OfTab, OfPath, Renames
  <1> QED
    BY <1>2, <1>3, <1>4 DEF Proper, r

LEMMA ResumedFromIsProper ==
  ASSUME NEW from \in Paths \cup {None}, NEW caller \in Callers,
         NEW to \in Tabs \cup Paths \cup {None, "failed"}, NEW rest \in SUBSET Tabs,
         caller \in {"activate", "close"} => to \in Tabs, caller = "select" => to \in Paths,
         caller = "rename" => from \in Paths /\ to \in Paths
  PROVE  LET r == [Resumed(caller, to, rest) EXCEPT !.from = from] IN
         /\ Proper(r)
         /\ r.at = "saved" /\ r.then = caller /\ r.from = from /\ r.to = to /\ r.rest = rest
  <1> DEFINE r == [Resumed(caller, to, rest) EXCEPT !.from = from]
  <1>1. {} \in Texts
    BY DEF TabsTyped, Open, Texts
  <1>2. /\ r.at = "saved" /\ r.then = caller /\ r.from = from /\ r.to = to /\ r.rest = rest
    BY DEF Resumed, Idle
  <1>3. r \in Operation
    BY <1>1 DEF Resumed, Idle, Operation, Awaiting, Resuming, Callers
  <1> HIDE DEF r
  <1>4. WellFormed(r)
    BY <1>1, <1>2 DEF WellFormed, OfTab, OfPath, Renames
  <1> QED
    BY <1>2, <1>3, <1>4 DEF Proper, r

(* A check keeps its operation's caller and where that goes on.            *)
LEMMA CheckingIsProper ==
  ASSUME FsTyped, NEW o \in Ops, NEW t \in Tabs, Open(t)
  PROVE  LET r == Checking(o, t) IN
         /\ Proper(r)
         /\ r.at = "read" /\ r.then = op[o].then /\ r.tab = t /\ r.path = path[t] /\ r.text = {}
         /\ r.base = base[t] /\ r.disk = {} /\ r.from = op[o].from /\ r.to = op[o].to /\ r.rest = op[o].rest
  <1> DEFINE r == Checking(o, t)
  <1>1. path[t] \in Paths /\ base[t] \in Texts /\ {} \in Texts
    BY DEF TabsTyped, FsTyped, Open, Texts
  <1>0. op[o] \in Operation /\ WellFormed(op[o])
    BY DEF FsTyped, OpsTyped, Proper
  <1>2. /\ r.at = "read" /\ r.then = op[o].then /\ r.tab = t /\ r.path = path[t] /\ r.text = {}
        /\ r.base = base[t] /\ r.disk = {} /\ r.from = op[o].from /\ r.to = op[o].to /\ r.rest = op[o].rest
    BY <1>0 DEF Checking, Operation
  <1>3. r \in Operation
    BY <1>0, <1>1 DEF Checking, Operation, Awaiting, Resuming, Callers
  <1> HIDE DEF r
  <1>4. WellFormed(r)
    BY <1>0, <1>1, <1>2 DEF WellFormed, OfTab, OfPath, Renames
  <1> QED
    BY <1>2, <1>3, <1>4 DEF Proper, r

LEMMA CheckingNextIsProper ==
  ASSUME FsTyped, NEW o \in Ops, NEW t \in Tabs, Open(t), NEW rest \in SUBSET Tabs
  PROVE  LET r == [Checking(o, t) EXCEPT !.rest = rest] IN
         /\ Proper(r)
         /\ r.at = "read" /\ r.then = op[o].then /\ r.tab = t /\ r.path = path[t] /\ r.text = {}
         /\ r.base = base[t] /\ r.disk = {} /\ r.from = op[o].from /\ r.to = op[o].to /\ r.rest = rest
  <1> DEFINE r == [Checking(o, t) EXCEPT !.rest = rest]
  <1>1. path[t] \in Paths /\ base[t] \in Texts /\ {} \in Texts
    BY DEF TabsTyped, FsTyped, Open, Texts
  <1>0. op[o] \in Operation /\ WellFormed(op[o])
    BY DEF FsTyped, OpsTyped, Proper
  <1>2. /\ r.at = "read" /\ r.then = op[o].then /\ r.tab = t /\ r.path = path[t] /\ r.text = {}
        /\ r.base = base[t] /\ r.disk = {} /\ r.from = op[o].from /\ r.to = op[o].to /\ r.rest = rest
    BY <1>0 DEF Checking, Operation
  <1>3. r \in Operation
    BY <1>0, <1>1 DEF Checking, Operation, Awaiting, Resuming, Callers
  <1> HIDE DEF r
  <1>4. WellFormed(r)
    BY <1>0, <1>1, <1>2 DEF WellFormed, OfTab, OfPath, Renames
  <1> QED
    BY <1>2, <1>3, <1>4 DEF Proper, r

(* The other stages an operation can be put in.                            *)
LEMMA GoToIsProper ==
  ASSUME NEW o, NEW t \in Tabs
  PROVE  LET r == GoTo(o, t) IN
         /\ Proper(r)
         /\ r.at = "goto" /\ r.then = "activate" /\ r.tab = None /\ r.to = t /\ r.rest = {}
  <1> DEFINE r == GoTo(o, t)
  <1>1. {} \in Texts
    BY DEF TabsTyped, Open, Texts
  <1>2. /\ r.at = "goto" /\ r.then = "activate" /\ r.tab = None /\ r.to = t /\ r.rest = {}
    BY DEF GoTo, Idle
  <1>3. r \in Operation
    BY <1>1 DEF GoTo, Idle, Operation, Awaiting, Resuming, Callers
  <1> HIDE DEF r
  <1>4. WellFormed(r)
    BY <1>1, <1>2 DEF WellFormed, OfTab, OfPath, Renames
  <1> QED
    BY <1>2, <1>3, <1>4 DEF Proper, r

LEMMA RenameNowIsProper ==
  ASSUME NEW o, NEW p \in Paths, NEW q \in Paths
  PROVE  LET r == RenameNow(o, p, q) IN
         /\ Proper(r)
         /\ r.at = "rename" /\ r.then = "rename" /\ r.from = p /\ r.to = q
  <1> DEFINE r == RenameNow(o, p, q)
  <1>1. {} \in Texts
    BY DEF TabsTyped, Open, Texts
  <1>2. /\ r.at = "rename" /\ r.then = "rename" /\ r.from = p /\ r.to = q
    BY DEF RenameNow, Idle
  <1>3. r \in Operation
    BY <1>1 DEF RenameNow, Idle, Operation, Awaiting, Resuming, Callers
  <1> HIDE DEF r
  <1>4. WellFormed(r)
    BY <1>1, <1>2 DEF WellFormed, OfTab, OfPath, Renames
  <1> QED
    BY <1>2, <1>3, <1>4 DEF Proper, r

LEMMA RereadingIsProper ==
  ASSUME TabsTyped, NEW t \in Tabs, Open(t), NEW caller \in {"none", "activate"}
  PROVE  LET r == Rereading(caller, t) IN
         /\ Proper(r)
         /\ r.at = "reread" /\ r.then = caller /\ r.tab = t /\ r.path = path[t] /\ r.to = t
         /\ r.rest = {}
  <1> DEFINE r == Rereading(caller, t)
  <1>1. path[t] \in Paths /\ {} \in Texts
    BY DEF TabsTyped, Open, Texts
  <1>2. /\ r.at = "reread" /\ r.then = caller /\ r.tab = t /\ r.path = path[t] /\ r.to = t
        /\ r.rest = {}
    BY DEF Rereading, Idle
  <1>3. r \in Operation
    BY <1>1 DEF Rereading, Idle, Operation, Awaiting, Resuming, Callers
  <1> HIDE DEF r
  <1>4. WellFormed(r)
    BY <1>1, <1>2 DEF WellFormed, OfTab, OfPath, Renames
  <1> QED
    BY <1>2, <1>3, <1>4 DEF Proper, r

LEMMA OpeningIsProper ==
  ASSUME NEW p \in Paths
  PROVE  LET r == [Idle EXCEPT !.at = "open", !.then = "select", !.path = p, !.to = p] IN
         /\ Proper(r)
         /\ r.at = "open" /\ r.then = "select" /\ r.path = p /\ r.to = p
  <1> DEFINE r == [Idle EXCEPT !.at = "open", !.then = "select", !.path = p, !.to = p]
  <1>1. {} \in Texts
    BY DEF TabsTyped, Open, Texts
  <1>2. /\ r.at = "open" /\ r.then = "select" /\ r.path = p /\ r.to = p
    BY DEF Idle
  <1>3. r \in Operation
    BY <1>1 DEF Idle, Operation, Awaiting, Resuming, Callers
  <1> HIDE DEF r
  <1>4. WellFormed(r)
    BY <1>1, <1>2 DEF WellFormed, OfTab, OfPath, Renames
  <1> QED
    BY <1>2, <1>3, <1>4 DEF Proper, r

LEMMA DeletingIsProper ==
  ASSUME NEW p \in Paths
  PROVE  LET r == [Idle EXCEPT !.at = "delete", !.path = p] IN
         /\ Proper(r)
         /\ r.at = "delete" /\ r.then = "none" /\ r.path = p /\ r.to = None
  <1> DEFINE r == [Idle EXCEPT !.at = "delete", !.path = p]
  <1>1. {} \in Texts
    BY DEF TabsTyped, Open, Texts
  <1>2. /\ r.at = "delete" /\ r.then = "none" /\ r.path = p /\ r.to = None
    BY DEF Idle
  <1>3. r \in Operation
    BY <1>1 DEF Idle, Operation, Awaiting, Resuming, Callers
  <1> HIDE DEF r
  <1>4. WellFormed(r)
    BY <1>1, <1>2 DEF WellFormed, OfTab, OfPath, Renames
  <1> QED
    BY <1>2, <1>3, <1>4 DEF Proper, r

LEMMA ResettingIsProper ==
  ASSUME NEW o
  PROVE  LET r == [Idle EXCEPT !.at = "reset", !.then = "reload"] IN
         /\ Proper(r)
         /\ r.at = "reset" /\ r.then = "reload" /\ r.path = None /\ r.to = None
  <1> DEFINE r == [Idle EXCEPT !.at = "reset", !.then = "reload"]
  <1>1. {} \in Texts
    BY DEF TabsTyped, Open, Texts
  <1>2. /\ r.at = "reset" /\ r.then = "reload" /\ r.path = None /\ r.to = None
    BY DEF Idle
  <1>3. r \in Operation
    BY <1>1 DEF Idle, Operation, Awaiting, Resuming, Callers
  <1> HIDE DEF r
  <1>4. WellFormed(r)
    BY <1>1, <1>2 DEF WellFormed, OfTab, OfPath, Renames
  <1> QED
    BY <1>2, <1>3, <1>4 DEF Proper, r

LEMMA FlushOp ==
  ASSUME FsTyped, NEW o \in Ops, NEW caller \in Callers, NEW from \in Paths \cup {None},
         NEW to \in Tabs \cup Paths \cup {None},
         caller \in {"activate", "close"} => to \in Tabs, caller = "select" => to \in Paths,
         caller = "rename" => from \in Paths /\ to \in Paths,
         Flush(o, caller, from, to)
  PROVE  /\ OpsTyped' /\ pending' = None
         /\ \/ /\ pending \in Tabs /\ Open(pending) /\ dirty[pending]
               /\ op'[o] = [Saving(caller, pending, to, {}) EXCEPT !.from = from]
            \/ /\ pending \in Tabs /\ Open(pending) => ~dirty[pending]
               /\ op'[o] = [Resumed(caller, to, {}) EXCEPT !.from = from]
         /\ \A p \in Ops \ {o} : op'[p] = op[p]
  <1>1. CASE pending # None /\ Open(pending) /\ dirty[pending]
    <2>1. pending \in Tabs
      BY <1>1 DEF FsTyped, TabsTyped
    <2>2. Begin(o, [Saving(caller, pending, to, {}) EXCEPT !.from = from]) /\ pending' = None
      BY <1>1 DEF Flush
    <2>3. Proper([Saving(caller, pending, to, {}) EXCEPT !.from = from])
      BY <1>1, <2>1, SavingFromIsProper DEF FsTyped
    <2> QED
      BY <1>1, <2>1, <2>2, <2>3, SetOp DEF FsTyped
  <1>2. CASE ~(pending # None /\ Open(pending) /\ dirty[pending])
    <2>1. pending \in Tabs /\ Open(pending) => ~dirty[pending]
      BY <1>2, NoneIsApart
    <2>2. Begin(o, [Resumed(caller, to, {}) EXCEPT !.from = from]) /\ pending' = None
      BY <1>2 DEF Flush
    <2>3. Proper([Resumed(caller, to, {}) EXCEPT !.from = from])
      BY ResumedFromIsProper
    <2> QED
      BY <2>1, <2>2, <2>3, SetOp DEF FsTyped
  <1> QED
    BY <1>1, <1>2

----------------------------------------------------------------------------
(* What a step does with the operation it belongs to, field by field; the  *)
(* others stay as they are.                                                *)
Others(o) == OpsTyped' /\ \A p \in Ops \ {o} : op'[p] = op[p]
Keeps(o) ==
  /\ op'[o].then = op[o].then /\ op'[o].tab = op[o].tab /\ op'[o].path = op[o].path
  /\ op'[o].text = op[o].text /\ op'[o].base = op[o].base /\ op'[o].disk = op[o].disk
  /\ op'[o].from = op[o].from /\ op'[o].to = op[o].to /\ op'[o].rest = op[o].rest
Ends(o) == Others(o) /\ op'[o].at = "idle" /\ op'[o].then = "none"
Goes(o, places) == Others(o) /\ op'[o].at \in places /\ Keeps(o)
Calling(o, caller, from, to, rest) ==
  /\ Others(o)
  /\ op'[o].then = caller /\ op'[o].from = from /\ op'[o].to = to /\ op'[o].rest = rest
Takes(o, t) ==
  op'[o].tab = t /\ op'[o].path = path[t] /\ op'[o].text = content[t] /\ op'[o].base = base[t]
Saves(o, caller, t, from, to, rest) ==
  Calling(o, caller, from, to, rest) /\ op'[o].at = "write" /\ Takes(o, t)
Resumes(o, caller, from, to, rest) == Calling(o, caller, from, to, rest) /\ op'[o].at = "saved"
Flushes(o, caller, from, to) ==
  /\ pending' = None
  /\ \/ pending \in Tabs /\ Open(pending) /\ dirty[pending] /\ Saves(o, caller, pending, from, to, {})
     \/ (pending \in Tabs /\ Open(pending) => ~dirty[pending]) /\ Resumes(o, caller, from, to, {})
Checks(o, t, rest) ==
  /\ Calling(o, op[o].then, op[o].from, op[o].to, rest) /\ op'[o].at = "read"
  /\ op'[o].tab = t /\ op'[o].path = path[t] /\ op'[o].base = base[t]
Turns(o, t) == Others(o) /\ op'[o].at = "goto" /\ op'[o].then = "activate" /\ op'[o].to = t
Rereads(o, caller, t) ==
  /\ Others(o) /\ op'[o].at = "reread" /\ op'[o].then = caller /\ op'[o].to = t
  /\ op'[o].tab = t /\ op'[o].path = path[t]
Asks(o, place, caller, p, to) ==
  Others(o) /\ op'[o].at = place /\ op'[o].then = caller /\ op'[o].path = p /\ op'[o].to = to
StartsRenaming(o, p, q) ==
  Others(o) /\ op'[o].at = "rename" /\ op'[o].then = "rename" /\ op'[o].from = p /\ op'[o].to = q
Forces(o, t) ==
  Calling(o, "none", None, None, {}) /\ op'[o].at = "force" /\ Takes(o, t)
(* The check ends; "saved" only if the tab is as it is on disk.            *)
ChecksOut(o) ==
  /\ Goes(o, {"saved", "unsaved"})
  /\ op'[o].at = "saved" => path'[op[o].tab] # None /\ ~dirty'[op[o].tab] /\ ~conflicted'[op[o].tab]
Merges(o, text) ==
  /\ Calling(o, op[o].then, op[o].from, op[o].to, op[o].rest) /\ op'[o].at = "merge" /\ op'[o].text = text
  /\ op'[o].tab = op[o].tab /\ op'[o].path = op[o].path /\ op'[o].base = op[o].base /\ op'[o].disk = op[o].disk
Gets(o, text) ==
  /\ Calling(o, op[o].then, op[o].from, op[o].to, op[o].rest) /\ op'[o].disk = text
  /\ op'[o].tab = op[o].tab /\ op'[o].path = op[o].path /\ op'[o].base = op[o].base
  /\ \/ op[o].at = "read" /\ op'[o].at = "got"
     \/ op[o].at = "reread" /\ op'[o].at = "gotAgain"
     \/ op[o].at = "open" /\ op'[o].at = "opened"
GivesUp(o) ==
  \/ op[o].at = "read" /\ ChecksOut(o)
  \/ op[o].at = "reread" /\ op[o].then = "activate" /\ Goes(o, {"goto"})
  \/ op[o].at \in {"write", "force"} /\ Goes(o, {"unsaved"})
  \/ op[o].at = "merge" /\ Goes(o, {"mergeRefused"})
  \/ op[o].at \notin {"read", "write", "force", "merge"} /\ Ends(o)
Removes(o, closed) == Ends(o) \/ \E n \in OpenTabs \ closed : Turns(o, n)

LEMMA OpIsTyped ==
  ASSUME FsTyped, NEW o \in Ops
  PROVE  /\ op[o] \in Operation /\ WellFormed(op[o])
         /\ op[o].rest \subseteq Tabs /\ op[o].disk \in Texts /\ op[o].text \in Texts /\ op[o].base \in Texts
         /\ op[o].then \in Callers /\ op[o].tab \in Tabs \cup {None} /\ op[o].path \in Paths \cup {None}
         /\ op[o].to \in Tabs \cup Paths \cup {None, "failed"} /\ op[o].from \in Paths \cup {None}
  BY DEF FsTyped, OpsTyped, Proper, Operation

LEMMA EndDoes == ASSUME FsTyped, NEW o \in Ops, End(o) PROVE Ends(o)
  BY EndOp DEF FsTyped, Ends, Others, Idle

LEMMA GoDoes ==
  ASSUME FsTyped, NEW o \in Ops, NEW place, MayGo(op[o], place), Go(o, place)
  PROVE  Goes(o, {place})
  <1>1. Others(o) /\ op'[o].at = place /\ op'[o] = [op[o] EXCEPT !.at = place]
    BY GoOp DEF FsTyped, Others
  <1>2. op[o] \in Operation
    BY OpIsTyped
  <1>3. Keeps(o)
    BY <1>1, <1>2 DEF Keeps, Operation
  <1> QED
    BY <1>1, <1>3 DEF Goes

LEMMA EndCheckDoes ==
  ASSUME FsTyped, NEW o \in Ops, EndCheck(o)
  PROVE  ChecksOut(o)
  <1>1. CASE path'[op[o].tab] # None /\ ~dirty'[op[o].tab] /\ ~conflicted'[op[o].tab] /\ Go(o, "saved")
    <2>1. MayGo(op[o], "saved")
      BY DEF MayGo, Awaiting, Resuming, OfTab, OfPath, Renames
    <2> QED
      BY <1>1, <2>1, GoDoes DEF ChecksOut, Goes
  <1>2. CASE Go(o, "unsaved")
    <2>1. MayGo(op[o], "unsaved")
      BY DEF MayGo, Awaiting, Resuming, OfTab, OfPath, Renames
    <2> QED
      BY <1>2, <2>1, GoDoes DEF ChecksOut, Goes
  <1> QED
    BY <1>1, <1>2 DEF EndCheck

LEMMA FailedDoes ==
  ASSUME FsTyped, NEW o \in Ops, Failed(o)
  PROVE  GivesUp(o)
  <1>1. CASE op[o].at = "read"
    BY <1>1, EndCheckDoes DEF Failed, GivesUp
  <1>2. CASE op[o].at = "reread" /\ op[o].then = "activate" /\ navigator = o
    <2>1. Go(o, "goto")
      BY <1>2 DEF Failed
    <2>2. MayGo(op[o], "goto")
      BY <1>2 DEF MayGo, Awaiting, Resuming, OfTab, OfPath, Renames
    <2> QED
      BY <1>2, <2>1, <2>2, GoDoes DEF GivesUp
  <1>3. CASE op[o].at \in {"write", "force"}
    <2>1. Go(o, "unsaved")
      BY <1>3 DEF Failed
    <2>2. MayGo(op[o], "unsaved")
      BY <1>3 DEF MayGo, Awaiting, Resuming, OfTab, OfPath, Renames
    <2> QED
      BY <1>3, <2>1, <2>2, GoDoes DEF GivesUp
  <1>4. CASE op[o].at = "merge"
    <2>1. Go(o, "mergeRefused")
      BY <1>4 DEF Failed
    <2>2. MayGo(op[o], "mergeRefused")
      BY <1>4 DEF MayGo, Awaiting, Resuming, OfTab, OfPath, Renames
    <2> QED
      BY <1>4, <2>1, <2>2, GoDoes DEF GivesUp
  <1>5. CASE /\ op[o].at \notin {"read", "write", "force", "merge"}
             /\ ~(op[o].at = "reread" /\ op[o].then = "activate" /\ navigator = o)
    BY <1>5, EndDoes DEF Failed, GivesUp
  <1> QED
    BY <1>1, <1>2, <1>3, <1>4, <1>5

LEMMA FlushDoes ==
  ASSUME FsTyped, NEW o \in Ops, NEW caller \in Callers, NEW from \in Paths \cup {None},
         NEW to \in Tabs \cup Paths \cup {None},
         caller \in {"activate", "close"} => to \in Tabs, caller = "select" => to \in Paths,
         caller = "rename" => from \in Paths /\ to \in Paths,
         Flush(o, caller, from, to)
  PROVE  Flushes(o, caller, from, to)
  <1>1. /\ OpsTyped' /\ pending' = None
        /\ \A p \in Ops \ {o} : op'[p] = op[p]
    BY FlushOp
  <1>2. CASE /\ pending \in Tabs /\ Open(pending) /\ dirty[pending]
             /\ op'[o] = [Saving(caller, pending, to, {}) EXCEPT !.from = from]
    BY <1>1, <1>2, SavingFromIsProper DEF FsTyped, Flushes, Saves, Calling, Takes, Others
  <1>3. CASE /\ pending \in Tabs /\ Open(pending) => ~dirty[pending]
             /\ op'[o] = [Resumed(caller, to, {}) EXCEPT !.from = from]
    BY <1>1, <1>3, ResumedFromIsProper DEF FsTyped, Flushes, Resumes, Calling, Others
  <1> QED
    BY <1>2, <1>3, FlushOp

LEMMA SaveDoes ==
  ASSUME FsTyped, NEW o \in Ops, NEW t \in Tabs, Open(t), NEW caller \in Callers,
         NEW to \in Tabs \cup Paths \cup {None, "failed"}, NEW rest \in SUBSET Tabs,
         caller \in {"activate", "close"} => to \in Tabs, caller # "select", caller # "rename",
         Begin(o, Saving(caller, t, to, rest))
  PROVE  Saves(o, caller, t, None, to, rest)
  <1> DEFINE r == Saving(caller, t, to, rest)
  <1>1. /\ Proper(r)
        /\ r.at = "write" /\ r.then = caller /\ r.tab = t /\ r.path = path[t] /\ r.text = content[t]
        /\ r.base = base[t] /\ r.from = None /\ r.to = to /\ r.rest = rest
    BY SavingIsProper DEF FsTyped
  <1> HIDE DEF r
  <1>2. Begin(o, r)
    BY DEF r
  <1> QED
    BY <1>1, <1>2, SetOp DEF FsTyped, Saves, Calling, Takes, Others

LEMMA RemoveDoes ==
  ASSUME FsTyped, NEW o \in Ops, NEW closed, Remove(o, closed)
  PROVE  Removes(o, closed) /\ Forget(closed) /\ (active' = active \/ (active' = None /\ active \in closed))
  <1>1. ASSUME End(o) PROVE Removes(o, closed)
    BY <1>1, EndDoes DEF Removes
  <1>2. ASSUME NEW n \in OpenTabs \ closed, Begin(o, GoTo(o, n)) PROVE Removes(o, closed)
    <2>1. n \in Tabs
      BY DEF OpenTabs
    <2> QED
      BY <1>2, <2>1, SetOp, GoToIsProper DEF FsTyped, Removes, Turns, Others
  <1> QED
    BY <1>1, <1>2 DEF Remove

LEMMA PairsAreSmall == ASSUME NEW x, NEW y PROVE Cardinality({x, y}) # 3
  <1>1. CASE x = y
    BY <1>1, FS_Singleton
  <1>2. CASE x # y
    <2>1. IsFiniteSet({x}) /\ Cardinality({x}) = 1
      BY FS_Singleton
    <2> QED
      BY <1>2, <2>1, FS_AddElement
  <1> QED
    BY <1>1, <1>2

LEMMA ContinueSaveDoes ==
  ASSUME FsTyped, NEW o \in Ops, ContinueSave(o)
  PROVE  Ends(o)
  BY EndDoes DEF ContinueSave

LEMMA ContinueWatchDoes ==
  ASSUME FsTyped, NEW o \in Ops, ContinueWatch(o)
  PROVE  \/ Ends(o)
         \/ \E t \in op[o].rest \cap OpenTabs : Checks(o, t, op[o].rest \ {t})
  <1>1. ASSUME NEW t \in op[o].rest \cap OpenTabs,
               Begin(o, [Checking(o, t) EXCEPT !.rest = op[o].rest \ {t}])
        PROVE  Checks(o, t, op[o].rest \ {t})
    <2>1. t \in Tabs /\ Open(t) /\ op[o].rest \ {t} \in SUBSET Tabs
      BY OpIsTyped DEF OpenTabs
    <2> DEFINE r == [Checking(o, t) EXCEPT !.rest = op[o].rest \ {t}]
    <2>2. /\ Proper(r) /\ r.at = "read" /\ r.then = op[o].then /\ r.from = op[o].from /\ r.to = op[o].to
          /\ r.tab = t /\ r.path = path[t] /\ r.base = base[t] /\ r.rest = op[o].rest \ {t}
      BY <2>1, CheckingNextIsProper
    <2>3. Begin(o, r)
      BY <1>1
    <2> HIDE DEF r
    <2> QED
      BY <2>2, <2>3, SetOp DEF FsTyped, Checks, Calling, Others
  <1> QED
    BY <1>1, EndDoes DEF ContinueWatch

LEMMA ContinueCloseDoes ==
  ASSUME FsTyped, NEW o \in Ops, ContinueClose(o)
  PROVE  \/ /\ op[o].to \in Tabs /\ Open(op[o].to) /\ ~dirty[op[o].to] /\ op[o].at = "saved"
            /\ Removes(o, {op[o].to}) /\ Forget({op[o].to})
            /\ active' = active \/ (active' = None /\ active = op[o].to)
         \/ Ends(o) /\ UNCHANGED <<tabs, active>>
  <1>1. op[o].to \in Tabs
    BY OpIsTyped DEF ContinueClose, WellFormed
  <1> QED
    BY <1>1, EndDoes, RemoveDoes DEF ContinueClose

LEMMA ActivateDoes ==
  ASSUME FsTyped, NEW o \in Ops, Activate(o)
  PROVE  \/ Flushes(o, "activate", None, op[o].to) /\ op[o].to \in Tabs /\ Open(op[o].to)
         \/ Ends(o) /\ UNCHANGED pending
  <1>1. op[o].to \in Tabs /\ "activate" \in Callers
    BY OpIsTyped DEF Activate, WellFormed, Callers
  <1> QED
    BY <1>1, EndDoes, FlushDoes DEF Activate

LEMMA ContinueActivateDoes ==
  ASSUME FsTyped, NEW o \in Ops, ContinueActivate(o)
  PROVE  Ends(o)
  BY EndDoes DEF ContinueActivate

LEMMA ContinueSelectDoes ==
  ASSUME FsTyped, NEW o \in Ops, ContinueSelect(o)
  PROVE  op[o].to \in Paths /\ Asks(o, "open", "select", op[o].to, op[o].to)
  <1>1. op[o].to \in Paths
    BY OpIsTyped DEF ContinueSelect, WellFormed
  <1> DEFINE r == [Idle EXCEPT !.at = "open", !.then = "select", !.path = op[o].to, !.to = op[o].to]
  <1>2. Proper(r) /\ r.at = "open" /\ r.then = "select" /\ r.path = op[o].to /\ r.to = op[o].to
    BY <1>1, OpeningIsProper
  <1>3. Begin(o, r)
    BY DEF ContinueSelect
  <1> HIDE DEF r
  <1> QED
    BY <1>1, <1>2, <1>3, SetOp DEF FsTyped, Asks, Others

LEMMA ContinueRenameDoes ==
  ASSUME FsTyped, NEW o \in Ops, ContinueRename(o)
  PROVE  \/ Ends(o)
         \/ op[o].from \in Paths /\ op[o].to \in Paths /\ StartsRenaming(o, op[o].from, op[o].to)
  <1>1. op[o].from \in Paths /\ op[o].to \in Paths
    BY OpIsTyped DEF ContinueRename, WellFormed
  <1> QED
    BY <1>1, EndDoes, SetOp, RenameNowIsProper DEF ContinueRename, FsTyped, StartsRenaming, Others

LEMMA ContinueReloadDoes ==
  ASSUME FsTyped, NEW o \in Ops, ContinueReload(o)
  PROVE  \/ Ends(o)
         \/ /\ op[o].at = "saved" /\ op[o].to # "failed"
            /\ Asks(o, "reset", "reload", None, None)
            /\ \A u \in op[o].rest : ~dirty[u] \/ conflicted[u]
         \/ \E t \in op[o].rest, to \in {op[o].to, "failed"}, rest \in SUBSET op[o].rest :
              /\ t \notin rest /\ Open(t) /\ dirty[t] /\ Saves(o, "reload", t, None, to, rest)
              /\ to # "failed" => op[o].at = "saved"
              /\ \A u \in op[o].rest \ rest : u = t \/ ~dirty[u] \/ conflicted[u]
  <1> DEFINE left == {t \in op[o].rest : dirty[t] /\ ~conflicted[t]}
             to == IF op[o].at = "unsaved" THEN "failed" ELSE op[o].to
  <1>1. ASSUME left = {}, to # "failed", Begin(o, [Idle EXCEPT !.at = "reset", !.then = "reload"])
        PROVE  /\ op[o].at = "saved" /\ op[o].to # "failed"
               /\ Asks(o, "reset", "reload", None, None)
               /\ \A u \in op[o].rest : ~dirty[u] \/ conflicted[u]
    <2>1. Asks(o, "reset", "reload", None, None)
      BY <1>1, SetOp, ResettingIsProper DEF FsTyped, Asks, Others
    <2> QED
      BY <1>1, <2>1 DEF ContinueReload
  <1>2. ASSUME NEW t \in left, NEW passed \in SUBSET (op[o].rest \ left),
               Begin(o, Saving("reload", t, to, op[o].rest \ ({t} \cup passed)))
        PROVE  \E s \in op[o].rest, target \in {op[o].to, "failed"}, left2 \in SUBSET op[o].rest :
                 /\ s \notin left2 /\ Open(s) /\ dirty[s] /\ Saves(o, "reload", s, None, target, left2)
                 /\ target # "failed" => op[o].at = "saved"
                 /\ \A u \in op[o].rest \ left2 : u = s \/ ~dirty[u] \/ conflicted[u]
    <2> DEFINE rest == op[o].rest \ ({t} \cup passed)
    <2>1. /\ t \in Tabs /\ rest \in SUBSET Tabs /\ rest \in SUBSET op[o].rest
          /\ t \notin rest /\ dirty[t] /\ t \in op[o].rest
      BY OpIsTyped
    <2>2. Open(t)
      BY <2>1 DEF FsTyped, ClosedIsBlank, Open
    <2>3. to \in Tabs \cup Paths \cup {None, "failed"} /\ to \in {op[o].to, "failed"}
      BY OpIsTyped
    <2>4. to # "failed" => op[o].at = "saved"
      BY DEF ContinueReload
    <2>5. "reload" \in Callers /\ "reload" \notin {"activate", "close"} /\ "reload" # "select" /\ "reload" # "rename"
      BY DEF Callers
    <2>6. Begin(o, Saving("reload", t, to, rest))
      BY <1>2
    <2>7. Saves(o, "reload", t, None, to, rest)
      <3> HIDE DEF to, rest
      <3> QED
        BY <2>1, <2>2, <2>3, <2>5, <2>6, SaveDoes
    <2>8. \A u \in op[o].rest \ rest : u = t \/ ~dirty[u] \/ conflicted[u]
      OBVIOUS
    <2> QED
      BY <2>1, <2>2, <2>3, <2>4, <2>7, <2>8
  <1>3. \/ left = {} /\ End(o)
        \/ left = {} /\ to # "failed" /\ Begin(o, [Idle EXCEPT !.at = "reset", !.then = "reload"])
        \/ \E t \in left, passed \in SUBSET (op[o].rest \ left) :
             Begin(o, Saving("reload", t, to, op[o].rest \ ({t} \cup passed)))
    BY DEF ContinueReload
  <1> QED
    BY <1>1, <1>2, <1>3, EndDoes

LEMMA WriteDoes ==
  ASSUME FsTyped, NEW o \in Ops, Write(o)
  PROVE  \/ /\ files[op[o].path] \in {None, op[o].base} /\ Goes(o, {"wrote"})
            /\ files' = [files EXCEPT ![op[o].path] = op[o].text]
         \/ Goes(o, {"refused"}) /\ UNCHANGED files
  <1>1. MayGo(op[o], "wrote") /\ MayGo(op[o], "refused")
    BY DEF Write, Awaits, MayGo, Awaiting, Resuming, OfTab, OfPath, Renames
  <1> QED
    BY <1>1, GoDoes DEF Write, CompareAndWrite, Unchanged

LEMMA ForceWriteDoes ==
  ASSUME FsTyped, NEW o \in Ops, ForceWrite(o)
  PROVE  Goes(o, {"wrote"})
  <1>1. MayGo(op[o], "wrote")
    BY DEF ForceWrite, Awaits, MayGo, Awaiting, Resuming, OfTab, OfPath, Renames
  <1> QED
    BY <1>1, GoDoes DEF ForceWrite

LEMMA ReadDoes ==
  ASSUME FsTyped, NEW o \in Ops, Read(o)
  PROVE  \/ files[op[o].path] # None /\ Gets(o, files[op[o].path])
         \/ files[op[o].path] = None /\ GivesUp(o)
  <1>1. op[o] \in Operation /\ WellFormed(op[o]) /\ op[o].at \in {"read", "reread", "open"}
    BY OpIsTyped DEF Read, Awaits
  <1>2. ASSUME files[op[o].path] # None PROVE Gets(o, files[op[o].path])
    <2> DEFINE place == IF op[o].at = "read" THEN "got" ELSE IF op[o].at = "reread" THEN "gotAgain" ELSE "opened"
               r == [op[o] EXCEPT !.disk = files[op[o].path], !.at = place]
    <2>1. op[o].path \in Paths /\ files[op[o].path] \in Texts
      BY <1>1, <1>2 DEF WellFormed, OfTab, OfPath, FsTyped, TabsTyped
    <2>2. Begin(o, r)
      BY <1>1, <1>2 DEF Read
    <2>3. /\ r.at = place /\ r.disk = files[op[o].path]
          /\ r.then = op[o].then /\ r.tab = op[o].tab /\ r.path = op[o].path /\ r.text = op[o].text
          /\ r.base = op[o].base /\ r.from = op[o].from /\ r.to = op[o].to /\ r.rest = op[o].rest
      BY <1>1 DEF Operation
    <2>4. r \in Operation
      BY <1>1, <2>1 DEF Operation, Awaiting
    <2> HIDE DEF r
    <2>5. WellFormed(r)
      BY <1>1, <2>3 DEF WellFormed, OfTab, OfPath, Renames
    <2> QED
      BY <1>1, <2>2, <2>3, <2>4, <2>5, SetOp DEF FsTyped, Proper, Gets, Calling, Others
  <1> QED
    BY <1>2, FailedDoes DEF Read

LEMMA WriteMergedDoes ==
  ASSUME FsTyped, NEW o \in Ops, WriteMerged(o)
  PROVE  \/ /\ files[op[o].path] \in {None, op[o].disk} /\ Goes(o, {"merged"})
            /\ files' = [files EXCEPT ![op[o].path] = Merged(o)]
         \/ Goes(o, {"mergeRefused"}) /\ UNCHANGED files
  <1>1. MayGo(op[o], "merged") /\ MayGo(op[o], "mergeRefused")
    BY DEF WriteMerged, Awaits, MayGo, Awaiting, Resuming, OfTab, OfPath, Renames
  <1> QED
    BY <1>1, GoDoes DEF WriteMerged, CompareAndWrite, Unchanged

LEMMA DeleteFileDoes ==
  ASSUME FsTyped, NEW o \in Ops, DeleteFile(o)
  PROVE  \/ files[op[o].path] # None /\ Goes(o, {"deleted"})
         \/ files[op[o].path] = None /\ Ends(o)
  <1>1. MayGo(op[o], "deleted")
    BY DEF DeleteFile, Awaits, MayGo, Awaiting, Resuming, OfTab, OfPath, Renames
  <1> QED
    BY <1>1, GoDoes, EndDoes DEF DeleteFile

LEMMA RenameFileDoes ==
  ASSUME FsTyped, NEW o \in Ops, RenameFile(o)
  PROVE  LET p == op[o].from   q == op[o].to IN
         \/ /\ p \in Paths /\ q \in Paths /\ files[p] # None /\ files[q] = None
            /\ files' = [files EXCEPT ![p] = None, ![q] = files[p]]
            /\ Goes(o, {"list"})
         \/ Ends(o) /\ UNCHANGED files
  <1>1. op[o].then = "rename" /\ op[o].from \in Paths /\ op[o].to \in Paths
    BY OpIsTyped DEF RenameFile, Awaits, WellFormed, Renames
  <1>2. MayGo(op[o], "list")
    BY <1>1 DEF RenameFile, Awaits, MayGo, Awaiting, Resuming, OfTab, OfPath, Renames
  <1> QED
    BY <1>1, <1>2, GoDoes, EndDoes DEF RenameFile

LEMMA WroteDoes ==
  ASSUME FsTyped, NEW o \in Ops, Wrote(o)
  PROVE  Goes(o, {"saved"})
  <1>1. MayGo(op[o], "saved")
    BY DEF Wrote, Awaits, MayGo, Awaiting, Resuming, OfTab, OfPath, Renames
  <1> QED
    BY <1>1, GoDoes DEF Wrote

LEMMA RefusedDoes ==
  ASSUME FsTyped, NEW o \in Ops, Refused(o)
  PROVE  \/ Open(op[o].tab) /\ Checks(o, op[o].tab, op[o].rest)
         \/ ChecksOut(o)
  <1>1. op[o].tab \in Tabs
    BY OpIsTyped DEF Refused, Awaits, WellFormed, OfTab
  <1> QED
    BY <1>1, SetOp, CheckingIsProper, EndCheckDoes DEF Refused, FsTyped, Checks, Calling, Others

LEMMA DecideDoes ==
  ASSUME FsTyped, NEW o \in Ops, Decide(o)
  PROVE  \/ ChecksOut(o)
         \/ /\ Merges(o, content[op[o].tab]) /\ KeepTab /\ ~Stale(o)
            /\ op[o].disk # base[op[o].tab] /\ content[op[o].tab] # base[op[o].tab]
  <1>1. op[o] \in Operation /\ WellFormed(op[o]) /\ op[o].at = "got" /\ op[o].tab \in Tabs
    BY OpIsTyped DEF Decide, Awaits, WellFormed, OfTab
  <1> DEFINE t == op[o].tab
             r == [op[o] EXCEPT !.at = "merge", !.text = content[t]]
  <1>2. ASSUME Begin(o, r) PROVE Merges(o, content[t])
    <2>1. content[t] \in Texts
      BY <1>1 DEF FsTyped, TabsTyped
    <2>3. /\ r.at = "merge" /\ r.text = content[t]
          /\ r.then = op[o].then /\ r.tab = op[o].tab /\ r.path = op[o].path /\ r.disk = op[o].disk
          /\ r.base = op[o].base /\ r.from = op[o].from /\ r.to = op[o].to /\ r.rest = op[o].rest
      BY <1>1 DEF Operation
    <2>4. r \in Operation
      BY <1>1, <2>1 DEF Operation, Awaiting
    <2> HIDE DEF r
    <2>5. WellFormed(r)
      BY <1>1, <2>3 DEF WellFormed, OfTab, OfPath, Renames
    <2> QED
      BY <1>2, <2>3, <2>4, <2>5, SetOp DEF FsTyped, Proper, Merges, Calling, Others
  <1>3. ASSUME Cardinality({op[o].disk, base[t], content[t]}) = 3
        PROVE  op[o].disk # base[t] /\ content[t] # base[t]
    <2>1. ASSUME NEW x, NEW y PROVE Cardinality({x, y}) # 3
      BY <2>1, PairsAreSmall
    <2>2. CASE op[o].disk = base[t]
      BY <1>3, <2>1, <2>2
    <2>3. CASE content[t] = base[t]
      BY <1>3, <2>1, <2>3
    <2> QED
      BY <2>2, <2>3
  <1> QED
    BY <1>2, <1>3, EndCheckDoes DEF Decide

LEMMA FinishMergeDoes ==
  ASSUME FsTyped, NEW o \in Ops, FinishMerge(o)
  PROVE  ChecksOut(o)
  BY EndCheckDoes DEF FinishMerge

LEMMA DiscardedDoes ==
  ASSUME FsTyped, NEW o \in Ops, Discarded(o)
  PROVE  \/ op[o].then = "activate" /\ Goes(o, {"goto"})
         \/ Ends(o)
  <1>1. op[o].then = "activate" => MayGo(op[o], "goto")
    BY DEF MayGo, Awaiting, Resuming, OfTab, OfPath, Renames
  <1> QED
    BY <1>1, GoDoes, EndDoes DEF Discarded, Goes

LEMMA OpenedDoes ==
  ASSUME FsTyped, NEW o \in Ops, Opened(o)
  PROVE  Ends(o)
  BY EndDoes DEF Opened

LEMMA DeletedDoes ==
  ASSUME FsTyped, NEW o \in Ops, Deleted(o)
  PROVE  /\ Removes(o, {t \in Tabs : path[t] = op[o].path})
         /\ Forget({t \in Tabs : path[t] = op[o].path})
         /\ active' = active \/ (active' = None /\ active \in {t \in Tabs : path[t] = op[o].path})
  BY RemoveDoes DEF Deleted

LEMMA RenamedDoes ==
  ASSUME FsTyped, NEW o \in Ops, Renamed(o)
  PROVE  Ends(o)
  BY EndDoes DEF Renamed

LEMMA ResetDoneDoes ==
  ASSUME FsTyped, NEW o \in Ops, ResetDone(o)
  PROVE  Ends(o)
  BY EndDoes DEF ResetDone

LEMMA OverwriteDoes ==
  ASSUME FsTyped, NEW o \in Ops, NEW t \in Tabs, Overwrite(o, t)
  PROVE  Forces(o, t)
  <1> DEFINE r == [Saving("none", t, None, {}) EXCEPT !.at = "force"]
  <1>1. Begin(o, r) /\ Open(t)
    BY DEF Overwrite
  <1>2. /\ Proper(r) /\ r.at = "force" /\ r.then = "none" /\ r.tab = t /\ r.path = path[t] /\ r.text = content[t]
        /\ r.base = base[t] /\ r.from = None /\ r.to = None /\ r.rest = {}
    BY <1>1, ForcingIsProper DEF FsTyped
  <1> HIDE DEF r
  <1> QED
    BY <1>1, <1>2, SetOp DEF FsTyped, Forces, Calling, Takes, Others

LEMMA DiscardDoes ==
  ASSUME FsTyped, NEW o \in Ops, NEW t \in Tabs, Discard(o, t)
  PROVE  Rereads(o, "none", t)
  BY SetOp, RereadingIsProper DEF Discard, FsTyped, Rereads, Others

LEMMA SwitchTabDoes ==
  ASSUME FsTyped, NEW o \in Ops, NEW t \in Tabs, SwitchTab(o, t)
  PROVE  Turns(o, t)
  BY SetOp, GoToIsProper DEF SwitchTab, FsTyped, Turns, Others

LEMMA CloseDoes ==
  ASSUME FsTyped, NEW o \in Ops, NEW t \in Tabs, Close(o, t)
  PROVE  \/ dirty[t] /\ Saves(o, "close", t, None, t, {})
         \/ ~dirty[t] /\ Resumes(o, "close", None, t, {})
  <1>1. "close" \in Callers /\ t \in Tabs \cup Paths \cup {None, "failed"} /\ {} \in SUBSET Tabs
    BY DEF Callers
  <1>2. CASE dirty[t]
    <2>1. Begin(o, Saving("close", t, t, {})) /\ Open(t)
      BY <1>2 DEF Close
    <2> QED
      BY <1>1, <1>2, <2>1, SaveDoes
  <1>3. CASE ~dirty[t]
    <2>1. Begin(o, Resumed("close", t, {}))
      BY <1>3 DEF Close
    <2> QED
      BY <1>1, <1>3, <2>1, SetOp, ResumedIsProper DEF FsTyped, Resumes, Calling, Others
  <1> QED
    BY <1>2, <1>3

LEMMA SelectDoes ==
  ASSUME FsTyped, NEW o \in Ops, NEW p \in Paths, Select(o, p)
  PROVE  \/ \E t \in OpenTabs : path[t] = p /\ UNCHANGED pending /\ (Rereads(o, "activate", t) \/ Turns(o, t))
         \/ p \notin {path[t] : t \in Tabs} /\ Flushes(o, "select", None, p)
  <1>1. ASSUME NEW t \in OpenTabs, Begin(o, IF conflicted[t] THEN Rereading("activate", t) ELSE GoTo(o, t))
        PROVE  Rereads(o, "activate", t) \/ Turns(o, t)
    <2>1. t \in Tabs /\ Open(t)
      BY DEF OpenTabs
    <2>2. CASE conflicted[t]
      BY <1>1, <2>1, <2>2, SetOp, RereadingIsProper DEF FsTyped, Rereads, Others
    <2>3. CASE ~conflicted[t]
      BY <1>1, <2>1, <2>3, SetOp, GoToIsProper DEF FsTyped, Turns, Others
    <2> QED
      BY <2>2, <2>3
  <1>2. "select" \in Callers
    BY DEF Callers
  <1> QED
    BY <1>1, <1>2, FlushDoes DEF Select

LEMMA DeleteDoes ==
  ASSUME FsTyped, NEW o \in Ops, NEW p \in Paths, Delete(o, p)
  PROVE  Asks(o, "delete", "none", p, None)
  <1> DEFINE r == [Idle EXCEPT !.at = "delete", !.path = p]
  <1>1. Begin(o, r)
    BY DEF Delete
  <1>2. Proper(r) /\ r.at = "delete" /\ r.then = "none" /\ r.path = p /\ r.to = None
    BY DeletingIsProper
  <1> HIDE DEF r
  <1> QED
    BY <1>1, <1>2, SetOp DEF FsTyped, Asks, Others

LEMMA RenameDoes ==
  ASSUME FsTyped, NEW o \in Ops, NEW p \in Paths, NEW q \in Paths, Rename(o, p, q)
  PROVE  \/ Flushes(o, "rename", p, q)
         \/ StartsRenaming(o, p, q) /\ UNCHANGED pending
  <1>1. "rename" \in Callers
    BY DEF Callers
  <1> QED
    BY <1>1, FlushDoes, SetOp, RenameNowIsProper DEF Rename, FsTyped, StartsRenaming, Others

LEMMA ReloadDoes ==
  ASSUME FsTyped, NEW o \in Ops, Reload(o)
  PROVE  Resumes(o, "reload", None, None, OpenTabs)
  <1>1. "reload" \in Callers /\ OpenTabs \in SUBSET Tabs
    BY DEF Callers, OpenTabs
  <1> QED
    BY <1>1, SetOp, ResumedIsProper DEF Reload, FsTyped, Resumes, Calling, Others

LEMMA WatchDoes ==
  ASSUME FsTyped, NEW o \in Ops, Watch(o)
  PROVE  Resumes(o, "watch", None, None, OpenTabs)
  <1>1. "watch" \in Callers /\ OpenTabs \in SUBSET Tabs
    BY DEF Callers, OpenTabs
  <1> QED
    BY <1>1, SetOp, ResumedIsProper DEF Watch, FsTyped, Resumes, Calling, Others

LEMMA DiskFailsDoes ==
  ASSUME FsTyped, NEW o \in Ops, DiskFails(o)
  PROVE  GivesUp(o)
  BY FailedDoes DEF DiskFails

LEMMA AutoSaveDoes ==
  ASSUME FsTyped, AutoSave
  PROVE  \/ UNCHANGED op
         \/ \E o \in Ops : /\ Free(o) /\ pending \in Tabs /\ Open(pending) /\ dirty[pending]
                         /\ Saves(o, "none", pending, None, None, {})
  <1>1. ASSUME NEW o \in Ops, pending # None, Open(pending), Begin(o, Saving("none", pending, None, {}))
        PROVE  pending \in Tabs /\ Saves(o, "none", pending, None, None, {})
    <2>1. pending \in Tabs /\ "none" \in Callers /\ {} \in SUBSET Tabs
      BY <1>1 DEF FsTyped, TabsTyped, Callers
    <2> QED
      BY <1>1, <2>1, SaveDoes
  <1> QED
    BY <1>1 DEF AutoSave

----------------------------------------------------------------------------
(* Types *)

(* The operations keep their types. *)
LEMMA OpsTypedStep == FsTyped /\ [Next]_vars => OpsTyped'
  <1> SUFFICES ASSUME FsTyped, [Next]_vars PROVE OpsTyped'
    OBVIOUS
  <1>1. ASSUME NEW o \in Ops, ContinueSave(o) PROVE OpsTyped'
    BY <1>1, ContinueSaveDoes DEF FsTyped, Others, Ends
  <1>2. ASSUME NEW o \in Ops, ContinueWatch(o) PROVE OpsTyped'
    BY <1>2, ContinueWatchDoes DEF FsTyped, Others, Ends, Calling, Checks
  <1>3. ASSUME NEW o \in Ops, ContinueClose(o) PROVE OpsTyped'
    BY <1>3, ContinueCloseDoes DEF FsTyped, Others, Ends, Turns, Removes
  <1>4. ASSUME NEW o \in Ops, Activate(o) PROVE OpsTyped'
    BY <1>4, ActivateDoes DEF FsTyped, Others, Ends, Calling, Takes, Saves, Resumes, Flushes
  <1>5. ASSUME NEW o \in Ops, ContinueActivate(o) PROVE OpsTyped'
    BY <1>5, ContinueActivateDoes DEF FsTyped, Others, Ends
  <1>6. ASSUME NEW o \in Ops, ContinueSelect(o) PROVE OpsTyped'
    BY <1>6, ContinueSelectDoes DEF FsTyped, Others, Asks
  <1>7. ASSUME NEW o \in Ops, ContinueRename(o) PROVE OpsTyped'
    BY <1>7, ContinueRenameDoes DEF FsTyped, Others, Ends, StartsRenaming
  <1>8. ASSUME NEW o \in Ops, ContinueReload(o) PROVE OpsTyped'
    BY <1>8, ContinueReloadDoes DEF FsTyped, Others, Ends, Calling, Takes, Saves, Asks
  <1>9. ASSUME NEW o \in Ops, Write(o) PROVE OpsTyped'
    BY <1>9, WriteDoes DEF FsTyped, Others, Keeps, Goes
  <1>10. ASSUME NEW o \in Ops, ForceWrite(o) PROVE OpsTyped'
    BY <1>10, ForceWriteDoes DEF FsTyped, Others, Keeps, Goes
  <1>11. ASSUME NEW o \in Ops, Read(o) PROVE OpsTyped'
    BY <1>11, ReadDoes DEF FsTyped, Others, Keeps, Ends, Goes, Calling, ChecksOut, Gets, GivesUp
  <1>12. ASSUME NEW o \in Ops, WriteMerged(o) PROVE OpsTyped'
    BY <1>12, WriteMergedDoes DEF FsTyped, Others, Keeps, Goes
  <1>13. ASSUME NEW o \in Ops, DeleteFile(o) PROVE OpsTyped'
    BY <1>13, DeleteFileDoes DEF FsTyped, Others, Keeps, Ends, Goes
  <1>14. ASSUME NEW o \in Ops, RenameFile(o) PROVE OpsTyped'
    BY <1>14, RenameFileDoes DEF FsTyped, Others, Keeps, Ends, Goes
  <1>15. ASSUME NEW o \in Ops, Wrote(o) PROVE OpsTyped'
    BY <1>15, WroteDoes DEF FsTyped, Others, Keeps, Goes
  <1>16. ASSUME NEW o \in Ops, Refused(o) PROVE OpsTyped'
    BY <1>16, RefusedDoes DEF FsTyped, Others, Keeps, Goes, Calling, Checks, ChecksOut
  <1>17. ASSUME NEW o \in Ops, Decide(o) PROVE OpsTyped'
    BY <1>17, DecideDoes DEF FsTyped, Others, Keeps, Goes, Calling, ChecksOut, Merges
  <1>18. ASSUME NEW o \in Ops, FinishMerge(o) PROVE OpsTyped'
    BY <1>18, FinishMergeDoes DEF FsTyped, Others, Keeps, Goes, ChecksOut
  <1>19. ASSUME NEW o \in Ops, Discarded(o) PROVE OpsTyped'
    BY <1>19, DiscardedDoes DEF FsTyped, Others, Keeps, Ends, Goes
  <1>20. ASSUME NEW o \in Ops, Opened(o) PROVE OpsTyped'
    BY <1>20, OpenedDoes DEF FsTyped, Others, Ends
  <1>21. ASSUME NEW o \in Ops, Deleted(o) PROVE OpsTyped'
    BY <1>21, DeletedDoes DEF FsTyped, Others, Ends, Turns, Removes
  <1>22. ASSUME NEW o \in Ops, Renamed(o) PROVE OpsTyped'
    BY <1>22, RenamedDoes DEF FsTyped, Others, Ends
  <1>23. ASSUME NEW o \in Ops, ResetDone(o) PROVE OpsTyped'
    BY <1>23, ResetDoneDoes DEF FsTyped, Others, Ends
  <1>24. ASSUME NEW o \in Ops, NEW t \in Tabs, Overwrite(o, t) PROVE OpsTyped'
    BY <1>24, OverwriteDoes DEF FsTyped, Others, Calling, Takes, Forces
  <1>25. ASSUME NEW o \in Ops, NEW t \in Tabs, Discard(o, t) PROVE OpsTyped'
    BY <1>25, DiscardDoes DEF FsTyped, Others, Rereads
  <1>26. ASSUME NEW o \in Ops, NEW t \in Tabs, SwitchTab(o, t) PROVE OpsTyped'
    BY <1>26, SwitchTabDoes DEF FsTyped, Others, Turns
  <1>27. ASSUME NEW o \in Ops, NEW t \in Tabs, Close(o, t) PROVE OpsTyped'
    BY <1>27, CloseDoes DEF FsTyped, Others, Calling, Takes, Saves, Resumes
  <1>28. ASSUME NEW o \in Ops, NEW p \in Paths, Select(o, p) PROVE OpsTyped'
    BY <1>28, SelectDoes DEF FsTyped, Others, Calling, Takes, Saves, Resumes, Flushes, Turns,
       Rereads
  <1>29. ASSUME NEW o \in Ops, NEW p \in Paths, Delete(o, p) PROVE OpsTyped'
    BY <1>29, DeleteDoes DEF FsTyped, Others, Asks
  <1>30. ASSUME NEW o \in Ops, NEW p \in Paths, NEW q \in Paths, Rename(o, p, q) PROVE OpsTyped'
    BY <1>30, RenameDoes DEF FsTyped, Others, Calling, Takes, Saves, Resumes, Flushes,
       StartsRenaming
  <1>31. ASSUME NEW o \in Ops, Reload(o) PROVE OpsTyped'
    BY <1>31, ReloadDoes DEF FsTyped, Others, Calling, Resumes
  <1>32. ASSUME NEW o \in Ops, Watch(o) PROVE OpsTyped'
    BY <1>32, WatchDoes DEF FsTyped, Others, Calling, Resumes
  <1>33. ASSUME NEW o \in Ops, DiskFails(o) PROVE OpsTyped'
    BY <1>33, DiskFailsDoes DEF FsTyped, Others, Keeps, Ends, Goes, ChecksOut, GivesUp
  <1>34. CASE AutoSave
    BY <1>34, AutoSaveDoes DEF FsTyped, OpsTyped, Others, Calling, Saves
  <1>35. ASSUME NEW t \in Tabs, NEW e \in UserEdits, Type(t, e) PROVE OpsTyped'
    BY <1>35 DEF Type, FsTyped, OpsTyped
  <1>36. ASSUME NEW p \in Paths, NEW e \in ExternalEdits, Change(p, e) PROVE OpsTyped'
    BY <1>36 DEF Change, FsTyped, OpsTyped
  <1>37. CASE UNCHANGED vars
    BY <1>37 DEF vars, FsTyped, OpsTyped, tabs
  <1> QED
    BY <1>1, <1>2, <1>3, <1>4, <1>5, <1>6, <1>7, <1>8, <1>9, <1>10, <1>11, <1>12, <1>13, <1>14,
       <1>15, <1>16, <1>17, <1>18, <1>19, <1>20, <1>21, <1>22, <1>23, <1>24, <1>25, <1>26, <1>27,
       <1>28, <1>29, <1>30, <1>31, <1>32, <1>33, <1>34, <1>35, <1>36, <1>37 DEF Next, Continue,
       Backend, Answer, User

(* What the helpers of the actions do with the store. *)
LEMMA EventsTyped == ASSUME TabsTyped, NEW use, Does(use) PROVE events' \in Nat
  BY DEF TabsTyped, Does

LEMMA MergedTyped == ASSUME FsTyped, NEW o \in Ops PROVE Merged(o) \in Texts
  <1>1. op[o].disk \in Texts /\ op[o].text \in Texts /\ op[o].base \in Texts
    BY OpIsTyped
  <1> QED
    BY <1>1 DEF Merged, Merge, Texts

LEMMA ForgetTyped ==
  ASSUME TabsTyped, NEW closed, Forget(closed)
  PROVE  /\ path' \in [Tabs -> Paths \cup {None}]
         /\ content' \in [Tabs -> Texts] /\ base' \in [Tabs -> Texts]
         /\ dirty' \in [Tabs -> BOOLEAN] /\ conflicted' \in [Tabs -> BOOLEAN]
         /\ \A t \in Tabs : path'[t] = IF t \in closed THEN None ELSE path[t]
         /\ \A t \in Tabs \ closed :
              content'[t] = content[t] /\ base'[t] = base[t] /\ dirty'[t] = dirty[t] /\ conflicted'[t] = conflicted[t]
         /\ \A t \in Tabs \cap closed : content'[t] = {} /\ base'[t] = {} /\ ~dirty'[t] /\ ~conflicted'[t]
  <1>1. {} \in Texts
    BY DEF Texts
  <1>2. path' \in [Tabs -> Paths \cup {None}] /\ \A t \in Tabs : path'[t] = IF t \in closed THEN None ELSE path[t]
    BY DEF TabsTyped, Forget
  <1>3. content' \in [Tabs -> Texts] /\ \A t \in Tabs : content'[t] = IF t \in closed THEN {} ELSE content[t]
    BY <1>1 DEF TabsTyped, Forget
  <1>4. base' \in [Tabs -> Texts] /\ \A t \in Tabs : base'[t] = IF t \in closed THEN {} ELSE base[t]
    BY <1>1 DEF TabsTyped, Forget
  <1>5. dirty' \in [Tabs -> BOOLEAN] /\ \A t \in Tabs : dirty'[t] = (dirty[t] /\ t \notin closed)
    BY DEF TabsTyped, Forget
  <1>6. conflicted' \in [Tabs -> BOOLEAN] /\ \A t \in Tabs : conflicted'[t] = (conflicted[t] /\ t \notin closed)
    BY DEF TabsTyped, Forget
  <1>7. /\ \A t \in Tabs \ closed : dirty'[t] = dirty[t] /\ conflicted'[t] = conflicted[t]
        /\ \A t \in Tabs \cap closed : ~dirty'[t] /\ ~conflicted'[t]
    <2>1. \A t \in Tabs \ closed : dirty'[t] = dirty[t]
      BY DEF TabsTyped, Forget
    <2>2. \A t \in Tabs \ closed : conflicted'[t] = conflicted[t]
      BY DEF TabsTyped, Forget
    <2>3. \A t \in Tabs \cap closed : ~dirty'[t] /\ ~conflicted'[t]
      BY <1>5, <1>6
    <2> QED
      BY <2>1, <2>2, <2>3
  <1> QED
    BY <1>2, <1>3, <1>4, <1>5, <1>6, <1>7

(* Files and tabs keep their types. *)
LEMMA TabsTypedStep == FsTyped /\ [Next]_vars => TabsTyped'
  <1> SUFFICES ASSUME FsTyped, [Next]_vars PROVE TabsTyped'
    OBVIOUS
  <1> USE DEF FsTyped, TabsTyped, Open, OpenTabs
  <1>1. ASSUME NEW o \in Ops, ContinueSave(o) PROVE TabsTyped'
    BY <1>1, ContinueSaveDoes, OpIsTyped DEF ContinueSave, tabs
  <1>2. ASSUME NEW o \in Ops, ContinueWatch(o) PROVE TabsTyped'
    BY <1>2, ContinueWatchDoes, OpIsTyped DEF ContinueWatch, OpenTabs, Open, tabs
  <1>3. ASSUME NEW o \in Ops, ContinueClose(o) PROVE TabsTyped'
    BY <1>3, ContinueCloseDoes, OpIsTyped, ForgetTyped DEF ContinueClose, tabs
  <1>4. ASSUME NEW o \in Ops, Activate(o) PROVE TabsTyped'
    BY <1>4, ActivateDoes, OpIsTyped DEF Activate, Open, Flushes, Begin, tabs
  <1>5. ASSUME NEW o \in Ops, ContinueActivate(o) PROVE TabsTyped'
    BY <1>5, ContinueActivateDoes, OpIsTyped DEF ContinueActivate, WellFormed, tabs
  <1>6. ASSUME NEW o \in Ops, ContinueSelect(o) PROVE TabsTyped'
    BY <1>6, ContinueSelectDoes, OpIsTyped DEF ContinueSelect, tabs
  <1>7. ASSUME NEW o \in Ops, ContinueRename(o) PROVE TabsTyped'
    BY <1>7, ContinueRenameDoes, OpIsTyped DEF ContinueRename, tabs
  <1>8. ASSUME NEW o \in Ops, ContinueReload(o) PROVE TabsTyped'
    BY <1>8, ContinueReloadDoes, OpIsTyped DEF ContinueReload, tabs
  <1>9. ASSUME NEW o \in Ops, Write(o) PROVE TabsTyped'
    BY <1>9, WriteDoes, OpIsTyped DEF Write, Awaits, CompareAndWrite, tabs
  <1>10. ASSUME NEW o \in Ops, ForceWrite(o) PROVE TabsTyped'
    BY <1>10, ForceWriteDoes, OpIsTyped DEF ForceWrite, Awaits, tabs
  <1>11. ASSUME NEW o \in Ops, Read(o) PROVE TabsTyped'
    BY <1>11, ReadDoes, OpIsTyped DEF Read, Awaits, tabs
  <1>12. ASSUME NEW o \in Ops, WriteMerged(o) PROVE TabsTyped'
    BY <1>12, WriteMergedDoes, OpIsTyped, MergedTyped DEF WriteMerged, Awaits, CompareAndWrite,
       WellFormed, OfTab, OfPath, tabs
  <1>13. ASSUME NEW o \in Ops, DeleteFile(o) PROVE TabsTyped'
    BY <1>13, DeleteFileDoes, OpIsTyped DEF DeleteFile, Awaits, tabs
  <1>14. ASSUME NEW o \in Ops, RenameFile(o) PROVE TabsTyped'
    BY <1>14, RenameFileDoes, OpIsTyped DEF RenameFile, Awaits, tabs
  <1>15. ASSUME NEW o \in Ops, Wrote(o) PROVE TabsTyped'
    BY <1>15, WroteDoes, OpIsTyped DEF Wrote, Awaits, Open
  <1>16. ASSUME NEW o \in Ops, Refused(o) PROVE TabsTyped'
    BY <1>16, RefusedDoes, OpIsTyped DEF Refused, Awaits, Open, tabs
  <1>17. ASSUME NEW o \in Ops, Decide(o) PROVE TabsTyped'
    <2>1. path' \in [Tabs -> Paths \cup {None}]
      BY <1>17, DecideDoes, OpIsTyped DEF Decide, Awaits, Stale, KeepTab, ConflictOver, Adopt,
         TakeDisk, Conflict, CancelPendingSaveFor, WellFormed, OfTab
    <2>2. content' \in [Tabs -> Texts]
      BY <1>17, DecideDoes, OpIsTyped DEF Decide, Awaits, Stale, KeepTab, ConflictOver, Adopt,
         TakeDisk, Conflict, CancelPendingSaveFor, WellFormed, OfTab
    <2>3. base' \in [Tabs -> Texts]
      BY <1>17, DecideDoes, OpIsTyped DEF Decide, Awaits, Stale, KeepTab, ConflictOver, Adopt,
         TakeDisk, Conflict, CancelPendingSaveFor, WellFormed, OfTab
    <2>4. dirty' \in [Tabs -> BOOLEAN]
      BY <1>17, DecideDoes, OpIsTyped DEF Decide, Awaits, Stale, KeepTab, ConflictOver, Adopt,
         TakeDisk, Conflict, CancelPendingSaveFor, WellFormed, OfTab
    <2>5. conflicted' \in [Tabs -> BOOLEAN]
      BY <1>17, DecideDoes, OpIsTyped DEF Decide, Awaits, Stale, KeepTab, ConflictOver, Adopt,
         TakeDisk, Conflict, CancelPendingSaveFor, WellFormed, OfTab
    <2>6. pending' \in Tabs \cup {None} /\ active' \in Tabs \cup {None}
      BY <1>17, DecideDoes, OpIsTyped DEF Decide, Awaits, Stale, KeepTab, ConflictOver, Adopt,
         TakeDisk, Conflict, CancelPendingSaveFor, WellFormed, OfTab
    <2>7. files' \in [Paths -> Texts \cup {None}] /\ navigator' \in Ops \cup {None} /\ events' \in Nat
      BY <1>17, DecideDoes, OpIsTyped DEF Decide, Awaits, Stale, KeepTab, ConflictOver, Adopt,
         TakeDisk, Conflict, CancelPendingSaveFor, WellFormed, OfTab
    <2> QED
      BY <2>1, <2>2, <2>3, <2>4, <2>5, <2>6, <2>7
  <1>18. ASSUME NEW o \in Ops, FinishMerge(o) PROVE TabsTyped'
    <2>1. path' \in [Tabs -> Paths \cup {None}]
      BY <1>18, FinishMergeDoes, OpIsTyped, MergedTyped DEF FinishMerge, Awaits, Stale,
         CancelPendingSaveFor, KeepTab, WellFormed, OfTab
    <2>2. content' \in [Tabs -> Texts]
      BY <1>18, FinishMergeDoes, OpIsTyped, MergedTyped DEF FinishMerge, Awaits, Stale,
         CancelPendingSaveFor, KeepTab, WellFormed, OfTab
    <2>3. base' \in [Tabs -> Texts]
      BY <1>18, FinishMergeDoes, OpIsTyped, MergedTyped DEF FinishMerge, Awaits, Stale,
         CancelPendingSaveFor, KeepTab, WellFormed, OfTab
    <2>4. dirty' \in [Tabs -> BOOLEAN]
      BY <1>18, FinishMergeDoes, OpIsTyped, MergedTyped DEF FinishMerge, Awaits, Stale,
         CancelPendingSaveFor, KeepTab, WellFormed, OfTab
    <2>5. conflicted' \in [Tabs -> BOOLEAN]
      BY <1>18, FinishMergeDoes, OpIsTyped, MergedTyped DEF FinishMerge, Awaits, Stale,
         CancelPendingSaveFor, KeepTab, WellFormed, OfTab
    <2>6. pending' \in Tabs \cup {None} /\ active' \in Tabs \cup {None}
      BY <1>18, FinishMergeDoes, OpIsTyped, MergedTyped DEF FinishMerge, Awaits, Stale,
         CancelPendingSaveFor, KeepTab, WellFormed, OfTab
    <2>7. files' \in [Paths -> Texts \cup {None}] /\ navigator' \in Ops \cup {None} /\ events' \in Nat
      BY <1>18, FinishMergeDoes, OpIsTyped, MergedTyped DEF FinishMerge, Awaits, Stale,
         CancelPendingSaveFor, KeepTab, WellFormed, OfTab
    <2> QED
      BY <2>1, <2>2, <2>3, <2>4, <2>5, <2>6, <2>7
  <1>19. ASSUME NEW o \in Ops, Discarded(o) PROVE TabsTyped'
    <2>1. path' \in [Tabs -> Paths \cup {None}]
      BY <1>19, DiscardedDoes, OpIsTyped DEF Discarded, Awaits, Open, Adopt, KeepTab, TakeDisk,
         CancelPendingSaveFor
    <2>2. content' \in [Tabs -> Texts]
      BY <1>19, DiscardedDoes, OpIsTyped DEF Discarded, Awaits, Open, Adopt, KeepTab, TakeDisk,
         CancelPendingSaveFor
    <2>3. base' \in [Tabs -> Texts]
      BY <1>19, DiscardedDoes, OpIsTyped DEF Discarded, Awaits, Open, Adopt, KeepTab, TakeDisk,
         CancelPendingSaveFor
    <2>4. dirty' \in [Tabs -> BOOLEAN]
      BY <1>19, DiscardedDoes, OpIsTyped DEF Discarded, Awaits, Open, Adopt, KeepTab, TakeDisk,
         CancelPendingSaveFor
    <2>5. conflicted' \in [Tabs -> BOOLEAN]
      BY <1>19, DiscardedDoes, OpIsTyped DEF Discarded, Awaits, Open, Adopt, KeepTab, TakeDisk,
         CancelPendingSaveFor
    <2>6. pending' \in Tabs \cup {None} /\ active' \in Tabs \cup {None}
      BY <1>19, DiscardedDoes, OpIsTyped DEF Discarded, Awaits, Open, Adopt, KeepTab, TakeDisk,
         CancelPendingSaveFor
    <2>7. files' \in [Paths -> Texts \cup {None}] /\ navigator' \in Ops \cup {None} /\ events' \in Nat
      BY <1>19, DiscardedDoes, OpIsTyped DEF Discarded, Awaits, Open, Adopt, KeepTab, TakeDisk,
         CancelPendingSaveFor
    <2> QED
      BY <2>1, <2>2, <2>3, <2>4, <2>5, <2>6, <2>7
  <1>20. ASSUME NEW o \in Ops, Opened(o) PROVE TabsTyped'
    <2>1. path' \in [Tabs -> Paths \cup {None}]
      BY <1>20, OpenedDoes, OpIsTyped DEF Opened, Awaits, WellFormed, OfTab, OfPath
    <2>2. content' \in [Tabs -> Texts]
      BY <1>20, OpenedDoes, OpIsTyped DEF Opened, Awaits, WellFormed, OfTab, OfPath
    <2>3. base' \in [Tabs -> Texts]
      BY <1>20, OpenedDoes, OpIsTyped DEF Opened, Awaits, WellFormed, OfTab, OfPath
    <2>4. dirty' \in [Tabs -> BOOLEAN]
      BY <1>20, OpenedDoes, OpIsTyped DEF Opened, Awaits, WellFormed, OfTab, OfPath
    <2>5. conflicted' \in [Tabs -> BOOLEAN]
      BY <1>20, OpenedDoes, OpIsTyped DEF Opened, Awaits, WellFormed, OfTab, OfPath
    <2>6. pending' \in Tabs \cup {None} /\ active' \in Tabs \cup {None}
      BY <1>20, OpenedDoes, OpIsTyped DEF Opened, Awaits, WellFormed, OfTab, OfPath
    <2>7. files' \in [Paths -> Texts \cup {None}] /\ navigator' \in Ops \cup {None} /\ events' \in Nat
      BY <1>20, OpenedDoes, OpIsTyped DEF Opened, Awaits, WellFormed, OfTab, OfPath
    <2> QED
      BY <2>1, <2>2, <2>3, <2>4, <2>5, <2>6, <2>7
  <1>21. ASSUME NEW o \in Ops, Deleted(o) PROVE TabsTyped'
    BY <1>21, DeletedDoes, OpIsTyped, ForgetTyped DEF Deleted, Awaits
  <1>22. ASSUME NEW o \in Ops, Renamed(o) PROVE TabsTyped'
    BY <1>22, RenamedDoes, OpIsTyped DEF Renamed, Awaits, WellFormed, Renames
  <1>23. ASSUME NEW o \in Ops, ResetDone(o) PROVE TabsTyped'
    BY <1>23, ResetDoneDoes, OpIsTyped, ForgetTyped DEF ResetDone, Awaits, tabs
  <1>24. ASSUME NEW o \in Ops, NEW t \in Tabs, Overwrite(o, t) PROVE TabsTyped'
    BY <1>24, OverwriteDoes, OpIsTyped, EventsTyped DEF Overwrite, Open, tabs
  <1>25. ASSUME NEW o \in Ops, NEW t \in Tabs, Discard(o, t) PROVE TabsTyped'
    BY <1>25, DiscardDoes, OpIsTyped, EventsTyped DEF Discard, Open, tabs
  <1>26. ASSUME NEW o \in Ops, NEW t \in Tabs, SwitchTab(o, t) PROVE TabsTyped'
    BY <1>26, SwitchTabDoes, OpIsTyped, EventsTyped DEF SwitchTab, Open, tabs
  <1>27. ASSUME NEW o \in Ops, NEW t \in Tabs, Close(o, t) PROVE TabsTyped'
    BY <1>27, CloseDoes, OpIsTyped, EventsTyped DEF Close, Open, CancelPendingSaveFor, tabs
  <1>28. ASSUME NEW o \in Ops, NEW p \in Paths, Select(o, p) PROVE TabsTyped'
    BY <1>28, SelectDoes, OpIsTyped, EventsTyped DEF Select, OpenTabs, Open, Flushes, Begin, tabs
  <1>29. ASSUME NEW o \in Ops, NEW p \in Paths, Delete(o, p) PROVE TabsTyped'
    BY <1>29, DeleteDoes, OpIsTyped, EventsTyped DEF Delete, tabs
  <1>30. ASSUME NEW o \in Ops, NEW p \in Paths, NEW q \in Paths, Rename(o, p, q) PROVE TabsTyped'
    BY <1>30, RenameDoes, OpIsTyped, EventsTyped DEF Rename, Flushes, Begin, tabs
  <1>31. ASSUME NEW o \in Ops, Reload(o) PROVE TabsTyped'
    BY <1>31, ReloadDoes, OpIsTyped, EventsTyped DEF Reload, OpenTabs, Open, tabs
  <1>32. ASSUME NEW o \in Ops, Watch(o) PROVE TabsTyped'
    BY <1>32, WatchDoes, OpIsTyped DEF Watch, OpenTabs, Open, tabs
  <1>33. ASSUME NEW o \in Ops, DiskFails(o) PROVE TabsTyped'
    BY <1>33, DiskFailsDoes, OpIsTyped, EventsTyped DEF DiskFails, Awaits, tabs
  <1>34. CASE AutoSave
    BY <1>34, AutoSaveDoes DEF AutoSave, Open, tabs
  <1>35. ASSUME NEW t \in Tabs, NEW e \in UserEdits, Type(t, e) PROVE TabsTyped'
    BY <1>35, EventsTyped DEF Type, Texts
  <1>36. ASSUME NEW p \in Paths, NEW e \in ExternalEdits, Change(p, e) PROVE TabsTyped'
    BY <1>36, EventsTyped DEF Change, tabs, Texts
  <1>37. CASE UNCHANGED vars
    BY <1>37 DEF vars, tabs
  <1> QED
    BY <1>1, <1>2, <1>3, <1>4, <1>5, <1>6, <1>7, <1>8, <1>9, <1>10, <1>11, <1>12, <1>13, <1>14,
       <1>15, <1>16, <1>17, <1>18, <1>19, <1>20, <1>21, <1>22, <1>23, <1>24, <1>25, <1>26, <1>27,
       <1>28, <1>29, <1>30, <1>31, <1>32, <1>33, <1>34, <1>35, <1>36, <1>37 DEF Next, Continue,
       Backend, Answer, User

(* A closed tab holds nothing. *)
LEMMA BlankStep == FsTyped /\ [Next]_vars => ClosedIsBlank'
  <1> SUFFICES ASSUME FsTyped, [Next]_vars PROVE ClosedIsBlank'
    OBVIOUS
  <1> USE NoneIsApart DEF FsTyped, TabsTyped, ClosedIsBlank, Open, OpenTabs
  <1>1. ASSUME NEW o \in Ops, ContinueSave(o) PROVE ClosedIsBlank'
    BY <1>1, ContinueSaveDoes, OpIsTyped DEF ContinueSave, tabs
  <1>2. ASSUME NEW o \in Ops, ContinueWatch(o) PROVE ClosedIsBlank'
    BY <1>2, ContinueWatchDoes, OpIsTyped DEF ContinueWatch, OpenTabs, Open, tabs
  <1>3. ASSUME NEW o \in Ops, ContinueClose(o) PROVE ClosedIsBlank'
    BY <1>3, ContinueCloseDoes, OpIsTyped, ForgetTyped DEF ContinueClose, tabs
  <1>4. ASSUME NEW o \in Ops, Activate(o) PROVE ClosedIsBlank'
    BY <1>4, ActivateDoes, OpIsTyped DEF Activate, Open, Flushes, Begin, tabs
  <1>5. ASSUME NEW o \in Ops, ContinueActivate(o) PROVE ClosedIsBlank'
    BY <1>5, ContinueActivateDoes, OpIsTyped DEF ContinueActivate, WellFormed, tabs
  <1>6. ASSUME NEW o \in Ops, ContinueSelect(o) PROVE ClosedIsBlank'
    BY <1>6, ContinueSelectDoes, OpIsTyped DEF ContinueSelect, tabs
  <1>7. ASSUME NEW o \in Ops, ContinueRename(o) PROVE ClosedIsBlank'
    BY <1>7, ContinueRenameDoes, OpIsTyped DEF ContinueRename, tabs
  <1>8. ASSUME NEW o \in Ops, ContinueReload(o) PROVE ClosedIsBlank'
    BY <1>8, ContinueReloadDoes, OpIsTyped DEF ContinueReload, tabs
  <1>9. ASSUME NEW o \in Ops, Write(o) PROVE ClosedIsBlank'
    BY <1>9, WriteDoes, OpIsTyped DEF Write, Awaits, CompareAndWrite, tabs
  <1>10. ASSUME NEW o \in Ops, ForceWrite(o) PROVE ClosedIsBlank'
    BY <1>10, ForceWriteDoes, OpIsTyped DEF ForceWrite, Awaits, tabs
  <1>11. ASSUME NEW o \in Ops, Read(o) PROVE ClosedIsBlank'
    BY <1>11, ReadDoes, OpIsTyped DEF Read, Awaits, tabs
  <1>12. ASSUME NEW o \in Ops, WriteMerged(o) PROVE ClosedIsBlank'
    BY <1>12, WriteMergedDoes, OpIsTyped, MergedTyped DEF WriteMerged, Awaits, CompareAndWrite,
       WellFormed, OfTab, OfPath, tabs
  <1>13. ASSUME NEW o \in Ops, DeleteFile(o) PROVE ClosedIsBlank'
    BY <1>13, DeleteFileDoes, OpIsTyped DEF DeleteFile, Awaits, tabs
  <1>14. ASSUME NEW o \in Ops, RenameFile(o) PROVE ClosedIsBlank'
    BY <1>14, RenameFileDoes, OpIsTyped DEF RenameFile, Awaits, tabs
  <1>15. ASSUME NEW o \in Ops, Wrote(o) PROVE ClosedIsBlank'
    BY <1>15, WroteDoes, OpIsTyped DEF Wrote, Awaits, Open
  <1>16. ASSUME NEW o \in Ops, Refused(o) PROVE ClosedIsBlank'
    BY <1>16, RefusedDoes, OpIsTyped DEF Refused, Awaits, Open, tabs
  <1>17. ASSUME NEW o \in Ops, Decide(o) PROVE ClosedIsBlank'
    <2>1. op[o].tab \in Tabs /\ op[o].path \in Paths /\ path' = path
      BY <1>17, OpIsTyped DEF Decide, Awaits, WellFormed, OfTab, OfPath
    <2>2. CASE UNCHANGED <<content, base, dirty, conflicted>>
      BY <2>1, <2>2
    <2>3. CASE ~Stale(o)
      <3>1. path[op[o].tab] # None
        BY <2>1, <2>3 DEF Stale
      <3>2. \A t \in Tabs : t # op[o].tab => content'[t] = content[t] /\ base'[t] = base[t]
        BY <1>17, <2>1 DEF Decide, Awaits, KeepTab, ConflictOver, Adopt, TakeDisk, Conflict,
           CancelPendingSaveFor, WellFormed, OfTab
      <3>3. \A t \in Tabs : t # op[o].tab => dirty'[t] = dirty[t]
        BY <1>17, <2>1 DEF Decide, Awaits, KeepTab, ConflictOver, Adopt, TakeDisk, Conflict,
           CancelPendingSaveFor, WellFormed, OfTab
      <3>4. \A t \in Tabs : t # op[o].tab => conflicted'[t] = conflicted[t]
        BY <1>17, <2>1 DEF Decide, Awaits, KeepTab, ConflictOver, Adopt, TakeDisk, Conflict,
           CancelPendingSaveFor, WellFormed, OfTab
      <3> QED
        BY <2>1, <3>1, <3>2, <3>3, <3>4
    <2> QED
      BY <1>17, <2>2, <2>3 DEF Decide, KeepTab
  <1>18. ASSUME NEW o \in Ops, FinishMerge(o) PROVE ClosedIsBlank'
    <2>1. op[o].tab \in Tabs /\ op[o].path \in Paths /\ path' = path
      BY <1>18, OpIsTyped DEF FinishMerge, Awaits, WellFormed, OfTab, OfPath
    <2>2. CASE UNCHANGED <<content, base, dirty, conflicted>>
      BY <2>1, <2>2
    <2>3. CASE ~Stale(o)
      <3>1. path[op[o].tab] # None
        BY <2>1, <2>3 DEF Stale
      <3>2. \A t \in Tabs : t # op[o].tab => content'[t] = content[t] /\ base'[t] = base[t]
        BY <1>18, <2>1 DEF FinishMerge, Awaits, CancelPendingSaveFor, KeepTab, WellFormed, OfTab
      <3>3. \A t \in Tabs : t # op[o].tab => dirty'[t] = dirty[t]
        BY <1>18, <2>1 DEF FinishMerge, Awaits, CancelPendingSaveFor, KeepTab, WellFormed, OfTab
      <3>4. \A t \in Tabs : t # op[o].tab => conflicted'[t] = conflicted[t]
        BY <1>18, <2>1 DEF FinishMerge, Awaits, CancelPendingSaveFor, KeepTab, WellFormed, OfTab
      <3> QED
        BY <2>1, <3>1, <3>2, <3>3, <3>4
    <2> QED
      BY <1>18, <2>2, <2>3 DEF FinishMerge, KeepTab
  <1>19. ASSUME NEW o \in Ops, Discarded(o) PROVE ClosedIsBlank'
    BY <1>19, DiscardedDoes, OpIsTyped DEF Discarded, Awaits, Open, Adopt, KeepTab, TakeDisk,
       CancelPendingSaveFor
  <1>20. ASSUME NEW o \in Ops, Opened(o) PROVE ClosedIsBlank'
    BY <1>20, OpenedDoes, OpIsTyped DEF Opened, Awaits, WellFormed, OfTab, OfPath
  <1>21. ASSUME NEW o \in Ops, Deleted(o) PROVE ClosedIsBlank'
    BY <1>21, DeletedDoes, OpIsTyped, ForgetTyped DEF Deleted, Awaits
  <1>22. ASSUME NEW o \in Ops, Renamed(o) PROVE ClosedIsBlank'
    BY <1>22, RenamedDoes, OpIsTyped DEF Renamed, Awaits, WellFormed, Renames
  <1>23. ASSUME NEW o \in Ops, ResetDone(o) PROVE ClosedIsBlank'
    BY <1>23, ResetDoneDoes, OpIsTyped, ForgetTyped DEF ResetDone, Awaits, tabs
  <1>24. ASSUME NEW o \in Ops, NEW t \in Tabs, Overwrite(o, t) PROVE ClosedIsBlank'
    BY <1>24, OverwriteDoes, OpIsTyped, EventsTyped DEF Overwrite, Open, tabs
  <1>25. ASSUME NEW o \in Ops, NEW t \in Tabs, Discard(o, t) PROVE ClosedIsBlank'
    BY <1>25, DiscardDoes, OpIsTyped, EventsTyped DEF Discard, Open, tabs
  <1>26. ASSUME NEW o \in Ops, NEW t \in Tabs, SwitchTab(o, t) PROVE ClosedIsBlank'
    BY <1>26, SwitchTabDoes, OpIsTyped, EventsTyped DEF SwitchTab, Open, tabs
  <1>27. ASSUME NEW o \in Ops, NEW t \in Tabs, Close(o, t) PROVE ClosedIsBlank'
    BY <1>27, CloseDoes, OpIsTyped, EventsTyped DEF Close, Open, CancelPendingSaveFor, tabs
  <1>28. ASSUME NEW o \in Ops, NEW p \in Paths, Select(o, p) PROVE ClosedIsBlank'
    BY <1>28, SelectDoes, OpIsTyped, EventsTyped DEF Select, OpenTabs, Open, Flushes, Begin, tabs
  <1>29. ASSUME NEW o \in Ops, NEW p \in Paths, Delete(o, p) PROVE ClosedIsBlank'
    BY <1>29, DeleteDoes, OpIsTyped, EventsTyped DEF Delete, tabs
  <1>30. ASSUME NEW o \in Ops, NEW p \in Paths, NEW q \in Paths, Rename(o, p, q) PROVE ClosedIsBlank'
    BY <1>30, RenameDoes, OpIsTyped, EventsTyped DEF Rename, Flushes, Begin, tabs
  <1>31. ASSUME NEW o \in Ops, Reload(o) PROVE ClosedIsBlank'
    BY <1>31, ReloadDoes, OpIsTyped, EventsTyped DEF Reload, OpenTabs, Open, tabs
  <1>32. ASSUME NEW o \in Ops, Watch(o) PROVE ClosedIsBlank'
    BY <1>32, WatchDoes, OpIsTyped DEF Watch, OpenTabs, Open, tabs
  <1>33. ASSUME NEW o \in Ops, DiskFails(o) PROVE ClosedIsBlank'
    BY <1>33, DiskFailsDoes, OpIsTyped, EventsTyped DEF DiskFails, Awaits, tabs
  <1>34. CASE AutoSave
    BY <1>34, AutoSaveDoes DEF AutoSave, Open, tabs
  <1>35. ASSUME NEW t \in Tabs, NEW e \in UserEdits, Type(t, e) PROVE ClosedIsBlank'
    BY <1>35, EventsTyped DEF Type, Texts
  <1>36. ASSUME NEW p \in Paths, NEW e \in ExternalEdits, Change(p, e) PROVE ClosedIsBlank'
    BY <1>36, EventsTyped DEF Change, tabs, Texts
  <1>37. CASE UNCHANGED vars
    BY <1>37 DEF vars, tabs
  <1> QED
    BY <1>1, <1>2, <1>3, <1>4, <1>5, <1>6, <1>7, <1>8, <1>9, <1>10, <1>11, <1>12, <1>13, <1>14,
       <1>15, <1>16, <1>17, <1>18, <1>19, <1>20, <1>21, <1>22, <1>23, <1>24, <1>25, <1>26, <1>27,
       <1>28, <1>29, <1>30, <1>31, <1>32, <1>33, <1>34, <1>35, <1>36, <1>37 DEF Next, Continue,
       Backend, Answer, User

(* Files, tabs and operations under way keep their types, and what an      *)
(* operation is at says which of its locals are set: for any number of     *)
(* tabs, files and operations that overlap.                                *)
THEOREM FsInvariance == Spec => []FsTyped
  <1>1. Init => FsTyped
    <2> SUFFICES ASSUME Init PROVE FsTyped
      OBVIOUS
    <2>1. TabsTyped
      BY MaxEventsAssumption DEF Init, TabsTyped, Texts
    <2>2. OpsTyped
      BY IdleIsProper DEF Init, OpsTyped, Proper
    <2>3. ClosedIsBlank
      BY DEF Init, ClosedIsBlank
    <2> QED
      BY <2>1, <2>2, <2>3 DEF FsTyped
  <1>2. FsTyped /\ [Next]_vars => FsTyped'
    BY TabsTypedStep, OpsTypedStep, BlankStep DEF FsTyped
  <1> QED
    BY <1>1, <1>2, PTL DEF Spec

(* The tabs of app.svelte.ts are well formed, and a closed one holds       *)
(* nothing of the file it had.                                             *)
THEOREM TabsTypeCorrect == Spec => []TypeOK
  <1>1. FsTyped => TypeOK
    BY DEF FsTyped, TabsTyped, OpsTyped, ClosedIsBlank, TypeOK
  <1> QED
    BY <1>1, FsInvariance, PTL

----------------------------------------------------------------------------
(* Tabs and files *)

Plain == Uses \cap {"rename", "delete"} = {}
Alone == (\A o, p \in Ops : o = p) /\ "listFails" \notin Uses
Orderly == Plain \/ Alone

(* Who opens a file: no tab has it yet, and nobody else opens it.          *)
Selecting(o) == op[o].then = "select"
OpensAlone ==
  /\ \A o \in Ops : Selecting(o) => \A t \in Tabs : path[t] # op[o].to
  /\ \A o, p \in Ops : Selecting(o) /\ Selecting(p) /\ op[o].to = op[p].to => o = p
OpensWhatItSelects ==
  \A o \in Ops : op[o].at \in {"open", "opened"} => Selecting(o) /\ op[o].path = op[o].to
IdleIsNobodys == \A o \in Ops : op[o].at = "idle" => op[o].then = "none"
Moving(o) == op[o].then = "rename" \/ op[o].at \in {"delete", "deleted"}
MovesAlone == Alone \/ \A o \in Ops : ~Moving(o)
OpenedExists == \A o \in Ops : op[o].at = "opened" => files[op[o].path] # None
ListsItsFile ==
  \A o \in Ops : op[o].at = "list" => files[op[o].to] # None /\ \A t \in Tabs : path[t] # op[o].to
GoneFrom(o, p) == (op[o].at = "list" /\ op[o].from = p) \/ (op[o].at = "deleted" /\ op[o].path = p)
HasFiles ==
  \A t \in Tabs : path[t] # None => files[path[t]] # None \/ \E o \in Ops : GoneFrom(o, path[t])
OneTabEach == Alone => OneTabPerFile /\ OpensAlone
OrInv ==
  /\ OneTabEach /\ OpensWhatItSelects /\ IdleIsNobodys /\ MovesAlone
  /\ OpenedExists /\ ListsItsFile /\ HasFiles

(* What one step does. *)
PathsShrink ==
  (\A t \in Tabs : path'[t] \in {path[t], None}) \/ \E o \in Ops : Opened(o) \/ Renamed(o)
FilesStay ==
  (\A p \in Paths : files[p] # None => files'[p] # None) \/ \E o \in Ops : DeleteFile(o) \/ RenameFile(o)
SelectersStay ==
  \/ \A o \in Ops : Selecting(o)' => Selecting(o) /\ op'[o].to = op[o].to
  \/ \E o \in Ops, p \in Paths : Select(o, p)
ReadsAreOfFiles ==
  \A o \in Ops : op'[o].at = "opened" =>
    \/ op'[o] = op[o]
    \/ Read(o) /\ op'[o].path = op[o].path /\ files[op[o].path] # None
(* What renaming and deleting do when they are over. *)
MovesEnd ==
  \A o \in Ops :
    /\ op[o].at \in {"list", "deleted"} =>
         op'[o] = op[o] \/ Renamed(o) \/ Deleted(o) \/ (DiskFails(o) /\ op[o].at = "list")
    /\ op'[o].at = "list" => op'[o] = op[o] \/ RenameFile(o)
    /\ op'[o].at = "deleted" => op'[o] = op[o] \/ DeleteFile(o)

(* Only opening a file and renaming one put a tab on another file. *)
LEMMA PathSteps == FsTyped /\ [Next]_vars => PathsShrink
  <1> SUFFICES ASSUME FsTyped, [Next]_vars PROVE PathsShrink
    OBVIOUS
  <1> USE  DEF PathsShrink
  <1>1. ASSUME NEW o \in Ops, ContinueSave(o) PROVE PathsShrink
    BY <1>1 DEF ContinueSave, tabs
  <1>2. ASSUME NEW o \in Ops, ContinueWatch(o) PROVE PathsShrink
    BY <1>2 DEF ContinueWatch, tabs
  <1>3. ASSUME NEW o \in Ops, ContinueClose(o) PROVE PathsShrink
    BY <1>3, ContinueCloseDoes, ForgetTyped DEF ContinueClose, FsTyped, tabs
  <1>4. ASSUME NEW o \in Ops, Activate(o) PROVE PathsShrink
    BY <1>4 DEF Activate, tabs
  <1>5. ASSUME NEW o \in Ops, ContinueActivate(o) PROVE PathsShrink
    BY <1>5 DEF ContinueActivate, tabs
  <1>6. ASSUME NEW o \in Ops, ContinueSelect(o) PROVE PathsShrink
    BY <1>6 DEF ContinueSelect, tabs
  <1>7. ASSUME NEW o \in Ops, ContinueRename(o) PROVE PathsShrink
    BY <1>7 DEF ContinueRename, tabs
  <1>8. ASSUME NEW o \in Ops, ContinueReload(o) PROVE PathsShrink
    BY <1>8 DEF ContinueReload, tabs
  <1>9. ASSUME NEW o \in Ops, Write(o) PROVE PathsShrink
    BY <1>9 DEF Write, CompareAndWrite, tabs
  <1>10. ASSUME NEW o \in Ops, ForceWrite(o) PROVE PathsShrink
    BY <1>10 DEF ForceWrite, tabs
  <1>11. ASSUME NEW o \in Ops, Read(o) PROVE PathsShrink
    BY <1>11 DEF Read, tabs
  <1>12. ASSUME NEW o \in Ops, WriteMerged(o) PROVE PathsShrink
    BY <1>12 DEF WriteMerged, CompareAndWrite, tabs
  <1>13. ASSUME NEW o \in Ops, DeleteFile(o) PROVE PathsShrink
    BY <1>13 DEF DeleteFile, tabs
  <1>14. ASSUME NEW o \in Ops, RenameFile(o) PROVE PathsShrink
    BY <1>14 DEF RenameFile, tabs
  <1>15. ASSUME NEW o \in Ops, Wrote(o) PROVE PathsShrink
    BY <1>15 DEF Wrote, tabs
  <1>16. ASSUME NEW o \in Ops, Refused(o) PROVE PathsShrink
    BY <1>16 DEF Refused, tabs
  <1>17. ASSUME NEW o \in Ops, Decide(o) PROVE PathsShrink
    BY <1>17 DEF Decide, tabs
  <1>18. ASSUME NEW o \in Ops, FinishMerge(o) PROVE PathsShrink
    BY <1>18 DEF FinishMerge, tabs
  <1>19. ASSUME NEW o \in Ops, Discarded(o) PROVE PathsShrink
    BY <1>19 DEF Discarded, tabs
  <1>20. ASSUME NEW o \in Ops, Opened(o) PROVE PathsShrink
    BY <1>20 DEF Opened, tabs
  <1>21. ASSUME NEW o \in Ops, Deleted(o) PROVE PathsShrink
    BY <1>21, DeletedDoes, ForgetTyped DEF Deleted, FsTyped, tabs
  <1>22. ASSUME NEW o \in Ops, Renamed(o) PROVE PathsShrink
    BY <1>22 DEF Renamed, tabs
  <1>23. ASSUME NEW o \in Ops, ResetDone(o) PROVE PathsShrink
    BY <1>23, ForgetTyped DEF ResetDone, FsTyped, tabs
  <1>24. ASSUME NEW o \in Ops, NEW t \in Tabs, Overwrite(o, t) PROVE PathsShrink
    BY <1>24 DEF Overwrite, tabs
  <1>25. ASSUME NEW o \in Ops, NEW t \in Tabs, Discard(o, t) PROVE PathsShrink
    BY <1>25 DEF Discard, tabs
  <1>26. ASSUME NEW o \in Ops, NEW t \in Tabs, SwitchTab(o, t) PROVE PathsShrink
    BY <1>26 DEF SwitchTab, tabs
  <1>27. ASSUME NEW o \in Ops, NEW t \in Tabs, Close(o, t) PROVE PathsShrink
    BY <1>27 DEF Close, tabs
  <1>28. ASSUME NEW o \in Ops, NEW p \in Paths, Select(o, p) PROVE PathsShrink
    BY <1>28 DEF Select, tabs
  <1>29. ASSUME NEW o \in Ops, NEW p \in Paths, Delete(o, p) PROVE PathsShrink
    BY <1>29 DEF Delete, tabs
  <1>30. ASSUME NEW o \in Ops, NEW p \in Paths, NEW q \in Paths, Rename(o, p, q) PROVE PathsShrink
    BY <1>30 DEF Rename, tabs
  <1>31. ASSUME NEW o \in Ops, Reload(o) PROVE PathsShrink
    BY <1>31 DEF Reload, tabs
  <1>32. ASSUME NEW o \in Ops, Watch(o) PROVE PathsShrink
    BY <1>32 DEF Watch, tabs
  <1>33. ASSUME NEW o \in Ops, DiskFails(o) PROVE PathsShrink
    BY <1>33 DEF DiskFails, tabs
  <1>34. CASE AutoSave
    BY <1>34 DEF AutoSave, tabs
  <1>35. ASSUME NEW t \in Tabs, NEW e \in UserEdits, Type(t, e) PROVE PathsShrink
    BY <1>35 DEF Type, tabs
  <1>36. ASSUME NEW p \in Paths, NEW e \in ExternalEdits, Change(p, e) PROVE PathsShrink
    BY <1>36 DEF Change, tabs
  <1>37. CASE UNCHANGED vars
    BY <1>37 DEF vars, tabs
  <1> QED
    BY <1>1, <1>2, <1>3, <1>4, <1>5, <1>6, <1>7, <1>8, <1>9, <1>10, <1>11, <1>12, <1>13, <1>14,
       <1>15, <1>16, <1>17, <1>18, <1>19, <1>20, <1>21, <1>22, <1>23, <1>24, <1>25, <1>26, <1>27,
       <1>28, <1>29, <1>30, <1>31, <1>32, <1>33, <1>34, <1>35, <1>36, <1>37 DEF Next, Continue,
       Backend, Answer, User

(* Only deleting and renaming take a file away. *)
LEMMA FileSteps == FsTyped /\ [Next]_vars => FilesStay
  <1> SUFFICES ASSUME FsTyped, [Next]_vars PROVE FilesStay
    OBVIOUS
  <1> USE  DEF FilesStay
  <1>1. ASSUME NEW o \in Ops, ContinueSave(o) PROVE FilesStay
    BY <1>1 DEF ContinueSave, tabs
  <1>2. ASSUME NEW o \in Ops, ContinueWatch(o) PROVE FilesStay
    BY <1>2 DEF ContinueWatch, tabs
  <1>3. ASSUME NEW o \in Ops, ContinueClose(o) PROVE FilesStay
    BY <1>3 DEF ContinueClose, tabs
  <1>4. ASSUME NEW o \in Ops, Activate(o) PROVE FilesStay
    BY <1>4 DEF Activate, tabs
  <1>5. ASSUME NEW o \in Ops, ContinueActivate(o) PROVE FilesStay
    BY <1>5 DEF ContinueActivate, tabs
  <1>6. ASSUME NEW o \in Ops, ContinueSelect(o) PROVE FilesStay
    BY <1>6 DEF ContinueSelect, tabs
  <1>7. ASSUME NEW o \in Ops, ContinueRename(o) PROVE FilesStay
    BY <1>7 DEF ContinueRename, tabs
  <1>8. ASSUME NEW o \in Ops, ContinueReload(o) PROVE FilesStay
    BY <1>8 DEF ContinueReload, tabs
  <1>9. ASSUME NEW o \in Ops, Write(o) PROVE FilesStay
    BY <1>9, NoneIsApart, OpIsTyped DEF Write, CompareAndWrite, Awaits, FsTyped, TabsTyped,
       WellFormed, OfTab, OfPath
  <1>10. ASSUME NEW o \in Ops, ForceWrite(o) PROVE FilesStay
    BY <1>10, NoneIsApart, OpIsTyped DEF ForceWrite, CompareAndWrite, Awaits, FsTyped, TabsTyped,
       WellFormed, OfTab, OfPath
  <1>11. ASSUME NEW o \in Ops, Read(o) PROVE FilesStay
    BY <1>11 DEF Read, tabs
  <1>12. ASSUME NEW o \in Ops, WriteMerged(o) PROVE FilesStay
    BY <1>12, NoneIsApart, OpIsTyped, MergedTyped DEF WriteMerged, CompareAndWrite, Awaits,
       FsTyped, TabsTyped, WellFormed, OfTab, OfPath
  <1>13. ASSUME NEW o \in Ops, DeleteFile(o) PROVE FilesStay
    BY <1>13 DEF DeleteFile, tabs
  <1>14. ASSUME NEW o \in Ops, RenameFile(o) PROVE FilesStay
    BY <1>14 DEF RenameFile, tabs
  <1>15. ASSUME NEW o \in Ops, Wrote(o) PROVE FilesStay
    BY <1>15 DEF Wrote, tabs
  <1>16. ASSUME NEW o \in Ops, Refused(o) PROVE FilesStay
    BY <1>16 DEF Refused, tabs
  <1>17. ASSUME NEW o \in Ops, Decide(o) PROVE FilesStay
    BY <1>17 DEF Decide, tabs
  <1>18. ASSUME NEW o \in Ops, FinishMerge(o) PROVE FilesStay
    BY <1>18 DEF FinishMerge, tabs
  <1>19. ASSUME NEW o \in Ops, Discarded(o) PROVE FilesStay
    BY <1>19 DEF Discarded, tabs
  <1>20. ASSUME NEW o \in Ops, Opened(o) PROVE FilesStay
    BY <1>20 DEF Opened, tabs
  <1>21. ASSUME NEW o \in Ops, Deleted(o) PROVE FilesStay
    BY <1>21 DEF Deleted, tabs
  <1>22. ASSUME NEW o \in Ops, Renamed(o) PROVE FilesStay
    BY <1>22 DEF Renamed, tabs
  <1>23. ASSUME NEW o \in Ops, ResetDone(o) PROVE FilesStay
    BY <1>23 DEF ResetDone, tabs
  <1>24. ASSUME NEW o \in Ops, NEW t \in Tabs, Overwrite(o, t) PROVE FilesStay
    BY <1>24 DEF Overwrite, tabs
  <1>25. ASSUME NEW o \in Ops, NEW t \in Tabs, Discard(o, t) PROVE FilesStay
    BY <1>25 DEF Discard, tabs
  <1>26. ASSUME NEW o \in Ops, NEW t \in Tabs, SwitchTab(o, t) PROVE FilesStay
    BY <1>26 DEF SwitchTab, tabs
  <1>27. ASSUME NEW o \in Ops, NEW t \in Tabs, Close(o, t) PROVE FilesStay
    BY <1>27 DEF Close, tabs
  <1>28. ASSUME NEW o \in Ops, NEW p \in Paths, Select(o, p) PROVE FilesStay
    BY <1>28 DEF Select, tabs
  <1>29. ASSUME NEW o \in Ops, NEW p \in Paths, Delete(o, p) PROVE FilesStay
    BY <1>29 DEF Delete, tabs
  <1>30. ASSUME NEW o \in Ops, NEW p \in Paths, NEW q \in Paths, Rename(o, p, q) PROVE FilesStay
    BY <1>30 DEF Rename, tabs
  <1>31. ASSUME NEW o \in Ops, Reload(o) PROVE FilesStay
    BY <1>31 DEF Reload, tabs
  <1>32. ASSUME NEW o \in Ops, Watch(o) PROVE FilesStay
    BY <1>32 DEF Watch, tabs
  <1>33. ASSUME NEW o \in Ops, DiskFails(o) PROVE FilesStay
    BY <1>33 DEF DiskFails, tabs
  <1>34. CASE AutoSave
    BY <1>34 DEF AutoSave, tabs
  <1>35. ASSUME NEW t \in Tabs, NEW e \in UserEdits, Type(t, e) PROVE FilesStay
    BY <1>35 DEF Type, tabs
  <1>36. ASSUME NEW p \in Paths, NEW e \in ExternalEdits, Change(p, e) PROVE FilesStay
    BY <1>36, NoneIsApart DEF Change, CompareAndWrite, Awaits, FsTyped, TabsTyped, WellFormed,
       OfTab, OfPath, Texts
  <1>37. CASE UNCHANGED vars
    BY <1>37 DEF vars, tabs
  <1> QED
    BY <1>1, <1>2, <1>3, <1>4, <1>5, <1>6, <1>7, <1>8, <1>9, <1>10, <1>11, <1>12, <1>13, <1>14,
       <1>15, <1>16, <1>17, <1>18, <1>19, <1>20, <1>21, <1>22, <1>23, <1>24, <1>25, <1>26, <1>27,
       <1>28, <1>29, <1>30, <1>31, <1>32, <1>33, <1>34, <1>35, <1>36, <1>37 DEF Next, Continue,
       Backend, Answer, User

(* Only selecting a file makes an operation one that opens it. *)
LEMMA SelectSteps == FsTyped /\ [Next]_vars => SelectersStay
  <1> SUFFICES ASSUME FsTyped, [Next]_vars PROVE SelectersStay
    OBVIOUS
  <1> USE  DEF SelectersStay, Selecting
  <1>1. ASSUME NEW o \in Ops, ContinueSave(o) PROVE SelectersStay
    BY <1>1, ContinueSaveDoes DEF ContinueSave, Awaits, Others, Ends
  <1>2. ASSUME NEW o \in Ops, ContinueWatch(o) PROVE SelectersStay
    BY <1>2, ContinueWatchDoes DEF ContinueWatch, Awaits, Others, Ends, Calling, Checks
  <1>3. ASSUME NEW o \in Ops, ContinueClose(o) PROVE SelectersStay
    BY <1>3, ContinueCloseDoes DEF ContinueClose, Awaits, Others, Ends, Turns, Removes
  <1>4. ASSUME NEW o \in Ops, Activate(o) PROVE SelectersStay
    BY <1>4, ActivateDoes DEF Activate, Awaits, Others, Ends, Calling, Takes, Saves, Resumes,
       Flushes
  <1>5. ASSUME NEW o \in Ops, ContinueActivate(o) PROVE SelectersStay
    BY <1>5, ContinueActivateDoes DEF ContinueActivate, Awaits, Others, Ends
  <1>6. ASSUME NEW o \in Ops, ContinueSelect(o) PROVE SelectersStay
    BY <1>6, ContinueSelectDoes DEF ContinueSelect, Awaits, Others, Asks
  <1>7. ASSUME NEW o \in Ops, ContinueRename(o) PROVE SelectersStay
    BY <1>7, ContinueRenameDoes DEF ContinueRename, Awaits, Others, Ends, StartsRenaming
  <1>8. ASSUME NEW o \in Ops, ContinueReload(o) PROVE SelectersStay
    BY <1>8, ContinueReloadDoes DEF Others, Ends, Calling, Takes, Saves, Asks
  <1>9. ASSUME NEW o \in Ops, Write(o) PROVE SelectersStay
    BY <1>9, WriteDoes DEF Write, Awaits, Others, Keeps, Goes
  <1>10. ASSUME NEW o \in Ops, ForceWrite(o) PROVE SelectersStay
    BY <1>10, ForceWriteDoes DEF Others, Keeps, Goes
  <1>11. ASSUME NEW o \in Ops, Read(o) PROVE SelectersStay
    BY <1>11, ReadDoes DEF Read, Awaits, Others, Keeps, Ends, Goes, Calling, ChecksOut, Gets,
       GivesUp
  <1>12. ASSUME NEW o \in Ops, WriteMerged(o) PROVE SelectersStay
    BY <1>12, WriteMergedDoes DEF WriteMerged, Awaits, Others, Keeps, Goes
  <1>13. ASSUME NEW o \in Ops, DeleteFile(o) PROVE SelectersStay
    BY <1>13, DeleteFileDoes DEF DeleteFile, Awaits, Others, Keeps, Ends, Goes
  <1>14. ASSUME NEW o \in Ops, RenameFile(o) PROVE SelectersStay
    BY <1>14, RenameFileDoes DEF RenameFile, Awaits, Others, Keeps, Ends, Goes
  <1>15. ASSUME NEW o \in Ops, Wrote(o) PROVE SelectersStay
    BY <1>15, WroteDoes DEF Wrote, Awaits, Others, Keeps, Goes
  <1>16. ASSUME NEW o \in Ops, Refused(o) PROVE SelectersStay
    BY <1>16, RefusedDoes DEF Refused, Awaits, Others, Keeps, Goes, Calling, Checks, ChecksOut
  <1>17. ASSUME NEW o \in Ops, Decide(o) PROVE SelectersStay
    BY <1>17, DecideDoes DEF Others, Keeps, Goes, Calling, ChecksOut, Merges
  <1>18. ASSUME NEW o \in Ops, FinishMerge(o) PROVE SelectersStay
    BY <1>18, FinishMergeDoes DEF FinishMerge, Awaits, Others, Keeps, Goes, ChecksOut
  <1>19. ASSUME NEW o \in Ops, Discarded(o) PROVE SelectersStay
    BY <1>19, DiscardedDoes DEF Discarded, Awaits, Others, Keeps, Ends, Goes
  <1>20. ASSUME NEW o \in Ops, Opened(o) PROVE SelectersStay
    BY <1>20, OpenedDoes DEF Others, Ends
  <1>21. ASSUME NEW o \in Ops, Deleted(o) PROVE SelectersStay
    BY <1>21, DeletedDoes DEF Deleted, Awaits, Others, Ends, Turns, Removes
  <1>22. ASSUME NEW o \in Ops, Renamed(o) PROVE SelectersStay
    BY <1>22, RenamedDoes DEF Renamed, Awaits, Others, Ends
  <1>23. ASSUME NEW o \in Ops, ResetDone(o) PROVE SelectersStay
    BY <1>23, ResetDoneDoes DEF ResetDone, Awaits, Others, Ends
  <1>24. ASSUME NEW o \in Ops, NEW t \in Tabs, Overwrite(o, t) PROVE SelectersStay
    BY <1>24, OverwriteDoes DEF Overwrite, Awaits, Others, Calling, Takes, Forces
  <1>25. ASSUME NEW o \in Ops, NEW t \in Tabs, Discard(o, t) PROVE SelectersStay
    BY <1>25, DiscardDoes DEF Discard, Awaits, Others, Rereads
  <1>26. ASSUME NEW o \in Ops, NEW t \in Tabs, SwitchTab(o, t) PROVE SelectersStay
    BY <1>26, SwitchTabDoes DEF SwitchTab, Awaits, Others, Turns
  <1>27. ASSUME NEW o \in Ops, NEW t \in Tabs, Close(o, t) PROVE SelectersStay
    BY <1>27, CloseDoes DEF Close, Awaits, Others, Calling, Takes, Saves, Resumes
  <1>28. ASSUME NEW o \in Ops, NEW p \in Paths, Select(o, p) PROVE SelectersStay
    BY <1>28, SelectDoes DEF Select, Awaits, Others, Calling, Takes, Saves, Resumes, Flushes,
       Turns, Rereads
  <1>29. ASSUME NEW o \in Ops, NEW p \in Paths, Delete(o, p) PROVE SelectersStay
    BY <1>29, DeleteDoes DEF Delete, Awaits, Others, Asks
  <1>30. ASSUME NEW o \in Ops, NEW p \in Paths, NEW q \in Paths, Rename(o, p, q) PROVE SelectersStay
    BY <1>30, RenameDoes DEF Rename, Awaits, Others, Calling, Takes, Saves, Resumes, Flushes,
       StartsRenaming
  <1>31. ASSUME NEW o \in Ops, Reload(o) PROVE SelectersStay
    BY <1>31, ReloadDoes DEF Reload, Awaits, Others, Calling, Resumes
  <1>32. ASSUME NEW o \in Ops, Watch(o) PROVE SelectersStay
    BY <1>32, WatchDoes DEF Watch, Awaits, Others, Calling, Resumes
  <1>33. ASSUME NEW o \in Ops, DiskFails(o) PROVE SelectersStay
    BY <1>33, DiskFailsDoes DEF DiskFails, Awaits, Others, Keeps, Ends, Goes, ChecksOut, GivesUp
  <1>34. CASE AutoSave
    BY <1>34, AutoSaveDoes DEF AutoSave, Others, Calling, Takes, Saves
  <1>35. ASSUME NEW t \in Tabs, NEW e \in UserEdits, Type(t, e) PROVE SelectersStay
    BY <1>35 DEF Type
  <1>36. ASSUME NEW p \in Paths, NEW e \in ExternalEdits, Change(p, e) PROVE SelectersStay
    BY <1>36 DEF Change
  <1>37. CASE UNCHANGED vars
    BY <1>37 DEF vars
  <1> QED
    BY <1>1, <1>2, <1>3, <1>4, <1>5, <1>6, <1>7, <1>8, <1>9, <1>10, <1>11, <1>12, <1>13, <1>14,
       <1>15, <1>16, <1>17, <1>18, <1>19, <1>20, <1>21, <1>22, <1>23, <1>24, <1>25, <1>26, <1>27,
       <1>28, <1>29, <1>30, <1>31, <1>32, <1>33, <1>34, <1>35, <1>36, <1>37 DEF Next, Continue,
       Backend, Answer, User

(* A file that is being opened stays the one selected. *)
LEMMA OpensStep == FsTyped /\ OpensWhatItSelects /\ [Next]_vars => OpensWhatItSelects'
  <1> SUFFICES ASSUME FsTyped /\ OpensWhatItSelects, [Next]_vars PROVE OpensWhatItSelects'
    OBVIOUS
  <1> USE  DEF OpensWhatItSelects, Selecting
  <1>1. ASSUME NEW o \in Ops, ContinueSave(o) PROVE OpensWhatItSelects'
    BY <1>1, ContinueSaveDoes DEF ContinueSave, Awaits, Others, Ends
  <1>2. ASSUME NEW o \in Ops, ContinueWatch(o) PROVE OpensWhatItSelects'
    BY <1>2, ContinueWatchDoes DEF ContinueWatch, Awaits, Others, Ends, Calling, Checks
  <1>3. ASSUME NEW o \in Ops, ContinueClose(o) PROVE OpensWhatItSelects'
    BY <1>3, ContinueCloseDoes DEF ContinueClose, Awaits, Others, Ends, Turns, Removes
  <1>4. ASSUME NEW o \in Ops, Activate(o) PROVE OpensWhatItSelects'
    BY <1>4, ActivateDoes DEF Activate, Awaits, Others, Ends, Calling, Takes, Saves, Resumes,
       Flushes
  <1>5. ASSUME NEW o \in Ops, ContinueActivate(o) PROVE OpensWhatItSelects'
    BY <1>5, ContinueActivateDoes DEF ContinueActivate, Awaits, Others, Ends
  <1>6. ASSUME NEW o \in Ops, ContinueSelect(o) PROVE OpensWhatItSelects'
    BY <1>6, ContinueSelectDoes DEF ContinueSelect, Awaits, Others, Asks
  <1>7. ASSUME NEW o \in Ops, ContinueRename(o) PROVE OpensWhatItSelects'
    BY <1>7, ContinueRenameDoes DEF ContinueRename, Awaits, Others, Ends, StartsRenaming
  <1>8. ASSUME NEW o \in Ops, ContinueReload(o) PROVE OpensWhatItSelects'
    BY <1>8, ContinueReloadDoes DEF Others, Ends, Calling, Takes, Saves, Asks
  <1>9. ASSUME NEW o \in Ops, Write(o) PROVE OpensWhatItSelects'
    BY <1>9, WriteDoes DEF Write, Awaits, Others, Keeps, Goes
  <1>10. ASSUME NEW o \in Ops, ForceWrite(o) PROVE OpensWhatItSelects'
    BY <1>10, ForceWriteDoes DEF Others, Keeps, Goes
  <1>11. ASSUME NEW o \in Ops, Read(o) PROVE OpensWhatItSelects'
    BY <1>11, ReadDoes DEF Read, Awaits, Others, Keeps, Ends, Goes, Calling, ChecksOut, Gets,
       GivesUp
  <1>12. ASSUME NEW o \in Ops, WriteMerged(o) PROVE OpensWhatItSelects'
    BY <1>12, WriteMergedDoes DEF WriteMerged, Awaits, Others, Keeps, Goes
  <1>13. ASSUME NEW o \in Ops, DeleteFile(o) PROVE OpensWhatItSelects'
    BY <1>13, DeleteFileDoes DEF DeleteFile, Awaits, Others, Keeps, Ends, Goes
  <1>14. ASSUME NEW o \in Ops, RenameFile(o) PROVE OpensWhatItSelects'
    BY <1>14, RenameFileDoes DEF RenameFile, Awaits, Others, Keeps, Ends, Goes
  <1>15. ASSUME NEW o \in Ops, Wrote(o) PROVE OpensWhatItSelects'
    BY <1>15, WroteDoes DEF Wrote, Awaits, Others, Keeps, Goes
  <1>16. ASSUME NEW o \in Ops, Refused(o) PROVE OpensWhatItSelects'
    BY <1>16, RefusedDoes DEF Refused, Awaits, Others, Keeps, Goes, Calling, Checks, ChecksOut
  <1>17. ASSUME NEW o \in Ops, Decide(o) PROVE OpensWhatItSelects'
    BY <1>17, DecideDoes DEF Others, Keeps, Goes, Calling, ChecksOut, Merges
  <1>18. ASSUME NEW o \in Ops, FinishMerge(o) PROVE OpensWhatItSelects'
    BY <1>18, FinishMergeDoes DEF FinishMerge, Awaits, Others, Keeps, Goes, ChecksOut
  <1>19. ASSUME NEW o \in Ops, Discarded(o) PROVE OpensWhatItSelects'
    BY <1>19, DiscardedDoes DEF Discarded, Awaits, Others, Keeps, Ends, Goes
  <1>20. ASSUME NEW o \in Ops, Opened(o) PROVE OpensWhatItSelects'
    BY <1>20, OpenedDoes DEF Others, Ends
  <1>21. ASSUME NEW o \in Ops, Deleted(o) PROVE OpensWhatItSelects'
    BY <1>21, DeletedDoes DEF Deleted, Awaits, Others, Ends, Turns, Removes
  <1>22. ASSUME NEW o \in Ops, Renamed(o) PROVE OpensWhatItSelects'
    BY <1>22, RenamedDoes DEF Renamed, Awaits, Others, Ends
  <1>23. ASSUME NEW o \in Ops, ResetDone(o) PROVE OpensWhatItSelects'
    BY <1>23, ResetDoneDoes DEF ResetDone, Awaits, Others, Ends
  <1>24. ASSUME NEW o \in Ops, NEW t \in Tabs, Overwrite(o, t) PROVE OpensWhatItSelects'
    BY <1>24, OverwriteDoes DEF Overwrite, Awaits, Others, Calling, Takes, Forces
  <1>25. ASSUME NEW o \in Ops, NEW t \in Tabs, Discard(o, t) PROVE OpensWhatItSelects'
    BY <1>25, DiscardDoes DEF Discard, Awaits, Others, Rereads
  <1>26. ASSUME NEW o \in Ops, NEW t \in Tabs, SwitchTab(o, t) PROVE OpensWhatItSelects'
    BY <1>26, SwitchTabDoes DEF SwitchTab, Awaits, Others, Turns
  <1>27. ASSUME NEW o \in Ops, NEW t \in Tabs, Close(o, t) PROVE OpensWhatItSelects'
    BY <1>27, CloseDoes DEF Close, Awaits, Others, Calling, Takes, Saves, Resumes
  <1>28. ASSUME NEW o \in Ops, NEW p \in Paths, Select(o, p) PROVE OpensWhatItSelects'
    BY <1>28, SelectDoes DEF Select, Awaits, Others, Calling, Takes, Saves, Resumes, Flushes,
       Turns, Rereads
  <1>29. ASSUME NEW o \in Ops, NEW p \in Paths, Delete(o, p) PROVE OpensWhatItSelects'
    BY <1>29, DeleteDoes DEF Delete, Awaits, Others, Asks
  <1>30. ASSUME NEW o \in Ops, NEW p \in Paths, NEW q \in Paths, Rename(o, p, q) PROVE OpensWhatItSelects'
    BY <1>30, RenameDoes DEF Rename, Awaits, Others, Calling, Takes, Saves, Resumes, Flushes,
       StartsRenaming
  <1>31. ASSUME NEW o \in Ops, Reload(o) PROVE OpensWhatItSelects'
    BY <1>31, ReloadDoes DEF Reload, Awaits, Others, Calling, Resumes
  <1>32. ASSUME NEW o \in Ops, Watch(o) PROVE OpensWhatItSelects'
    BY <1>32, WatchDoes DEF Watch, Awaits, Others, Calling, Resumes
  <1>33. ASSUME NEW o \in Ops, DiskFails(o) PROVE OpensWhatItSelects'
    BY <1>33, DiskFailsDoes DEF DiskFails, Awaits, Others, Keeps, Ends, Goes, ChecksOut, GivesUp
  <1>34. CASE AutoSave
    BY <1>34, AutoSaveDoes DEF AutoSave, Others, Calling, Takes, Saves
  <1>35. ASSUME NEW t \in Tabs, NEW e \in UserEdits, Type(t, e) PROVE OpensWhatItSelects'
    BY <1>35 DEF Type
  <1>36. ASSUME NEW p \in Paths, NEW e \in ExternalEdits, Change(p, e) PROVE OpensWhatItSelects'
    BY <1>36 DEF Change
  <1>37. CASE UNCHANGED vars
    BY <1>37 DEF vars
  <1> QED
    BY <1>1, <1>2, <1>3, <1>4, <1>5, <1>6, <1>7, <1>8, <1>9, <1>10, <1>11, <1>12, <1>13, <1>14,
       <1>15, <1>16, <1>17, <1>18, <1>19, <1>20, <1>21, <1>22, <1>23, <1>24, <1>25, <1>26, <1>27,
       <1>28, <1>29, <1>30, <1>31, <1>32, <1>33, <1>34, <1>35, <1>36, <1>37 DEF Next, Continue,
       Backend, Answer, User

(* An operation that is over has no caller. *)
LEMMA IdleStep == FsTyped /\ IdleIsNobodys /\ [Next]_vars => IdleIsNobodys'
  <1> SUFFICES ASSUME FsTyped /\ IdleIsNobodys, [Next]_vars PROVE IdleIsNobodys'
    OBVIOUS
  <1> USE  DEF IdleIsNobodys, Free
  <1>1. ASSUME NEW o \in Ops, ContinueSave(o) PROVE IdleIsNobodys'
    BY <1>1, ContinueSaveDoes DEF ContinueSave, Awaits, Others, Ends
  <1>2. ASSUME NEW o \in Ops, ContinueWatch(o) PROVE IdleIsNobodys'
    BY <1>2, ContinueWatchDoes DEF ContinueWatch, Awaits, Others, Ends, Calling, Checks
  <1>3. ASSUME NEW o \in Ops, ContinueClose(o) PROVE IdleIsNobodys'
    BY <1>3, ContinueCloseDoes DEF ContinueClose, Awaits, Others, Ends, Turns, Removes
  <1>4. ASSUME NEW o \in Ops, Activate(o) PROVE IdleIsNobodys'
    BY <1>4, ActivateDoes DEF Activate, Awaits, Others, Ends, Calling, Takes, Saves, Resumes,
       Flushes
  <1>5. ASSUME NEW o \in Ops, ContinueActivate(o) PROVE IdleIsNobodys'
    BY <1>5, ContinueActivateDoes DEF ContinueActivate, Awaits, Others, Ends
  <1>6. ASSUME NEW o \in Ops, ContinueSelect(o) PROVE IdleIsNobodys'
    BY <1>6, ContinueSelectDoes DEF ContinueSelect, Awaits, Others, Asks
  <1>7. ASSUME NEW o \in Ops, ContinueRename(o) PROVE IdleIsNobodys'
    BY <1>7, ContinueRenameDoes DEF ContinueRename, Awaits, Others, Ends, StartsRenaming
  <1>8. ASSUME NEW o \in Ops, ContinueReload(o) PROVE IdleIsNobodys'
    BY <1>8, ContinueReloadDoes DEF Others, Ends, Calling, Takes, Saves, Asks
  <1>9. ASSUME NEW o \in Ops, Write(o) PROVE IdleIsNobodys'
    BY <1>9, WriteDoes DEF Write, Awaits, Others, Keeps, Goes
  <1>10. ASSUME NEW o \in Ops, ForceWrite(o) PROVE IdleIsNobodys'
    BY <1>10, ForceWriteDoes DEF Others, Keeps, Goes
  <1>11. ASSUME NEW o \in Ops, Read(o) PROVE IdleIsNobodys'
    BY <1>11, ReadDoes DEF Read, Awaits, Others, Keeps, Ends, Goes, Calling, ChecksOut, Gets,
       GivesUp
  <1>12. ASSUME NEW o \in Ops, WriteMerged(o) PROVE IdleIsNobodys'
    BY <1>12, WriteMergedDoes DEF WriteMerged, Awaits, Others, Keeps, Goes
  <1>13. ASSUME NEW o \in Ops, DeleteFile(o) PROVE IdleIsNobodys'
    BY <1>13, DeleteFileDoes DEF DeleteFile, Awaits, Others, Keeps, Ends, Goes
  <1>14. ASSUME NEW o \in Ops, RenameFile(o) PROVE IdleIsNobodys'
    BY <1>14, RenameFileDoes DEF RenameFile, Awaits, Others, Keeps, Ends, Goes
  <1>15. ASSUME NEW o \in Ops, Wrote(o) PROVE IdleIsNobodys'
    BY <1>15, WroteDoes DEF Wrote, Awaits, Others, Keeps, Goes
  <1>16. ASSUME NEW o \in Ops, Refused(o) PROVE IdleIsNobodys'
    BY <1>16, RefusedDoes DEF Refused, Awaits, Others, Keeps, Goes, Calling, Checks, ChecksOut
  <1>17. ASSUME NEW o \in Ops, Decide(o) PROVE IdleIsNobodys'
    BY <1>17, DecideDoes DEF Others, Keeps, Goes, Calling, ChecksOut, Merges
  <1>18. ASSUME NEW o \in Ops, FinishMerge(o) PROVE IdleIsNobodys'
    BY <1>18, FinishMergeDoes DEF FinishMerge, Awaits, Others, Keeps, Goes, ChecksOut
  <1>19. ASSUME NEW o \in Ops, Discarded(o) PROVE IdleIsNobodys'
    BY <1>19, DiscardedDoes DEF Discarded, Awaits, Others, Keeps, Ends, Goes
  <1>20. ASSUME NEW o \in Ops, Opened(o) PROVE IdleIsNobodys'
    BY <1>20, OpenedDoes DEF Others, Ends
  <1>21. ASSUME NEW o \in Ops, Deleted(o) PROVE IdleIsNobodys'
    BY <1>21, DeletedDoes DEF Deleted, Awaits, Others, Ends, Turns, Removes
  <1>22. ASSUME NEW o \in Ops, Renamed(o) PROVE IdleIsNobodys'
    BY <1>22, RenamedDoes DEF Renamed, Awaits, Others, Ends
  <1>23. ASSUME NEW o \in Ops, ResetDone(o) PROVE IdleIsNobodys'
    BY <1>23, ResetDoneDoes DEF ResetDone, Awaits, Others, Ends
  <1>24. ASSUME NEW o \in Ops, NEW t \in Tabs, Overwrite(o, t) PROVE IdleIsNobodys'
    BY <1>24, OverwriteDoes DEF Overwrite, Awaits, Others, Calling, Takes, Forces
  <1>25. ASSUME NEW o \in Ops, NEW t \in Tabs, Discard(o, t) PROVE IdleIsNobodys'
    BY <1>25, DiscardDoes DEF Discard, Awaits, Others, Rereads
  <1>26. ASSUME NEW o \in Ops, NEW t \in Tabs, SwitchTab(o, t) PROVE IdleIsNobodys'
    BY <1>26, SwitchTabDoes DEF SwitchTab, Awaits, Others, Turns
  <1>27. ASSUME NEW o \in Ops, NEW t \in Tabs, Close(o, t) PROVE IdleIsNobodys'
    BY <1>27, CloseDoes DEF Close, Awaits, Others, Calling, Takes, Saves, Resumes
  <1>28. ASSUME NEW o \in Ops, NEW p \in Paths, Select(o, p) PROVE IdleIsNobodys'
    BY <1>28, SelectDoes DEF Select, Awaits, Others, Calling, Takes, Saves, Resumes, Flushes,
       Turns, Rereads
  <1>29. ASSUME NEW o \in Ops, NEW p \in Paths, Delete(o, p) PROVE IdleIsNobodys'
    BY <1>29, DeleteDoes DEF Delete, Awaits, Others, Asks
  <1>30. ASSUME NEW o \in Ops, NEW p \in Paths, NEW q \in Paths, Rename(o, p, q) PROVE IdleIsNobodys'
    BY <1>30, RenameDoes DEF Rename, Awaits, Others, Calling, Takes, Saves, Resumes, Flushes,
       StartsRenaming
  <1>31. ASSUME NEW o \in Ops, Reload(o) PROVE IdleIsNobodys'
    BY <1>31, ReloadDoes DEF Reload, Awaits, Others, Calling, Resumes
  <1>32. ASSUME NEW o \in Ops, Watch(o) PROVE IdleIsNobodys'
    BY <1>32, WatchDoes DEF Watch, Awaits, Others, Calling, Resumes
  <1>33. ASSUME NEW o \in Ops, DiskFails(o) PROVE IdleIsNobodys'
    BY <1>33, DiskFailsDoes DEF DiskFails, Awaits, Others, Keeps, Ends, Goes, ChecksOut, GivesUp
  <1>34. CASE AutoSave
    BY <1>34, AutoSaveDoes DEF AutoSave, Others, Calling, Takes, Saves
  <1>35. ASSUME NEW t \in Tabs, NEW e \in UserEdits, Type(t, e) PROVE IdleIsNobodys'
    BY <1>35 DEF Type
  <1>36. ASSUME NEW p \in Paths, NEW e \in ExternalEdits, Change(p, e) PROVE IdleIsNobodys'
    BY <1>36 DEF Change
  <1>37. CASE UNCHANGED vars
    BY <1>37 DEF vars
  <1> QED
    BY <1>1, <1>2, <1>3, <1>4, <1>5, <1>6, <1>7, <1>8, <1>9, <1>10, <1>11, <1>12, <1>13, <1>14,
       <1>15, <1>16, <1>17, <1>18, <1>19, <1>20, <1>21, <1>22, <1>23, <1>24, <1>25, <1>26, <1>27,
       <1>28, <1>29, <1>30, <1>31, <1>32, <1>33, <1>34, <1>35, <1>36, <1>37 DEF Next, Continue,
       Backend, Answer, User

(* Files are only renamed or deleted where that was to be. *)
LEMMA MovingStep == FsTyped /\ Orderly /\ MovesAlone /\ [Next]_vars => MovesAlone'
  <1> SUFFICES ASSUME FsTyped /\ Orderly /\ MovesAlone, [Next]_vars PROVE MovesAlone'
    OBVIOUS
  <1> USE  DEF Orderly, Plain, MovesAlone, Moving, Does
  <1>1. ASSUME NEW o \in Ops, ContinueSave(o) PROVE MovesAlone'
    BY <1>1, ContinueSaveDoes DEF ContinueSave, Awaits, Others, Ends
  <1>2. ASSUME NEW o \in Ops, ContinueWatch(o) PROVE MovesAlone'
    BY <1>2, ContinueWatchDoes DEF ContinueWatch, Awaits, Others, Ends, Calling, Checks
  <1>3. ASSUME NEW o \in Ops, ContinueClose(o) PROVE MovesAlone'
    BY <1>3, ContinueCloseDoes DEF ContinueClose, Awaits, Others, Ends, Turns, Removes
  <1>4. ASSUME NEW o \in Ops, Activate(o) PROVE MovesAlone'
    BY <1>4, ActivateDoes DEF Activate, Awaits, Others, Ends, Calling, Takes, Saves, Resumes,
       Flushes
  <1>5. ASSUME NEW o \in Ops, ContinueActivate(o) PROVE MovesAlone'
    BY <1>5, ContinueActivateDoes DEF ContinueActivate, Awaits, Others, Ends
  <1>6. ASSUME NEW o \in Ops, ContinueSelect(o) PROVE MovesAlone'
    BY <1>6, ContinueSelectDoes DEF ContinueSelect, Awaits, Others, Asks
  <1>7. ASSUME NEW o \in Ops, ContinueRename(o) PROVE MovesAlone'
    BY <1>7, ContinueRenameDoes DEF ContinueRename, Awaits, Others, Ends, StartsRenaming
  <1>8. ASSUME NEW o \in Ops, ContinueReload(o) PROVE MovesAlone'
    BY <1>8, ContinueReloadDoes DEF Others, Ends, Calling, Takes, Saves, Asks
  <1>9. ASSUME NEW o \in Ops, Write(o) PROVE MovesAlone'
    BY <1>9, WriteDoes DEF Write, Awaits, Others, Keeps, Goes
  <1>10. ASSUME NEW o \in Ops, ForceWrite(o) PROVE MovesAlone'
    BY <1>10, ForceWriteDoes DEF Others, Keeps, Goes
  <1>11. ASSUME NEW o \in Ops, Read(o) PROVE MovesAlone'
    BY <1>11, ReadDoes DEF Read, Awaits, Others, Keeps, Ends, Goes, Calling, ChecksOut, Gets,
       GivesUp
  <1>12. ASSUME NEW o \in Ops, WriteMerged(o) PROVE MovesAlone'
    BY <1>12, WriteMergedDoes DEF WriteMerged, Awaits, Others, Keeps, Goes
  <1>13. ASSUME NEW o \in Ops, DeleteFile(o) PROVE MovesAlone'
    BY <1>13, DeleteFileDoes DEF DeleteFile, Awaits, Others, Keeps, Ends, Goes
  <1>14. ASSUME NEW o \in Ops, RenameFile(o) PROVE MovesAlone'
    BY <1>14, RenameFileDoes DEF RenameFile, Awaits, Others, Keeps, Ends, Goes
  <1>15. ASSUME NEW o \in Ops, Wrote(o) PROVE MovesAlone'
    BY <1>15, WroteDoes DEF Wrote, Awaits, Others, Keeps, Goes
  <1>16. ASSUME NEW o \in Ops, Refused(o) PROVE MovesAlone'
    BY <1>16, RefusedDoes DEF Refused, Awaits, Others, Keeps, Goes, Calling, Checks, ChecksOut
  <1>17. ASSUME NEW o \in Ops, Decide(o) PROVE MovesAlone'
    BY <1>17, DecideDoes DEF Others, Keeps, Goes, Calling, ChecksOut, Merges
  <1>18. ASSUME NEW o \in Ops, FinishMerge(o) PROVE MovesAlone'
    BY <1>18, FinishMergeDoes DEF FinishMerge, Awaits, Others, Keeps, Goes, ChecksOut
  <1>19. ASSUME NEW o \in Ops, Discarded(o) PROVE MovesAlone'
    BY <1>19, DiscardedDoes DEF Discarded, Awaits, Others, Keeps, Ends, Goes
  <1>20. ASSUME NEW o \in Ops, Opened(o) PROVE MovesAlone'
    BY <1>20, OpenedDoes DEF Others, Ends
  <1>21. ASSUME NEW o \in Ops, Deleted(o) PROVE MovesAlone'
    BY <1>21, DeletedDoes DEF Deleted, Awaits, Others, Ends, Turns, Removes
  <1>22. ASSUME NEW o \in Ops, Renamed(o) PROVE MovesAlone'
    BY <1>22, RenamedDoes DEF Renamed, Awaits, Others, Ends
  <1>23. ASSUME NEW o \in Ops, ResetDone(o) PROVE MovesAlone'
    BY <1>23, ResetDoneDoes DEF ResetDone, Awaits, Others, Ends
  <1>24. ASSUME NEW o \in Ops, NEW t \in Tabs, Overwrite(o, t) PROVE MovesAlone'
    BY <1>24, OverwriteDoes DEF Overwrite, Awaits, Others, Calling, Takes, Forces
  <1>25. ASSUME NEW o \in Ops, NEW t \in Tabs, Discard(o, t) PROVE MovesAlone'
    BY <1>25, DiscardDoes DEF Discard, Awaits, Others, Rereads
  <1>26. ASSUME NEW o \in Ops, NEW t \in Tabs, SwitchTab(o, t) PROVE MovesAlone'
    BY <1>26, SwitchTabDoes DEF SwitchTab, Awaits, Others, Turns
  <1>27. ASSUME NEW o \in Ops, NEW t \in Tabs, Close(o, t) PROVE MovesAlone'
    BY <1>27, CloseDoes DEF Close, Awaits, Others, Calling, Takes, Saves, Resumes
  <1>28. ASSUME NEW o \in Ops, NEW p \in Paths, Select(o, p) PROVE MovesAlone'
    BY <1>28, SelectDoes DEF Select, Awaits, Others, Calling, Takes, Saves, Resumes, Flushes,
       Turns, Rereads
  <1>29. ASSUME NEW o \in Ops, NEW p \in Paths, Delete(o, p) PROVE MovesAlone'
    BY <1>29, DeleteDoes DEF Delete, Awaits, Others, Asks
  <1>30. ASSUME NEW o \in Ops, NEW p \in Paths, NEW q \in Paths, Rename(o, p, q) PROVE MovesAlone'
    BY <1>30, RenameDoes DEF Rename, Awaits, Others, Calling, Takes, Saves, Resumes, Flushes,
       StartsRenaming
  <1>31. ASSUME NEW o \in Ops, Reload(o) PROVE MovesAlone'
    BY <1>31, ReloadDoes DEF Reload, Awaits, Others, Calling, Resumes
  <1>32. ASSUME NEW o \in Ops, Watch(o) PROVE MovesAlone'
    BY <1>32, WatchDoes DEF Watch, Awaits, Others, Calling, Resumes
  <1>33. ASSUME NEW o \in Ops, DiskFails(o) PROVE MovesAlone'
    BY <1>33, DiskFailsDoes DEF DiskFails, Awaits, Others, Keeps, Ends, Goes, ChecksOut, GivesUp
  <1>34. CASE AutoSave
    BY <1>34, AutoSaveDoes DEF AutoSave, Others, Calling, Takes, Saves
  <1>35. ASSUME NEW t \in Tabs, NEW e \in UserEdits, Type(t, e) PROVE MovesAlone'
    BY <1>35 DEF Type
  <1>36. ASSUME NEW p \in Paths, NEW e \in ExternalEdits, Change(p, e) PROVE MovesAlone'
    BY <1>36 DEF Change
  <1>37. CASE UNCHANGED vars
    BY <1>37 DEF vars
  <1> QED
    BY <1>1, <1>2, <1>3, <1>4, <1>5, <1>6, <1>7, <1>8, <1>9, <1>10, <1>11, <1>12, <1>13, <1>14,
       <1>15, <1>16, <1>17, <1>18, <1>19, <1>20, <1>21, <1>22, <1>23, <1>24, <1>25, <1>26, <1>27,
       <1>28, <1>29, <1>30, <1>31, <1>32, <1>33, <1>34, <1>35, <1>36, <1>37 DEF Next, Continue,
       Backend, Answer, User

(* Only a read of a file that is there opens one. *)
LEMMA OpenedSteps == FsTyped /\ [Next]_vars => ReadsAreOfFiles
  <1> SUFFICES ASSUME FsTyped, [Next]_vars PROVE ReadsAreOfFiles
    OBVIOUS
  <1> USE  DEF ReadsAreOfFiles
  <1>1. ASSUME NEW o \in Ops, ContinueSave(o) PROVE ReadsAreOfFiles
    BY <1>1, ContinueSaveDoes DEF ContinueSave, Awaits, Others, Ends
  <1>2. ASSUME NEW o \in Ops, ContinueWatch(o) PROVE ReadsAreOfFiles
    BY <1>2, ContinueWatchDoes DEF ContinueWatch, Awaits, Others, Ends, Calling, Checks
  <1>3. ASSUME NEW o \in Ops, ContinueClose(o) PROVE ReadsAreOfFiles
    BY <1>3, ContinueCloseDoes DEF ContinueClose, Awaits, Others, Ends, Turns, Removes
  <1>4. ASSUME NEW o \in Ops, Activate(o) PROVE ReadsAreOfFiles
    BY <1>4, ActivateDoes DEF Activate, Awaits, Others, Ends, Calling, Takes, Saves, Resumes,
       Flushes
  <1>5. ASSUME NEW o \in Ops, ContinueActivate(o) PROVE ReadsAreOfFiles
    BY <1>5, ContinueActivateDoes DEF ContinueActivate, Awaits, Others, Ends
  <1>6. ASSUME NEW o \in Ops, ContinueSelect(o) PROVE ReadsAreOfFiles
    BY <1>6, ContinueSelectDoes DEF ContinueSelect, Awaits, Others, Asks
  <1>7. ASSUME NEW o \in Ops, ContinueRename(o) PROVE ReadsAreOfFiles
    BY <1>7, ContinueRenameDoes DEF ContinueRename, Awaits, Others, Ends, StartsRenaming
  <1>8. ASSUME NEW o \in Ops, ContinueReload(o) PROVE ReadsAreOfFiles
    BY <1>8, ContinueReloadDoes DEF Others, Ends, Calling, Takes, Saves, Asks
  <1>9. ASSUME NEW o \in Ops, Write(o) PROVE ReadsAreOfFiles
    BY <1>9, WriteDoes DEF Write, Awaits, Others, Keeps, Goes
  <1>10. ASSUME NEW o \in Ops, ForceWrite(o) PROVE ReadsAreOfFiles
    BY <1>10, ForceWriteDoes DEF Others, Keeps, Goes
  <1>11. ASSUME NEW o \in Ops, Read(o) PROVE ReadsAreOfFiles
    BY <1>11, ReadDoes DEF Read, Awaits, Others, Keeps, Ends, Goes, Calling, ChecksOut, Gets,
       GivesUp
  <1>12. ASSUME NEW o \in Ops, WriteMerged(o) PROVE ReadsAreOfFiles
    BY <1>12, WriteMergedDoes DEF WriteMerged, Awaits, Others, Keeps, Goes
  <1>13. ASSUME NEW o \in Ops, DeleteFile(o) PROVE ReadsAreOfFiles
    BY <1>13, DeleteFileDoes DEF DeleteFile, Awaits, Others, Keeps, Ends, Goes
  <1>14. ASSUME NEW o \in Ops, RenameFile(o) PROVE ReadsAreOfFiles
    BY <1>14, RenameFileDoes DEF RenameFile, Awaits, Others, Keeps, Ends, Goes
  <1>15. ASSUME NEW o \in Ops, Wrote(o) PROVE ReadsAreOfFiles
    BY <1>15, WroteDoes DEF Wrote, Awaits, Others, Keeps, Goes
  <1>16. ASSUME NEW o \in Ops, Refused(o) PROVE ReadsAreOfFiles
    BY <1>16, RefusedDoes DEF Refused, Awaits, Others, Keeps, Goes, Calling, Checks, ChecksOut
  <1>17. ASSUME NEW o \in Ops, Decide(o) PROVE ReadsAreOfFiles
    BY <1>17, DecideDoes DEF Others, Keeps, Goes, Calling, ChecksOut, Merges
  <1>18. ASSUME NEW o \in Ops, FinishMerge(o) PROVE ReadsAreOfFiles
    BY <1>18, FinishMergeDoes DEF FinishMerge, Awaits, Others, Keeps, Goes, ChecksOut
  <1>19. ASSUME NEW o \in Ops, Discarded(o) PROVE ReadsAreOfFiles
    BY <1>19, DiscardedDoes DEF Discarded, Awaits, Others, Keeps, Ends, Goes
  <1>20. ASSUME NEW o \in Ops, Opened(o) PROVE ReadsAreOfFiles
    BY <1>20, OpenedDoes DEF Others, Ends
  <1>21. ASSUME NEW o \in Ops, Deleted(o) PROVE ReadsAreOfFiles
    BY <1>21, DeletedDoes DEF Deleted, Awaits, Others, Ends, Turns, Removes
  <1>22. ASSUME NEW o \in Ops, Renamed(o) PROVE ReadsAreOfFiles
    BY <1>22, RenamedDoes DEF Renamed, Awaits, Others, Ends
  <1>23. ASSUME NEW o \in Ops, ResetDone(o) PROVE ReadsAreOfFiles
    BY <1>23, ResetDoneDoes DEF ResetDone, Awaits, Others, Ends
  <1>24. ASSUME NEW o \in Ops, NEW t \in Tabs, Overwrite(o, t) PROVE ReadsAreOfFiles
    BY <1>24, OverwriteDoes DEF Overwrite, Awaits, Others, Calling, Takes, Forces
  <1>25. ASSUME NEW o \in Ops, NEW t \in Tabs, Discard(o, t) PROVE ReadsAreOfFiles
    BY <1>25, DiscardDoes DEF Discard, Awaits, Others, Rereads
  <1>26. ASSUME NEW o \in Ops, NEW t \in Tabs, SwitchTab(o, t) PROVE ReadsAreOfFiles
    BY <1>26, SwitchTabDoes DEF SwitchTab, Awaits, Others, Turns
  <1>27. ASSUME NEW o \in Ops, NEW t \in Tabs, Close(o, t) PROVE ReadsAreOfFiles
    BY <1>27, CloseDoes DEF Close, Awaits, Others, Calling, Takes, Saves, Resumes
  <1>28. ASSUME NEW o \in Ops, NEW p \in Paths, Select(o, p) PROVE ReadsAreOfFiles
    BY <1>28, SelectDoes DEF Select, Awaits, Others, Calling, Takes, Saves, Resumes, Flushes,
       Turns, Rereads
  <1>29. ASSUME NEW o \in Ops, NEW p \in Paths, Delete(o, p) PROVE ReadsAreOfFiles
    BY <1>29, DeleteDoes DEF Delete, Awaits, Others, Asks
  <1>30. ASSUME NEW o \in Ops, NEW p \in Paths, NEW q \in Paths, Rename(o, p, q) PROVE ReadsAreOfFiles
    BY <1>30, RenameDoes DEF Rename, Awaits, Others, Calling, Takes, Saves, Resumes, Flushes,
       StartsRenaming
  <1>31. ASSUME NEW o \in Ops, Reload(o) PROVE ReadsAreOfFiles
    BY <1>31, ReloadDoes DEF Reload, Awaits, Others, Calling, Resumes
  <1>32. ASSUME NEW o \in Ops, Watch(o) PROVE ReadsAreOfFiles
    BY <1>32, WatchDoes DEF Watch, Awaits, Others, Calling, Resumes
  <1>33. ASSUME NEW o \in Ops, DiskFails(o) PROVE ReadsAreOfFiles
    BY <1>33, DiskFailsDoes DEF DiskFails, Awaits, Others, Keeps, Ends, Goes, ChecksOut, GivesUp
  <1>34. CASE AutoSave
    BY <1>34, AutoSaveDoes DEF AutoSave, Others, Calling, Takes, Saves
  <1>35. ASSUME NEW t \in Tabs, NEW e \in UserEdits, Type(t, e) PROVE ReadsAreOfFiles
    BY <1>35 DEF Type
  <1>36. ASSUME NEW p \in Paths, NEW e \in ExternalEdits, Change(p, e) PROVE ReadsAreOfFiles
    BY <1>36 DEF Change
  <1>37. CASE UNCHANGED vars
    BY <1>37 DEF vars
  <1> QED
    BY <1>1, <1>2, <1>3, <1>4, <1>5, <1>6, <1>7, <1>8, <1>9, <1>10, <1>11, <1>12, <1>13, <1>14,
       <1>15, <1>16, <1>17, <1>18, <1>19, <1>20, <1>21, <1>22, <1>23, <1>24, <1>25, <1>26, <1>27,
       <1>28, <1>29, <1>30, <1>31, <1>32, <1>33, <1>34, <1>35, <1>36, <1>37 DEF Next, Continue,
       Backend, Answer, User

(* Renaming and deleting go on by themselves. *)
LEMMA MoveSteps == FsTyped /\ [Next]_vars => MovesEnd
  <1> SUFFICES ASSUME FsTyped, [Next]_vars PROVE MovesEnd
    OBVIOUS
  <1> USE  DEF MovesEnd, Free
  <1>1. ASSUME NEW o \in Ops, ContinueSave(o) PROVE MovesEnd
    BY <1>1, ContinueSaveDoes DEF ContinueSave, Awaits, Others, Ends
  <1>2. ASSUME NEW o \in Ops, ContinueWatch(o) PROVE MovesEnd
    BY <1>2, ContinueWatchDoes DEF ContinueWatch, Awaits, Others, Ends, Calling, Checks
  <1>3. ASSUME NEW o \in Ops, ContinueClose(o) PROVE MovesEnd
    BY <1>3, ContinueCloseDoes DEF ContinueClose, Awaits, Others, Ends, Turns, Removes
  <1>4. ASSUME NEW o \in Ops, Activate(o) PROVE MovesEnd
    BY <1>4, ActivateDoes DEF Activate, Awaits, Others, Ends, Calling, Takes, Saves, Resumes,
       Flushes
  <1>5. ASSUME NEW o \in Ops, ContinueActivate(o) PROVE MovesEnd
    BY <1>5, ContinueActivateDoes DEF ContinueActivate, Awaits, Others, Ends
  <1>6. ASSUME NEW o \in Ops, ContinueSelect(o) PROVE MovesEnd
    BY <1>6, ContinueSelectDoes DEF ContinueSelect, Awaits, Others, Asks
  <1>7. ASSUME NEW o \in Ops, ContinueRename(o) PROVE MovesEnd
    BY <1>7, ContinueRenameDoes DEF ContinueRename, Awaits, Others, Ends, StartsRenaming
  <1>8. ASSUME NEW o \in Ops, ContinueReload(o) PROVE MovesEnd
    BY <1>8, ContinueReloadDoes DEF ContinueReload, Awaits, Others, Ends, Calling, Takes, Saves,
       Asks
  <1>9. ASSUME NEW o \in Ops, Write(o) PROVE MovesEnd
    BY <1>9, WriteDoes DEF Write, Awaits, Others, Keeps, Goes
  <1>10. ASSUME NEW o \in Ops, ForceWrite(o) PROVE MovesEnd
    BY <1>10, ForceWriteDoes DEF ForceWrite, Awaits, Others, Keeps, Goes
  <1>11. ASSUME NEW o \in Ops, Read(o) PROVE MovesEnd
    BY <1>11, ReadDoes DEF Read, Awaits, Others, Keeps, Ends, Goes, Calling, ChecksOut, Gets,
       GivesUp
  <1>12. ASSUME NEW o \in Ops, WriteMerged(o) PROVE MovesEnd
    BY <1>12, WriteMergedDoes DEF WriteMerged, Awaits, Others, Keeps, Goes
  <1>13. ASSUME NEW o \in Ops, DeleteFile(o) PROVE MovesEnd
    BY <1>13, DeleteFileDoes DEF DeleteFile, Awaits, Others, Keeps, Ends, Goes
  <1>14. ASSUME NEW o \in Ops, RenameFile(o) PROVE MovesEnd
    BY <1>14, RenameFileDoes DEF RenameFile, Awaits, Others, Keeps, Ends, Goes
  <1>15. ASSUME NEW o \in Ops, Wrote(o) PROVE MovesEnd
    BY <1>15, WroteDoes DEF Wrote, Awaits, Others, Keeps, Goes
  <1>16. ASSUME NEW o \in Ops, Refused(o) PROVE MovesEnd
    BY <1>16, RefusedDoes DEF Refused, Awaits, Others, Keeps, Goes, Calling, Checks, ChecksOut
  <1>17. ASSUME NEW o \in Ops, Decide(o) PROVE MovesEnd
    BY <1>17, DecideDoes DEF Decide, Awaits, Others, Keeps, Goes, Calling, ChecksOut, Merges
  <1>18. ASSUME NEW o \in Ops, FinishMerge(o) PROVE MovesEnd
    BY <1>18, FinishMergeDoes DEF FinishMerge, Awaits, Others, Keeps, Goes, ChecksOut
  <1>19. ASSUME NEW o \in Ops, Discarded(o) PROVE MovesEnd
    BY <1>19, DiscardedDoes DEF Discarded, Awaits, Others, Keeps, Ends, Goes
  <1>20. ASSUME NEW o \in Ops, Opened(o) PROVE MovesEnd
    BY <1>20, OpenedDoes DEF Opened, Awaits, Others, Ends
  <1>21. ASSUME NEW o \in Ops, Deleted(o) PROVE MovesEnd
    BY <1>21, DeletedDoes DEF Deleted, Awaits, Others, Ends, Turns, Removes
  <1>22. ASSUME NEW o \in Ops, Renamed(o) PROVE MovesEnd
    BY <1>22, RenamedDoes DEF Renamed, Awaits, Others, Ends
  <1>23. ASSUME NEW o \in Ops, ResetDone(o) PROVE MovesEnd
    BY <1>23, ResetDoneDoes DEF ResetDone, Awaits, Others, Ends
  <1>24. ASSUME NEW o \in Ops, NEW t \in Tabs, Overwrite(o, t) PROVE MovesEnd
    BY <1>24, OverwriteDoes DEF Overwrite, Awaits, Others, Calling, Takes, Forces
  <1>25. ASSUME NEW o \in Ops, NEW t \in Tabs, Discard(o, t) PROVE MovesEnd
    BY <1>25, DiscardDoes DEF Discard, Awaits, Others, Rereads
  <1>26. ASSUME NEW o \in Ops, NEW t \in Tabs, SwitchTab(o, t) PROVE MovesEnd
    BY <1>26, SwitchTabDoes DEF SwitchTab, Awaits, Others, Turns
  <1>27. ASSUME NEW o \in Ops, NEW t \in Tabs, Close(o, t) PROVE MovesEnd
    BY <1>27, CloseDoes DEF Close, Awaits, Others, Calling, Takes, Saves, Resumes
  <1>28. ASSUME NEW o \in Ops, NEW p \in Paths, Select(o, p) PROVE MovesEnd
    BY <1>28, SelectDoes DEF Select, Awaits, Others, Calling, Takes, Saves, Resumes, Flushes,
       Turns, Rereads
  <1>29. ASSUME NEW o \in Ops, NEW p \in Paths, Delete(o, p) PROVE MovesEnd
    BY <1>29, DeleteDoes DEF Delete, Awaits, Others, Asks
  <1>30. ASSUME NEW o \in Ops, NEW p \in Paths, NEW q \in Paths, Rename(o, p, q) PROVE MovesEnd
    BY <1>30, RenameDoes DEF Rename, Awaits, Others, Calling, Takes, Saves, Resumes, Flushes,
       StartsRenaming
  <1>31. ASSUME NEW o \in Ops, Reload(o) PROVE MovesEnd
    BY <1>31, ReloadDoes DEF Reload, Awaits, Others, Calling, Resumes
  <1>32. ASSUME NEW o \in Ops, Watch(o) PROVE MovesEnd
    BY <1>32, WatchDoes DEF Watch, Awaits, Others, Calling, Resumes
  <1>33. ASSUME NEW o \in Ops, DiskFails(o) PROVE MovesEnd
    <2>1. op[o].at # "deleted"
      BY <1>33 DEF DiskFails, Awaits, Calls
    <2>2. Others(o) /\ op'[o].at \notin {"list", "deleted"}
      BY <1>33, DiskFailsDoes DEF ChecksOut, GivesUp, Goes, Ends
    <2>3. \A p \in Ops \ {o} : op'[p] = op[p]
      BY <2>2 DEF Others
    <2> QED
      BY <1>33, <2>1, <2>2, <2>3
  <1>34. CASE AutoSave
    BY <1>34, AutoSaveDoes DEF AutoSave, Others, Calling, Takes, Saves
  <1>35. ASSUME NEW t \in Tabs, NEW e \in UserEdits, Type(t, e) PROVE MovesEnd
    BY <1>35 DEF Type
  <1>36. ASSUME NEW p \in Paths, NEW e \in ExternalEdits, Change(p, e) PROVE MovesEnd
    BY <1>36 DEF Change
  <1>37. CASE UNCHANGED vars
    BY <1>37 DEF vars
  <1> QED
    BY <1>1, <1>2, <1>3, <1>4, <1>5, <1>6, <1>7, <1>8, <1>9, <1>10, <1>11, <1>12, <1>13, <1>14,
       <1>15, <1>16, <1>17, <1>18, <1>19, <1>20, <1>21, <1>22, <1>23, <1>24, <1>25, <1>26, <1>27,
       <1>28, <1>29, <1>30, <1>31, <1>32, <1>33, <1>34, <1>35, <1>36, <1>37 DEF Next, Continue,
       Backend, Answer, User

LEMMA ListMoves ==
  ASSUME FsTyped, MovesAlone, NEW o \in Ops, op[o].at \in {"rename", "list", "delete", "deleted"}
  PROVE  Alone /\ \A p \in Ops : p = o
  <1>1. Moving(o)
    BY OpIsTyped DEF WellFormed, Renames, Moving
  <1> QED
    BY <1>1 DEF MovesAlone, Alone

LEMMA OneTabStep == Alone /\ FsTyped /\ OrInv /\ [Next]_vars => OneTabPerFile'
  <1> SUFFICES ASSUME Alone, FsTyped, OrInv, [Next]_vars PROVE OneTabPerFile'
    OBVIOUS
  <1> USE DEF OneTabEach, OneTabPerFile, OpenTabs, Open
  <1>1. CASE \A t \in Tabs : path'[t] \in {path[t], None}
    BY <1>1 DEF OrInv
  <1>2. ASSUME NEW o \in Ops, Opened(o) PROVE OneTabPerFile'
    <2>1. Selecting(o) /\ op[o].path = op[o].to /\ \A t \in Tabs : path[t] # op[o].path
      BY <1>2 DEF Opened, Awaits, OrInv, OpensAlone, OpensWhatItSelects
    <2>2. PICK t \in Tabs : path' = [path EXCEPT ![t] = op[o].path]
      BY <1>2 DEF Opened
    <2> QED
      BY <2>1, <2>2 DEF OrInv, FsTyped, TabsTyped
  <1>3. ASSUME NEW o \in Ops, Renamed(o) PROVE OneTabPerFile'
    <2>1. \A t \in Tabs : path[t] # op[o].to
      BY <1>3 DEF Renamed, Awaits, OrInv, ListsItsFile
    <2>2. \A t \in Tabs : path'[t] = IF path[t] = op[o].from THEN op[o].to ELSE path[t]
      BY <1>3 DEF Renamed
    <2>3. op[o].from \in Paths
      BY <1>3, OpIsTyped DEF Renamed, Awaits, WellFormed, Renames
    <2> QED
      BY <2>1, <2>2, <2>3, NoneIsApart DEF OrInv
  <1> QED
    BY <1>1, <1>2, <1>3, PathSteps DEF PathsShrink

LEMMA OpensAloneStep == Alone /\ FsTyped /\ OrInv /\ [Next]_vars => OpensAlone'
  <1> SUFFICES ASSUME Alone, FsTyped, OrInv, [Next]_vars PROVE OpensAlone'
    OBVIOUS
  <1>1. ASSUME NEW o \in Ops, Opened(o) PROVE OpensAlone'
    <2>1. op'[o].then = "none" /\ \A p \in Ops \ {o} : op'[p] = op[p]
      BY <1>1, OpenedDoes DEF Ends, Others
    <2>2. Selecting(o) /\ op[o].path = op[o].to
      BY <1>1 DEF Opened, Awaits, OrInv, OpensWhatItSelects
    <2>3. PICK t \in Tabs : path' = [path EXCEPT ![t] = op[o].path]
      BY <1>1 DEF Opened
    <2>4. \A p \in Ops : Selecting(p)' => p # o /\ op'[p] = op[p] /\ Selecting(p) /\ op[p].to # op[o].to
      BY <2>1, <2>2 DEF OrInv, OneTabEach, OpensAlone, Selecting
    <2>5. \A u \in Tabs : path'[u] = path[u] \/ path'[u] = op[o].to
      BY <2>2, <2>3 DEF FsTyped, TabsTyped
    <2> QED
      BY <2>4, <2>5 DEF OrInv, OneTabEach, OpensAlone, Selecting
  <1>2. ASSUME NEW o \in Ops, Renamed(o) PROVE OpensAlone'
    <2>1. op'[o].then = "none" /\ \A p \in Ops : p = o
      BY <1>2, RenamedDoes, ListMoves DEF Ends, Renamed, Awaits, OrInv
    <2> QED
      BY <2>1 DEF OpensAlone, Selecting
  <1>3. ASSUME NEW o \in Ops, NEW p \in Paths, Select(o, p) PROVE OpensAlone'
    <2>1. path' = path
      BY <1>3 DEF Select, tabs
    <2>2. \A q \in Ops \ {o} : op'[q] = op[q]
      BY <1>3, SelectDoes DEF Rereads, Turns, Flushes, Saves, Resumes, Calling, Others
    <2>3. CASE op'[o].then # "select"
      BY <2>1, <2>2, <2>3 DEF OrInv, OneTabEach, OpensAlone, Selecting
    <2>4. CASE op'[o].then = "select"
      <3>1. op'[o].to = p /\ p \notin {path[t] : t \in Tabs}
        BY <1>3, <2>4, SelectDoes DEF Rereads, Turns, Flushes, Saves, Resumes, Calling
      <3>2. \A q \in Ops \ {o} : Selecting(q) => op[q].to # p
        BY DEF Alone
      <3> QED
        BY <2>1, <2>2, <3>1, <3>2 DEF OrInv, OneTabEach, OpensAlone, Selecting
    <2> QED
      BY <2>3, <2>4
  <1>4. CASE /\ \A t \in Tabs : path'[t] \in {path[t], None}
             /\ \A o \in Ops : Selecting(o)' => Selecting(o) /\ op'[o].to = op[o].to
    <2>1. \A o \in Ops : Selecting(o) => op[o].to # None
      BY OpIsTyped, NoneIsApart DEF WellFormed, Selecting
    <2> QED
      BY <1>4, <2>1 DEF OrInv, OneTabEach, OpensAlone
  <1> QED
    BY <1>1, <1>2, <1>3, <1>4, PathSteps, SelectSteps DEF PathsShrink, SelectersStay

LEMMA OpenedExistsStep == Orderly /\ FsTyped /\ OrInv /\ [Next]_vars => OpenedExists'
  <1> SUFFICES ASSUME Orderly, FsTyped, OrInv, [Next]_vars, NEW o \in Ops, op'[o].at = "opened"
               PROVE  files'[op'[o].path] # None
    BY DEF OpenedExists
  <1>1. op'[o].path = op[o].path /\ files[op[o].path] # None
    BY OpenedSteps DEF ReadsAreOfFiles, OrInv, OpenedExists
  <1>2. ASSUME NEW u \in Ops, DeleteFile(u) \/ RenameFile(u) PROVE FALSE
    <2>1. u = o
      BY <1>2, ListMoves DEF DeleteFile, RenameFile, Awaits, OrInv
    <2> QED
      BY <1>2, <2>1, DeleteFileDoes, RenameFileDoes DEF Goes, Ends
  <1>3. op[o].path \in Paths
    <2>1. Others(o) \/ op'[o] = op[o]
      BY OpenedSteps, ReadDoes DEF ReadsAreOfFiles, Gets, Calling, Others, GivesUp, Goes, Ends,
         ChecksOut
    <2>2. CASE op'[o] = op[o]
      BY <2>2, OpIsTyped DEF WellFormed, OfPath
    <2>3. CASE Read(o)
      BY <2>3, OpIsTyped DEF Read, Awaits, WellFormed, OfTab, OfPath
    <2> QED
      BY <2>2, <2>3, OpenedSteps DEF ReadsAreOfFiles
  <1> QED
    BY <1>1, <1>2, <1>3, FileSteps DEF FilesStay

LEMMA ListsItsFileStep == Orderly /\ FsTyped /\ OrInv /\ [Next]_vars => ListsItsFile'
  <1> SUFFICES ASSUME Orderly, FsTyped, OrInv, [Next]_vars, NEW o \in Ops, op'[o].at = "list"
               PROVE  files'[op'[o].to] # None /\ \A t \in Tabs : path'[t] # op'[o].to
    BY DEF ListsItsFile
  <1>1. CASE RenameFile(o)
    <2>1. /\ op'[o].to = op[o].to /\ op[o].to \in Paths /\ op[o].from \in Paths /\ path' = path
          /\ files[op[o].from] # None /\ files[op[o].to] = None
          /\ files' = [files EXCEPT ![op[o].from] = None, ![op[o].to] = files[op[o].from]]
      BY <1>1, RenameFileDoes DEF Goes, Ends, Keeps, RenameFile, tabs
    <2>2. Alone /\ \A p \in Ops : p = o
      BY <1>1, ListMoves DEF RenameFile, Awaits, OrInv
    <2>3. \A t \in Tabs : path[t] # op[o].to
      <3> SUFFICES ASSUME NEW t \in Tabs, path[t] = op[o].to PROVE FALSE
        OBVIOUS
      <3>1. path[t] # None /\ files[path[t]] = None
        BY <2>1, NoneIsApart
      <3>2. GoneFrom(o, path[t])
        BY <2>2, <3>1 DEF OrInv, HasFiles
      <3> QED
        BY <1>1, <3>2 DEF GoneFrom, RenameFile, Awaits
    <2> QED
      BY <2>1, <2>3 DEF FsTyped, TabsTyped
  <1>2. CASE op'[o] = op[o]
    <2>1. \A p \in Ops : p = o
      BY <1>2, ListMoves DEF OrInv
    <2>2. op[o].to \in Paths
      BY <1>2, OpIsTyped DEF WellFormed, Renames
    <2>3. ~ \E p \in Ops : Opened(p) \/ Renamed(p) \/ DeleteFile(p) \/ RenameFile(p)
      BY <1>2, <2>1 , RenamedDoes DEF Opened, Awaits, DeleteFile, RenameFile, Ends
    <2>4. /\ \A t \in Tabs : path'[t] \in {path[t], None}
          /\ \A p \in Paths : files[p] # None => files'[p] # None
      BY <2>3, PathSteps, FileSteps DEF PathsShrink, FilesStay
    <2> QED
      BY <1>2, <2>2, <2>4, NoneIsApart DEF OrInv, ListsItsFile
  <1> QED
    BY <1>1, <1>2, MoveSteps DEF MovesEnd

WillBeGone(o, p) ==
  (op'[o].at = "list" /\ op'[o].from = p) \/ (op'[o].at = "deleted" /\ op'[o].path = p)

LEMMA HasFilesStep == Orderly /\ FsTyped /\ OrInv /\ [Next]_vars => HasFiles'
  <1> SUFFICES ASSUME Orderly, FsTyped, OrInv, [Next]_vars, NEW t \in Tabs, path'[t] # None
               PROVE  files'[path'[t]] # None \/ \E o \in Ops : WillBeGone(o, path'[t])
    BY DEF HasFiles, GoneFrom, WillBeGone
  <1>0. path \in [Tabs -> Paths \cup {None}] /\ files \in [Paths -> Texts \cup {None}]
    BY DEF FsTyped, TabsTyped
  <1>1. ASSUME NEW o \in Ops, Opened(o) PROVE files'[path'[t]] # None \/ \E p \in Ops : WillBeGone(p, path'[t])
    <2>1. files' = files /\ op[o].at = "opened"
      BY <1>1 DEF Opened, Awaits
    <2>2. PICK u \in Tabs : path' = [path EXCEPT ![u] = op[o].path]
      BY <1>1 DEF Opened
    <2>3. files[op[o].path] # None
      BY <2>1 DEF OrInv, OpenedExists
    <2>4. CASE t = u
      BY <1>0, <2>1, <2>2, <2>3, <2>4
    <2>5. CASE t # u
      <3>1. path'[t] = path[t] /\ path[t] # None
        BY <1>0, <2>2, <2>5
      <3>2. CASE files[path[t]] # None
        BY <2>1, <3>1, <3>2
      <3>3. ASSUME NEW p \in Ops, GoneFrom(p, path[t]) PROVE WillBeGone(p, path'[t])
        <4>1. p # o
          BY <2>1, <3>3 DEF GoneFrom, WillBeGone
        <4>2. op'[p] = op[p]
          BY <1>1, <4>1, OpenedDoes DEF Ends, Others
        <4> QED
          BY <3>1, <3>3, <4>2 DEF GoneFrom, WillBeGone
      <3> QED
        BY <3>1, <3>2, <3>3 DEF OrInv, HasFiles
    <2> QED
      BY <2>4, <2>5
  <1>2. ASSUME NEW o \in Ops, Renamed(o) PROVE files'[path'[t]] # None
    <2>1. /\ files' = files /\ op[o].at = "list" /\ \A p \in Ops : p = o
          /\ path'[t] = IF path[t] = op[o].from THEN op[o].to ELSE path[t]
      BY <1>2, ListMoves DEF Renamed, Awaits, OrInv
    <2>2. CASE path[t] = op[o].from
      BY <2>1, <2>2 DEF OrInv, ListsItsFile
    <2>3. CASE path[t] # op[o].from
      <3>1. ~ \E p \in Ops : GoneFrom(p, path[t])
        BY <2>1, <2>3 DEF GoneFrom
      <3> QED
        BY <2>1, <2>3, <3>1 DEF OrInv, HasFiles
    <2> QED
      BY <2>2, <2>3
  <1>3. ASSUME NEW o \in Ops, DeleteFile(o) PROVE files'[path'[t]] # None \/ WillBeGone(o, path'[t])
    <2>1. /\ path' = path /\ op[o].at = "delete" /\ files' = [files EXCEPT ![op[o].path] = None]
          /\ \A p \in Ops : p = o
      BY <1>3, ListMoves DEF DeleteFile, Awaits, OrInv, tabs
    <2>2. files[path[t]] # None /\ path[t] \in Paths
      BY <1>0, <2>1 DEF OrInv, HasFiles, GoneFrom
    <2>3. CASE path[t] = op[o].path
      BY <1>3, <2>1, <2>2, <2>3, DeleteFileDoes DEF Goes, Keeps, WillBeGone
    <2>4. CASE path[t] # op[o].path
      BY <1>0, <2>1, <2>2, <2>4
    <2> QED
      BY <2>3, <2>4
  <1>4. ASSUME NEW o \in Ops, RenameFile(o) PROVE files'[path'[t]] # None \/ WillBeGone(o, path'[t])
    <2>1. path' = path /\ op[o].at = "rename" /\ \A p \in Ops : p = o
      BY <1>4, ListMoves DEF RenameFile, Awaits, OrInv, tabs
    <2>2. files[path[t]] # None /\ path[t] \in Paths
      BY <1>0, <2>1 DEF OrInv, HasFiles, GoneFrom
    <2>3. CASE files' = files
      BY <2>1, <2>2, <2>3
    <2>4. CASE /\ Goes(o, {"list"}) /\ op[o].from \in Paths /\ op[o].to \in Paths /\ files[op[o].to] = None
               /\ files[op[o].from] # None
               /\ files' = [files EXCEPT ![op[o].from] = None, ![op[o].to] = files[op[o].from]]
      <3>1. CASE path[t] = op[o].from
        BY <2>1, <2>4, <3>1 DEF Goes, Keeps, WillBeGone
      <3>2. CASE path[t] # op[o].from
        BY <1>0, <2>1, <2>2, <2>4, <3>2
      <3> QED
        BY <3>1, <3>2
    <2> QED
      BY <1>4, <2>3, <2>4, RenameFileDoes
  <1>5. ASSUME NEW o \in Ops, Deleted(o) PROVE files'[path'[t]] # None
    <2>1. files' = files /\ op[o].at = "deleted" /\ \A p \in Ops : p = o
      BY <1>5, ListMoves DEF Deleted, Awaits, OrInv
    <2>2. path[t] # op[o].path /\ path'[t] = path[t]
      <3> DEFINE closed == {u \in Tabs : path[u] = op[o].path}
      <3>1. Forget(closed)
        BY <1>5, DeletedDoes
      <3> HIDE DEF closed
      <3>2. path'[t] = IF t \in closed THEN None ELSE path[t]
        BY <3>1, ForgetTyped DEF FsTyped
      <3> QED
        BY <3>2 DEF closed
    <2>3. ~ \E p \in Ops : GoneFrom(p, path[t])
      BY <2>1, <2>2 DEF GoneFrom
    <2> QED
      BY <2>1, <2>2, <2>3 DEF OrInv, HasFiles
  <1>6. CASE /\ \A u \in Tabs : path'[u] \in {path[u], None}
             /\ \A p \in Paths : files[p] # None => files'[p] # None
             /\ \A o \in Ops : ~Renamed(o) /\ ~Deleted(o)
    <2>1. path'[t] = path[t] /\ path[t] \in Paths
      BY <1>0, <1>6
    <2>2. ASSUME NEW o \in Ops, GoneFrom(o, path[t]) PROVE WillBeGone(o, path'[t])
      <3>1. op[o].at \in {"list", "deleted"}
        BY <2>2 DEF GoneFrom
      <3>2. ~(DiskFails(o) /\ op[o].at = "list")
        BY <3>1, ListMoves DEF OrInv, DiskFails, Alone
      <3>3. op'[o] = op[o]
        BY <1>6, <3>1, <3>2, MoveSteps DEF MovesEnd
      <3> QED
        BY <2>1, <2>2, <3>3 DEF GoneFrom, WillBeGone
    <2>3. CASE files[path[t]] # None
      BY <1>6, <2>1, <2>3
    <2> QED
      BY <2>1, <2>2, <2>3 DEF OrInv, HasFiles
  <1> QED
    BY <1>1, <1>2, <1>3, <1>4, <1>5, <1>6, PathSteps, FileSteps DEF PathsShrink, FilesStay

(* Tabs and files keep in step where files are neither renamed nor deleted,*)
(* however much overlaps, and where one operation follows the other.       *)
THEOREM OrInvariance == Orderly => (Spec => []OrInv)
  <1> SUFFICES ASSUME Orderly PROVE Spec => []OrInv
    OBVIOUS
  <1>1. Init => OrInv
    <2> SUFFICES ASSUME Init PROVE OrInv
      OBVIOUS
    <2>1. (\A t \in Tabs : path[t] = None) /\ \A o \in Ops : op[o].at = "idle" /\ op[o].then = "none"
      BY DEF Init, Idle
    <2> QED
      BY <2>1 DEF OrInv, OneTabEach, OneTabPerFile, OpenTabs, Open, OpensAlone, Selecting, OpensWhatItSelects,
         IdleIsNobodys, MovesAlone, Moving, OpenedExists, ListsItsFile, HasFiles
  <1>2. FsTyped /\ OrInv /\ [Next]_vars => OrInv'
    BY OneTabStep, OpensAloneStep, OpensStep, IdleStep, MovingStep, OpenedExistsStep,
       ListsItsFileStep, HasFilesStep DEF OrInv, OneTabEach
  <1> QED
    BY <1>1, <1>2, FsInvariance, PTL DEF Spec

(* "If a tab is already open, activate it; otherwise load the content,     *)
(* create a new tab": where one operation follows the other, no two tabs   *)
(* save over each other on one file; and between operations no tab is left *)
(* on a file that is gone, also where they overlap but rename and delete   *)
(* nothing.                                                                *)
THEOREM TabsKeepOrder ==
  /\ Orderly => (Spec => []TabHasFile)
  /\ Alone => (Spec => []OneTabPerFile)
  <1>1. OrInv => TabHasFile
    BY DEF OrInv, HasFiles, GoneFrom, TabHasFile, Free, OpenTabs, Open
  <1>2. Alone /\ OrInv => OneTabPerFile
    BY DEF OrInv, OneTabEach
  <1>3. Alone => Orderly
    BY DEF Orderly
  <1>4. ASSUME Orderly PROVE Spec => []TabHasFile
    BY <1>1, <1>4, OrInvariance, PTL
  <1>5. ASSUME Alone PROVE Spec => []OneTabPerFile
    BY <1>2, <1>3, <1>5, OrInvariance, PTL
  <1> QED
    BY <1>4, <1>5

----------------------------------------------------------------------------
(* One operation at a time *)

OneByOne == (\A o, p \in Ops : o = p) /\ Uses \cap {"typeInMerge", "typeInReload", "listFails"} = {}

Merging == {"merge", "merged", "mergeRefused"}
Writing == {"write", "force", "wrote", "refused"}
(* The tab of an operation is the one it began with. *)
TabIsHeld ==
  \A o \in Ops :
    /\ op[o].at \in OfTab => path[op[o].tab] = op[o].path
    /\ op[o].at \in OfTab \ {"reread", "gotAgain"} => base[op[o].tab] = op[o].base
TextIsHeld ==
  \A o \in Ops :
    /\ op[o].at \in Merging => op[o].text = content[op[o].tab]
    /\ op[o].at \in {"write", "wrote"} /\ op[o].then = "reload" => op[o].text = content[op[o].tab]
    /\ op[o].at = "force" => op[o].then = "none"
    /\ op[o].at \in Writing => Theirs(op[o].text) = Theirs(op[o].base)
WritesWhatIsDirty == \A o \in Ops : op[o].at \in Writing => dirty[op[o].tab]
TurnsToOpen == \A o \in Ops : op[o].then = "activate" => Open(op[o].to)
SameTheirs == \A t \in OpenTabs : Theirs(content[t]) = Theirs(base[t])
CleanIsSaved == \A t \in OpenTabs : ~dirty[t] => content[t] = base[t]
ConflictIsDirty == \A t \in OpenTabs : conflicted[t] => dirty[t]
(* What the file of a tab has of the user's edits. *)
JustWritten(t) == \E o \in Ops : op[o].at \in {"wrote", "merged"} /\ op[o].tab = t
BaseIsOnDisk ==
  \A t \in OpenTabs : files[path[t]] # None => JustWritten(t) \/ Ours(base[t]) = Ours(files[path[t]])
WrittenIsOnDisk ==
  \A o \in Ops :
    /\ op[o].at = "wrote" => Ours(op[o].text) = Ours(files[op[o].path])
    /\ op[o].at = "merged" => Ours(Merged(o)) = Ours(files[op[o].path])
ReadIsOnDisk ==
  \A o \in Ops :
    /\ op[o].at \in {"got", "gotAgain", "opened"} => Ours(op[o].disk) = Ours(files[op[o].path])
    /\ op[o].at \in Merging => Ours(op[o].disk) = Ours(op[o].base)
MovedIsOnDisk ==
  \A o \in Ops : op[o].at = "list" => \A t \in OpenTabs : path[t] = op[o].from => Ours(base[t]) = Ours(files[op[o].to])
(* A reload that has not failed has the dirty tabs before it. *)
ReloadGoesOn(o) == op[o].then = "reload" /\ op[o].to # "failed" /\ op[o].at # "unsaved"
ReloadSavesAll ==
  \A o \in Ops :
    /\ op[o].at = "reset" => ReloadGoesOn(o)
    /\ ReloadGoesOn(o) =>
         \A t \in OpenTabs :
           /\ dirty[t] => op[o].at # "reset" /\ (t \in op[o].rest \/ (op[o].at \in OfTab /\ op[o].tab = t))
           /\ ~conflicted[t]
ObInv ==
  /\ TabIsHeld /\ TextIsHeld /\ WritesWhatIsDirty /\ TurnsToOpen /\ SameTheirs /\ CleanIsSaved /\ ConflictIsDirty
  /\ BaseIsOnDisk /\ WrittenIsOnDisk /\ ReadIsOnDisk /\ MovedIsOnDisk /\ ReloadSavesAll /\ ActiveTabIsOpen

(* What the answers do to the tab they are about. *)
OtherTabs(t) ==
  \A u \in Tabs \ {t} :
    content'[u] = content[u] /\ base'[u] = base[u] /\ dirty'[u] = dirty[u] /\ conflicted'[u] = conflicted[u]
TextsStay == UNCHANGED <<content, base, dirty, conflicted>>
(* The tab is as it is on disk. *)
Settles(t, text) ==
  OtherTabs(t) /\ content'[t] = text /\ base'[t] = text /\ ~dirty'[t] /\ ~conflicted'[t]
(* Only what is said of a conflict changes. *)
Marks(t) ==
  /\ content' = content /\ base' = base /\ dirty' = dirty
  /\ \A u \in Tabs \ {t} : conflicted'[u] = conflicted[u]

LEMMA AdoptSettles ==
  ASSUME TabsTyped, NEW t \in Tabs, NEW text, Adopt(t, text)
  PROVE  Settles(t, text)
  <1>1. content'[t] = text /\ base'[t] = text /\ ~dirty'[t] /\ ~conflicted'[t]
    BY DEF TabsTyped, Adopt, TakeDisk
  <1>2. \A u \in Tabs \ {t} : content'[u] = content[u] /\ base'[u] = base[u]
    BY DEF TabsTyped, Adopt, TakeDisk
  <1>3. \A u \in Tabs \ {t} : dirty'[u] = dirty[u]
    BY DEF TabsTyped, Adopt, TakeDisk
  <1>4. \A u \in Tabs \ {t} : conflicted'[u] = conflicted[u]
    BY DEF TabsTyped, Adopt, TakeDisk
  <1> QED
    BY <1>1, <1>2, <1>3, <1>4 DEF Settles, OtherTabs

LEMMA TakeDiskSettles ==
  ASSUME TabsTyped, NEW t \in Tabs, NEW text, TakeDisk(t, text), content' = content, content[t] = text
  PROVE  Settles(t, text)
  <1>1. content'[t] = text /\ base'[t] = text /\ ~dirty'[t] /\ ~conflicted'[t]
    BY DEF TabsTyped, TakeDisk
  <1>2. \A u \in Tabs \ {t} : content'[u] = content[u] /\ base'[u] = base[u]
    BY DEF TabsTyped, TakeDisk
  <1>3. \A u \in Tabs \ {t} : dirty'[u] = dirty[u]
    BY DEF TabsTyped, TakeDisk
  <1>4. \A u \in Tabs \ {t} : conflicted'[u] = conflicted[u]
    BY DEF TabsTyped, TakeDisk
  <1> QED
    BY <1>1, <1>2, <1>3, <1>4 DEF Settles, OtherTabs

LEMMA NotStale ==
  ASSUME ObInv, FsTyped, NEW o \in Ops, op[o].at \in OfTab \ {"reread", "gotAgain"}
  PROVE  ~Stale(o)
  BY DEF ObInv, TabIsHeld, Stale

LEMMA HeldIsOpen ==
  ASSUME ObInv, FsTyped, NEW o \in Ops, op[o].at \in OfTab
  PROVE  op[o].tab \in Tabs /\ op[o].path \in Paths /\ path[op[o].tab] = op[o].path /\ Open(op[o].tab)
  <1>1. op[o].tab \in Tabs /\ op[o].path \in Paths
    BY OpIsTyped DEF WellFormed, OfPath
  <1> QED
    BY <1>1, NoneIsApart DEF ObInv, TabIsHeld, Open

LEMMA WroteSettles ==
  ASSUME FsTyped, ObInv, NEW o \in Ops, Wrote(o)
  PROVE  /\ op[o].at = "wrote"
         /\ files' = files /\ path' = path /\ content' = content /\ active' = active
         /\ base'[op[o].tab] = op[o].text /\ ~conflicted'[op[o].tab]
         /\ dirty'[op[o].tab] = (dirty[op[o].tab] /\ content[op[o].tab] # op[o].text)
         /\ OtherTabs(op[o].tab)
  <1> DEFINE t == op[o].tab
  <1>1. t \in Tabs /\ Open(t)
    BY HeldIsOpen DEF Wrote, Awaits, OfTab
  <1>2. base'[t] = op[o].text /\ \A u \in Tabs \ {t} : base'[u] = base[u]
    BY <1>1 DEF Wrote, FsTyped, TabsTyped
  <1>3. ~conflicted'[t] /\ \A u \in Tabs \ {t} : conflicted'[u] = conflicted[u]
    BY <1>1 DEF Wrote, FsTyped, TabsTyped
  <1>4. \A u \in Tabs \ {t} : dirty'[u] = dirty[u]
    BY <1>1 DEF Wrote, FsTyped, TabsTyped
  <1>5. dirty'[t] = (dirty[t] /\ content[t] # op[o].text)
    BY <1>1 DEF Wrote, FsTyped, TabsTyped
  <1> QED
    BY <1>2, <1>3, <1>4, <1>5 DEF Awaits, Wrote, OtherTabs

LEMMA DecideSettles ==
  ASSUME FsTyped, ObInv, NEW o \in Ops, Decide(o)
  PROVE  LET t == op[o].tab IN
         /\ op[o].at = "got" /\ files' = files /\ path' = path /\ active' = active
         /\ \/ ChecksOut(o) /\ Marks(t) /\ ~conflicted'[t]
            \/ ChecksOut(o) /\ Marks(t) /\ content[t] # base[t]
            \/ ChecksOut(o) /\ Settles(t, op[o].disk) /\ (content[t] = base[t] \/ content[t] = op[o].disk)
            \/ Merges(o, content[t]) /\ TextsStay
  <1> DEFINE t == op[o].tab
  <1>1. t \in Tabs /\ ~Stale(o) /\ op[o].at = "got"
    BY HeldIsOpen, NotStale DEF Decide, Awaits, OfTab
  <1>2. files' = files /\ path' = path /\ active' = active
    BY DEF Decide
  <1>3. CASE ConflictOver(t) /\ EndCheck(o)
    <2>1. Marks(t) /\ ~conflicted'[t]
      BY <1>1, <1>3 DEF ConflictOver, Marks, FsTyped, TabsTyped
    <2> QED
      BY <1>1, <1>2, <1>3, <2>1, EndCheckDoes
  <1>4. CASE content[t] = base[t] /\ Adopt(t, op[o].disk) /\ EndCheck(o)
    BY <1>1, <1>2, <1>4, AdoptSettles, EndCheckDoes DEF FsTyped
  <1>5. CASE content[t] = op[o].disk /\ TakeDisk(t, op[o].disk) /\ content' = content /\ EndCheck(o)
    BY <1>1, <1>2, <1>5, TakeDiskSettles, EndCheckDoes DEF FsTyped
  <1>6. CASE Cardinality({op[o].disk, base[t], content[t]}) = 3 /\ Conflict(t) /\ EndCheck(o)
    <2>1. Marks(t)
      BY <1>1, <1>6 DEF Conflict, Marks, FsTyped, TabsTyped
    <2>2. content[t] # base[t]
      <3> SUFFICES ASSUME content[t] = base[t] PROVE FALSE
        OBVIOUS
      <3>1. {op[o].disk, base[t], content[t]} = {op[o].disk, base[t]}
        OBVIOUS
      <3> QED
        BY <1>6, <3>1, PairsAreSmall
    <2> QED
      BY <1>1, <1>2, <1>6, <2>1, <2>2, EndCheckDoes
  <1>7. CASE KeepTab /\ Begin(o, [op[o] EXCEPT !.at = "merge", !.text = content[t]])
    <2>1. op'[o].at = "merge"
      BY <1>7, OpIsTyped DEF Begin, Operation, FsTyped, OpsTyped
    <2>2. Merges(o, content[t])
      BY <2>1, DecideDoes DEF ChecksOut, Goes
    <2> QED
      BY <1>1, <1>2, <1>7, <2>2 DEF KeepTab, TextsStay
  <1> QED
    BY <1>1, <1>3, <1>4, <1>5, <1>6, <1>7 DEF Decide

LEMMA FinishMergeSettles ==
  ASSUME FsTyped, ObInv, NEW o \in Ops, FinishMerge(o)
  PROVE  /\ files' = files /\ path' = path /\ active' = active /\ ChecksOut(o)
         /\ \/ op[o].at = "merged" /\ Settles(op[o].tab, Merged(o))
            \/ op[o].at = "mergeRefused" /\ TextsStay
  <1> DEFINE t == op[o].tab
  <1>1. t \in Tabs /\ ~Stale(o) /\ op[o].at \in {"merged", "mergeRefused"} /\ op[o].text = content[t]
    BY HeldIsOpen, NotStale DEF FinishMerge, Awaits, OfTab, ObInv, TextIsHeld, Merging
  <1>2. files' = files /\ path' = path /\ active' = active
    BY DEF FinishMerge
  <1>3. CASE op[o].at = "merged"
    <2>1. /\ base' = [base EXCEPT ![t] = Merged(o)] /\ conflicted' = [conflicted EXCEPT ![t] = FALSE]
          /\ content' = [content EXCEPT ![t] = Merged(o)] /\ dirty' = [dirty EXCEPT ![t] = FALSE]
      BY <1>1, <1>3 DEF FinishMerge
    <2>2. content'[t] = Merged(o) /\ base'[t] = Merged(o) /\ ~dirty'[t] /\ ~conflicted'[t]
      BY <1>1, <2>1 DEF FsTyped, TabsTyped
    <2>3. \A u \in Tabs \ {t} : content'[u] = content[u] /\ base'[u] = base[u]
      BY <1>1, <2>1 DEF FsTyped, TabsTyped
    <2>4. \A u \in Tabs \ {t} : dirty'[u] = dirty[u]
      BY <1>1, <2>1 DEF FsTyped, TabsTyped
    <2>5. \A u \in Tabs \ {t} : conflicted'[u] = conflicted[u]
      BY <1>1, <2>1 DEF FsTyped, TabsTyped
    <2> QED
      BY <1>2, <1>3, <2>2, <2>3, <2>4, <2>5, FinishMergeDoes DEF Settles, OtherTabs
  <1>4. CASE op[o].at = "mergeRefused"
    BY <1>2, <1>4, FinishMergeDoes DEF FinishMerge, KeepTab, TextsStay
  <1> QED
    BY <1>1, <1>3, <1>4

LEMMA DiscardedSettles ==
  ASSUME FsTyped, ObInv, NEW o \in Ops, Discarded(o)
  PROVE  /\ op[o].at = "gotAgain"
         /\ files' = files /\ path' = path /\ active' = active
         /\ Settles(op[o].tab, op[o].disk) \/ TextsStay
  <1>1. op[o].tab \in Tabs
    BY HeldIsOpen DEF Discarded, Awaits, OfTab
  <1> QED
    BY <1>1, AdoptSettles DEF Awaits, Discarded, FsTyped, KeepTab, TextsStay

(* What the sets of edits amount to. *)
LEMMA MergeOfOurs ==
  ASSUME NEW o, Ours(op[o].disk) = Ours(op[o].base)
  PROVE  Ours(Merged(o)) = Ours(op[o].text)
  BY DEF Merged, Merge, Ours

LEMMA MergeOfTheirs ==
  ASSUME NEW o, Theirs(op[o].text) = Theirs(op[o].base)
  PROVE  Theirs(Merged(o)) = Theirs(op[o].disk)
  BY DEF Merged, Merge, Theirs

LEMMA TypeDoes ==
  ASSUME FsTyped, NEW t \in Tabs, NEW e \in UserEdits, Type(t, e)
  PROVE  /\ files' = files /\ path' = path /\ base' = base /\ conflicted' = conflicted /\ op' = op /\ active' = active
         /\ MergeInFlight(t) => "typeInMerge" \in Uses
         /\ Reloading => "typeInReload" \in Uses
         /\ active = t /\ Open(t)
         /\ dirty'[t] /\ Theirs(content'[t]) = Theirs(content[t])
         /\ \A u \in Tabs \ {t} : content'[u] = content[u] /\ dirty'[u] = dirty[u]
  <1>1. dirty'[t] /\ \A u \in Tabs \ {t} : content'[u] = content[u]
    BY DEF Type, FsTyped, TabsTyped
  <1>2. \A u \in Tabs \ {t} : dirty'[u] = dirty[u]
    BY DEF Type, FsTyped, TabsTyped
  <1>3. content'[t] \in {content[t] \ {e}, content[t] \cup {e}}
    BY DEF Type, FsTyped, TabsTyped
  <1>4. Theirs(content'[t]) = Theirs(content[t])
    BY <1>3, EditsAssumption DEF Theirs
  <1> QED
    BY <1>1, <1>2, <1>4 DEF Type

LEMMA ChangeDoes ==
  ASSUME FsTyped, NEW p \in Paths, NEW e \in ExternalEdits, Change(p, e)
  PROVE  /\ path' = path /\ content' = content /\ base' = base /\ dirty' = dirty /\ conflicted' = conflicted
         /\ op' = op /\ active' = active
         /\ files[p] # None /\ files'[p] # None /\ Ours(files'[p]) = Ours(files[p])
         /\ \A q \in Paths : (files'[q] = None <=> files[q] = None) /\ Ours(files'[q]) = Ours(files[q])
  <1>1. files[p] # None /\ files[p] \in Texts /\ files'[p] \in {files[p] \ {e}, files[p] \cup {e}}
    BY DEF Change, FsTyped, TabsTyped
  <1>2. Ours(files'[p]) = Ours(files[p])
    BY <1>1, EditsAssumption DEF Ours
  <1>3. files'[p] \in Texts
    BY <1>1 DEF Texts
  <1>4. \A q \in Paths \ {p} : files'[q] = files[q]
    BY DEF Change, FsTyped, TabsTyped
  <1> QED
    BY <1>1, <1>2, <1>3, <1>4, NoneIsApart DEF Change, tabs

(* The tabs that stay open stay as they are. *)
RestStays ==
  \A t \in Tabs : path'[t] # None =>
    /\ path'[t] = path[t] /\ content'[t] = content[t] /\ base'[t] = base[t]
    /\ dirty'[t] = dirty[t] /\ conflicted'[t] = conflicted[t]

LEMMA ForgettingLeavesRest ==
  ASSUME TabsTyped, NEW closed, Forget(closed)
  PROVE  RestStays /\ \A t \in Tabs \cap closed : path'[t] = None
  BY ForgetTyped DEF RestStays

LEMMA ContinueCloseSettles ==
  ASSUME FsTyped, NEW o \in Ops, ContinueClose(o)
  PROVE  op[o].at \in {"saved", "unsaved"} /\ op[o].then = "close" /\ files' = files /\ RestStays
  <1>1. CASE Forget({op[o].to})
    BY <1>1, ForgettingLeavesRest DEF FsTyped, ContinueClose
  <1>2. CASE UNCHANGED <<tabs, active>>
    BY <1>2 DEF ContinueClose, RestStays, tabs
  <1> QED
    BY <1>1, <1>2, ContinueCloseDoes

LEMMA DeletedSettles ==
  ASSUME FsTyped, NEW o \in Ops, Deleted(o)
  PROVE  /\ op[o].at = "deleted"
         /\ files' = files /\ RestStays
         /\ \A t \in Tabs : path'[t] = IF path[t] = op[o].path THEN None ELSE path[t]
  <1> DEFINE closed == {t \in Tabs : path[t] = op[o].path}
  <1>1. Forget(closed)
    BY DeletedDoes
  <1> HIDE DEF closed
  <1>2. RestStays /\ \A t \in Tabs : path'[t] = IF t \in closed THEN None ELSE path[t]
    BY <1>1, ForgettingLeavesRest, ForgetTyped DEF FsTyped
  <1> QED
    BY <1>2 DEF Awaits, Deleted, closed

LEMMA ResetDoneSettles ==
  ASSUME FsTyped, NEW o \in Ops, ResetDone(o)
  PROVE  /\ op[o].at = "reset"
         /\ files' = files /\ RestStays
         /\ active' = None \/ UNCHANGED <<tabs, active>>
  <1>1. CASE Forget(Tabs) /\ active' = None
    BY <1>1, ForgettingLeavesRest DEF FsTyped, ResetDone, Awaits
  <1>2. CASE UNCHANGED <<tabs, active>>
    BY <1>2 DEF ResetDone, Awaits, RestStays, tabs
  <1> QED
    BY <1>1, <1>2 DEF Awaits, ResetDone, tabs

LEMMA OpenedSettles ==
  ASSUME FsTyped, NEW o \in Ops, Opened(o)
  PROVE  /\ op[o].at = "opened"
         /\ files' = files /\ dirty' = dirty /\ conflicted' = conflicted /\ op[o].path \in Paths
         /\ \E t \in Tabs : /\ active' = t /\ path[t] = None /\ path'[t] = op[o].path
                           /\ content'[t] = op[o].disk /\ base'[t] = op[o].disk /\ ~dirty[t] /\ ~conflicted[t]
                           /\ \A u \in Tabs \ {t} :
                                path'[u] = path[u] /\ content'[u] = content[u] /\ base'[u] = base[u]
  <1>1. op[o].path \in Paths
    BY OpIsTyped DEF Opened, Awaits, WellFormed, OfPath
  <1>2. PICK t \in Tabs :
          /\ Unused(t) /\ active' = t
          /\ path' = [path EXCEPT ![t] = op[o].path]
          /\ content' = [content EXCEPT ![t] = op[o].disk]
          /\ base' = [base EXCEPT ![t] = op[o].disk]
    BY DEF Opened
  <1>3. path[t] = None /\ ~dirty[t] /\ ~conflicted[t]
    BY <1>2 DEF Unused, Open, FsTyped, ClosedIsBlank
  <1>4. /\ path'[t] = op[o].path /\ content'[t] = op[o].disk /\ base'[t] = op[o].disk
        /\ \A u \in Tabs \ {t} : path'[u] = path[u] /\ content'[u] = content[u] /\ base'[u] = base[u]
    BY <1>2 DEF FsTyped, TabsTyped
  <1> QED
    BY <1>1, <1>2, <1>3, <1>4 DEF Awaits, Opened

LEMMA RenamedSettles ==
  ASSUME FsTyped, NEW o \in Ops, Renamed(o)
  PROVE  /\ op[o].at = "list"
         /\ files' = files /\ TextsStay /\ active' = active /\ op[o].from \in Paths /\ op[o].to \in Paths
         /\ \A t \in Tabs : path'[t] = IF path[t] = op[o].from THEN op[o].to ELSE path[t]
  BY OpIsTyped DEF Renamed, Awaits, WellFormed, Renames, TextsStay

(* Most steps leave the tabs as they are, and the files. *)
TabsStay == path' = path /\ content' = content /\ base' = base /\ dirty' = dirty /\ conflicted' = conflicted
StoreStays == files' = files /\ TabsStay

LEMMA StepsOfStore ==
  ASSUME NEW o,
         \/ ContinueSave(o) \/ ContinueWatch(o) \/ Activate(o) \/ ContinueActivate(o)
         \/ ContinueSelect(o) \/ ContinueRename(o) \/ ContinueReload(o)
         \/ Refused(o) \/ Read(o) \/ DiskFails(o) \/ Reload(o) \/ Watch(o)
  PROVE  StoreStays
  BY DEF ContinueSave, ContinueWatch, Activate, ContinueActivate, ContinueSelect, ContinueRename,
     ContinueReload, Refused, Read, DiskFails, Reload, Watch, StoreStays, TabsStay, tabs

LEMMA StepsOnTab ==
  ASSUME NEW o, NEW t, Overwrite(o, t) \/ Discard(o, t) \/ SwitchTab(o, t) \/ Close(o, t)
  PROVE  StoreStays
  BY DEF Overwrite, Discard, SwitchTab, Close, StoreStays, TabsStay, tabs

LEMMA StepsOnPath ==
  ASSUME NEW o, NEW p, Select(o, p) \/ Delete(o, p)
  PROVE  StoreStays
  BY DEF Select, Delete, StoreStays, TabsStay, tabs

LEMMA StepOfRename ==
  ASSUME NEW o, NEW p, NEW q, Rename(o, p, q)
  PROVE  StoreStays
  BY DEF Rename, StoreStays, TabsStay, tabs

LEMMA StepOfTimer == AutoSave => StoreStays
  BY DEF AutoSave, StoreStays, TabsStay, tabs

LEMMA StepsOfFiles ==
  ASSUME NEW o, Write(o) \/ ForceWrite(o) \/ WriteMerged(o) \/ DeleteFile(o) \/ RenameFile(o)
  PROVE  TabsStay /\ active' = active
  BY DEF Write, ForceWrite, WriteMerged, DeleteFile, RenameFile, CompareAndWrite, TabsStay, tabs

(* The await an operation was in when it takes a step. *)
LEMMA StageOf ==
  ASSUME NEW o
  PROVE  /\ ContinueSave(o) => op[o].at \in {"saved", "unsaved"} /\ op[o].then = "none"
         /\ ContinueWatch(o) => op[o].at \in {"saved", "unsaved"} /\ op[o].then = "watch"
         /\ Activate(o) => op[o].at \in {"goto"}
         /\ ContinueActivate(o) => op[o].at \in {"saved", "unsaved"} /\ op[o].then = "activate"
         /\ ContinueSelect(o) => op[o].at \in {"saved", "unsaved"} /\ op[o].then = "select"
         /\ ContinueRename(o) => op[o].at \in {"saved", "unsaved"} /\ op[o].then = "rename"
         /\ ContinueReload(o) => op[o].at \in {"saved", "unsaved"} /\ op[o].then = "reload"
         /\ Refused(o) => op[o].at \in {"refused"}
         /\ Read(o) => op[o].at \in {"read", "reread", "open"}
         /\ Write(o) => op[o].at \in {"write"}
         /\ ForceWrite(o) => op[o].at \in {"force"}
         /\ WriteMerged(o) => op[o].at \in {"merge"}
         /\ DeleteFile(o) => op[o].at \in {"delete"}
         /\ RenameFile(o) => op[o].at \in {"rename"}
         /\ DiskFails(o) => op[o].at \in Calls
         /\ FinishMerge(o) => op[o].at \in {"merged", "mergeRefused"}
         /\ \A t \in Tabs : Overwrite(o, t) => op[o].at = "idle" /\ Open(t) /\ conflicted[t]
         /\ \A t \in Tabs : Discard(o, t) => op[o].at = "idle" /\ Open(t) /\ conflicted[t]
         /\ \A t \in Tabs : SwitchTab(o, t) => op[o].at = "idle" /\ Open(t)
         /\ \A t \in Tabs : Close(o, t) => op[o].at = "idle" /\ Open(t)
         /\ \A p \in Paths : Select(o, p) => op[o].at = "idle"
         /\ \A p \in Paths : Delete(o, p) => op[o].at = "idle"
         /\ \A p, q \in Paths : Rename(o, p, q) => op[o].at = "idle"
         /\ Reload(o) => op[o].at = "idle"
         /\ Watch(o) => op[o].at = "idle"
  BY DEF Free, Awaits, ContinueSave, ContinueWatch, Activate, ContinueActivate, ContinueSelect,
     ContinueRename, ContinueReload, Refused, Read, Write, ForceWrite, WriteMerged, DeleteFile,
     RenameFile, DiskFails, FinishMerge, Overwrite, Discard, SwitchTab, Close, Select, Delete,
     Rename, Reload, Watch

(* Who takes an operation to a stage, and who changes tabs and files. *)
StagesTurn ==
  \A o \in Ops :
    /\ op'[o].at = "wrote" => op'[o] = op[o] \/ Write(o) \/ ForceWrite(o)
    /\ op'[o].at = "merged" => op'[o] = op[o] \/ WriteMerged(o)
    /\ op'[o].at \in {"got", "gotAgain", "opened"} => op'[o] = op[o] \/ Read(o)
    /\ op'[o].at = "merge" => op'[o] = op[o] \/ Decide(o)
    /\ op'[o].at = "mergeRefused" => op'[o] = op[o] \/ (op[o].at = "merge" /\ Keeps(o))
    /\ op'[o].at = "reset" => op'[o] = op[o] \/ ContinueReload(o)
TabsTurn ==
  \/ TabsStay /\ active' = active
  \/ \E o \in Ops : \/ Wrote(o) \/ Decide(o) \/ FinishMerge(o) \/ Discarded(o) \/ ContinueClose(o)
                   \/ Deleted(o) \/ ResetDone(o) \/ Opened(o) \/ Renamed(o)
                   \/ (ContinueActivate(o) /\ TabsStay)
  \/ \E t \in Tabs, e \in UserEdits : Type(t, e)
FilesTurn ==
  \/ files' = files
  \/ \E o \in Ops : Write(o) \/ ForceWrite(o) \/ WriteMerged(o) \/ DeleteFile(o) \/ RenameFile(o)
  \/ \E p \in Paths, e \in ExternalEdits : Change(p, e)

(* Each stage has the actions it follows. *)
LEMMA StageSteps == FsTyped /\ [Next]_vars => StagesTurn
  <1> SUFFICES ASSUME FsTyped, [Next]_vars PROVE StagesTurn
    OBVIOUS
  <1> USE  DEF StagesTurn
  <1>1. ASSUME NEW o \in Ops, ContinueSave(o) PROVE StagesTurn
    BY <1>1, OpIsTyped, ContinueSaveDoes, StageOf DEF Others, Ends
  <1>2. ASSUME NEW o \in Ops, ContinueWatch(o) PROVE StagesTurn
    BY <1>2, OpIsTyped, ContinueWatchDoes, StageOf DEF Others, Ends, Calling, Checks
  <1>3. ASSUME NEW o \in Ops, ContinueClose(o) PROVE StagesTurn
    BY <1>3, OpIsTyped, ContinueCloseDoes, StageOf DEF Others, Ends, Turns, Removes,
       ContinueClose, Awaits
  <1>4. ASSUME NEW o \in Ops, Activate(o) PROVE StagesTurn
    BY <1>4, OpIsTyped, ActivateDoes, StageOf DEF Others, Ends, Calling, Takes, Saves, Resumes,
       Flushes
  <1>5. ASSUME NEW o \in Ops, ContinueActivate(o) PROVE StagesTurn
    BY <1>5, OpIsTyped, ContinueActivateDoes, StageOf DEF Others, Ends
  <1>6. ASSUME NEW o \in Ops, ContinueSelect(o) PROVE StagesTurn
    BY <1>6, OpIsTyped, ContinueSelectDoes, StageOf DEF Others, Asks
  <1>7. ASSUME NEW o \in Ops, ContinueRename(o) PROVE StagesTurn
    BY <1>7, OpIsTyped, ContinueRenameDoes, StageOf DEF Others, Ends, StartsRenaming
  <1>8. ASSUME NEW o \in Ops, ContinueReload(o) PROVE StagesTurn
    BY <1>8, OpIsTyped, ContinueReloadDoes, StageOf DEF Others, Ends, Calling, Takes, Saves, Asks
  <1>9. ASSUME NEW o \in Ops, Write(o) PROVE StagesTurn
    BY <1>9, OpIsTyped, WriteDoes, StageOf DEF Others, Keeps, Goes
  <1>10. ASSUME NEW o \in Ops, ForceWrite(o) PROVE StagesTurn
    BY <1>10, OpIsTyped, ForceWriteDoes, StageOf DEF Others, Keeps, Goes
  <1>11. ASSUME NEW o \in Ops, Read(o) PROVE StagesTurn
    BY <1>11, OpIsTyped, ReadDoes, StageOf DEF Others, Keeps, Ends, Goes, Calling, ChecksOut,
       Gets, GivesUp
  <1>12. ASSUME NEW o \in Ops, WriteMerged(o) PROVE StagesTurn
    BY <1>12, OpIsTyped, WriteMergedDoes, StageOf DEF Others, Keeps, Goes
  <1>13. ASSUME NEW o \in Ops, DeleteFile(o) PROVE StagesTurn
    BY <1>13, OpIsTyped, DeleteFileDoes, StageOf DEF Others, Keeps, Ends, Goes
  <1>14. ASSUME NEW o \in Ops, RenameFile(o) PROVE StagesTurn
    BY <1>14, OpIsTyped, RenameFileDoes, StageOf DEF Others, Keeps, Ends, Goes, WellFormed, Renames
  <1>15. ASSUME NEW o \in Ops, Wrote(o) PROVE StagesTurn
    BY <1>15, OpIsTyped, WroteDoes, StageOf DEF Others, Keeps, Goes, Wrote, Awaits
  <1>16. ASSUME NEW o \in Ops, Refused(o) PROVE StagesTurn
    BY <1>16, OpIsTyped, RefusedDoes, StageOf DEF Others, Keeps, Goes, Calling, Checks, ChecksOut
  <1>17. ASSUME NEW o \in Ops, Decide(o) PROVE StagesTurn
    BY <1>17, OpIsTyped, DecideDoes, StageOf DEF Others, Keeps, Goes, Calling, ChecksOut, Merges
  <1>18. ASSUME NEW o \in Ops, FinishMerge(o) PROVE StagesTurn
    BY <1>18, OpIsTyped, FinishMergeDoes, StageOf DEF Others, Keeps, Goes, ChecksOut, FinishMerge,
       Awaits
  <1>19. ASSUME NEW o \in Ops, Discarded(o) PROVE StagesTurn
    BY <1>19, OpIsTyped, DiscardedDoes, StageOf DEF Others, Keeps, Ends, Goes, Discarded, Awaits
  <1>20. ASSUME NEW o \in Ops, Opened(o) PROVE StagesTurn
    BY <1>20, OpIsTyped, OpenedDoes, StageOf DEF Others, Ends, Opened, Awaits
  <1>21. ASSUME NEW o \in Ops, Deleted(o) PROVE StagesTurn
    BY <1>21, OpIsTyped, DeletedDoes, StageOf DEF Others, Ends, Turns, Removes, Deleted, Awaits
  <1>22. ASSUME NEW o \in Ops, Renamed(o) PROVE StagesTurn
    BY <1>22, OpIsTyped, RenamedDoes, StageOf DEF Others, Ends, Renamed, Awaits
  <1>23. ASSUME NEW o \in Ops, ResetDone(o) PROVE StagesTurn
    BY <1>23, OpIsTyped, ResetDoneDoes, StageOf DEF Others, Ends, ResetDone, Awaits
  <1>24. ASSUME NEW o \in Ops, NEW t \in Tabs, Overwrite(o, t) PROVE StagesTurn
    BY <1>24, OpIsTyped, OverwriteDoes, StageOf DEF Others, Calling, Takes, Forces
  <1>25. ASSUME NEW o \in Ops, NEW t \in Tabs, Discard(o, t) PROVE StagesTurn
    BY <1>25, OpIsTyped, DiscardDoes, StageOf DEF Others, Rereads
  <1>26. ASSUME NEW o \in Ops, NEW t \in Tabs, SwitchTab(o, t) PROVE StagesTurn
    BY <1>26, OpIsTyped, SwitchTabDoes, StageOf DEF Others, Turns
  <1>27. ASSUME NEW o \in Ops, NEW t \in Tabs, Close(o, t) PROVE StagesTurn
    BY <1>27, OpIsTyped, CloseDoes, StageOf DEF Others, Calling, Takes, Saves, Resumes
  <1>28. ASSUME NEW o \in Ops, NEW p \in Paths, Select(o, p) PROVE StagesTurn
    BY <1>28, OpIsTyped, SelectDoes, StageOf DEF Others, Calling, Takes, Saves, Resumes, Flushes,
       Turns, Rereads
  <1>29. ASSUME NEW o \in Ops, NEW p \in Paths, Delete(o, p) PROVE StagesTurn
    BY <1>29, OpIsTyped, DeleteDoes, StageOf DEF Others, Asks
  <1>30. ASSUME NEW o \in Ops, NEW p \in Paths, NEW q \in Paths, Rename(o, p, q) PROVE StagesTurn
    BY <1>30, OpIsTyped, RenameDoes, StageOf DEF Others, Calling, Takes, Saves, Resumes, Flushes,
       StartsRenaming
  <1>31. ASSUME NEW o \in Ops, Reload(o) PROVE StagesTurn
    BY <1>31, OpIsTyped, ReloadDoes, StageOf DEF Others, Calling, Resumes
  <1>32. ASSUME NEW o \in Ops, Watch(o) PROVE StagesTurn
    BY <1>32, OpIsTyped, WatchDoes, StageOf DEF Others, Calling, Resumes
  <1>33. ASSUME NEW o \in Ops, DiskFails(o) PROVE StagesTurn
    BY <1>33, OpIsTyped, DiskFailsDoes, StageOf DEF Others, Keeps, Ends, Goes, ChecksOut, GivesUp,
       Calls
  <1>34. CASE AutoSave
    BY <1>34, AutoSaveDoes DEF Others, Calling, Takes, Saves
  <1>35. ASSUME NEW t \in Tabs, NEW e \in UserEdits, Type(t, e) PROVE StagesTurn
    BY <1>35 DEF Type
  <1>36. ASSUME NEW p \in Paths, NEW e \in ExternalEdits, Change(p, e) PROVE StagesTurn
    BY <1>36 DEF Change, tabs
  <1>37. CASE UNCHANGED vars
    BY <1>37 DEF vars
  <1> QED
    BY <1>1, <1>2, <1>3, <1>4, <1>5, <1>6, <1>7, <1>8, <1>9, <1>10, <1>11, <1>12, <1>13, <1>14,
       <1>15, <1>16, <1>17, <1>18, <1>19, <1>20, <1>21, <1>22, <1>23, <1>24, <1>25, <1>26, <1>27,
       <1>28, <1>29, <1>30, <1>31, <1>32, <1>33, <1>34, <1>35, <1>36, <1>37 DEF Next, Continue,
       Backend, Answer, User

(* The answers, closing and typing are all that changes tabs. *)
LEMMA TabSteps == FsTyped /\ [Next]_vars => TabsTurn
  <1> SUFFICES ASSUME FsTyped, [Next]_vars PROVE TabsTurn
    OBVIOUS
  <1> USE  DEF TabsTurn
  <1>1. ASSUME NEW o \in Ops, ContinueSave(o) PROVE TabsTurn
    BY <1>1 DEF ContinueSave, TabsStay, tabs
  <1>2. ASSUME NEW o \in Ops, ContinueWatch(o) PROVE TabsTurn
    BY <1>2 DEF ContinueWatch, TabsStay, tabs
  <1>3. ASSUME NEW o \in Ops, ContinueClose(o) PROVE TabsTurn
    BY <1>3
  <1>4. ASSUME NEW o \in Ops, Activate(o) PROVE TabsTurn
    BY <1>4 DEF Activate, TabsStay, tabs
  <1>5. ASSUME NEW o \in Ops, ContinueActivate(o) PROVE TabsTurn
    BY <1>5 DEF ContinueActivate, TabsStay, tabs
  <1>6. ASSUME NEW o \in Ops, ContinueSelect(o) PROVE TabsTurn
    BY <1>6 DEF ContinueSelect, TabsStay, tabs
  <1>7. ASSUME NEW o \in Ops, ContinueRename(o) PROVE TabsTurn
    BY <1>7 DEF ContinueRename, TabsStay, tabs
  <1>8. ASSUME NEW o \in Ops, ContinueReload(o) PROVE TabsTurn
    BY <1>8 DEF ContinueReload, TabsStay, tabs
  <1>9. ASSUME NEW o \in Ops, Write(o) PROVE TabsTurn
    BY <1>9 DEF Write, TabsStay, tabs, CompareAndWrite
  <1>10. ASSUME NEW o \in Ops, ForceWrite(o) PROVE TabsTurn
    BY <1>10 DEF ForceWrite, TabsStay, tabs
  <1>11. ASSUME NEW o \in Ops, Read(o) PROVE TabsTurn
    BY <1>11 DEF Read, TabsStay, tabs
  <1>12. ASSUME NEW o \in Ops, WriteMerged(o) PROVE TabsTurn
    BY <1>12 DEF WriteMerged, TabsStay, tabs, CompareAndWrite
  <1>13. ASSUME NEW o \in Ops, DeleteFile(o) PROVE TabsTurn
    BY <1>13 DEF DeleteFile, TabsStay, tabs
  <1>14. ASSUME NEW o \in Ops, RenameFile(o) PROVE TabsTurn
    BY <1>14 DEF RenameFile, TabsStay, tabs
  <1>15. ASSUME NEW o \in Ops, Wrote(o) PROVE TabsTurn
    BY <1>15
  <1>16. ASSUME NEW o \in Ops, Refused(o) PROVE TabsTurn
    BY <1>16 DEF Refused, TabsStay, tabs
  <1>17. ASSUME NEW o \in Ops, Decide(o) PROVE TabsTurn
    BY <1>17
  <1>18. ASSUME NEW o \in Ops, FinishMerge(o) PROVE TabsTurn
    BY <1>18
  <1>19. ASSUME NEW o \in Ops, Discarded(o) PROVE TabsTurn
    BY <1>19
  <1>20. ASSUME NEW o \in Ops, Opened(o) PROVE TabsTurn
    BY <1>20
  <1>21. ASSUME NEW o \in Ops, Deleted(o) PROVE TabsTurn
    BY <1>21
  <1>22. ASSUME NEW o \in Ops, Renamed(o) PROVE TabsTurn
    BY <1>22
  <1>23. ASSUME NEW o \in Ops, ResetDone(o) PROVE TabsTurn
    BY <1>23
  <1>24. ASSUME NEW o \in Ops, NEW t \in Tabs, Overwrite(o, t) PROVE TabsTurn
    BY <1>24 DEF Overwrite, TabsStay, tabs
  <1>25. ASSUME NEW o \in Ops, NEW t \in Tabs, Discard(o, t) PROVE TabsTurn
    BY <1>25 DEF Discard, TabsStay, tabs
  <1>26. ASSUME NEW o \in Ops, NEW t \in Tabs, SwitchTab(o, t) PROVE TabsTurn
    BY <1>26 DEF SwitchTab, TabsStay, tabs
  <1>27. ASSUME NEW o \in Ops, NEW t \in Tabs, Close(o, t) PROVE TabsTurn
    BY <1>27 DEF Close, TabsStay, tabs
  <1>28. ASSUME NEW o \in Ops, NEW p \in Paths, Select(o, p) PROVE TabsTurn
    BY <1>28 DEF Select, TabsStay, tabs
  <1>29. ASSUME NEW o \in Ops, NEW p \in Paths, Delete(o, p) PROVE TabsTurn
    BY <1>29 DEF Delete, TabsStay, tabs
  <1>30. ASSUME NEW o \in Ops, NEW p \in Paths, NEW q \in Paths, Rename(o, p, q) PROVE TabsTurn
    BY <1>30 DEF Rename, TabsStay, tabs
  <1>31. ASSUME NEW o \in Ops, Reload(o) PROVE TabsTurn
    BY <1>31 DEF Reload, TabsStay, tabs
  <1>32. ASSUME NEW o \in Ops, Watch(o) PROVE TabsTurn
    BY <1>32 DEF Watch, TabsStay, tabs
  <1>33. ASSUME NEW o \in Ops, DiskFails(o) PROVE TabsTurn
    BY <1>33 DEF DiskFails, TabsStay, tabs
  <1>34. CASE AutoSave
    BY <1>34 DEF AutoSave, TabsStay, tabs
  <1>35. ASSUME NEW t \in Tabs, NEW e \in UserEdits, Type(t, e) PROVE TabsTurn
    BY <1>35
  <1>36. ASSUME NEW p \in Paths, NEW e \in ExternalEdits, Change(p, e) PROVE TabsTurn
    BY <1>36 DEF Change, TabsStay, tabs
  <1>37. CASE UNCHANGED vars
    BY <1>37 DEF vars, TabsStay, tabs
  <1> QED
    BY <1>1, <1>2, <1>3, <1>4, <1>5, <1>6, <1>7, <1>8, <1>9, <1>10, <1>11, <1>12, <1>13, <1>14,
       <1>15, <1>16, <1>17, <1>18, <1>19, <1>20, <1>21, <1>22, <1>23, <1>24, <1>25, <1>26, <1>27,
       <1>28, <1>29, <1>30, <1>31, <1>32, <1>33, <1>34, <1>35, <1>36, <1>37 DEF Next, Continue,
       Backend, Answer, User

(* The backend and other programs are all that changes files. *)
LEMMA FileTurns == FsTyped /\ [Next]_vars => FilesTurn
  <1> SUFFICES ASSUME FsTyped, [Next]_vars PROVE FilesTurn
    OBVIOUS
  <1> USE  DEF FilesTurn
  <1>1. ASSUME NEW o \in Ops, ContinueSave(o) PROVE FilesTurn
    BY <1>1 DEF ContinueSave
  <1>2. ASSUME NEW o \in Ops, ContinueWatch(o) PROVE FilesTurn
    BY <1>2 DEF ContinueWatch
  <1>3. ASSUME NEW o \in Ops, ContinueClose(o) PROVE FilesTurn
    BY <1>3 DEF ContinueClose
  <1>4. ASSUME NEW o \in Ops, Activate(o) PROVE FilesTurn
    BY <1>4 DEF Activate
  <1>5. ASSUME NEW o \in Ops, ContinueActivate(o) PROVE FilesTurn
    BY <1>5 DEF ContinueActivate
  <1>6. ASSUME NEW o \in Ops, ContinueSelect(o) PROVE FilesTurn
    BY <1>6 DEF ContinueSelect
  <1>7. ASSUME NEW o \in Ops, ContinueRename(o) PROVE FilesTurn
    BY <1>7 DEF ContinueRename
  <1>8. ASSUME NEW o \in Ops, ContinueReload(o) PROVE FilesTurn
    BY <1>8 DEF ContinueReload
  <1>9. ASSUME NEW o \in Ops, Write(o) PROVE FilesTurn
    BY <1>9
  <1>10. ASSUME NEW o \in Ops, ForceWrite(o) PROVE FilesTurn
    BY <1>10
  <1>11. ASSUME NEW o \in Ops, Read(o) PROVE FilesTurn
    BY <1>11 DEF Read
  <1>12. ASSUME NEW o \in Ops, WriteMerged(o) PROVE FilesTurn
    BY <1>12
  <1>13. ASSUME NEW o \in Ops, DeleteFile(o) PROVE FilesTurn
    BY <1>13
  <1>14. ASSUME NEW o \in Ops, RenameFile(o) PROVE FilesTurn
    BY <1>14
  <1>15. ASSUME NEW o \in Ops, Wrote(o) PROVE FilesTurn
    BY <1>15 DEF Wrote
  <1>16. ASSUME NEW o \in Ops, Refused(o) PROVE FilesTurn
    BY <1>16 DEF Refused
  <1>17. ASSUME NEW o \in Ops, Decide(o) PROVE FilesTurn
    BY <1>17 DEF Decide
  <1>18. ASSUME NEW o \in Ops, FinishMerge(o) PROVE FilesTurn
    BY <1>18 DEF FinishMerge
  <1>19. ASSUME NEW o \in Ops, Discarded(o) PROVE FilesTurn
    BY <1>19 DEF Discarded
  <1>20. ASSUME NEW o \in Ops, Opened(o) PROVE FilesTurn
    BY <1>20 DEF Opened
  <1>21. ASSUME NEW o \in Ops, Deleted(o) PROVE FilesTurn
    BY <1>21 DEF Deleted
  <1>22. ASSUME NEW o \in Ops, Renamed(o) PROVE FilesTurn
    BY <1>22 DEF Renamed
  <1>23. ASSUME NEW o \in Ops, ResetDone(o) PROVE FilesTurn
    BY <1>23 DEF ResetDone
  <1>24. ASSUME NEW o \in Ops, NEW t \in Tabs, Overwrite(o, t) PROVE FilesTurn
    BY <1>24 DEF Overwrite
  <1>25. ASSUME NEW o \in Ops, NEW t \in Tabs, Discard(o, t) PROVE FilesTurn
    BY <1>25 DEF Discard
  <1>26. ASSUME NEW o \in Ops, NEW t \in Tabs, SwitchTab(o, t) PROVE FilesTurn
    BY <1>26 DEF SwitchTab
  <1>27. ASSUME NEW o \in Ops, NEW t \in Tabs, Close(o, t) PROVE FilesTurn
    BY <1>27 DEF Close
  <1>28. ASSUME NEW o \in Ops, NEW p \in Paths, Select(o, p) PROVE FilesTurn
    BY <1>28 DEF Select
  <1>29. ASSUME NEW o \in Ops, NEW p \in Paths, Delete(o, p) PROVE FilesTurn
    BY <1>29 DEF Delete
  <1>30. ASSUME NEW o \in Ops, NEW p \in Paths, NEW q \in Paths, Rename(o, p, q) PROVE FilesTurn
    BY <1>30 DEF Rename
  <1>31. ASSUME NEW o \in Ops, Reload(o) PROVE FilesTurn
    BY <1>31 DEF Reload
  <1>32. ASSUME NEW o \in Ops, Watch(o) PROVE FilesTurn
    BY <1>32 DEF Watch
  <1>33. ASSUME NEW o \in Ops, DiskFails(o) PROVE FilesTurn
    BY <1>33 DEF DiskFails
  <1>34. CASE AutoSave
    BY <1>34 DEF AutoSave
  <1>35. ASSUME NEW t \in Tabs, NEW e \in UserEdits, Type(t, e) PROVE FilesTurn
    BY <1>35 DEF Type
  <1>36. ASSUME NEW p \in Paths, NEW e \in ExternalEdits, Change(p, e) PROVE FilesTurn
    BY <1>36
  <1>37. CASE UNCHANGED vars
    BY <1>37 DEF vars
  <1> QED
    BY <1>1, <1>2, <1>3, <1>4, <1>5, <1>6, <1>7, <1>8, <1>9, <1>10, <1>11, <1>12, <1>13, <1>14,
       <1>15, <1>16, <1>17, <1>18, <1>19, <1>20, <1>21, <1>22, <1>23, <1>24, <1>25, <1>26, <1>27,
       <1>28, <1>29, <1>30, <1>31, <1>32, <1>33, <1>34, <1>35, <1>36, <1>37 DEF Next, Continue,
       Backend, Answer, User

(* What other programs changed is the same in a tab and in its base. *)
LEMMA SameTheirsStep == OneByOne /\ FsTyped /\ OrInv /\ ObInv /\ [Next]_vars => SameTheirs'
  <1> SUFFICES ASSUME OneByOne /\ FsTyped /\ OrInv /\ ObInv, [Next]_vars PROVE SameTheirs'
    OBVIOUS
  <1> USE  DEF SameTheirs, ObInv
  <1>0. \A o, p \in Ops : o = p
    BY DEF OneByOne
  <1>1. ASSUME NEW o \in Ops, ContinueSave(o) PROVE SameTheirs'
    BY <1>1, <1>0, OpIsTyped, StepsOfStore DEF StoreStays, TabsStay, OpenTabs, Open, ReadIsOnDisk,
       TextIsHeld, TabIsHeld, OfTab, Writing
  <1>2. ASSUME NEW o \in Ops, ContinueWatch(o) PROVE SameTheirs'
    BY <1>2, <1>0, OpIsTyped, StepsOfStore DEF StoreStays, TabsStay, OpenTabs, Open, ReadIsOnDisk,
       TextIsHeld, TabIsHeld, OfTab, Writing
  <1>3. ASSUME NEW o \in Ops, ContinueClose(o) PROVE SameTheirs'
    BY <1>3, <1>0, OpIsTyped, ContinueCloseSettles, HeldIsOpen DEF Settles, OtherTabs, Marks,
       TextsStay, RestStays, OpenTabs, Open, ReadIsOnDisk, TextIsHeld, TabIsHeld, OfTab, Writing
  <1>4. ASSUME NEW o \in Ops, Activate(o) PROVE SameTheirs'
    BY <1>4, <1>0, OpIsTyped, StepsOfStore DEF StoreStays, TabsStay, OpenTabs, Open, ReadIsOnDisk,
       TextIsHeld, TabIsHeld, OfTab, Writing
  <1>5. ASSUME NEW o \in Ops, ContinueActivate(o) PROVE SameTheirs'
    BY <1>5, <1>0, OpIsTyped, StepsOfStore DEF StoreStays, TabsStay, OpenTabs, Open, ReadIsOnDisk,
       TextIsHeld, TabIsHeld, OfTab, Writing
  <1>6. ASSUME NEW o \in Ops, ContinueSelect(o) PROVE SameTheirs'
    BY <1>6, <1>0, OpIsTyped, StepsOfStore DEF StoreStays, TabsStay, OpenTabs, Open, ReadIsOnDisk,
       TextIsHeld, TabIsHeld, OfTab, Writing
  <1>7. ASSUME NEW o \in Ops, ContinueRename(o) PROVE SameTheirs'
    BY <1>7, <1>0, OpIsTyped, StepsOfStore DEF StoreStays, TabsStay, OpenTabs, Open, ReadIsOnDisk,
       TextIsHeld, TabIsHeld, OfTab, Writing
  <1>8. ASSUME NEW o \in Ops, ContinueReload(o) PROVE SameTheirs'
    BY <1>8, <1>0, OpIsTyped, StepsOfStore DEF StoreStays, TabsStay, OpenTabs, Open, ReadIsOnDisk,
       TextIsHeld, TabIsHeld, OfTab, Writing
  <1>9. ASSUME NEW o \in Ops, Write(o) PROVE SameTheirs'
    BY <1>9, <1>0, OpIsTyped, StepsOfFiles DEF StoreStays, TabsStay, OpenTabs, Open, ReadIsOnDisk,
       TextIsHeld, TabIsHeld, OfTab, Writing
  <1>10. ASSUME NEW o \in Ops, ForceWrite(o) PROVE SameTheirs'
    BY <1>10, <1>0, OpIsTyped, StepsOfFiles DEF StoreStays, TabsStay, OpenTabs, Open,
       ReadIsOnDisk, TextIsHeld, TabIsHeld, OfTab, Writing
  <1>11. ASSUME NEW o \in Ops, Read(o) PROVE SameTheirs'
    BY <1>11, <1>0, OpIsTyped, StepsOfStore DEF StoreStays, TabsStay, OpenTabs, Open,
       ReadIsOnDisk, TextIsHeld, TabIsHeld, OfTab, Writing
  <1>12. ASSUME NEW o \in Ops, WriteMerged(o) PROVE SameTheirs'
    BY <1>12, <1>0, OpIsTyped, StepsOfFiles DEF StoreStays, TabsStay, OpenTabs, Open,
       ReadIsOnDisk, TextIsHeld, TabIsHeld, OfTab, Writing
  <1>13. ASSUME NEW o \in Ops, DeleteFile(o) PROVE SameTheirs'
    BY <1>13, <1>0, OpIsTyped, StepsOfFiles DEF StoreStays, TabsStay, OpenTabs, Open,
       ReadIsOnDisk, TextIsHeld, TabIsHeld, OfTab, Writing
  <1>14. ASSUME NEW o \in Ops, RenameFile(o) PROVE SameTheirs'
    BY <1>14, <1>0, OpIsTyped, StepsOfFiles DEF StoreStays, TabsStay, OpenTabs, Open,
       ReadIsOnDisk, TextIsHeld, TabIsHeld, OfTab, Writing
  <1>15. ASSUME NEW o \in Ops, Wrote(o) PROVE SameTheirs'
    BY <1>15, <1>0, OpIsTyped, WroteSettles, HeldIsOpen DEF Settles, OtherTabs, Marks, TextsStay,
       RestStays, OpenTabs, Open, ReadIsOnDisk, TextIsHeld, TabIsHeld, OfTab, Writing
  <1>16. ASSUME NEW o \in Ops, Refused(o) PROVE SameTheirs'
    BY <1>16, <1>0, OpIsTyped, StepsOfStore DEF StoreStays, TabsStay, OpenTabs, Open,
       ReadIsOnDisk, TextIsHeld, TabIsHeld, OfTab, Writing
  <1>17. ASSUME NEW o \in Ops, Decide(o) PROVE SameTheirs'
    BY <1>17, <1>0, OpIsTyped, DecideSettles, HeldIsOpen DEF Settles, OtherTabs, Marks, TextsStay,
       RestStays, OpenTabs, Open, ReadIsOnDisk, TextIsHeld, TabIsHeld, OfTab, Writing
  <1>18. ASSUME NEW o \in Ops, FinishMerge(o) PROVE SameTheirs'
    BY <1>18, <1>0, OpIsTyped, FinishMergeSettles, HeldIsOpen DEF Settles, OtherTabs, Marks,
       TextsStay, RestStays, OpenTabs, Open, ReadIsOnDisk, TextIsHeld, TabIsHeld, OfTab, Writing
  <1>19. ASSUME NEW o \in Ops, Discarded(o) PROVE SameTheirs'
    BY <1>19, <1>0, OpIsTyped, DiscardedSettles, HeldIsOpen DEF Settles, OtherTabs, Marks,
       TextsStay, RestStays, OpenTabs, Open, ReadIsOnDisk, TextIsHeld, TabIsHeld, OfTab, Writing
  <1>20. ASSUME NEW o \in Ops, Opened(o) PROVE SameTheirs'
    BY <1>20, <1>0, NoneIsApart, OpIsTyped, OpenedSettles, HeldIsOpen DEF Settles, OtherTabs,
       Marks, TextsStay, RestStays, OpenTabs, Open, ReadIsOnDisk, TextIsHeld, TabIsHeld, OfTab,
       Writing
  <1>21. ASSUME NEW o \in Ops, Deleted(o) PROVE SameTheirs'
    BY <1>21, <1>0, OpIsTyped, DeletedSettles, HeldIsOpen DEF Settles, OtherTabs, Marks,
       TextsStay, RestStays, OpenTabs, Open, ReadIsOnDisk, TextIsHeld, TabIsHeld, OfTab, Writing
  <1>22. ASSUME NEW o \in Ops, Renamed(o) PROVE SameTheirs'
    BY <1>22, <1>0, NoneIsApart, OpIsTyped, RenamedSettles, HeldIsOpen DEF Settles, OtherTabs,
       Marks, TextsStay, RestStays, OpenTabs, Open, ReadIsOnDisk, TextIsHeld, TabIsHeld, OfTab,
       Writing
  <1>23. ASSUME NEW o \in Ops, ResetDone(o) PROVE SameTheirs'
    BY <1>23, <1>0, OpIsTyped, ResetDoneSettles, HeldIsOpen DEF Settles, OtherTabs, Marks,
       TextsStay, RestStays, OpenTabs, Open, ReadIsOnDisk, TextIsHeld, TabIsHeld, OfTab, Writing
  <1>24. ASSUME NEW o \in Ops, NEW t \in Tabs, Overwrite(o, t) PROVE SameTheirs'
    BY <1>24, <1>0, OpIsTyped, StepsOnTab DEF StoreStays, TabsStay, OpenTabs, Open, ReadIsOnDisk,
       TextIsHeld, TabIsHeld, OfTab, Writing
  <1>25. ASSUME NEW o \in Ops, NEW t \in Tabs, Discard(o, t) PROVE SameTheirs'
    BY <1>25, <1>0, OpIsTyped, StepsOnTab DEF StoreStays, TabsStay, OpenTabs, Open, ReadIsOnDisk,
       TextIsHeld, TabIsHeld, OfTab, Writing
  <1>26. ASSUME NEW o \in Ops, NEW t \in Tabs, SwitchTab(o, t) PROVE SameTheirs'
    BY <1>26, <1>0, OpIsTyped, StepsOnTab DEF StoreStays, TabsStay, OpenTabs, Open, ReadIsOnDisk,
       TextIsHeld, TabIsHeld, OfTab, Writing
  <1>27. ASSUME NEW o \in Ops, NEW t \in Tabs, Close(o, t) PROVE SameTheirs'
    BY <1>27, <1>0, OpIsTyped, StepsOnTab DEF StoreStays, TabsStay, OpenTabs, Open, ReadIsOnDisk,
       TextIsHeld, TabIsHeld, OfTab, Writing
  <1>28. ASSUME NEW o \in Ops, NEW p \in Paths, Select(o, p) PROVE SameTheirs'
    BY <1>28, <1>0, OpIsTyped, StepsOnPath DEF StoreStays, TabsStay, OpenTabs, Open, ReadIsOnDisk,
       TextIsHeld, TabIsHeld, OfTab, Writing
  <1>29. ASSUME NEW o \in Ops, NEW p \in Paths, Delete(o, p) PROVE SameTheirs'
    BY <1>29, <1>0, OpIsTyped, StepsOnPath DEF StoreStays, TabsStay, OpenTabs, Open, ReadIsOnDisk,
       TextIsHeld, TabIsHeld, OfTab, Writing
  <1>30. ASSUME NEW o \in Ops, NEW p \in Paths, NEW q \in Paths, Rename(o, p, q) PROVE SameTheirs'
    BY <1>30, <1>0, OpIsTyped, StepOfRename DEF StoreStays, TabsStay, OpenTabs, Open,
       ReadIsOnDisk, TextIsHeld, TabIsHeld, OfTab, Writing
  <1>31. ASSUME NEW o \in Ops, Reload(o) PROVE SameTheirs'
    BY <1>31, <1>0, OpIsTyped, StepsOfStore DEF StoreStays, TabsStay, OpenTabs, Open,
       ReadIsOnDisk, TextIsHeld, TabIsHeld, OfTab, Writing
  <1>32. ASSUME NEW o \in Ops, Watch(o) PROVE SameTheirs'
    BY <1>32, <1>0, OpIsTyped, StepsOfStore DEF StoreStays, TabsStay, OpenTabs, Open,
       ReadIsOnDisk, TextIsHeld, TabIsHeld, OfTab, Writing
  <1>33. ASSUME NEW o \in Ops, DiskFails(o) PROVE SameTheirs'
    BY <1>33, <1>0, OpIsTyped, StepsOfStore DEF StoreStays, TabsStay, OpenTabs, Open,
       ReadIsOnDisk, TextIsHeld, TabIsHeld, OfTab, Writing
  <1>34. CASE AutoSave
    BY <1>34, <1>0, StepOfTimer DEF StoreStays, TabsStay, OpenTabs, Open, ReadIsOnDisk,
       TextIsHeld, TabIsHeld, OfTab, Writing
  <1>35. ASSUME NEW t \in Tabs, NEW e \in UserEdits, Type(t, e) PROVE SameTheirs'
    BY <1>35, <1>0, TypeDoes, HeldIsOpen, OpIsTyped DEF OpenTabs, Open, ReadIsOnDisk, TextIsHeld,
       TabIsHeld, OfTab, Writing
  <1>36. ASSUME NEW p \in Paths, NEW e \in ExternalEdits, Change(p, e) PROVE SameTheirs'
    BY <1>36, <1>0, ChangeDoes, HeldIsOpen, OpIsTyped DEF OpenTabs, Open, ReadIsOnDisk,
       TextIsHeld, TabIsHeld, OfTab, Writing
  <1>37. CASE UNCHANGED vars
    BY <1>37 DEF vars, tabs, OpenTabs, Open, ReadIsOnDisk, TextIsHeld, TabIsHeld, OfTab, Writing
  <1> QED
    BY <1>1, <1>2, <1>3, <1>4, <1>5, <1>6, <1>7, <1>8, <1>9, <1>10, <1>11, <1>12, <1>13, <1>14,
       <1>15, <1>16, <1>17, <1>18, <1>19, <1>20, <1>21, <1>22, <1>23, <1>24, <1>25, <1>26, <1>27,
       <1>28, <1>29, <1>30, <1>31, <1>32, <1>33, <1>34, <1>35, <1>36, <1>37 DEF Next, Continue,
       Backend, Answer, User

(* A tab that is not dirty is as its base. *)
LEMMA CleanIsSavedStep == OneByOne /\ FsTyped /\ OrInv /\ ObInv /\ [Next]_vars => CleanIsSaved'
  <1> SUFFICES ASSUME OneByOne /\ FsTyped /\ OrInv /\ ObInv, [Next]_vars PROVE CleanIsSaved'
    OBVIOUS
  <1> USE  DEF CleanIsSaved, ObInv
  <1>0. \A o, p \in Ops : o = p
    BY DEF OneByOne
  <1>1. ASSUME NEW o \in Ops, ContinueSave(o) PROVE CleanIsSaved'
    BY <1>1, <1>0, OpIsTyped, StepsOfStore DEF StoreStays, TabsStay, OpenTabs, Open,
       WritesWhatIsDirty, Writing
  <1>2. ASSUME NEW o \in Ops, ContinueWatch(o) PROVE CleanIsSaved'
    BY <1>2, <1>0, OpIsTyped, StepsOfStore DEF StoreStays, TabsStay, OpenTabs, Open,
       WritesWhatIsDirty, Writing
  <1>3. ASSUME NEW o \in Ops, ContinueClose(o) PROVE CleanIsSaved'
    BY <1>3, <1>0, OpIsTyped, ContinueCloseSettles, HeldIsOpen DEF Settles, OtherTabs, Marks,
       TextsStay, RestStays, OpenTabs, Open, WritesWhatIsDirty, Writing
  <1>4. ASSUME NEW o \in Ops, Activate(o) PROVE CleanIsSaved'
    BY <1>4, <1>0, OpIsTyped, StepsOfStore DEF StoreStays, TabsStay, OpenTabs, Open,
       WritesWhatIsDirty, Writing
  <1>5. ASSUME NEW o \in Ops, ContinueActivate(o) PROVE CleanIsSaved'
    BY <1>5, <1>0, OpIsTyped, StepsOfStore DEF StoreStays, TabsStay, OpenTabs, Open,
       WritesWhatIsDirty, Writing
  <1>6. ASSUME NEW o \in Ops, ContinueSelect(o) PROVE CleanIsSaved'
    BY <1>6, <1>0, OpIsTyped, StepsOfStore DEF StoreStays, TabsStay, OpenTabs, Open,
       WritesWhatIsDirty, Writing
  <1>7. ASSUME NEW o \in Ops, ContinueRename(o) PROVE CleanIsSaved'
    BY <1>7, <1>0, OpIsTyped, StepsOfStore DEF StoreStays, TabsStay, OpenTabs, Open,
       WritesWhatIsDirty, Writing
  <1>8. ASSUME NEW o \in Ops, ContinueReload(o) PROVE CleanIsSaved'
    BY <1>8, <1>0, OpIsTyped, StepsOfStore DEF StoreStays, TabsStay, OpenTabs, Open,
       WritesWhatIsDirty, Writing
  <1>9. ASSUME NEW o \in Ops, Write(o) PROVE CleanIsSaved'
    BY <1>9, <1>0, OpIsTyped, StepsOfFiles DEF StoreStays, TabsStay, OpenTabs, Open,
       WritesWhatIsDirty, Writing
  <1>10. ASSUME NEW o \in Ops, ForceWrite(o) PROVE CleanIsSaved'
    BY <1>10, <1>0, OpIsTyped, StepsOfFiles DEF StoreStays, TabsStay, OpenTabs, Open,
       WritesWhatIsDirty, Writing
  <1>11. ASSUME NEW o \in Ops, Read(o) PROVE CleanIsSaved'
    BY <1>11, <1>0, OpIsTyped, StepsOfStore DEF StoreStays, TabsStay, OpenTabs, Open,
       WritesWhatIsDirty, Writing
  <1>12. ASSUME NEW o \in Ops, WriteMerged(o) PROVE CleanIsSaved'
    BY <1>12, <1>0, OpIsTyped, StepsOfFiles DEF StoreStays, TabsStay, OpenTabs, Open,
       WritesWhatIsDirty, Writing
  <1>13. ASSUME NEW o \in Ops, DeleteFile(o) PROVE CleanIsSaved'
    BY <1>13, <1>0, OpIsTyped, StepsOfFiles DEF StoreStays, TabsStay, OpenTabs, Open,
       WritesWhatIsDirty, Writing
  <1>14. ASSUME NEW o \in Ops, RenameFile(o) PROVE CleanIsSaved'
    BY <1>14, <1>0, OpIsTyped, StepsOfFiles DEF StoreStays, TabsStay, OpenTabs, Open,
       WritesWhatIsDirty, Writing
  <1>15. ASSUME NEW o \in Ops, Wrote(o) PROVE CleanIsSaved'
    <2> DEFINE t == op[o].tab
    <2>1. /\ dirty[t] /\ content' = content /\ path' = path /\ base'[t] = op[o].text
          /\ dirty'[t] = (dirty[t] /\ content[t] # op[o].text)
      BY <1>15, WroteSettles DEF WritesWhatIsDirty, Writing
    <2>2. ~dirty'[t] => content[t] = op[o].text
      BY <2>1
    <2>3. \A u \in Tabs \ {t} : base'[u] = base[u] /\ dirty'[u] = dirty[u]
      BY <1>15, WroteSettles DEF OtherTabs
    <2> HIDE DEF t
    <2> QED
      BY <2>1, <2>2, <2>3 DEF OpenTabs, Open
  <1>16. ASSUME NEW o \in Ops, Refused(o) PROVE CleanIsSaved'
    BY <1>16, <1>0, OpIsTyped, StepsOfStore DEF StoreStays, TabsStay, OpenTabs, Open,
       WritesWhatIsDirty, Writing
  <1>17. ASSUME NEW o \in Ops, Decide(o) PROVE CleanIsSaved'
    BY <1>17, <1>0, OpIsTyped, DecideSettles, HeldIsOpen DEF Settles, OtherTabs, Marks, TextsStay,
       RestStays, OpenTabs, Open, WritesWhatIsDirty, Writing
  <1>18. ASSUME NEW o \in Ops, FinishMerge(o) PROVE CleanIsSaved'
    BY <1>18, <1>0, OpIsTyped, FinishMergeSettles, HeldIsOpen DEF Settles, OtherTabs, Marks,
       TextsStay, RestStays, OpenTabs, Open, WritesWhatIsDirty, Writing
  <1>19. ASSUME NEW o \in Ops, Discarded(o) PROVE CleanIsSaved'
    BY <1>19, <1>0, OpIsTyped, DiscardedSettles, HeldIsOpen DEF Settles, OtherTabs, Marks,
       TextsStay, RestStays, OpenTabs, Open, WritesWhatIsDirty, Writing
  <1>20. ASSUME NEW o \in Ops, Opened(o) PROVE CleanIsSaved'
    BY <1>20, <1>0, NoneIsApart, OpIsTyped, OpenedSettles, HeldIsOpen DEF Settles, OtherTabs,
       Marks, TextsStay, RestStays, OpenTabs, Open, WritesWhatIsDirty, Writing
  <1>21. ASSUME NEW o \in Ops, Deleted(o) PROVE CleanIsSaved'
    BY <1>21, <1>0, OpIsTyped, DeletedSettles, HeldIsOpen DEF Settles, OtherTabs, Marks,
       TextsStay, RestStays, OpenTabs, Open, WritesWhatIsDirty, Writing
  <1>22. ASSUME NEW o \in Ops, Renamed(o) PROVE CleanIsSaved'
    BY <1>22, <1>0, NoneIsApart, OpIsTyped, RenamedSettles, HeldIsOpen DEF Settles, OtherTabs,
       Marks, TextsStay, RestStays, OpenTabs, Open, WritesWhatIsDirty, Writing
  <1>23. ASSUME NEW o \in Ops, ResetDone(o) PROVE CleanIsSaved'
    BY <1>23, <1>0, OpIsTyped, ResetDoneSettles, HeldIsOpen DEF Settles, OtherTabs, Marks,
       TextsStay, RestStays, OpenTabs, Open, WritesWhatIsDirty, Writing
  <1>24. ASSUME NEW o \in Ops, NEW t \in Tabs, Overwrite(o, t) PROVE CleanIsSaved'
    BY <1>24, <1>0, OpIsTyped, StepsOnTab DEF StoreStays, TabsStay, OpenTabs, Open,
       WritesWhatIsDirty, Writing
  <1>25. ASSUME NEW o \in Ops, NEW t \in Tabs, Discard(o, t) PROVE CleanIsSaved'
    BY <1>25, <1>0, OpIsTyped, StepsOnTab DEF StoreStays, TabsStay, OpenTabs, Open,
       WritesWhatIsDirty, Writing
  <1>26. ASSUME NEW o \in Ops, NEW t \in Tabs, SwitchTab(o, t) PROVE CleanIsSaved'
    BY <1>26, <1>0, OpIsTyped, StepsOnTab DEF StoreStays, TabsStay, OpenTabs, Open,
       WritesWhatIsDirty, Writing
  <1>27. ASSUME NEW o \in Ops, NEW t \in Tabs, Close(o, t) PROVE CleanIsSaved'
    BY <1>27, <1>0, OpIsTyped, StepsOnTab DEF StoreStays, TabsStay, OpenTabs, Open,
       WritesWhatIsDirty, Writing
  <1>28. ASSUME NEW o \in Ops, NEW p \in Paths, Select(o, p) PROVE CleanIsSaved'
    BY <1>28, <1>0, OpIsTyped, StepsOnPath DEF StoreStays, TabsStay, OpenTabs, Open,
       WritesWhatIsDirty, Writing
  <1>29. ASSUME NEW o \in Ops, NEW p \in Paths, Delete(o, p) PROVE CleanIsSaved'
    BY <1>29, <1>0, OpIsTyped, StepsOnPath DEF StoreStays, TabsStay, OpenTabs, Open,
       WritesWhatIsDirty, Writing
  <1>30. ASSUME NEW o \in Ops, NEW p \in Paths, NEW q \in Paths, Rename(o, p, q) PROVE CleanIsSaved'
    BY <1>30, <1>0, OpIsTyped, StepOfRename DEF StoreStays, TabsStay, OpenTabs, Open,
       WritesWhatIsDirty, Writing
  <1>31. ASSUME NEW o \in Ops, Reload(o) PROVE CleanIsSaved'
    BY <1>31, <1>0, OpIsTyped, StepsOfStore DEF StoreStays, TabsStay, OpenTabs, Open,
       WritesWhatIsDirty, Writing
  <1>32. ASSUME NEW o \in Ops, Watch(o) PROVE CleanIsSaved'
    BY <1>32, <1>0, OpIsTyped, StepsOfStore DEF StoreStays, TabsStay, OpenTabs, Open,
       WritesWhatIsDirty, Writing
  <1>33. ASSUME NEW o \in Ops, DiskFails(o) PROVE CleanIsSaved'
    BY <1>33, <1>0, OpIsTyped, StepsOfStore DEF StoreStays, TabsStay, OpenTabs, Open,
       WritesWhatIsDirty, Writing
  <1>34. CASE AutoSave
    BY <1>34, <1>0, StepOfTimer DEF StoreStays, TabsStay, OpenTabs, Open, WritesWhatIsDirty, Writing
  <1>35. ASSUME NEW t \in Tabs, NEW e \in UserEdits, Type(t, e) PROVE CleanIsSaved'
    BY <1>35, <1>0, TypeDoes, HeldIsOpen, OpIsTyped DEF OpenTabs, Open, WritesWhatIsDirty, Writing
  <1>36. ASSUME NEW p \in Paths, NEW e \in ExternalEdits, Change(p, e) PROVE CleanIsSaved'
    BY <1>36, <1>0, ChangeDoes, HeldIsOpen, OpIsTyped DEF OpenTabs, Open, WritesWhatIsDirty, Writing
  <1>37. CASE UNCHANGED vars
    BY <1>37 DEF vars, tabs, OpenTabs, Open, WritesWhatIsDirty, Writing
  <1> QED
    BY <1>1, <1>2, <1>3, <1>4, <1>5, <1>6, <1>7, <1>8, <1>9, <1>10, <1>11, <1>12, <1>13, <1>14,
       <1>15, <1>16, <1>17, <1>18, <1>19, <1>20, <1>21, <1>22, <1>23, <1>24, <1>25, <1>26, <1>27,
       <1>28, <1>29, <1>30, <1>31, <1>32, <1>33, <1>34, <1>35, <1>36, <1>37 DEF Next, Continue,
       Backend, Answer, User

(* A conflict is about edits. *)
LEMMA ConflictIsDirtyStep == OneByOne /\ FsTyped /\ OrInv /\ ObInv /\ [Next]_vars => ConflictIsDirty'
  <1> SUFFICES ASSUME OneByOne /\ FsTyped /\ OrInv /\ ObInv, [Next]_vars PROVE ConflictIsDirty'
    OBVIOUS
  <1> USE  DEF ConflictIsDirty, ObInv
  <1>0. \A o, p \in Ops : o = p
    BY DEF OneByOne
  <1>1. ASSUME NEW o \in Ops, ContinueSave(o) PROVE ConflictIsDirty'
    BY <1>1, <1>0, OpIsTyped, StepsOfStore DEF StoreStays, TabsStay, OpenTabs, Open, CleanIsSaved,
       TabIsHeld, OfTab
  <1>2. ASSUME NEW o \in Ops, ContinueWatch(o) PROVE ConflictIsDirty'
    BY <1>2, <1>0, OpIsTyped, StepsOfStore DEF StoreStays, TabsStay, OpenTabs, Open, CleanIsSaved,
       TabIsHeld, OfTab
  <1>3. ASSUME NEW o \in Ops, ContinueClose(o) PROVE ConflictIsDirty'
    BY <1>3, <1>0, OpIsTyped, ContinueCloseSettles, HeldIsOpen DEF Settles, OtherTabs, Marks,
       TextsStay, RestStays, OpenTabs, Open, CleanIsSaved, TabIsHeld, OfTab
  <1>4. ASSUME NEW o \in Ops, Activate(o) PROVE ConflictIsDirty'
    BY <1>4, <1>0, OpIsTyped, StepsOfStore DEF StoreStays, TabsStay, OpenTabs, Open, CleanIsSaved,
       TabIsHeld, OfTab
  <1>5. ASSUME NEW o \in Ops, ContinueActivate(o) PROVE ConflictIsDirty'
    BY <1>5, <1>0, OpIsTyped, StepsOfStore DEF StoreStays, TabsStay, OpenTabs, Open, CleanIsSaved,
       TabIsHeld, OfTab
  <1>6. ASSUME NEW o \in Ops, ContinueSelect(o) PROVE ConflictIsDirty'
    BY <1>6, <1>0, OpIsTyped, StepsOfStore DEF StoreStays, TabsStay, OpenTabs, Open, CleanIsSaved,
       TabIsHeld, OfTab
  <1>7. ASSUME NEW o \in Ops, ContinueRename(o) PROVE ConflictIsDirty'
    BY <1>7, <1>0, OpIsTyped, StepsOfStore DEF StoreStays, TabsStay, OpenTabs, Open, CleanIsSaved,
       TabIsHeld, OfTab
  <1>8. ASSUME NEW o \in Ops, ContinueReload(o) PROVE ConflictIsDirty'
    BY <1>8, <1>0, OpIsTyped, StepsOfStore DEF StoreStays, TabsStay, OpenTabs, Open, CleanIsSaved,
       TabIsHeld, OfTab
  <1>9. ASSUME NEW o \in Ops, Write(o) PROVE ConflictIsDirty'
    BY <1>9, <1>0, OpIsTyped, StepsOfFiles DEF StoreStays, TabsStay, OpenTabs, Open, CleanIsSaved,
       TabIsHeld, OfTab
  <1>10. ASSUME NEW o \in Ops, ForceWrite(o) PROVE ConflictIsDirty'
    BY <1>10, <1>0, OpIsTyped, StepsOfFiles DEF StoreStays, TabsStay, OpenTabs, Open,
       CleanIsSaved, TabIsHeld, OfTab
  <1>11. ASSUME NEW o \in Ops, Read(o) PROVE ConflictIsDirty'
    BY <1>11, <1>0, OpIsTyped, StepsOfStore DEF StoreStays, TabsStay, OpenTabs, Open,
       CleanIsSaved, TabIsHeld, OfTab
  <1>12. ASSUME NEW o \in Ops, WriteMerged(o) PROVE ConflictIsDirty'
    BY <1>12, <1>0, OpIsTyped, StepsOfFiles DEF StoreStays, TabsStay, OpenTabs, Open,
       CleanIsSaved, TabIsHeld, OfTab
  <1>13. ASSUME NEW o \in Ops, DeleteFile(o) PROVE ConflictIsDirty'
    BY <1>13, <1>0, OpIsTyped, StepsOfFiles DEF StoreStays, TabsStay, OpenTabs, Open,
       CleanIsSaved, TabIsHeld, OfTab
  <1>14. ASSUME NEW o \in Ops, RenameFile(o) PROVE ConflictIsDirty'
    BY <1>14, <1>0, OpIsTyped, StepsOfFiles DEF StoreStays, TabsStay, OpenTabs, Open,
       CleanIsSaved, TabIsHeld, OfTab
  <1>15. ASSUME NEW o \in Ops, Wrote(o) PROVE ConflictIsDirty'
    BY <1>15, <1>0, OpIsTyped, WroteSettles, HeldIsOpen DEF Settles, OtherTabs, Marks, TextsStay,
       RestStays, OpenTabs, Open, CleanIsSaved, TabIsHeld, OfTab
  <1>16. ASSUME NEW o \in Ops, Refused(o) PROVE ConflictIsDirty'
    BY <1>16, <1>0, OpIsTyped, StepsOfStore DEF StoreStays, TabsStay, OpenTabs, Open,
       CleanIsSaved, TabIsHeld, OfTab
  <1>17. ASSUME NEW o \in Ops, Decide(o) PROVE ConflictIsDirty'
    BY <1>17, <1>0, OpIsTyped, DecideSettles, HeldIsOpen DEF Settles, OtherTabs, Marks, TextsStay,
       RestStays, OpenTabs, Open, CleanIsSaved, TabIsHeld, OfTab
  <1>18. ASSUME NEW o \in Ops, FinishMerge(o) PROVE ConflictIsDirty'
    BY <1>18, <1>0, OpIsTyped, FinishMergeSettles, HeldIsOpen DEF Settles, OtherTabs, Marks,
       TextsStay, RestStays, OpenTabs, Open, CleanIsSaved, TabIsHeld, OfTab
  <1>19. ASSUME NEW o \in Ops, Discarded(o) PROVE ConflictIsDirty'
    BY <1>19, <1>0, OpIsTyped, DiscardedSettles, HeldIsOpen DEF Settles, OtherTabs, Marks,
       TextsStay, RestStays, OpenTabs, Open, CleanIsSaved, TabIsHeld, OfTab
  <1>20. ASSUME NEW o \in Ops, Opened(o) PROVE ConflictIsDirty'
    BY <1>20, <1>0, NoneIsApart, OpIsTyped, OpenedSettles, HeldIsOpen DEF Settles, OtherTabs,
       Marks, TextsStay, RestStays, OpenTabs, Open, CleanIsSaved, TabIsHeld, OfTab
  <1>21. ASSUME NEW o \in Ops, Deleted(o) PROVE ConflictIsDirty'
    BY <1>21, <1>0, OpIsTyped, DeletedSettles, HeldIsOpen DEF Settles, OtherTabs, Marks,
       TextsStay, RestStays, OpenTabs, Open, CleanIsSaved, TabIsHeld, OfTab
  <1>22. ASSUME NEW o \in Ops, Renamed(o) PROVE ConflictIsDirty'
    BY <1>22, <1>0, NoneIsApart, OpIsTyped, RenamedSettles, HeldIsOpen DEF Settles, OtherTabs,
       Marks, TextsStay, RestStays, OpenTabs, Open, CleanIsSaved, TabIsHeld, OfTab
  <1>23. ASSUME NEW o \in Ops, ResetDone(o) PROVE ConflictIsDirty'
    BY <1>23, <1>0, OpIsTyped, ResetDoneSettles, HeldIsOpen DEF Settles, OtherTabs, Marks,
       TextsStay, RestStays, OpenTabs, Open, CleanIsSaved, TabIsHeld, OfTab
  <1>24. ASSUME NEW o \in Ops, NEW t \in Tabs, Overwrite(o, t) PROVE ConflictIsDirty'
    BY <1>24, <1>0, OpIsTyped, StepsOnTab DEF StoreStays, TabsStay, OpenTabs, Open, CleanIsSaved,
       TabIsHeld, OfTab
  <1>25. ASSUME NEW o \in Ops, NEW t \in Tabs, Discard(o, t) PROVE ConflictIsDirty'
    BY <1>25, <1>0, OpIsTyped, StepsOnTab DEF StoreStays, TabsStay, OpenTabs, Open, CleanIsSaved,
       TabIsHeld, OfTab
  <1>26. ASSUME NEW o \in Ops, NEW t \in Tabs, SwitchTab(o, t) PROVE ConflictIsDirty'
    BY <1>26, <1>0, OpIsTyped, StepsOnTab DEF StoreStays, TabsStay, OpenTabs, Open, CleanIsSaved,
       TabIsHeld, OfTab
  <1>27. ASSUME NEW o \in Ops, NEW t \in Tabs, Close(o, t) PROVE ConflictIsDirty'
    BY <1>27, <1>0, OpIsTyped, StepsOnTab DEF StoreStays, TabsStay, OpenTabs, Open, CleanIsSaved,
       TabIsHeld, OfTab
  <1>28. ASSUME NEW o \in Ops, NEW p \in Paths, Select(o, p) PROVE ConflictIsDirty'
    BY <1>28, <1>0, OpIsTyped, StepsOnPath DEF StoreStays, TabsStay, OpenTabs, Open, CleanIsSaved,
       TabIsHeld, OfTab
  <1>29. ASSUME NEW o \in Ops, NEW p \in Paths, Delete(o, p) PROVE ConflictIsDirty'
    BY <1>29, <1>0, OpIsTyped, StepsOnPath DEF StoreStays, TabsStay, OpenTabs, Open, CleanIsSaved,
       TabIsHeld, OfTab
  <1>30. ASSUME NEW o \in Ops, NEW p \in Paths, NEW q \in Paths, Rename(o, p, q) PROVE ConflictIsDirty'
    BY <1>30, <1>0, OpIsTyped, StepOfRename DEF StoreStays, TabsStay, OpenTabs, Open,
       CleanIsSaved, TabIsHeld, OfTab
  <1>31. ASSUME NEW o \in Ops, Reload(o) PROVE ConflictIsDirty'
    BY <1>31, <1>0, OpIsTyped, StepsOfStore DEF StoreStays, TabsStay, OpenTabs, Open,
       CleanIsSaved, TabIsHeld, OfTab
  <1>32. ASSUME NEW o \in Ops, Watch(o) PROVE ConflictIsDirty'
    BY <1>32, <1>0, OpIsTyped, StepsOfStore DEF StoreStays, TabsStay, OpenTabs, Open,
       CleanIsSaved, TabIsHeld, OfTab
  <1>33. ASSUME NEW o \in Ops, DiskFails(o) PROVE ConflictIsDirty'
    BY <1>33, <1>0, OpIsTyped, StepsOfStore DEF StoreStays, TabsStay, OpenTabs, Open,
       CleanIsSaved, TabIsHeld, OfTab
  <1>34. CASE AutoSave
    BY <1>34, <1>0, StepOfTimer DEF StoreStays, TabsStay, OpenTabs, Open, CleanIsSaved, TabIsHeld,
       OfTab
  <1>35. ASSUME NEW t \in Tabs, NEW e \in UserEdits, Type(t, e) PROVE ConflictIsDirty'
    BY <1>35, <1>0, TypeDoes, HeldIsOpen, OpIsTyped DEF OpenTabs, Open, CleanIsSaved, TabIsHeld,
       OfTab
  <1>36. ASSUME NEW p \in Paths, NEW e \in ExternalEdits, Change(p, e) PROVE ConflictIsDirty'
    BY <1>36, <1>0, ChangeDoes, HeldIsOpen, OpIsTyped DEF OpenTabs, Open, CleanIsSaved, TabIsHeld,
       OfTab
  <1>37. CASE UNCHANGED vars
    BY <1>37 DEF vars, tabs, OpenTabs, Open, CleanIsSaved, TabIsHeld, OfTab
  <1> QED
    BY <1>1, <1>2, <1>3, <1>4, <1>5, <1>6, <1>7, <1>8, <1>9, <1>10, <1>11, <1>12, <1>13, <1>14,
       <1>15, <1>16, <1>17, <1>18, <1>19, <1>20, <1>21, <1>22, <1>23, <1>24, <1>25, <1>26, <1>27,
       <1>28, <1>29, <1>30, <1>31, <1>32, <1>33, <1>34, <1>35, <1>36, <1>37 DEF Next, Continue,
       Backend, Answer, User

(* The tab of an operation stays its tab. *)
LEMMA TabIsHeldStep == OneByOne /\ FsTyped /\ OrInv /\ ObInv /\ [Next]_vars => TabIsHeld'
  <1> SUFFICES ASSUME OneByOne /\ FsTyped /\ OrInv /\ ObInv, [Next]_vars PROVE TabIsHeld'
    OBVIOUS
  <1> USE  DEF TabIsHeld, ObInv
  <1>0. \A o, p \in Ops : o = p
    BY DEF OneByOne
  <1>1. ASSUME NEW o \in Ops, ContinueSave(o) PROVE TabIsHeld'
    BY <1>1, <1>0, OpIsTyped, StepsOfStore, StageOf, ContinueSaveDoes DEF StoreStays, TabsStay,
       Others, Ends, OfTab
  <1>2. ASSUME NEW o \in Ops, ContinueWatch(o) PROVE TabIsHeld'
    BY <1>2, <1>0, OpIsTyped, StepsOfStore, StageOf, ContinueWatchDoes DEF StoreStays, TabsStay,
       Others, Ends, Calling, Checks, OfTab
  <1>3. ASSUME NEW o \in Ops, ContinueClose(o) PROVE TabIsHeld'
    <2>1. op'[o].at \in {"idle", "goto"}
      BY <1>3, ContinueCloseDoes DEF Removes, Ends, Turns
    <2> QED
      BY <1>0, <2>1 DEF OfTab
  <1>4. ASSUME NEW o \in Ops, Activate(o) PROVE TabIsHeld'
    BY <1>4, <1>0, OpIsTyped, StepsOfStore, StageOf, ActivateDoes DEF StoreStays, TabsStay,
       Others, Ends, Calling, Takes, Saves, Resumes, Flushes, OfTab
  <1>5. ASSUME NEW o \in Ops, ContinueActivate(o) PROVE TabIsHeld'
    BY <1>5, <1>0, OpIsTyped, StepsOfStore, StageOf, ContinueActivateDoes DEF StoreStays,
       TabsStay, Others, Ends, OfTab
  <1>6. ASSUME NEW o \in Ops, ContinueSelect(o) PROVE TabIsHeld'
    BY <1>6, <1>0, OpIsTyped, StepsOfStore, StageOf, ContinueSelectDoes DEF StoreStays, TabsStay,
       Others, Asks, OfTab
  <1>7. ASSUME NEW o \in Ops, ContinueRename(o) PROVE TabIsHeld'
    BY <1>7, <1>0, OpIsTyped, StepsOfStore, StageOf, ContinueRenameDoes DEF StoreStays, TabsStay,
       Others, Ends, StartsRenaming, OfTab
  <1>8. ASSUME NEW o \in Ops, ContinueReload(o) PROVE TabIsHeld'
    BY <1>8, <1>0, OpIsTyped, StepsOfStore, StageOf, ContinueReloadDoes DEF StoreStays, TabsStay,
       Others, Ends, Calling, Takes, Saves, Asks, OfTab
  <1>9. ASSUME NEW o \in Ops, Write(o) PROVE TabIsHeld'
    BY <1>9, <1>0, OpIsTyped, StepsOfFiles, StageOf, WriteDoes DEF StoreStays, TabsStay, Others,
       Keeps, Goes, OfTab
  <1>10. ASSUME NEW o \in Ops, ForceWrite(o) PROVE TabIsHeld'
    BY <1>10, <1>0, OpIsTyped, StepsOfFiles, StageOf, ForceWriteDoes DEF StoreStays, TabsStay,
       Others, Keeps, Goes, OfTab
  <1>11. ASSUME NEW o \in Ops, Read(o) PROVE TabIsHeld'
    BY <1>11, <1>0, OpIsTyped, StepsOfStore, StageOf, ReadDoes DEF StoreStays, TabsStay, Others,
       Keeps, Ends, Goes, Calling, ChecksOut, Gets, GivesUp, OfTab
  <1>12. ASSUME NEW o \in Ops, WriteMerged(o) PROVE TabIsHeld'
    BY <1>12, <1>0, OpIsTyped, StepsOfFiles, StageOf, WriteMergedDoes DEF StoreStays, TabsStay,
       Others, Keeps, Goes, OfTab
  <1>13. ASSUME NEW o \in Ops, DeleteFile(o) PROVE TabIsHeld'
    BY <1>13, <1>0, OpIsTyped, StepsOfFiles, StageOf, DeleteFileDoes DEF StoreStays, TabsStay,
       Others, Keeps, Ends, Goes, OfTab
  <1>14. ASSUME NEW o \in Ops, RenameFile(o) PROVE TabIsHeld'
    BY <1>14, <1>0, OpIsTyped, StepsOfFiles, StageOf, RenameFileDoes DEF StoreStays, TabsStay,
       Others, Keeps, Ends, Goes, OfTab
  <1>15. ASSUME NEW o \in Ops, Wrote(o) PROVE TabIsHeld'
    BY <1>15, <1>0, OpIsTyped, WroteSettles, HeldIsOpen, WroteDoes DEF Others, Keeps, Goes,
       Settles, OtherTabs, Marks, TextsStay, RestStays, OfTab
  <1>16. ASSUME NEW o \in Ops, Refused(o) PROVE TabIsHeld'
    BY <1>16, <1>0, OpIsTyped, StepsOfStore, StageOf, RefusedDoes DEF StoreStays, TabsStay,
       Others, Keeps, Goes, Calling, Checks, ChecksOut, OfTab
  <1>17. ASSUME NEW o \in Ops, Decide(o) PROVE TabIsHeld'
    BY <1>17, <1>0, OpIsTyped, DecideSettles, HeldIsOpen, DecideDoes DEF Others, Keeps, Goes,
       Calling, ChecksOut, Merges, Settles, OtherTabs, Marks, TextsStay, RestStays, OfTab
  <1>18. ASSUME NEW o \in Ops, FinishMerge(o) PROVE TabIsHeld'
    BY <1>18, <1>0, OpIsTyped, FinishMergeSettles, HeldIsOpen, FinishMergeDoes DEF Others, Keeps,
       Goes, ChecksOut, Settles, OtherTabs, Marks, TextsStay, RestStays, OfTab
  <1>19. ASSUME NEW o \in Ops, Discarded(o) PROVE TabIsHeld'
    BY <1>19, <1>0, OpIsTyped, DiscardedSettles, HeldIsOpen, DiscardedDoes DEF Others, Keeps,
       Ends, Goes, Settles, OtherTabs, Marks, TextsStay, RestStays, OfTab
  <1>20. ASSUME NEW o \in Ops, Opened(o) PROVE TabIsHeld'
    BY <1>20, <1>0, NoneIsApart, OpIsTyped, OpenedSettles, HeldIsOpen, OpenedDoes DEF Others,
       Ends, Settles, OtherTabs, Marks, TextsStay, RestStays, OfTab
  <1>21. ASSUME NEW o \in Ops, Deleted(o) PROVE TabIsHeld'
    <2>1. op'[o].at \in {"idle", "goto"}
      BY <1>21, DeletedDoes DEF Removes, Ends, Turns
    <2> QED
      BY <1>0, <2>1 DEF OfTab
  <1>22. ASSUME NEW o \in Ops, Renamed(o) PROVE TabIsHeld'
    BY <1>22, <1>0, NoneIsApart, OpIsTyped, RenamedSettles, HeldIsOpen, RenamedDoes DEF Others,
       Ends, Settles, OtherTabs, Marks, TextsStay, RestStays, OfTab
  <1>23. ASSUME NEW o \in Ops, ResetDone(o) PROVE TabIsHeld'
    BY <1>23, <1>0, OpIsTyped, ResetDoneSettles, HeldIsOpen, ResetDoneDoes DEF Others, Ends,
       Settles, OtherTabs, Marks, TextsStay, RestStays, OfTab
  <1>24. ASSUME NEW o \in Ops, NEW t \in Tabs, Overwrite(o, t) PROVE TabIsHeld'
    BY <1>24, <1>0, OpIsTyped, StepsOnTab, StageOf, OverwriteDoes DEF StoreStays, TabsStay,
       Others, Calling, Takes, Forces, OfTab
  <1>25. ASSUME NEW o \in Ops, NEW t \in Tabs, Discard(o, t) PROVE TabIsHeld'
    BY <1>25, <1>0, OpIsTyped, StepsOnTab, StageOf, DiscardDoes DEF StoreStays, TabsStay, Others,
       Rereads, OfTab
  <1>26. ASSUME NEW o \in Ops, NEW t \in Tabs, SwitchTab(o, t) PROVE TabIsHeld'
    BY <1>26, <1>0, OpIsTyped, StepsOnTab, StageOf, SwitchTabDoes DEF StoreStays, TabsStay,
       Others, Turns, OfTab
  <1>27. ASSUME NEW o \in Ops, NEW t \in Tabs, Close(o, t) PROVE TabIsHeld'
    BY <1>27, <1>0, OpIsTyped, StepsOnTab, StageOf, CloseDoes DEF StoreStays, TabsStay, Others,
       Calling, Takes, Saves, Resumes, OfTab
  <1>28. ASSUME NEW o \in Ops, NEW p \in Paths, Select(o, p) PROVE TabIsHeld'
    BY <1>28, <1>0, OpIsTyped, StepsOnPath, StageOf, SelectDoes DEF StoreStays, TabsStay, Others,
       Calling, Takes, Saves, Resumes, Flushes, Turns, Rereads, OfTab
  <1>29. ASSUME NEW o \in Ops, NEW p \in Paths, Delete(o, p) PROVE TabIsHeld'
    BY <1>29, <1>0, OpIsTyped, StepsOnPath, StageOf, DeleteDoes DEF StoreStays, TabsStay, Others,
       Asks, OfTab
  <1>30. ASSUME NEW o \in Ops, NEW p \in Paths, NEW q \in Paths, Rename(o, p, q) PROVE TabIsHeld'
    BY <1>30, <1>0, OpIsTyped, StepOfRename, StageOf, RenameDoes DEF StoreStays, TabsStay, Others,
       Calling, Takes, Saves, Resumes, Flushes, StartsRenaming, OfTab
  <1>31. ASSUME NEW o \in Ops, Reload(o) PROVE TabIsHeld'
    BY <1>31, <1>0, OpIsTyped, StepsOfStore, StageOf, ReloadDoes DEF StoreStays, TabsStay, Others,
       Calling, Resumes, OfTab
  <1>32. ASSUME NEW o \in Ops, Watch(o) PROVE TabIsHeld'
    BY <1>32, <1>0, OpIsTyped, StepsOfStore, StageOf, WatchDoes DEF StoreStays, TabsStay, Others,
       Calling, Resumes, OfTab
  <1>33. ASSUME NEW o \in Ops, DiskFails(o) PROVE TabIsHeld'
    BY <1>33, <1>0, OpIsTyped, StepsOfStore, StageOf, DiskFailsDoes DEF StoreStays, TabsStay,
       Others, Keeps, Ends, Goes, ChecksOut, GivesUp, OfTab
  <1>34. CASE AutoSave
    BY <1>34, <1>0, StepOfTimer, AutoSaveDoes DEF StoreStays, TabsStay, Others, Calling, Takes,
       Saves, OfTab
  <1>35. ASSUME NEW t \in Tabs, NEW e \in UserEdits, Type(t, e) PROVE TabIsHeld'
    BY <1>35, <1>0, TypeDoes, HeldIsOpen, OpIsTyped DEF OfTab
  <1>36. ASSUME NEW p \in Paths, NEW e \in ExternalEdits, Change(p, e) PROVE TabIsHeld'
    BY <1>36, <1>0, ChangeDoes, HeldIsOpen, OpIsTyped DEF OfTab
  <1>37. CASE UNCHANGED vars
    BY <1>37 DEF vars, tabs, OfTab
  <1> QED
    BY <1>1, <1>2, <1>3, <1>4, <1>5, <1>6, <1>7, <1>8, <1>9, <1>10, <1>11, <1>12, <1>13, <1>14,
       <1>15, <1>16, <1>17, <1>18, <1>19, <1>20, <1>21, <1>22, <1>23, <1>24, <1>25, <1>26, <1>27,
       <1>28, <1>29, <1>30, <1>31, <1>32, <1>33, <1>34, <1>35, <1>36, <1>37 DEF Next, Continue,
       Backend, Answer, User

(* What is written or merged is what the tab has. *)
LEMMA TextIsHeldStep == OneByOne /\ FsTyped /\ OrInv /\ ObInv /\ [Next]_vars => TextIsHeld'
  <1> SUFFICES ASSUME OneByOne /\ FsTyped /\ OrInv /\ ObInv, [Next]_vars PROVE TextIsHeld'
    OBVIOUS
  <1> USE  DEF TextIsHeld, ObInv
  <1>0. \A o, p \in Ops : o = p
    BY DEF OneByOne
  <1>1. ASSUME NEW o \in Ops, ContinueSave(o) PROVE TextIsHeld'
    BY <1>1, <1>0, OpIsTyped, StepsOfStore, StageOf, ContinueSaveDoes DEF StoreStays, TabsStay,
       Others, Ends, OfTab, Writing, Merging, SameTheirs, TabIsHeld, OneByOne, OpenTabs, Open
  <1>2. ASSUME NEW o \in Ops, ContinueWatch(o) PROVE TextIsHeld'
    BY <1>2, <1>0, OpIsTyped, StepsOfStore, StageOf, ContinueWatchDoes DEF StoreStays, TabsStay,
       Others, Ends, Calling, Checks, OfTab, Writing, Merging, SameTheirs, TabIsHeld, OneByOne,
       OpenTabs, Open
  <1>3. ASSUME NEW o \in Ops, ContinueClose(o) PROVE TextIsHeld'
    <2>1. op'[o].at \in {"idle", "goto"}
      BY <1>3, ContinueCloseDoes DEF Removes, Ends, Turns
    <2> QED
      BY <1>0, <2>1 DEF Merging, Writing
  <1>4. ASSUME NEW o \in Ops, Activate(o) PROVE TextIsHeld'
    BY <1>4, <1>0, OpIsTyped, StepsOfStore, StageOf, ActivateDoes DEF StoreStays, TabsStay,
       Others, Ends, Calling, Takes, Saves, Resumes, Flushes, OfTab, Writing, Merging, SameTheirs,
       TabIsHeld, OneByOne, OpenTabs, Open
  <1>5. ASSUME NEW o \in Ops, ContinueActivate(o) PROVE TextIsHeld'
    BY <1>5, <1>0, OpIsTyped, StepsOfStore, StageOf, ContinueActivateDoes DEF StoreStays,
       TabsStay, Others, Ends, OfTab, Writing, Merging, SameTheirs, TabIsHeld, OneByOne, OpenTabs,
       Open
  <1>6. ASSUME NEW o \in Ops, ContinueSelect(o) PROVE TextIsHeld'
    BY <1>6, <1>0, OpIsTyped, StepsOfStore, StageOf, ContinueSelectDoes DEF StoreStays, TabsStay,
       Others, Asks, OfTab, Writing, Merging, SameTheirs, TabIsHeld, OneByOne, OpenTabs, Open
  <1>7. ASSUME NEW o \in Ops, ContinueRename(o) PROVE TextIsHeld'
    BY <1>7, <1>0, OpIsTyped, StepsOfStore, StageOf, ContinueRenameDoes DEF StoreStays, TabsStay,
       Others, Ends, StartsRenaming, OfTab, Writing, Merging, SameTheirs, TabIsHeld, OneByOne,
       OpenTabs, Open
  <1>8. ASSUME NEW o \in Ops, ContinueReload(o) PROVE TextIsHeld'
    BY <1>8, <1>0, OpIsTyped, StepsOfStore, StageOf, ContinueReloadDoes DEF StoreStays, TabsStay,
       Others, Ends, Calling, Takes, Saves, Asks, OfTab, Writing, Merging, SameTheirs, TabIsHeld,
       OneByOne, OpenTabs, Open
  <1>9. ASSUME NEW o \in Ops, Write(o) PROVE TextIsHeld'
    BY <1>9, <1>0, OpIsTyped, StepsOfFiles, StageOf, WriteDoes DEF StoreStays, TabsStay, Others,
       Keeps, Goes, OfTab, Writing, Merging, SameTheirs, TabIsHeld, OneByOne, OpenTabs, Open
  <1>10. ASSUME NEW o \in Ops, ForceWrite(o) PROVE TextIsHeld'
    BY <1>10, <1>0, OpIsTyped, StepsOfFiles, StageOf, ForceWriteDoes DEF StoreStays, TabsStay,
       Others, Keeps, Goes, OfTab, Writing, Merging, SameTheirs, TabIsHeld, OneByOne, OpenTabs,
       Open
  <1>11. ASSUME NEW o \in Ops, Read(o) PROVE TextIsHeld'
    BY <1>11, <1>0, OpIsTyped, StepsOfStore, StageOf, ReadDoes DEF StoreStays, TabsStay, Others,
       Keeps, Ends, Goes, Calling, ChecksOut, Gets, GivesUp, OfTab, Writing, Merging, SameTheirs,
       TabIsHeld, OneByOne, OpenTabs, Open
  <1>12. ASSUME NEW o \in Ops, WriteMerged(o) PROVE TextIsHeld'
    BY <1>12, <1>0, OpIsTyped, StepsOfFiles, StageOf, WriteMergedDoes DEF StoreStays, TabsStay,
       Others, Keeps, Goes, OfTab, Writing, Merging, SameTheirs, TabIsHeld, OneByOne, OpenTabs,
       Open
  <1>13. ASSUME NEW o \in Ops, DeleteFile(o) PROVE TextIsHeld'
    BY <1>13, <1>0, OpIsTyped, StepsOfFiles, StageOf, DeleteFileDoes DEF StoreStays, TabsStay,
       Others, Keeps, Ends, Goes, OfTab, Writing, Merging, SameTheirs, TabIsHeld, OneByOne,
       OpenTabs, Open
  <1>14. ASSUME NEW o \in Ops, RenameFile(o) PROVE TextIsHeld'
    BY <1>14, <1>0, OpIsTyped, StepsOfFiles, StageOf, RenameFileDoes DEF StoreStays, TabsStay,
       Others, Keeps, Ends, Goes, OfTab, Writing, Merging, SameTheirs, TabIsHeld, OneByOne,
       OpenTabs, Open
  <1>15. ASSUME NEW o \in Ops, Wrote(o) PROVE TextIsHeld'
    BY <1>15, <1>0, OpIsTyped, WroteSettles, HeldIsOpen, WroteDoes DEF Others, Keeps, Goes,
       Settles, OtherTabs, Marks, TextsStay, RestStays, OfTab, Writing, Merging, SameTheirs,
       TabIsHeld, OneByOne, OpenTabs, Open
  <1>16. ASSUME NEW o \in Ops, Refused(o) PROVE TextIsHeld'
    BY <1>16, <1>0, OpIsTyped, StepsOfStore, StageOf, RefusedDoes DEF StoreStays, TabsStay,
       Others, Keeps, Goes, Calling, Checks, ChecksOut, OfTab, Writing, Merging, SameTheirs,
       TabIsHeld, OneByOne, OpenTabs, Open
  <1>17. ASSUME NEW o \in Ops, Decide(o) PROVE TextIsHeld'
    BY <1>17, <1>0, OpIsTyped, DecideSettles, HeldIsOpen, DecideDoes DEF Others, Keeps, Goes,
       Calling, ChecksOut, Merges, Settles, OtherTabs, Marks, TextsStay, RestStays, OfTab,
       Writing, Merging, SameTheirs, TabIsHeld, OneByOne, OpenTabs, Open
  <1>18. ASSUME NEW o \in Ops, FinishMerge(o) PROVE TextIsHeld'
    BY <1>18, <1>0, OpIsTyped, FinishMergeSettles, HeldIsOpen, FinishMergeDoes DEF Others, Keeps,
       Goes, ChecksOut, Settles, OtherTabs, Marks, TextsStay, RestStays, OfTab, Writing, Merging,
       SameTheirs, TabIsHeld, OneByOne, OpenTabs, Open
  <1>19. ASSUME NEW o \in Ops, Discarded(o) PROVE TextIsHeld'
    BY <1>19, <1>0, OpIsTyped, DiscardedSettles, HeldIsOpen, DiscardedDoes DEF Others, Keeps,
       Ends, Goes, Settles, OtherTabs, Marks, TextsStay, RestStays, OfTab, Writing, Merging,
       SameTheirs, TabIsHeld, OneByOne, OpenTabs, Open
  <1>20. ASSUME NEW o \in Ops, Opened(o) PROVE TextIsHeld'
    BY <1>20, <1>0, NoneIsApart, OpIsTyped, OpenedSettles, HeldIsOpen, OpenedDoes DEF Others,
       Ends, Settles, OtherTabs, Marks, TextsStay, RestStays, OfTab, Writing, Merging, SameTheirs,
       TabIsHeld, OneByOne, OpenTabs, Open
  <1>21. ASSUME NEW o \in Ops, Deleted(o) PROVE TextIsHeld'
    <2>1. op'[o].at \in {"idle", "goto"}
      BY <1>21, DeletedDoes DEF Removes, Ends, Turns
    <2> QED
      BY <1>0, <2>1 DEF Merging, Writing
  <1>22. ASSUME NEW o \in Ops, Renamed(o) PROVE TextIsHeld'
    BY <1>22, <1>0, NoneIsApart, OpIsTyped, RenamedSettles, HeldIsOpen, RenamedDoes DEF Others,
       Ends, Settles, OtherTabs, Marks, TextsStay, RestStays, OfTab, Writing, Merging, SameTheirs,
       TabIsHeld, OneByOne, OpenTabs, Open
  <1>23. ASSUME NEW o \in Ops, ResetDone(o) PROVE TextIsHeld'
    BY <1>23, <1>0, OpIsTyped, ResetDoneSettles, HeldIsOpen, ResetDoneDoes DEF Others, Ends,
       Settles, OtherTabs, Marks, TextsStay, RestStays, OfTab, Writing, Merging, SameTheirs,
       TabIsHeld, OneByOne, OpenTabs, Open
  <1>24. ASSUME NEW o \in Ops, NEW t \in Tabs, Overwrite(o, t) PROVE TextIsHeld'
    BY <1>24, <1>0, OpIsTyped, StepsOnTab, StageOf, OverwriteDoes DEF StoreStays, TabsStay,
       Others, Calling, Takes, Forces, OfTab, Writing, Merging, SameTheirs, TabIsHeld, OneByOne,
       OpenTabs, Open
  <1>25. ASSUME NEW o \in Ops, NEW t \in Tabs, Discard(o, t) PROVE TextIsHeld'
    BY <1>25, <1>0, OpIsTyped, StepsOnTab, StageOf, DiscardDoes DEF StoreStays, TabsStay, Others,
       Rereads, OfTab, Writing, Merging, SameTheirs, TabIsHeld, OneByOne, OpenTabs, Open
  <1>26. ASSUME NEW o \in Ops, NEW t \in Tabs, SwitchTab(o, t) PROVE TextIsHeld'
    BY <1>26, <1>0, OpIsTyped, StepsOnTab, StageOf, SwitchTabDoes DEF StoreStays, TabsStay,
       Others, Turns, OfTab, Writing, Merging, SameTheirs, TabIsHeld, OneByOne, OpenTabs, Open
  <1>27. ASSUME NEW o \in Ops, NEW t \in Tabs, Close(o, t) PROVE TextIsHeld'
    BY <1>27, <1>0, OpIsTyped, StepsOnTab, StageOf, CloseDoes DEF StoreStays, TabsStay, Others,
       Calling, Takes, Saves, Resumes, OfTab, Writing, Merging, SameTheirs, TabIsHeld, OneByOne,
       OpenTabs, Open
  <1>28. ASSUME NEW o \in Ops, NEW p \in Paths, Select(o, p) PROVE TextIsHeld'
    BY <1>28, <1>0, OpIsTyped, StepsOnPath, StageOf, SelectDoes DEF StoreStays, TabsStay, Others,
       Calling, Takes, Saves, Resumes, Flushes, Turns, Rereads, OfTab, Writing, Merging,
       SameTheirs, TabIsHeld, OneByOne, OpenTabs, Open
  <1>29. ASSUME NEW o \in Ops, NEW p \in Paths, Delete(o, p) PROVE TextIsHeld'
    BY <1>29, <1>0, OpIsTyped, StepsOnPath, StageOf, DeleteDoes DEF StoreStays, TabsStay, Others,
       Asks, OfTab, Writing, Merging, SameTheirs, TabIsHeld, OneByOne, OpenTabs, Open
  <1>30. ASSUME NEW o \in Ops, NEW p \in Paths, NEW q \in Paths, Rename(o, p, q) PROVE TextIsHeld'
    BY <1>30, <1>0, OpIsTyped, StepOfRename, StageOf, RenameDoes DEF StoreStays, TabsStay, Others,
       Calling, Takes, Saves, Resumes, Flushes, StartsRenaming, OfTab, Writing, Merging,
       SameTheirs, TabIsHeld, OneByOne, OpenTabs, Open
  <1>31. ASSUME NEW o \in Ops, Reload(o) PROVE TextIsHeld'
    BY <1>31, <1>0, OpIsTyped, StepsOfStore, StageOf, ReloadDoes DEF StoreStays, TabsStay, Others,
       Calling, Resumes, OfTab, Writing, Merging, SameTheirs, TabIsHeld, OneByOne, OpenTabs, Open
  <1>32. ASSUME NEW o \in Ops, Watch(o) PROVE TextIsHeld'
    BY <1>32, <1>0, OpIsTyped, StepsOfStore, StageOf, WatchDoes DEF StoreStays, TabsStay, Others,
       Calling, Resumes, OfTab, Writing, Merging, SameTheirs, TabIsHeld, OneByOne, OpenTabs, Open
  <1>33. ASSUME NEW o \in Ops, DiskFails(o) PROVE TextIsHeld'
    BY <1>33, <1>0, OpIsTyped, StepsOfStore, StageOf, DiskFailsDoes DEF StoreStays, TabsStay,
       Others, Keeps, Ends, Goes, ChecksOut, GivesUp, OfTab, Writing, Merging, SameTheirs,
       TabIsHeld, OneByOne, OpenTabs, Open
  <1>34. CASE AutoSave
    BY <1>34, <1>0, StepOfTimer, AutoSaveDoes DEF StoreStays, TabsStay, Others, Calling, Takes,
       Saves, OfTab, Writing, Merging, SameTheirs, TabIsHeld, OneByOne, OpenTabs, Open
  <1>35. ASSUME NEW t \in Tabs, NEW e \in UserEdits, Type(t, e) PROVE TextIsHeld'
    BY <1>35, <1>0, TypeDoes, HeldIsOpen, OpIsTyped DEF MergeInFlight, Reloading, OfTab, Writing,
       Merging, SameTheirs, TabIsHeld, OneByOne, OpenTabs, Open
  <1>36. ASSUME NEW p \in Paths, NEW e \in ExternalEdits, Change(p, e) PROVE TextIsHeld'
    BY <1>36, <1>0, ChangeDoes, HeldIsOpen, OpIsTyped DEF OfTab, Writing, Merging, SameTheirs,
       TabIsHeld, OneByOne, OpenTabs, Open
  <1>37. CASE UNCHANGED vars
    BY <1>37 DEF vars, tabs, OfTab, Writing, Merging, SameTheirs, TabIsHeld, OneByOne, OpenTabs,
       Open
  <1> QED
    BY <1>1, <1>2, <1>3, <1>4, <1>5, <1>6, <1>7, <1>8, <1>9, <1>10, <1>11, <1>12, <1>13, <1>14,
       <1>15, <1>16, <1>17, <1>18, <1>19, <1>20, <1>21, <1>22, <1>23, <1>24, <1>25, <1>26, <1>27,
       <1>28, <1>29, <1>30, <1>31, <1>32, <1>33, <1>34, <1>35, <1>36, <1>37 DEF Next, Continue,
       Backend, Answer, User

(* What is written is dirty. *)
LEMMA WritesWhatIsDirtyStep == OneByOne /\ FsTyped /\ OrInv /\ ObInv /\ [Next]_vars => WritesWhatIsDirty'
  <1> SUFFICES ASSUME OneByOne /\ FsTyped /\ OrInv /\ ObInv, [Next]_vars PROVE WritesWhatIsDirty'
    OBVIOUS
  <1> USE  DEF WritesWhatIsDirty, ObInv
  <1>0. \A o, p \in Ops : o = p
    BY DEF OneByOne
  <1>1. ASSUME NEW o \in Ops, ContinueSave(o) PROVE WritesWhatIsDirty'
    BY <1>1, <1>0, OpIsTyped, StepsOfStore, StageOf, ContinueSaveDoes DEF StoreStays, TabsStay,
       Others, Ends, Writing, ConflictIsDirty, OpenTabs, Open
  <1>2. ASSUME NEW o \in Ops, ContinueWatch(o) PROVE WritesWhatIsDirty'
    BY <1>2, <1>0, OpIsTyped, StepsOfStore, StageOf, ContinueWatchDoes DEF StoreStays, TabsStay,
       Others, Ends, Calling, Checks, Writing, ConflictIsDirty, OpenTabs, Open
  <1>3. ASSUME NEW o \in Ops, ContinueClose(o) PROVE WritesWhatIsDirty'
    BY <1>3, <1>0, OpIsTyped, ContinueCloseSettles, HeldIsOpen, ContinueCloseDoes DEF Others,
       Ends, Turns, Removes, Settles, OtherTabs, Marks, TextsStay, RestStays, Writing,
       ConflictIsDirty, OpenTabs, Open
  <1>4. ASSUME NEW o \in Ops, Activate(o) PROVE WritesWhatIsDirty'
    BY <1>4, <1>0, OpIsTyped, StepsOfStore, StageOf, ActivateDoes DEF StoreStays, TabsStay,
       Others, Ends, Calling, Takes, Saves, Resumes, Flushes, Writing, ConflictIsDirty, OpenTabs,
       Open
  <1>5. ASSUME NEW o \in Ops, ContinueActivate(o) PROVE WritesWhatIsDirty'
    BY <1>5, <1>0, OpIsTyped, StepsOfStore, StageOf, ContinueActivateDoes DEF StoreStays,
       TabsStay, Others, Ends, Writing, ConflictIsDirty, OpenTabs, Open
  <1>6. ASSUME NEW o \in Ops, ContinueSelect(o) PROVE WritesWhatIsDirty'
    BY <1>6, <1>0, OpIsTyped, StepsOfStore, StageOf, ContinueSelectDoes DEF StoreStays, TabsStay,
       Others, Asks, Writing, ConflictIsDirty, OpenTabs, Open
  <1>7. ASSUME NEW o \in Ops, ContinueRename(o) PROVE WritesWhatIsDirty'
    BY <1>7, <1>0, OpIsTyped, StepsOfStore, StageOf, ContinueRenameDoes DEF StoreStays, TabsStay,
       Others, Ends, StartsRenaming, Writing, ConflictIsDirty, OpenTabs, Open
  <1>8. ASSUME NEW o \in Ops, ContinueReload(o) PROVE WritesWhatIsDirty'
    BY <1>8, <1>0, OpIsTyped, StepsOfStore, StageOf, ContinueReloadDoes DEF StoreStays, TabsStay,
       Others, Ends, Calling, Takes, Saves, Asks, Writing, ConflictIsDirty, OpenTabs, Open
  <1>9. ASSUME NEW o \in Ops, Write(o) PROVE WritesWhatIsDirty'
    BY <1>9, <1>0, OpIsTyped, StepsOfFiles, StageOf, WriteDoes DEF StoreStays, TabsStay, Others,
       Keeps, Goes, Writing, ConflictIsDirty, OpenTabs, Open
  <1>10. ASSUME NEW o \in Ops, ForceWrite(o) PROVE WritesWhatIsDirty'
    BY <1>10, <1>0, OpIsTyped, StepsOfFiles, StageOf, ForceWriteDoes DEF StoreStays, TabsStay,
       Others, Keeps, Goes, Writing, ConflictIsDirty, OpenTabs, Open
  <1>11. ASSUME NEW o \in Ops, Read(o) PROVE WritesWhatIsDirty'
    BY <1>11, <1>0, OpIsTyped, StepsOfStore, StageOf, ReadDoes DEF StoreStays, TabsStay, Others,
       Keeps, Ends, Goes, Calling, ChecksOut, Gets, GivesUp, Writing, ConflictIsDirty, OpenTabs,
       Open
  <1>12. ASSUME NEW o \in Ops, WriteMerged(o) PROVE WritesWhatIsDirty'
    BY <1>12, <1>0, OpIsTyped, StepsOfFiles, StageOf, WriteMergedDoes DEF StoreStays, TabsStay,
       Others, Keeps, Goes, Writing, ConflictIsDirty, OpenTabs, Open
  <1>13. ASSUME NEW o \in Ops, DeleteFile(o) PROVE WritesWhatIsDirty'
    BY <1>13, <1>0, OpIsTyped, StepsOfFiles, StageOf, DeleteFileDoes DEF StoreStays, TabsStay,
       Others, Keeps, Ends, Goes, Writing, ConflictIsDirty, OpenTabs, Open
  <1>14. ASSUME NEW o \in Ops, RenameFile(o) PROVE WritesWhatIsDirty'
    BY <1>14, <1>0, OpIsTyped, StepsOfFiles, StageOf, RenameFileDoes DEF StoreStays, TabsStay,
       Others, Keeps, Ends, Goes, Writing, ConflictIsDirty, OpenTabs, Open
  <1>15. ASSUME NEW o \in Ops, Wrote(o) PROVE WritesWhatIsDirty'
    BY <1>15, <1>0, OpIsTyped, WroteSettles, HeldIsOpen, WroteDoes DEF Others, Keeps, Goes,
       Settles, OtherTabs, Marks, TextsStay, RestStays, Writing, ConflictIsDirty, OpenTabs, Open
  <1>16. ASSUME NEW o \in Ops, Refused(o) PROVE WritesWhatIsDirty'
    BY <1>16, <1>0, OpIsTyped, StepsOfStore, StageOf, RefusedDoes DEF StoreStays, TabsStay,
       Others, Keeps, Goes, Calling, Checks, ChecksOut, Writing, ConflictIsDirty, OpenTabs, Open
  <1>17. ASSUME NEW o \in Ops, Decide(o) PROVE WritesWhatIsDirty'
    BY <1>17, <1>0, OpIsTyped, DecideSettles, HeldIsOpen, DecideDoes DEF Others, Keeps, Goes,
       Calling, ChecksOut, Merges, Settles, OtherTabs, Marks, TextsStay, RestStays, Writing,
       ConflictIsDirty, OpenTabs, Open
  <1>18. ASSUME NEW o \in Ops, FinishMerge(o) PROVE WritesWhatIsDirty'
    BY <1>18, <1>0, OpIsTyped, FinishMergeSettles, HeldIsOpen, FinishMergeDoes DEF Others, Keeps,
       Goes, ChecksOut, Settles, OtherTabs, Marks, TextsStay, RestStays, Writing, ConflictIsDirty,
       OpenTabs, Open
  <1>19. ASSUME NEW o \in Ops, Discarded(o) PROVE WritesWhatIsDirty'
    BY <1>19, <1>0, OpIsTyped, DiscardedSettles, HeldIsOpen, DiscardedDoes DEF Others, Keeps,
       Ends, Goes, Settles, OtherTabs, Marks, TextsStay, RestStays, Writing, ConflictIsDirty,
       OpenTabs, Open
  <1>20. ASSUME NEW o \in Ops, Opened(o) PROVE WritesWhatIsDirty'
    BY <1>20, <1>0, NoneIsApart, OpIsTyped, OpenedSettles, HeldIsOpen, OpenedDoes DEF Others,
       Ends, Settles, OtherTabs, Marks, TextsStay, RestStays, Writing, ConflictIsDirty, OpenTabs,
       Open
  <1>21. ASSUME NEW o \in Ops, Deleted(o) PROVE WritesWhatIsDirty'
    BY <1>21, <1>0, OpIsTyped, DeletedSettles, HeldIsOpen, DeletedDoes DEF Others, Ends, Turns,
       Removes, Settles, OtherTabs, Marks, TextsStay, RestStays, Writing, ConflictIsDirty,
       OpenTabs, Open
  <1>22. ASSUME NEW o \in Ops, Renamed(o) PROVE WritesWhatIsDirty'
    BY <1>22, <1>0, NoneIsApart, OpIsTyped, RenamedSettles, HeldIsOpen, RenamedDoes DEF Others,
       Ends, Settles, OtherTabs, Marks, TextsStay, RestStays, Writing, ConflictIsDirty, OpenTabs,
       Open
  <1>23. ASSUME NEW o \in Ops, ResetDone(o) PROVE WritesWhatIsDirty'
    BY <1>23, <1>0, OpIsTyped, ResetDoneSettles, HeldIsOpen, ResetDoneDoes DEF Others, Ends,
       Settles, OtherTabs, Marks, TextsStay, RestStays, Writing, ConflictIsDirty, OpenTabs, Open
  <1>24. ASSUME NEW o \in Ops, NEW t \in Tabs, Overwrite(o, t) PROVE WritesWhatIsDirty'
    BY <1>24, <1>0, OpIsTyped, StepsOnTab, StageOf, OverwriteDoes DEF StoreStays, TabsStay,
       Others, Calling, Takes, Forces, Writing, ConflictIsDirty, OpenTabs, Open
  <1>25. ASSUME NEW o \in Ops, NEW t \in Tabs, Discard(o, t) PROVE WritesWhatIsDirty'
    BY <1>25, <1>0, OpIsTyped, StepsOnTab, StageOf, DiscardDoes DEF StoreStays, TabsStay, Others,
       Rereads, Writing, ConflictIsDirty, OpenTabs, Open
  <1>26. ASSUME NEW o \in Ops, NEW t \in Tabs, SwitchTab(o, t) PROVE WritesWhatIsDirty'
    BY <1>26, <1>0, OpIsTyped, StepsOnTab, StageOf, SwitchTabDoes DEF StoreStays, TabsStay,
       Others, Turns, Writing, ConflictIsDirty, OpenTabs, Open
  <1>27. ASSUME NEW o \in Ops, NEW t \in Tabs, Close(o, t) PROVE WritesWhatIsDirty'
    BY <1>27, <1>0, OpIsTyped, StepsOnTab, StageOf, CloseDoes DEF StoreStays, TabsStay, Others,
       Calling, Takes, Saves, Resumes, Writing, ConflictIsDirty, OpenTabs, Open
  <1>28. ASSUME NEW o \in Ops, NEW p \in Paths, Select(o, p) PROVE WritesWhatIsDirty'
    BY <1>28, <1>0, OpIsTyped, StepsOnPath, StageOf, SelectDoes DEF StoreStays, TabsStay, Others,
       Calling, Takes, Saves, Resumes, Flushes, Turns, Rereads, Writing, ConflictIsDirty,
       OpenTabs, Open
  <1>29. ASSUME NEW o \in Ops, NEW p \in Paths, Delete(o, p) PROVE WritesWhatIsDirty'
    BY <1>29, <1>0, OpIsTyped, StepsOnPath, StageOf, DeleteDoes DEF StoreStays, TabsStay, Others,
       Asks, Writing, ConflictIsDirty, OpenTabs, Open
  <1>30. ASSUME NEW o \in Ops, NEW p \in Paths, NEW q \in Paths, Rename(o, p, q) PROVE WritesWhatIsDirty'
    BY <1>30, <1>0, OpIsTyped, StepOfRename, StageOf, RenameDoes DEF StoreStays, TabsStay, Others,
       Calling, Takes, Saves, Resumes, Flushes, StartsRenaming, Writing, ConflictIsDirty,
       OpenTabs, Open
  <1>31. ASSUME NEW o \in Ops, Reload(o) PROVE WritesWhatIsDirty'
    BY <1>31, <1>0, OpIsTyped, StepsOfStore, StageOf, ReloadDoes DEF StoreStays, TabsStay, Others,
       Calling, Resumes, Writing, ConflictIsDirty, OpenTabs, Open
  <1>32. ASSUME NEW o \in Ops, Watch(o) PROVE WritesWhatIsDirty'
    BY <1>32, <1>0, OpIsTyped, StepsOfStore, StageOf, WatchDoes DEF StoreStays, TabsStay, Others,
       Calling, Resumes, Writing, ConflictIsDirty, OpenTabs, Open
  <1>33. ASSUME NEW o \in Ops, DiskFails(o) PROVE WritesWhatIsDirty'
    BY <1>33, <1>0, OpIsTyped, StepsOfStore, StageOf, DiskFailsDoes DEF StoreStays, TabsStay,
       Others, Keeps, Ends, Goes, ChecksOut, GivesUp, Writing, ConflictIsDirty, OpenTabs, Open
  <1>34. CASE AutoSave
    BY <1>34, <1>0, StepOfTimer, AutoSaveDoes DEF StoreStays, TabsStay, Others, Calling, Takes,
       Saves, Writing, ConflictIsDirty, OpenTabs, Open
  <1>35. ASSUME NEW t \in Tabs, NEW e \in UserEdits, Type(t, e) PROVE WritesWhatIsDirty'
    <2>1. op' = op /\ \A u \in Tabs : dirty[u] => dirty'[u]
      BY <1>35, TypeDoes
    <2>2. \A o \in Ops : op[o].at \in Writing => op[o].tab \in Tabs
      BY HeldIsOpen DEF Writing, OfTab
    <2> QED
      BY <2>1, <2>2
  <1>36. ASSUME NEW p \in Paths, NEW e \in ExternalEdits, Change(p, e) PROVE WritesWhatIsDirty'
    BY <1>36, <1>0, ChangeDoes, HeldIsOpen, OpIsTyped DEF Writing, ConflictIsDirty, OpenTabs, Open
  <1>37. CASE UNCHANGED vars
    BY <1>37 DEF vars, tabs, Writing, ConflictIsDirty, OpenTabs, Open
  <1> QED
    BY <1>1, <1>2, <1>3, <1>4, <1>5, <1>6, <1>7, <1>8, <1>9, <1>10, <1>11, <1>12, <1>13, <1>14,
       <1>15, <1>16, <1>17, <1>18, <1>19, <1>20, <1>21, <1>22, <1>23, <1>24, <1>25, <1>26, <1>27,
       <1>28, <1>29, <1>30, <1>31, <1>32, <1>33, <1>34, <1>35, <1>36, <1>37 DEF Next, Continue,
       Backend, Answer, User

(* The tab that is activated is open. *)
LEMMA TurnsToOpenStep == OneByOne /\ FsTyped /\ OrInv /\ ObInv /\ [Next]_vars => TurnsToOpen'
  <1> SUFFICES ASSUME OneByOne /\ FsTyped /\ OrInv /\ ObInv, [Next]_vars PROVE TurnsToOpen'
    OBVIOUS
  <1> USE  DEF TurnsToOpen, ObInv
  <1>0. \A o, p \in Ops : o = p
    BY DEF OneByOne
  <1>1. ASSUME NEW o \in Ops, ContinueSave(o) PROVE TurnsToOpen'
    BY <1>1, <1>0, OpIsTyped, StepsOfStore, StageOf, ContinueSaveDoes DEF StoreStays, TabsStay,
       Others, Ends, OpenTabs, Open
  <1>2. ASSUME NEW o \in Ops, ContinueWatch(o) PROVE TurnsToOpen'
    BY <1>2, <1>0, OpIsTyped, StepsOfStore, StageOf, ContinueWatchDoes DEF StoreStays, TabsStay,
       Others, Ends, Calling, Checks, OpenTabs, Open
  <1>3. ASSUME NEW o \in Ops, ContinueClose(o) PROVE TurnsToOpen'
    <2> DEFINE closed == {op[o].to}
    <2>1. \/ op'[o].then = "none"
          \/ \E n \in OpenTabs \ closed : op'[o].to = n /\ Forget(closed)
      BY <1>3, ContinueCloseDoes DEF Removes, Ends, Turns
    <2> HIDE DEF closed
    <2>2. ASSUME NEW n \in OpenTabs \ closed, Forget(closed) PROVE path'[n] # None
      BY <2>2, ForgetTyped DEF FsTyped, OpenTabs, Open
    <2> QED
      BY <1>0, <2>1, <2>2 DEF Open
  <1>4. ASSUME NEW o \in Ops, Activate(o) PROVE TurnsToOpen'
    BY <1>4, <1>0, OpIsTyped, StepsOfStore, StageOf, ActivateDoes DEF StoreStays, TabsStay,
       Others, Ends, Calling, Takes, Saves, Resumes, Flushes, OpenTabs, Open
  <1>5. ASSUME NEW o \in Ops, ContinueActivate(o) PROVE TurnsToOpen'
    BY <1>5, <1>0, OpIsTyped, StepsOfStore, StageOf, ContinueActivateDoes DEF StoreStays,
       TabsStay, Others, Ends, OpenTabs, Open
  <1>6. ASSUME NEW o \in Ops, ContinueSelect(o) PROVE TurnsToOpen'
    BY <1>6, <1>0, OpIsTyped, StepsOfStore, StageOf, ContinueSelectDoes DEF StoreStays, TabsStay,
       Others, Asks, OpenTabs, Open
  <1>7. ASSUME NEW o \in Ops, ContinueRename(o) PROVE TurnsToOpen'
    BY <1>7, <1>0, OpIsTyped, StepsOfStore, StageOf, ContinueRenameDoes DEF StoreStays, TabsStay,
       Others, Ends, StartsRenaming, OpenTabs, Open
  <1>8. ASSUME NEW o \in Ops, ContinueReload(o) PROVE TurnsToOpen'
    BY <1>8, <1>0, OpIsTyped, StepsOfStore, StageOf, ContinueReloadDoes DEF StoreStays, TabsStay,
       Others, Ends, Calling, Takes, Saves, Asks, OpenTabs, Open
  <1>9. ASSUME NEW o \in Ops, Write(o) PROVE TurnsToOpen'
    BY <1>9, <1>0, OpIsTyped, StepsOfFiles, StageOf, WriteDoes DEF StoreStays, TabsStay, Others,
       Keeps, Goes, OpenTabs, Open
  <1>10. ASSUME NEW o \in Ops, ForceWrite(o) PROVE TurnsToOpen'
    BY <1>10, <1>0, OpIsTyped, StepsOfFiles, StageOf, ForceWriteDoes DEF StoreStays, TabsStay,
       Others, Keeps, Goes, OpenTabs, Open
  <1>11. ASSUME NEW o \in Ops, Read(o) PROVE TurnsToOpen'
    BY <1>11, <1>0, OpIsTyped, StepsOfStore, StageOf, ReadDoes DEF StoreStays, TabsStay, Others,
       Keeps, Ends, Goes, Calling, ChecksOut, Gets, GivesUp, OpenTabs, Open
  <1>12. ASSUME NEW o \in Ops, WriteMerged(o) PROVE TurnsToOpen'
    BY <1>12, <1>0, OpIsTyped, StepsOfFiles, StageOf, WriteMergedDoes DEF StoreStays, TabsStay,
       Others, Keeps, Goes, OpenTabs, Open
  <1>13. ASSUME NEW o \in Ops, DeleteFile(o) PROVE TurnsToOpen'
    BY <1>13, <1>0, OpIsTyped, StepsOfFiles, StageOf, DeleteFileDoes DEF StoreStays, TabsStay,
       Others, Keeps, Ends, Goes, OpenTabs, Open
  <1>14. ASSUME NEW o \in Ops, RenameFile(o) PROVE TurnsToOpen'
    BY <1>14, <1>0, OpIsTyped, StepsOfFiles, StageOf, RenameFileDoes DEF StoreStays, TabsStay,
       Others, Keeps, Ends, Goes, OpenTabs, Open
  <1>15. ASSUME NEW o \in Ops, Wrote(o) PROVE TurnsToOpen'
    BY <1>15, <1>0, OpIsTyped, WroteSettles, HeldIsOpen, WroteDoes DEF Others, Keeps, Goes,
       Settles, OtherTabs, Marks, TextsStay, RestStays, OpenTabs, Open
  <1>16. ASSUME NEW o \in Ops, Refused(o) PROVE TurnsToOpen'
    BY <1>16, <1>0, OpIsTyped, StepsOfStore, StageOf, RefusedDoes DEF StoreStays, TabsStay,
       Others, Keeps, Goes, Calling, Checks, ChecksOut, OpenTabs, Open
  <1>17. ASSUME NEW o \in Ops, Decide(o) PROVE TurnsToOpen'
    BY <1>17, <1>0, OpIsTyped, DecideSettles, HeldIsOpen, DecideDoes DEF Others, Keeps, Goes,
       Calling, ChecksOut, Merges, Settles, OtherTabs, Marks, TextsStay, RestStays, OpenTabs, Open
  <1>18. ASSUME NEW o \in Ops, FinishMerge(o) PROVE TurnsToOpen'
    BY <1>18, <1>0, OpIsTyped, FinishMergeSettles, HeldIsOpen, FinishMergeDoes DEF Others, Keeps,
       Goes, ChecksOut, Settles, OtherTabs, Marks, TextsStay, RestStays, OpenTabs, Open
  <1>19. ASSUME NEW o \in Ops, Discarded(o) PROVE TurnsToOpen'
    BY <1>19, <1>0, OpIsTyped, DiscardedSettles, HeldIsOpen, DiscardedDoes DEF Others, Keeps,
       Ends, Goes, Settles, OtherTabs, Marks, TextsStay, RestStays, OpenTabs, Open
  <1>20. ASSUME NEW o \in Ops, Opened(o) PROVE TurnsToOpen'
    BY <1>20, <1>0, NoneIsApart, OpIsTyped, OpenedSettles, HeldIsOpen, OpenedDoes DEF Others,
       Ends, Settles, OtherTabs, Marks, TextsStay, RestStays, OpenTabs, Open
  <1>21. ASSUME NEW o \in Ops, Deleted(o) PROVE TurnsToOpen'
    <2> DEFINE closed == {t \in Tabs : path[t] = op[o].path}
    <2>1. \/ op'[o].then = "none"
          \/ \E n \in OpenTabs \ closed : op'[o].to = n /\ Forget(closed)
      BY <1>21, DeletedDoes DEF Removes, Ends, Turns
    <2> HIDE DEF closed
    <2>2. ASSUME NEW n \in OpenTabs \ closed, Forget(closed) PROVE path'[n] # None
      BY <2>2, ForgetTyped DEF FsTyped, OpenTabs, Open
    <2> QED
      BY <1>0, <2>1, <2>2 DEF Open
  <1>22. ASSUME NEW o \in Ops, Renamed(o) PROVE TurnsToOpen'
    BY <1>22, <1>0, NoneIsApart, OpIsTyped, RenamedSettles, HeldIsOpen, RenamedDoes DEF Others,
       Ends, Settles, OtherTabs, Marks, TextsStay, RestStays, OpenTabs, Open
  <1>23. ASSUME NEW o \in Ops, ResetDone(o) PROVE TurnsToOpen'
    BY <1>23, <1>0, OpIsTyped, ResetDoneSettles, HeldIsOpen, ResetDoneDoes DEF Others, Ends,
       Settles, OtherTabs, Marks, TextsStay, RestStays, OpenTabs, Open
  <1>24. ASSUME NEW o \in Ops, NEW t \in Tabs, Overwrite(o, t) PROVE TurnsToOpen'
    BY <1>24, <1>0, OpIsTyped, StepsOnTab, StageOf, OverwriteDoes DEF StoreStays, TabsStay,
       Others, Calling, Takes, Forces, OpenTabs, Open
  <1>25. ASSUME NEW o \in Ops, NEW t \in Tabs, Discard(o, t) PROVE TurnsToOpen'
    BY <1>25, <1>0, OpIsTyped, StepsOnTab, StageOf, DiscardDoes DEF StoreStays, TabsStay, Others,
       Rereads, OpenTabs, Open
  <1>26. ASSUME NEW o \in Ops, NEW t \in Tabs, SwitchTab(o, t) PROVE TurnsToOpen'
    BY <1>26, <1>0, OpIsTyped, StepsOnTab, StageOf, SwitchTabDoes DEF StoreStays, TabsStay,
       Others, Turns, OpenTabs, Open
  <1>27. ASSUME NEW o \in Ops, NEW t \in Tabs, Close(o, t) PROVE TurnsToOpen'
    BY <1>27, <1>0, OpIsTyped, StepsOnTab, StageOf, CloseDoes DEF StoreStays, TabsStay, Others,
       Calling, Takes, Saves, Resumes, OpenTabs, Open
  <1>28. ASSUME NEW o \in Ops, NEW p \in Paths, Select(o, p) PROVE TurnsToOpen'
    BY <1>28, <1>0, OpIsTyped, StepsOnPath, StageOf, SelectDoes DEF StoreStays, TabsStay, Others,
       Calling, Takes, Saves, Resumes, Flushes, Turns, Rereads, OpenTabs, Open
  <1>29. ASSUME NEW o \in Ops, NEW p \in Paths, Delete(o, p) PROVE TurnsToOpen'
    BY <1>29, <1>0, OpIsTyped, StepsOnPath, StageOf, DeleteDoes DEF StoreStays, TabsStay, Others,
       Asks, OpenTabs, Open
  <1>30. ASSUME NEW o \in Ops, NEW p \in Paths, NEW q \in Paths, Rename(o, p, q) PROVE TurnsToOpen'
    BY <1>30, <1>0, OpIsTyped, StepOfRename, StageOf, RenameDoes DEF StoreStays, TabsStay, Others,
       Calling, Takes, Saves, Resumes, Flushes, StartsRenaming, OpenTabs, Open
  <1>31. ASSUME NEW o \in Ops, Reload(o) PROVE TurnsToOpen'
    BY <1>31, <1>0, OpIsTyped, StepsOfStore, StageOf, ReloadDoes DEF StoreStays, TabsStay, Others,
       Calling, Resumes, OpenTabs, Open
  <1>32. ASSUME NEW o \in Ops, Watch(o) PROVE TurnsToOpen'
    BY <1>32, <1>0, OpIsTyped, StepsOfStore, StageOf, WatchDoes DEF StoreStays, TabsStay, Others,
       Calling, Resumes, OpenTabs, Open
  <1>33. ASSUME NEW o \in Ops, DiskFails(o) PROVE TurnsToOpen'
    BY <1>33, <1>0, OpIsTyped, StepsOfStore, StageOf, DiskFailsDoes DEF StoreStays, TabsStay,
       Others, Keeps, Ends, Goes, ChecksOut, GivesUp, OpenTabs, Open
  <1>34. CASE AutoSave
    BY <1>34, <1>0, StepOfTimer, AutoSaveDoes DEF StoreStays, TabsStay, Others, Calling, Takes,
       Saves, OpenTabs, Open
  <1>35. ASSUME NEW t \in Tabs, NEW e \in UserEdits, Type(t, e) PROVE TurnsToOpen'
    BY <1>35, <1>0, TypeDoes, HeldIsOpen, OpIsTyped DEF OpenTabs, Open
  <1>36. ASSUME NEW p \in Paths, NEW e \in ExternalEdits, Change(p, e) PROVE TurnsToOpen'
    BY <1>36, <1>0, ChangeDoes, HeldIsOpen, OpIsTyped DEF OpenTabs, Open
  <1>37. CASE UNCHANGED vars
    BY <1>37 DEF vars, tabs, OpenTabs, Open
  <1> QED
    BY <1>1, <1>2, <1>3, <1>4, <1>5, <1>6, <1>7, <1>8, <1>9, <1>10, <1>11, <1>12, <1>13, <1>14,
       <1>15, <1>16, <1>17, <1>18, <1>19, <1>20, <1>21, <1>22, <1>23, <1>24, <1>25, <1>26, <1>27,
       <1>28, <1>29, <1>30, <1>31, <1>32, <1>33, <1>34, <1>35, <1>36, <1>37 DEF Next, Continue,
       Backend, Answer, User

LEMMA Serially == OneByOne => Orderly
  BY DEF OneByOne, Orderly, Alone

(* The base of a tab has what its file has of the edits of the user. *)
LEMMA BaseIsOnDiskStep == OneByOne /\ FsTyped /\ OrInv /\ ObInv /\ [Next]_vars => BaseIsOnDisk'
  <1> SUFFICES ASSUME OneByOne /\ FsTyped /\ OrInv /\ ObInv, [Next]_vars PROVE BaseIsOnDisk'
    OBVIOUS
  <1> USE  DEF BaseIsOnDisk, ObInv
  <1>0. \A o, p \in Ops : o = p
    BY DEF OneByOne
  <1>1. ASSUME NEW o \in Ops, ContinueSave(o) PROVE BaseIsOnDisk'
    BY <1>1, <1>0, OpIsTyped, StepsOfStore, StageOf DEF StoreStays, TabsStay, JustWritten, Calls,
       OpenTabs, Open
  <1>2. ASSUME NEW o \in Ops, ContinueWatch(o) PROVE BaseIsOnDisk'
    BY <1>2, <1>0, OpIsTyped, StepsOfStore, StageOf DEF StoreStays, TabsStay, JustWritten, Calls,
       OpenTabs, Open
  <1>3. ASSUME NEW o \in Ops, ContinueClose(o) PROVE BaseIsOnDisk'
    BY <1>3, <1>0, OpIsTyped, ContinueCloseSettles, HeldIsOpen DEF Settles, OtherTabs, Marks,
       TextsStay, RestStays, JustWritten, Calls, OpenTabs, Open
  <1>4. ASSUME NEW o \in Ops, Activate(o) PROVE BaseIsOnDisk'
    BY <1>4, <1>0, OpIsTyped, StepsOfStore, StageOf DEF StoreStays, TabsStay, JustWritten, Calls,
       OpenTabs, Open
  <1>5. ASSUME NEW o \in Ops, ContinueActivate(o) PROVE BaseIsOnDisk'
    BY <1>5, <1>0, OpIsTyped, StepsOfStore, StageOf DEF StoreStays, TabsStay, JustWritten, Calls,
       OpenTabs, Open
  <1>6. ASSUME NEW o \in Ops, ContinueSelect(o) PROVE BaseIsOnDisk'
    BY <1>6, <1>0, OpIsTyped, StepsOfStore, StageOf DEF StoreStays, TabsStay, JustWritten, Calls,
       OpenTabs, Open
  <1>7. ASSUME NEW o \in Ops, ContinueRename(o) PROVE BaseIsOnDisk'
    BY <1>7, <1>0, OpIsTyped, StepsOfStore, StageOf DEF StoreStays, TabsStay, JustWritten, Calls,
       OpenTabs, Open
  <1>8. ASSUME NEW o \in Ops, ContinueReload(o) PROVE BaseIsOnDisk'
    BY <1>8, <1>0, OpIsTyped, StepsOfStore, StageOf DEF StoreStays, TabsStay, JustWritten, Calls,
       OpenTabs, Open
  <1>9. ASSUME NEW o \in Ops, Write(o) PROVE BaseIsOnDisk'
    <2>1. /\ op[o].tab \in Tabs /\ op[o].path \in Paths /\ path[op[o].tab] = op[o].path /\ Open(op[o].tab)
          /\ op[o].at = "write" /\ TabsStay
      BY <1>9, HeldIsOpen, StageOf, StepsOfFiles DEF OfTab
    <2>2. CASE UNCHANGED files
      BY <1>0, <2>1, <2>2 DEF TabsStay, OpenTabs, Open, JustWritten
    <2>3. CASE /\ op'[o].at \in {"wrote", "merged"} /\ op'[o].tab = op[o].tab
               /\ \A p \in Paths \ {op[o].path} : files'[p] = files[p]
      <3>1. \A t \in Tabs \ {op[o].tab} : Open(t) => path[t] # op[o].path
        BY <2>1 DEF OrInv, OneTabEach, OneByOne, Alone, OneTabPerFile, OpenTabs
      <3>2. \A t \in Tabs : ~JustWritten(t)
        BY <1>0, <2>1 DEF JustWritten
      <3>3. ASSUME NEW t \in Tabs \ {op[o].tab}, Open(t) PROVE files'[path[t]] = files[path[t]]
        BY <2>3, <3>1, <3>3 DEF Open, FsTyped, TabsTyped
      <3>4. \A t \in Tabs : t = op[o].tab => JustWritten(t)'
        BY <2>3 DEF JustWritten
      <3> QED
        BY <2>1, <3>2, <3>3, <3>4 DEF TabsStay, OpenTabs, Open
    <2> QED
      BY <1>9, <2>1, <2>2, <2>3, WriteDoes DEF Goes, Keeps, FsTyped, TabsTyped
  <1>10. ASSUME NEW o \in Ops, ForceWrite(o) PROVE BaseIsOnDisk'
    <2>1. /\ op[o].tab \in Tabs /\ op[o].path \in Paths /\ path[op[o].tab] = op[o].path /\ Open(op[o].tab)
          /\ op[o].at = "force" /\ TabsStay
      BY <1>10, HeldIsOpen, StageOf, StepsOfFiles DEF OfTab
    <2>2. CASE UNCHANGED files
      BY <1>0, <2>1, <2>2 DEF TabsStay, OpenTabs, Open, JustWritten
    <2>3. CASE /\ op'[o].at \in {"wrote", "merged"} /\ op'[o].tab = op[o].tab
               /\ \A p \in Paths \ {op[o].path} : files'[p] = files[p]
      <3>1. \A t \in Tabs \ {op[o].tab} : Open(t) => path[t] # op[o].path
        BY <2>1 DEF OrInv, OneTabEach, OneByOne, Alone, OneTabPerFile, OpenTabs
      <3>2. \A t \in Tabs : ~JustWritten(t)
        BY <1>0, <2>1 DEF JustWritten
      <3>3. ASSUME NEW t \in Tabs \ {op[o].tab}, Open(t) PROVE files'[path[t]] = files[path[t]]
        BY <2>3, <3>1, <3>3 DEF Open, FsTyped, TabsTyped
      <3>4. \A t \in Tabs : t = op[o].tab => JustWritten(t)'
        BY <2>3 DEF JustWritten
      <3> QED
        BY <2>1, <3>2, <3>3, <3>4 DEF TabsStay, OpenTabs, Open
    <2> QED
      BY <1>10, <2>1, <2>2, <2>3, ForceWriteDoes DEF Goes, Keeps, FsTyped, TabsTyped, ForceWrite
  <1>11. ASSUME NEW o \in Ops, Read(o) PROVE BaseIsOnDisk'
    BY <1>11, <1>0, OpIsTyped, StepsOfStore, StageOf DEF StoreStays, TabsStay, JustWritten, Calls,
       OpenTabs, Open
  <1>12. ASSUME NEW o \in Ops, WriteMerged(o) PROVE BaseIsOnDisk'
    <2>1. /\ op[o].tab \in Tabs /\ op[o].path \in Paths /\ path[op[o].tab] = op[o].path /\ Open(op[o].tab)
          /\ op[o].at = "merge" /\ TabsStay
      BY <1>12, HeldIsOpen, StageOf, StepsOfFiles DEF OfTab
    <2>2. CASE UNCHANGED files
      BY <1>0, <2>1, <2>2 DEF TabsStay, OpenTabs, Open, JustWritten
    <2>3. CASE /\ op'[o].at \in {"wrote", "merged"} /\ op'[o].tab = op[o].tab
               /\ \A p \in Paths \ {op[o].path} : files'[p] = files[p]
      <3>1. \A t \in Tabs \ {op[o].tab} : Open(t) => path[t] # op[o].path
        BY <2>1 DEF OrInv, OneTabEach, OneByOne, Alone, OneTabPerFile, OpenTabs
      <3>2. \A t \in Tabs : ~JustWritten(t)
        BY <1>0, <2>1 DEF JustWritten
      <3>3. ASSUME NEW t \in Tabs \ {op[o].tab}, Open(t) PROVE files'[path[t]] = files[path[t]]
        BY <2>3, <3>1, <3>3 DEF Open, FsTyped, TabsTyped
      <3>4. \A t \in Tabs : t = op[o].tab => JustWritten(t)'
        BY <2>3 DEF JustWritten
      <3> QED
        BY <2>1, <3>2, <3>3, <3>4 DEF TabsStay, OpenTabs, Open
    <2> QED
      BY <1>12, <2>1, <2>2, <2>3, WriteMergedDoes DEF Goes, Keeps, FsTyped, TabsTyped
  <1>13. ASSUME NEW o \in Ops, DeleteFile(o) PROVE BaseIsOnDisk'
    <2>1. op[o].at = "delete" /\ op[o].path \in Paths /\ TabsStay
      BY <1>13, OpIsTyped, StageOf, StepsOfFiles DEF WellFormed, OfPath
    <2>2. \A t \in Tabs : ~JustWritten(t)
      BY <1>0, <2>1 DEF JustWritten
    <2>3. \A p \in Paths : files'[p] \in {None, files[p]}
      BY <1>13, <2>1 DEF DeleteFile, FsTyped, TabsTyped
    <2> QED
      BY <2>1, <2>2, <2>3 DEF TabsStay, OpenTabs, Open, FsTyped, TabsTyped
  <1>14. ASSUME NEW o \in Ops, RenameFile(o) PROVE BaseIsOnDisk'
    <2>1. op[o].at = "rename" /\ TabsStay
      BY <1>14, StageOf, StepsOfFiles
    <2>2. \A t \in Tabs : ~JustWritten(t)
      BY <1>0, <2>1 DEF JustWritten
    <2>3. CASE UNCHANGED files
      BY <2>1, <2>2, <2>3 DEF TabsStay, OpenTabs, Open
    <2>4. CASE /\ op'[o].at = "list" /\ op'[o].to = op[o].to
               /\ \A p \in Paths \ {op[o].to} : files'[p] \in {None, files[p]}
      <3>1. \A t \in Tabs : path'[t] # op[o].to
        BY <2>4, ListsItsFileStep, Serially DEF ListsItsFile
      <3>2. ASSUME NEW t \in Tabs, path[t] # None PROVE files'[path[t]] \in {None, files[path[t]]}
        BY <2>1, <2>4, <3>1, <3>2 DEF TabsStay, FsTyped, TabsTyped
      <3> QED
        BY <2>1, <2>2, <3>2 DEF TabsStay, OpenTabs, Open
    <2> QED
      BY <1>14, <2>3, <2>4, RenameFileDoes DEF Goes, Keeps, FsTyped, TabsTyped
  <1>15. ASSUME NEW o \in Ops, Wrote(o) PROVE BaseIsOnDisk'
    <2> DEFINE t == op[o].tab
    <2>1. t \in Tabs /\ path[t] = op[o].path /\ op[o].at = "wrote" /\ Ours(op[o].text) = Ours(files[op[o].path])
      BY <1>15, HeldIsOpen, WroteSettles DEF OfTab, WrittenIsOnDisk
    <2>2. \A u \in Tabs \ {t} : ~JustWritten(u)
      BY <1>0 DEF JustWritten
    <2> QED
      BY <1>15, <2>1, <2>2, WroteSettles DEF OtherTabs, OpenTabs, Open
  <1>16. ASSUME NEW o \in Ops, Refused(o) PROVE BaseIsOnDisk'
    BY <1>16, <1>0, OpIsTyped, StepsOfStore, StageOf DEF StoreStays, TabsStay, JustWritten, Calls,
       OpenTabs, Open
  <1>17. ASSUME NEW o \in Ops, Decide(o) PROVE BaseIsOnDisk'
    <2> DEFINE t == op[o].tab
    <2>1. t \in Tabs /\ path[t] = op[o].path /\ op[o].at = "got" /\ Ours(op[o].disk) = Ours(files[op[o].path])
      BY <1>17, HeldIsOpen, DecideSettles DEF OfTab, ReadIsOnDisk
    <2>2. \A u \in Tabs : ~JustWritten(u)
      BY <1>0, <2>1 DEF JustWritten
    <2>3. files' = files /\ path' = path /\ (base' = base \/ Settles(t, op[o].disk))
      BY <1>17, DecideSettles DEF Marks, TextsStay
    <2> QED
      BY <2>1, <2>2, <2>3 DEF Settles, OtherTabs, OpenTabs, Open
  <1>18. ASSUME NEW o \in Ops, FinishMerge(o) PROVE BaseIsOnDisk'
    <2> DEFINE t == op[o].tab
    <2>1. t \in Tabs /\ path[t] = op[o].path /\ op[o].at \in {"merged", "mergeRefused"}
      BY <1>18, HeldIsOpen, StageOf DEF OfTab
    <2>2. \A u \in Tabs \ {t} : ~JustWritten(u)
      BY <1>0 DEF JustWritten
    <2>3. op[o].at = "mergeRefused" => ~JustWritten(t)
      BY <1>0 DEF JustWritten
    <2>4. op[o].at = "merged" => Ours(Merged(o)) = Ours(files[path[t]])
      BY <2>1 DEF WrittenIsOnDisk
    <2> QED
      BY <1>18, <2>1, <2>2, <2>3, <2>4, FinishMergeSettles DEF Settles, OtherTabs, TextsStay,
         OpenTabs, Open
  <1>19. ASSUME NEW o \in Ops, Discarded(o) PROVE BaseIsOnDisk'
    <2> DEFINE t == op[o].tab
    <2>1. t \in Tabs /\ path[t] = op[o].path /\ op[o].at = "gotAgain" /\ Ours(op[o].disk) = Ours(files[op[o].path])
      BY <1>19, HeldIsOpen, DiscardedSettles DEF OfTab, ReadIsOnDisk
    <2>2. \A u \in Tabs : ~JustWritten(u)
      BY <1>0, <2>1 DEF JustWritten
    <2>3. files' = files /\ path' = path /\ (base' = base \/ Settles(t, op[o].disk))
      BY <1>19, DiscardedSettles DEF Marks, TextsStay
    <2> QED
      BY <2>1, <2>2, <2>3 DEF Settles, OtherTabs, OpenTabs, Open
  <1>20. ASSUME NEW o \in Ops, Opened(o) PROVE BaseIsOnDisk'
    <2>1. op[o].at = "opened" /\ Ours(op[o].disk) = Ours(files[op[o].path])
      BY <1>20, OpenedSettles DEF ReadIsOnDisk
    <2>2. \A u \in Tabs : ~JustWritten(u)
      BY <1>0, <2>1 DEF JustWritten
    <2> QED
      BY <1>20, <2>1, <2>2, OpenedSettles DEF OpenTabs, Open
  <1>21. ASSUME NEW o \in Ops, Deleted(o) PROVE BaseIsOnDisk'
    BY <1>21, <1>0, OpIsTyped, DeletedSettles, HeldIsOpen DEF Settles, OtherTabs, Marks,
       TextsStay, RestStays, JustWritten, Calls, OpenTabs, Open
  <1>22. ASSUME NEW o \in Ops, Renamed(o) PROVE BaseIsOnDisk'
    <2>1. op[o].at = "list"
      BY <1>22, RenamedSettles
    <2>2. \A u \in Tabs : ~JustWritten(u)
      BY <1>0, <2>1 DEF JustWritten
    <2>3. \A t \in OpenTabs : path[t] = op[o].from => Ours(base[t]) = Ours(files[op[o].to])
      BY <2>1 DEF MovedIsOnDisk
    <2> QED
      BY <1>22, <2>2, <2>3, RenamedSettles, NoneIsApart DEF TextsStay, OpenTabs, Open
  <1>23. ASSUME NEW o \in Ops, ResetDone(o) PROVE BaseIsOnDisk'
    BY <1>23, <1>0, OpIsTyped, ResetDoneSettles, HeldIsOpen DEF Settles, OtherTabs, Marks,
       TextsStay, RestStays, JustWritten, Calls, OpenTabs, Open
  <1>24. ASSUME NEW o \in Ops, NEW t \in Tabs, Overwrite(o, t) PROVE BaseIsOnDisk'
    BY <1>24, <1>0, OpIsTyped, StepsOnTab, StageOf DEF StoreStays, TabsStay, JustWritten, Calls,
       OpenTabs, Open
  <1>25. ASSUME NEW o \in Ops, NEW t \in Tabs, Discard(o, t) PROVE BaseIsOnDisk'
    BY <1>25, <1>0, OpIsTyped, StepsOnTab, StageOf DEF StoreStays, TabsStay, JustWritten, Calls,
       OpenTabs, Open
  <1>26. ASSUME NEW o \in Ops, NEW t \in Tabs, SwitchTab(o, t) PROVE BaseIsOnDisk'
    BY <1>26, <1>0, OpIsTyped, StepsOnTab, StageOf DEF StoreStays, TabsStay, JustWritten, Calls,
       OpenTabs, Open
  <1>27. ASSUME NEW o \in Ops, NEW t \in Tabs, Close(o, t) PROVE BaseIsOnDisk'
    BY <1>27, <1>0, OpIsTyped, StepsOnTab, StageOf DEF StoreStays, TabsStay, JustWritten, Calls,
       OpenTabs, Open
  <1>28. ASSUME NEW o \in Ops, NEW p \in Paths, Select(o, p) PROVE BaseIsOnDisk'
    BY <1>28, <1>0, OpIsTyped, StepsOnPath, StageOf DEF StoreStays, TabsStay, JustWritten, Calls,
       OpenTabs, Open
  <1>29. ASSUME NEW o \in Ops, NEW p \in Paths, Delete(o, p) PROVE BaseIsOnDisk'
    BY <1>29, <1>0, OpIsTyped, StepsOnPath, StageOf DEF StoreStays, TabsStay, JustWritten, Calls,
       OpenTabs, Open
  <1>30. ASSUME NEW o \in Ops, NEW p \in Paths, NEW q \in Paths, Rename(o, p, q) PROVE BaseIsOnDisk'
    BY <1>30, <1>0, OpIsTyped, StepOfRename, StageOf DEF StoreStays, TabsStay, JustWritten, Calls,
       OpenTabs, Open
  <1>31. ASSUME NEW o \in Ops, Reload(o) PROVE BaseIsOnDisk'
    BY <1>31, <1>0, OpIsTyped, StepsOfStore, StageOf DEF StoreStays, TabsStay, JustWritten, Calls,
       OpenTabs, Open
  <1>32. ASSUME NEW o \in Ops, Watch(o) PROVE BaseIsOnDisk'
    BY <1>32, <1>0, OpIsTyped, StepsOfStore, StageOf DEF StoreStays, TabsStay, JustWritten, Calls,
       OpenTabs, Open
  <1>33. ASSUME NEW o \in Ops, DiskFails(o) PROVE BaseIsOnDisk'
    BY <1>33, <1>0, OpIsTyped, StepsOfStore, StageOf DEF StoreStays, TabsStay, JustWritten, Calls,
       OpenTabs, Open
  <1>34. CASE AutoSave
    <2>1. StoreStays /\ (op' = op \/ \E o \in Ops : op[o].at = "idle")
      BY <1>34, AutoSaveDoes, StepOfTimer DEF Free
    <2>2. CASE op' = op
      BY <2>1, <2>2 DEF StoreStays, TabsStay, OpenTabs, Open, JustWritten
    <2>3. CASE \E o \in Ops : op[o].at = "idle"
      <3>1. \A u \in Tabs : ~JustWritten(u)
        BY <1>0, <2>3 DEF JustWritten
      <3> QED
        BY <2>1, <3>1 DEF StoreStays, TabsStay, OpenTabs, Open
    <2> QED
      BY <2>1, <2>2, <2>3
  <1>35. ASSUME NEW t \in Tabs, NEW e \in UserEdits, Type(t, e) PROVE BaseIsOnDisk'
    BY <1>35, <1>0, TypeDoes, HeldIsOpen, OpIsTyped DEF JustWritten, Calls, OpenTabs, Open
  <1>36. ASSUME NEW p \in Paths, NEW e \in ExternalEdits, Change(p, e) PROVE BaseIsOnDisk'
    <2>1. \A t \in Tabs : JustWritten(t)' <=> JustWritten(t)
      BY <1>36, ChangeDoes DEF JustWritten
    <2>2. \A t \in Tabs : path[t] # None => path[t] \in Paths
      BY DEF FsTyped, TabsTyped
    <2> QED
      BY <1>36, <2>1, <2>2, ChangeDoes DEF OpenTabs, Open
  <1>37. CASE UNCHANGED vars
    BY <1>37 DEF vars, tabs, JustWritten, Calls, OpenTabs, Open
  <1> QED
    BY <1>1, <1>2, <1>3, <1>4, <1>5, <1>6, <1>7, <1>8, <1>9, <1>10, <1>11, <1>12, <1>13, <1>14,
       <1>15, <1>16, <1>17, <1>18, <1>19, <1>20, <1>21, <1>22, <1>23, <1>24, <1>25, <1>26, <1>27,
       <1>28, <1>29, <1>30, <1>31, <1>32, <1>33, <1>34, <1>35, <1>36, <1>37 DEF Next, Continue,
       Backend, Answer, User

LEMMA FilesSettle ==
  ASSUME OneByOne, FsTyped, OrInv, ObInv, [Next]_vars, NEW o \in Ops,
         op[o].at \notin {"write", "force", "merge", "delete", "rename"}
  PROVE  \A p \in Paths : Ours(files'[p]) = Ours(files[p]) /\ (files'[p] = None <=> files[p] = None)
  <1>1. CASE files' = files
    BY <1>1
  <1>2. ASSUME NEW u \in Ops, Write(u) \/ ForceWrite(u) \/ WriteMerged(u) \/ DeleteFile(u) \/ RenameFile(u)
        PROVE  FALSE
    <2>1. u = o
      BY DEF OneByOne
    <2> QED
      BY <1>2, <2>1, StageOf
  <1>3. ASSUME NEW p \in Paths, NEW e \in ExternalEdits, Change(p, e)
        PROVE  \A q \in Paths : Ours(files'[q]) = Ours(files[q]) /\ (files'[q] = None <=> files[q] = None)
    BY <1>3, ChangeDoes
  <1> QED
    BY <1>1, <1>2, <1>3, FileTurns DEF FilesTurn

LEMMA BaseIsThere ==
  ASSUME OneByOne, FsTyped, OrInv, ObInv, NEW o \in Ops,
         op[o].at \notin {"wrote", "merged", "list", "deleted"}, NEW t \in Tabs, Open(t)
  PROVE  path[t] \in Paths /\ files[path[t]] # None /\ Ours(base[t]) = Ours(files[path[t]])
  <1>0. \A p \in Ops : p = o
    BY DEF OneByOne
  <1>1. path[t] \in Paths
    BY DEF FsTyped, TabsTyped, Open
  <1>2. files[path[t]] # None
    BY <1>0 DEF OrInv, HasFiles, GoneFrom, Open
  <1>3. ~JustWritten(t)
    BY <1>0 DEF JustWritten
  <1> QED
    BY <1>1, <1>2, <1>3 DEF ObInv, BaseIsOnDisk, OpenTabs

LEMMA GotIsBase ==
  ASSUME OneByOne, FsTyped, OrInv, ObInv, NEW o \in Ops, op[o].at = "got"
  PROVE  Ours(op[o].disk) = Ours(base[op[o].tab]) /\ Ours(op[o].disk) = Ours(op[o].base)
  <1>1. op[o].tab \in Tabs /\ path[op[o].tab] = op[o].path /\ Open(op[o].tab)
    BY HeldIsOpen DEF OfTab
  <1>2. Ours(base[op[o].tab]) = Ours(files[op[o].path])
    BY <1>1, BaseIsThere
  <1>3. base[op[o].tab] = op[o].base
    BY DEF ObInv, TabIsHeld, OfTab
  <1> QED
    BY <1>2, <1>3 DEF ObInv, ReadIsOnDisk

(* What was written is on disk until the answer is handled. *)
LEMMA WrittenIsOnDiskStep == OneByOne /\ FsTyped /\ OrInv /\ ObInv /\ [Next]_vars => WrittenIsOnDisk'
  <1> SUFFICES ASSUME OneByOne, FsTyped, OrInv, ObInv, [Next]_vars, NEW o \in Ops
               PROVE  /\ op'[o].at = "wrote" => Ours(op'[o].text) = Ours(files'[op'[o].path])
                      /\ op'[o].at = "merged" => Ours(Merged(o)') = Ours(files'[op'[o].path])
    BY DEF WrittenIsOnDisk, Ours
  <1>1. CASE op'[o] = op[o]
    <2>1. Merged(o)' = Merged(o)
      BY <1>1 DEF Merged
    <2>2. ASSUME op[o].at \in {"wrote", "merged"} PROVE Ours(files'[op[o].path]) = Ours(files[op[o].path])
      BY <2>2, FilesSettle, HeldIsOpen DEF OfTab
    <2> QED
      BY <1>1, <2>1, <2>2 DEF ObInv, WrittenIsOnDisk
  <1>2. CASE Write(o) \/ ForceWrite(o)
    <2>1. op[o].path \in Paths
      BY <1>2, HeldIsOpen, StageOf DEF OfTab
    <2>2. CASE op'[o].at = "wrote" /\ Keeps(o) /\ files' = [files EXCEPT ![op[o].path] = op[o].text]
      BY <2>1, <2>2 DEF Keeps, FsTyped, TabsTyped
    <2>3. CASE op'[o].at = "refused"
      BY <2>3
    <2> QED
      BY <1>2, <2>2, <2>3, WriteDoes, ForceWriteDoes DEF Goes, ForceWrite
  <1>3. CASE WriteMerged(o)
    <2>1. op[o].path \in Paths
      BY <1>3, HeldIsOpen, StageOf DEF OfTab
    <2>2. CASE op'[o].at = "merged" /\ Keeps(o) /\ files' = [files EXCEPT ![op[o].path] = Merged(o)]
      <3>1. Merged(o)' = Merged(o)
        BY <2>2 DEF Merged, Keeps
      <3> QED
        BY <2>1, <2>2, <3>1 DEF Keeps, FsTyped, TabsTyped
    <2>3. CASE op'[o].at = "mergeRefused"
      BY <2>3
    <2> QED
      BY <1>3, <2>2, <2>3, WriteMergedDoes DEF Goes
  <1> QED
    BY <1>1, <1>2, <1>3, StageSteps DEF StagesTurn

(* What was read is on disk, and a merge is of edits of one side. *)
LEMMA ReadIsOnDiskStep == OneByOne /\ FsTyped /\ OrInv /\ ObInv /\ [Next]_vars => ReadIsOnDisk'
  <1> SUFFICES ASSUME OneByOne, FsTyped, OrInv, ObInv, [Next]_vars, NEW o \in Ops
               PROVE  /\ op'[o].at \in {"got", "gotAgain", "opened"} => Ours(op'[o].disk) = Ours(files'[op'[o].path])
                      /\ op'[o].at \in Merging => Ours(op'[o].disk) = Ours(op'[o].base)
    BY DEF ReadIsOnDisk, Ours
  <1>1. CASE op'[o] = op[o]
    <2>1. op[o].at \in {"got", "gotAgain", "opened"} => op[o].path \in Paths
      BY OpIsTyped DEF WellFormed, OfPath, OfTab
    <2>2. ASSUME op[o].at \in {"got", "gotAgain", "opened"} PROVE Ours(files'[op[o].path]) = Ours(files[op[o].path])
      BY <2>1, <2>2, FilesSettle
    <2> QED
      BY <1>1, <2>2 DEF ObInv, ReadIsOnDisk
  <1>2. CASE Read(o)
    <2>1. files' = files
      BY <1>2 DEF Read
    <2>2. CASE Gets(o, files[op[o].path])
      BY <2>1, <2>2 DEF Gets, Merging
    <2>3. CASE GivesUp(o)
      BY <1>2, <2>3, StageOf DEF GivesUp, Goes, Ends, ChecksOut, Merging
    <2> QED
      BY <1>2, <2>2, <2>3, ReadDoes
  <1>3. CASE Decide(o) /\ op'[o].at = "merge"
    <2>1. op'[o].disk = op[o].disk /\ op'[o].base = op[o].base
      BY <1>3, DecideDoes DEF ChecksOut, Goes, Merges
    <2> QED
      BY <1>3, <2>1, DecideSettles, GotIsBase
  <1>4. CASE op[o].at \in Merging /\ Keeps(o) /\ op'[o].at \in {"merged", "mergeRefused"}
    BY <1>4 DEF Keeps, ObInv, ReadIsOnDisk, Merging
  <1>5. ASSUME op'[o].at = "merged", WriteMerged(o)
        PROVE  op[o].at \in Merging /\ Keeps(o)
    BY <1>5, WriteMergedDoes, StageOf DEF Goes, Merging
  <1> QED
    BY <1>1, <1>2, <1>3, <1>4, <1>5, StageSteps DEF StagesTurn, Merging

(* While a rename is under way the tabs of the file are as it is. *)
LEMMA MovedIsOnDiskStep == OneByOne /\ FsTyped /\ OrInv /\ ObInv /\ [Next]_vars => MovedIsOnDisk'
  <1> SUFFICES ASSUME OneByOne, FsTyped, OrInv, ObInv, [Next]_vars, NEW o \in Ops, op'[o].at = "list",
                      NEW t \in Tabs, path'[t] # None, path'[t] = op'[o].from
               PROVE  Ours(base'[t]) = Ours(files'[op'[o].to])
    BY DEF MovedIsOnDisk, Ours, OpenTabs, Open
  <1>0. \A p \in Ops : p = o
    BY DEF OneByOne
  <1>1. CASE op'[o] = op[o]
    <2>1. op[o].to \in Paths
      BY <1>1, OpIsTyped DEF WellFormed, Renames
    <2>2. Ours(files'[op[o].to]) = Ours(files[op[o].to])
      BY <1>1, <2>1, FilesSettle
    <2>3. path' = path /\ base' = base
      <3>1. ASSUME NEW u \in Ops, \/ Wrote(u) \/ Decide(u) \/ FinishMerge(u) \/ Discarded(u) \/ ContinueClose(u)
                                  \/ Deleted(u) \/ ResetDone(u) \/ Opened(u)
            PROVE  FALSE
        <4>1. u = o
          BY <1>0
        <4>2. op[o].at # "list"
          BY <3>1, <4>1, StageOf, WroteSettles, DecideSettles, DiscardedSettles,
             ContinueCloseSettles, DeletedSettles, ResetDoneSettles, OpenedSettles
        <4> QED
          BY <1>1, <4>2
      <3>2. ASSUME NEW u \in Ops, Renamed(u) PROVE FALSE
        <4>1. u = o
          BY <1>0
        <4> QED
          BY <1>1, <3>2, <4>1, RenamedDoes DEF Ends
      <3> QED
        BY <3>1, <3>2, TabSteps, TypeDoes DEF TabsTurn, TabsStay
    <2> QED
      BY <1>1, <2>2, <2>3 DEF ObInv, MovedIsOnDisk, OpenTabs, Open
  <1>2. CASE RenameFile(o)
    <2>1. path' = path /\ base' = base /\ op[o].at = "rename"
      BY <1>2, StepsOfFiles, StageOf DEF TabsStay
    <2>2. /\ op[o].from \in Paths /\ op[o].to \in Paths /\ op[o].from # op[o].to
          /\ files' = [files EXCEPT ![op[o].from] = None, ![op[o].to] = files[op[o].from]]
          /\ op'[o].from = op[o].from /\ op'[o].to = op[o].to
      BY <1>2, RenameFileDoes DEF Ends, Goes, Keeps
    <2>3. files'[op[o].to] = files[op[o].from]
      BY <2>2 DEF FsTyped, TabsTyped
    <2>4. Ours(base[t]) = Ours(files[path[t]])
      BY <2>1, BaseIsThere DEF Open
    <2> QED
      BY <2>1, <2>2, <2>3, <2>4
  <1> QED
    BY <1>1, <1>2, MoveSteps DEF MovesEnd

(* The active tab is open. *)
LEMMA RemoveLeaves ==
  ASSUME NEW o, NEW closed, Remove(o, closed)
  PROVE  active' = IF active \in closed THEN None ELSE active
  BY DEF Remove

LEMMA ActiveTabIsOpenStep == OneByOne /\ FsTyped /\ OrInv /\ ObInv /\ [Next]_vars => ActiveTabIsOpen'
  <1> SUFFICES ASSUME OneByOne, FsTyped, OrInv, ObInv, [Next]_vars, active' # None PROVE path'[active'] # None
    BY DEF ActiveTabIsOpen, Open
  <1>0. active # None => active \in Tabs /\ path[active] # None
    BY DEF FsTyped, TabsTyped, ObInv, ActiveTabIsOpen, Open
  <1>1. CASE path' = path /\ active' = active
    BY <1>0, <1>1
  <1>2. ASSUME NEW o \in Ops, Wrote(o) \/ Decide(o) \/ FinishMerge(o) \/ Discarded(o)
        PROVE  path' = path /\ active' = active
    BY <1>2, WroteSettles, DecideSettles, FinishMergeSettles, DiscardedSettles
  <1>3. ASSUME NEW closed, Forget(closed), active' = IF active \in closed THEN None ELSE active
        PROVE  path'[active'] # None
    BY <1>0, <1>3, ForgetTyped DEF FsTyped
  <1>4. ASSUME NEW o \in Ops, ContinueClose(o) PROVE path'[active'] # None
    BY <1>1, <1>3, <1>4, RemoveLeaves DEF ContinueClose, Remove, tabs
  <1>5. ASSUME NEW o \in Ops, Deleted(o) PROVE path'[active'] # None
    BY <1>3, <1>5, RemoveLeaves DEF Deleted, Remove
  <1>6. ASSUME NEW o \in Ops, ResetDone(o) PROVE path'[active'] # None
    BY <1>1, <1>6 DEF ResetDone, tabs
  <1>7. ASSUME NEW o \in Ops, Opened(o) PROVE path'[active'] # None
    BY <1>7, OpenedSettles, NoneIsApart
  <1>8. ASSUME NEW o \in Ops, Renamed(o) PROVE path'[active'] # None
    BY <1>0, <1>8, RenamedSettles, NoneIsApart
  <1>9. ASSUME NEW o \in Ops, ContinueActivate(o), TabsStay PROVE path'[active'] # None
    <2>1. active' \in {active, op[o].to} /\ path' = path /\ op[o].then = "activate"
      BY <1>9 DEF ContinueActivate, TabsStay
    <2> QED
      BY <1>0, <2>1 DEF ObInv, TurnsToOpen, Open
  <1>10. ASSUME NEW t \in Tabs, NEW e \in UserEdits, Type(t, e) PROVE path' = path /\ active' = active
    BY <1>10, TypeDoes
  <1> QED
    BY <1>1, <1>2, <1>4, <1>5, <1>6, <1>7, <1>8, <1>9, <1>10, TabSteps DEF TabsTurn, TabsStay

(* How a reload goes on: by itself, or through the save of a tab. *)
ReloadWaits(o) ==
  /\ TabsStay /\ ReloadGoesOn(o) /\ op'[o].to = op[o].to /\ op'[o].rest = op[o].rest
  /\ \/ op[o].at \notin OfTab /\ op'[o].at \notin {"saved", "unsaved", "reset"}
     \/ op[o].at \in OfTab /\ op'[o].at \in OfTab /\ op'[o].tab = op[o].tab
     \/ ChecksOut(o)
ReloadsTurn ==
  \A o \in Ops : ReloadGoesOn(o)' =>
    \/ op'[o] = op[o] /\ (TabsStay \/ \E t \in Tabs, e \in UserEdits : Type(t, e))
    \/ Reload(o) \/ ContinueReload(o) \/ Wrote(o) \/ Decide(o) \/ FinishMerge(o) \/ ReloadWaits(o)

(* A reload takes only its own steps. *)
LEMMA ReloadSteps == OneByOne /\ FsTyped /\ [Next]_vars => ReloadsTurn
  <1> SUFFICES ASSUME OneByOne /\ FsTyped, [Next]_vars PROVE ReloadsTurn
    OBVIOUS
  <1> USE DEF ReloadsTurn
  <1>0. \A o, p \in Ops : o = p
    BY DEF OneByOne
  <1>1. ASSUME NEW o \in Ops, ContinueSave(o) PROVE ReloadsTurn
    <2>1. op'[o].then # "reload"
      BY <1>1, OpIsTyped, ContinueSaveDoes, StageOf DEF Others, Ends
    <2> QED
      BY <1>0, <2>1 DEF ReloadGoesOn
  <1>2. ASSUME NEW o \in Ops, ContinueWatch(o) PROVE ReloadsTurn
    <2>1. op'[o].then # "reload"
      BY <1>2, OpIsTyped, ContinueWatchDoes, StageOf DEF Others, Ends, Calling, Checks
    <2> QED
      BY <1>0, <2>1 DEF ReloadGoesOn
  <1>3. ASSUME NEW o \in Ops, ContinueClose(o) PROVE ReloadsTurn
    <2>1. op'[o].then # "reload"
      BY <1>3, OpIsTyped, ContinueCloseDoes, StageOf DEF Others, Ends, Turns, Removes,
         ContinueClose, Awaits
    <2> QED
      BY <1>0, <2>1 DEF ReloadGoesOn
  <1>4. ASSUME NEW o \in Ops, Activate(o) PROVE ReloadsTurn
    <2>1. op'[o].then # "reload"
      BY <1>4, OpIsTyped, ActivateDoes, StageOf DEF Others, Ends, Calling, Takes, Saves, Resumes,
         Flushes
    <2> QED
      BY <1>0, <2>1 DEF ReloadGoesOn
  <1>5. ASSUME NEW o \in Ops, ContinueActivate(o) PROVE ReloadsTurn
    <2>1. op'[o].then # "reload"
      BY <1>5, OpIsTyped, ContinueActivateDoes, StageOf DEF Others, Ends
    <2> QED
      BY <1>0, <2>1 DEF ReloadGoesOn
  <1>6. ASSUME NEW o \in Ops, ContinueSelect(o) PROVE ReloadsTurn
    <2>1. op'[o].then # "reload"
      BY <1>6, OpIsTyped, ContinueSelectDoes, StageOf DEF Others, Asks
    <2> QED
      BY <1>0, <2>1 DEF ReloadGoesOn
  <1>7. ASSUME NEW o \in Ops, ContinueRename(o) PROVE ReloadsTurn
    <2>1. op'[o].then # "reload"
      BY <1>7, OpIsTyped, ContinueRenameDoes, StageOf DEF Others, Ends, StartsRenaming
    <2> QED
      BY <1>0, <2>1 DEF ReloadGoesOn
  <1>8. ASSUME NEW o \in Ops, ContinueReload(o) PROVE ReloadsTurn
    BY <1>8, <1>0
  <1>9. ASSUME NEW o \in Ops, Write(o) PROVE ReloadsTurn
    <2>1. op[o].at = "write" /\ op'[o].at \in {"wrote", "refused"} /\ Keeps(o)
      BY <1>9, WriteDoes, StageOf DEF Goes
    <2>2. TabsStay
      BY <1>9, StepsOfFiles DEF StoreStays
    <2> QED
      BY <1>0, <2>1, <2>2 DEF ReloadGoesOn, ReloadWaits, OfTab, Keeps
  <1>10. ASSUME NEW o \in Ops, ForceWrite(o) PROVE ReloadsTurn
    <2>1. op[o].at = "force" /\ op'[o].at = "wrote" /\ Keeps(o)
      BY <1>10, ForceWriteDoes, StageOf DEF Goes
    <2>2. TabsStay
      BY <1>10, StepsOfFiles DEF StoreStays
    <2> QED
      BY <1>0, <2>1, <2>2 DEF ReloadGoesOn, ReloadWaits, OfTab, Keeps
  <1>11. ASSUME NEW o \in Ops, Read(o) PROVE ReloadsTurn
    <2>1. op[o].at \in {"read", "reread", "open"} /\ (Gets(o, files[op[o].path]) \/ GivesUp(o))
      BY <1>11, ReadDoes, StageOf DEF Goes
    <2>2. TabsStay
      BY <1>11, StepsOfStore DEF StoreStays
    <2> QED
      BY <1>0, <2>1, <2>2 DEF ReloadGoesOn, ReloadWaits, OfTab, Gets, Calling, GivesUp, ChecksOut,
         Goes, Keeps, Ends
  <1>12. ASSUME NEW o \in Ops, WriteMerged(o) PROVE ReloadsTurn
    <2>1. op[o].at = "merge" /\ op'[o].at \in {"merged", "mergeRefused"} /\ Keeps(o)
      BY <1>12, WriteMergedDoes, StageOf DEF Goes
    <2>2. TabsStay
      BY <1>12, StepsOfFiles DEF StoreStays
    <2> QED
      BY <1>0, <2>1, <2>2 DEF ReloadGoesOn, ReloadWaits, OfTab, Keeps
  <1>13. ASSUME NEW o \in Ops, DeleteFile(o) PROVE ReloadsTurn
    <2>1. op[o].at = "delete" /\ (op'[o].then = "none" \/ (op'[o].at = "deleted" /\ Keeps(o)))
      BY <1>13, DeleteFileDoes, StageOf DEF Goes, Ends
    <2>2. TabsStay
      BY <1>13, StepsOfFiles DEF StoreStays
    <2> QED
      BY <1>0, <2>1, <2>2 DEF ReloadGoesOn, ReloadWaits, OfTab, Keeps
  <1>14. ASSUME NEW o \in Ops, RenameFile(o) PROVE ReloadsTurn
    <2>1. op'[o].then # "reload"
      BY <1>14, OpIsTyped, RenameFileDoes, StageOf DEF Others, Keeps, Ends, Goes, WellFormed,
         Renames
    <2> QED
      BY <1>0, <2>1 DEF ReloadGoesOn
  <1>15. ASSUME NEW o \in Ops, Wrote(o) PROVE ReloadsTurn
    BY <1>15, <1>0
  <1>16. ASSUME NEW o \in Ops, Refused(o) PROVE ReloadsTurn
    <2>1. op[o].at = "refused" /\ (ChecksOut(o) \/ Checks(o, op[o].tab, op[o].rest))
      BY <1>16, RefusedDoes, StageOf DEF Goes
    <2>2. TabsStay
      BY <1>16, StepsOfStore DEF StoreStays
    <2> QED
      BY <1>0, <2>1, <2>2 DEF ReloadGoesOn, ReloadWaits, OfTab, ChecksOut, Checks, Calling, Goes,
         Keeps
  <1>17. ASSUME NEW o \in Ops, Decide(o) PROVE ReloadsTurn
    BY <1>17, <1>0
  <1>18. ASSUME NEW o \in Ops, FinishMerge(o) PROVE ReloadsTurn
    BY <1>18, <1>0
  <1>19. ASSUME NEW o \in Ops, Discarded(o) PROVE ReloadsTurn
    <2>1. op'[o].then # "reload"
      BY <1>19, OpIsTyped, DiscardedDoes, StageOf DEF Others, Keeps, Ends, Goes, Discarded, Awaits
    <2> QED
      BY <1>0, <2>1 DEF ReloadGoesOn
  <1>20. ASSUME NEW o \in Ops, Opened(o) PROVE ReloadsTurn
    <2>1. op'[o].then # "reload"
      BY <1>20, OpIsTyped, OpenedDoes, StageOf DEF Others, Ends, Opened, Awaits
    <2> QED
      BY <1>0, <2>1 DEF ReloadGoesOn
  <1>21. ASSUME NEW o \in Ops, Deleted(o) PROVE ReloadsTurn
    <2>1. op'[o].then # "reload"
      BY <1>21, OpIsTyped, DeletedDoes, StageOf DEF Others, Ends, Turns, Removes, Deleted, Awaits
    <2> QED
      BY <1>0, <2>1 DEF ReloadGoesOn
  <1>22. ASSUME NEW o \in Ops, Renamed(o) PROVE ReloadsTurn
    <2>1. op'[o].then # "reload"
      BY <1>22, OpIsTyped, RenamedDoes, StageOf DEF Others, Ends, Renamed, Awaits
    <2> QED
      BY <1>0, <2>1 DEF ReloadGoesOn
  <1>23. ASSUME NEW o \in Ops, ResetDone(o) PROVE ReloadsTurn
    <2>1. op'[o].then # "reload"
      BY <1>23, OpIsTyped, ResetDoneDoes, StageOf DEF Others, Ends, ResetDone, Awaits
    <2> QED
      BY <1>0, <2>1 DEF ReloadGoesOn
  <1>24. ASSUME NEW o \in Ops, NEW t \in Tabs, Overwrite(o, t) PROVE ReloadsTurn
    <2>1. op'[o].then # "reload"
      BY <1>24, OpIsTyped, OverwriteDoes, StageOf DEF Others, Calling, Takes, Forces
    <2> QED
      BY <1>0, <2>1 DEF ReloadGoesOn
  <1>25. ASSUME NEW o \in Ops, NEW t \in Tabs, Discard(o, t) PROVE ReloadsTurn
    <2>1. op'[o].then # "reload"
      BY <1>25, OpIsTyped, DiscardDoes, StageOf DEF Others, Rereads
    <2> QED
      BY <1>0, <2>1 DEF ReloadGoesOn
  <1>26. ASSUME NEW o \in Ops, NEW t \in Tabs, SwitchTab(o, t) PROVE ReloadsTurn
    <2>1. op'[o].then # "reload"
      BY <1>26, OpIsTyped, SwitchTabDoes, StageOf DEF Others, Turns
    <2> QED
      BY <1>0, <2>1 DEF ReloadGoesOn
  <1>27. ASSUME NEW o \in Ops, NEW t \in Tabs, Close(o, t) PROVE ReloadsTurn
    <2>1. op'[o].then # "reload"
      BY <1>27, OpIsTyped, CloseDoes, StageOf DEF Others, Calling, Takes, Saves, Resumes
    <2> QED
      BY <1>0, <2>1 DEF ReloadGoesOn
  <1>28. ASSUME NEW o \in Ops, NEW p \in Paths, Select(o, p) PROVE ReloadsTurn
    <2>1. op'[o].then # "reload"
      BY <1>28, OpIsTyped, SelectDoes, StageOf DEF Others, Calling, Takes, Saves, Resumes,
         Flushes, Turns, Rereads
    <2> QED
      BY <1>0, <2>1 DEF ReloadGoesOn
  <1>29. ASSUME NEW o \in Ops, NEW p \in Paths, Delete(o, p) PROVE ReloadsTurn
    <2>1. op'[o].then # "reload"
      BY <1>29, OpIsTyped, DeleteDoes, StageOf DEF Others, Asks
    <2> QED
      BY <1>0, <2>1 DEF ReloadGoesOn
  <1>30. ASSUME NEW o \in Ops, NEW p \in Paths, NEW q \in Paths, Rename(o, p, q) PROVE ReloadsTurn
    <2>1. op'[o].then # "reload"
      BY <1>30, OpIsTyped, RenameDoes, StageOf DEF Others, Calling, Takes, Saves, Resumes,
         Flushes, StartsRenaming
    <2> QED
      BY <1>0, <2>1 DEF ReloadGoesOn
  <1>31. ASSUME NEW o \in Ops, Reload(o) PROVE ReloadsTurn
    BY <1>31, <1>0
  <1>32. ASSUME NEW o \in Ops, Watch(o) PROVE ReloadsTurn
    <2>1. op'[o].then # "reload"
      BY <1>32, OpIsTyped, WatchDoes, StageOf DEF Others, Calling, Resumes
    <2> QED
      BY <1>0, <2>1 DEF ReloadGoesOn
  <1>33. ASSUME NEW o \in Ops, DiskFails(o) PROVE ReloadsTurn
    <2>1. op[o].at \in Calls /\ GivesUp(o)
      BY <1>33, DiskFailsDoes, StageOf DEF Goes
    <2>2. TabsStay
      BY <1>33, StepsOfStore DEF StoreStays
    <2> QED
      BY <1>0, <2>1, <2>2 DEF ReloadGoesOn, ReloadWaits, OfTab, Calls, GivesUp, ChecksOut, Goes,
         Keeps, Ends
  <1>34. CASE AutoSave
    <2>1. \A o \in Ops : op'[o] = op[o] \/ op'[o].then = "none"
      BY <1>34, <1>0, AutoSaveDoes DEF Saves, Calling
    <2> QED
      BY <1>34, <2>1, StepOfTimer DEF StoreStays, ReloadGoesOn
  <1>35. ASSUME NEW t \in Tabs, NEW e \in UserEdits, Type(t, e) PROVE ReloadsTurn
    BY <1>35, TypeDoes
  <1>36. ASSUME NEW p \in Paths, NEW e \in ExternalEdits, Change(p, e) PROVE ReloadsTurn
    BY <1>36, ChangeDoes DEF TabsStay
  <1>37. CASE UNCHANGED vars
    BY <1>37 DEF vars, tabs, TabsStay
  <1> QED
    BY <1>1, <1>2, <1>3, <1>4, <1>5, <1>6, <1>7, <1>8, <1>9, <1>10, <1>11, <1>12, <1>13, <1>14,
       <1>15, <1>16, <1>17, <1>18, <1>19, <1>20, <1>21, <1>22, <1>23, <1>24, <1>25, <1>26, <1>27,
       <1>28, <1>29, <1>30, <1>31, <1>32, <1>33, <1>34, <1>35, <1>36, <1>37 DEF Next, Continue,
       Backend, Answer, User

LEMMA ReloadSavesAllStep == OneByOne /\ FsTyped /\ OrInv /\ ObInv /\ [Next]_vars => ReloadSavesAll'
  <1> SUFFICES ASSUME OneByOne, FsTyped, OrInv, ObInv, [Next]_vars, NEW o \in Ops
               PROVE  /\ op'[o].at = "reset" => ReloadGoesOn(o)'
                      /\ ReloadGoesOn(o)' => \A t \in Tabs : path'[t] # None =>
                           /\ dirty'[t] => /\ op'[o].at # "reset"
                                           /\ (t \in op'[o].rest \/ (op'[o].at \in OfTab /\ op'[o].tab = t))
                           /\ ~conflicted'[t]
    BY DEF ReloadSavesAll, OpenTabs, Open
  <1>0. \A p \in Ops : p = o
    BY DEF OneByOne
  <1>1. op'[o].at = "reset" => ReloadGoesOn(o)'
    <2>1. CASE op'[o] = op[o]
      BY <2>1 DEF ObInv, ReloadSavesAll, ReloadGoesOn
    <2>2. CASE ContinueReload(o)
      BY <2>2, ContinueReloadDoes, NoneIsApart DEF Ends, Asks, Saves, ReloadGoesOn
    <2> QED
      BY <2>1, <2>2, StageSteps DEF StagesTurn
  <1>2. ASSUME ReloadGoesOn(o)', NEW t \in Tabs, path'[t] # None
        PROVE  /\ dirty'[t] => op'[o].at # "reset" /\ (t \in op'[o].rest \/ (op'[o].at \in OfTab /\ op'[o].tab = t))
               /\ ~conflicted'[t]
    <2>0. ReloadGoesOn(o) /\ path[t] # None =>
            /\ dirty[t] => op[o].at # "reset" /\ (t \in op[o].rest \/ (op[o].at \in OfTab /\ op[o].tab = t))
            /\ ~conflicted[t]
      BY DEF ObInv, ReloadSavesAll, OpenTabs, Open
    <2>1. CASE op'[o] = op[o] /\ TabsStay
      BY <1>2, <2>0, <2>1 DEF TabsStay, ReloadGoesOn
    <2>2. ASSUME op'[o] = op[o], NEW u \in Tabs, NEW e \in UserEdits, Type(u, e) PROVE FALSE
      BY <1>2, <2>2, TypeDoes DEF Reloading, ReloadGoesOn, OneByOne
    <2>3. CASE Reload(o)
      <3>1. TabsStay /\ op'[o].rest = OpenTabs /\ op'[o].at = "saved" /\ ~conflicted[t]
        BY <2>3, ReloadDoes, StepsOfStore DEF StoreStays, Resumes, Calling, Reload
      <3> QED
        BY <1>2, <3>1 DEF TabsStay, OpenTabs, Open
    <2>4. CASE ContinueReload(o)
      <3>1. TabsStay /\ op[o].then = "reload" /\ op[o].at \notin OfTab
        BY <2>4, StepsOfStore, StageOf DEF StoreStays, OfTab
      <3>2. CASE /\ op[o].at = "saved" /\ op[o].to # "failed" /\ op'[o].at = "reset"
                 /\ \A u \in op[o].rest : ~dirty[u] \/ conflicted[u]
        BY <1>2, <2>0, <3>1, <3>2 DEF TabsStay, ReloadGoesOn
      <3>3. ASSUME NEW u \in op[o].rest, NEW to \in {op[o].to, "failed"}, NEW rest \in SUBSET op[o].rest,
                   Saves(o, "reload", u, None, to, rest), to # "failed" => op[o].at = "saved",
                   \A w \in op[o].rest \ rest : w = u \/ ~dirty[w] \/ conflicted[w]
            PROVE  /\ dirty'[t] => op'[o].at # "reset" /\ (t \in op'[o].rest \/ (op'[o].at \in OfTab /\ op'[o].tab = t))
                   /\ ~conflicted'[t]
        <4>1. op'[o].at = "write" /\ op'[o].to = to /\ op'[o].rest = rest /\ op'[o].tab = u
          BY <3>3 DEF Saves, Calling, Takes
        <4>2. ReloadGoesOn(o)
          BY <1>2, <3>1, <3>3, <4>1 DEF ReloadGoesOn
        <4> QED
          BY <1>2, <2>0, <3>1, <3>3, <4>1, <4>2 DEF TabsStay, OfTab
      <3>4. CASE Ends(o)
        BY <1>2, <3>4 DEF Ends, ReloadGoesOn
      <3> QED
        BY <2>4, <3>2, <3>3, <3>4, ContinueReloadDoes DEF Asks
    <2>5. CASE Wrote(o)
      <3>1. op[o].at = "wrote" /\ op'[o].at = "saved" /\ Keeps(o) /\ op[o].tab \in Tabs /\ path' = path
        BY <2>5, WroteDoes, WroteSettles, HeldIsOpen DEF Goes, OfTab
      <3>2. ReloadGoesOn(o)
        BY <1>2, <3>1 DEF ReloadGoesOn, Keeps
      <3>3. op[o].text = content[op[o].tab]
        BY <3>1, <3>2 DEF ReloadGoesOn, ObInv, TextIsHeld
      <3>4. CASE t = op[o].tab
        BY <2>5, <3>3, <3>4, WroteSettles
      <3>5. CASE t # op[o].tab
        <4>1. dirty'[t] = dirty[t] /\ conflicted'[t] = conflicted[t]
          BY <2>5, <3>5, WroteSettles DEF OtherTabs
        <4> QED
          BY <1>2, <2>0, <3>1, <3>2, <3>5, <4>1 DEF Keeps
      <3> QED
        BY <3>4, <3>5
    <2>6. ASSUME ChecksOut(o), path' = path, op[o].at \in OfTab, op[o].tab \in Tabs,
                 \A u \in Tabs \ {op[o].tab} : conflicted'[u] = conflicted[u] /\ dirty'[u] = dirty[u]
          PROVE  /\ dirty'[t] => op'[o].at # "reset" /\ (t \in op'[o].rest \/ (op'[o].at \in OfTab /\ op'[o].tab = t))
                 /\ ~conflicted'[t]
      <3>1. op'[o].at = "saved" /\ Keeps(o) /\ ~dirty'[op[o].tab] /\ ~conflicted'[op[o].tab]
        BY <1>2, <2>6 DEF ChecksOut, Goes, ReloadGoesOn
      <3>2. ReloadGoesOn(o)
        BY <1>2, <2>6, <3>1 DEF ReloadGoesOn, Keeps, OfTab
      <3>3. CASE t = op[o].tab
        BY <3>1, <3>3
      <3>4. CASE t # op[o].tab
        BY <1>2, <2>0, <2>6, <3>1, <3>2, <3>4 DEF Keeps
      <3> QED
        BY <3>3, <3>4
    <2>7. CASE Decide(o)
      <3>0. op[o].at = "got" /\ op[o].tab \in Tabs /\ path' = path
        BY <2>7, DecideSettles, HeldIsOpen DEF OfTab
      <3>1. CASE ChecksOut(o)
        <4>1. \/ Marks(op[o].tab) \/ Settles(op[o].tab, op[o].disk) \/ TextsStay
          BY <2>7, DecideSettles
        <4>2. \A u \in Tabs \ {op[o].tab} : conflicted'[u] = conflicted[u] /\ dirty'[u] = dirty[u]
          BY <4>1 DEF Marks, Settles, OtherTabs, TextsStay
        <4> QED
          BY <2>6, <3>0, <3>1, <4>2 DEF OfTab
      <3>2. CASE Merges(o, content[op[o].tab]) /\ TextsStay
        <4>1. /\ op'[o].at = "merge" /\ op'[o].rest = op[o].rest /\ op'[o].tab = op[o].tab
              /\ op'[o].to = op[o].to /\ op'[o].then = op[o].then
          BY <3>2 DEF Merges, Calling
        <4>2. ReloadGoesOn(o)
          BY <1>2, <3>0, <4>1 DEF ReloadGoesOn
        <4> QED
          BY <1>2, <2>0, <3>0, <3>2, <4>1, <4>2 DEF TextsStay, OfTab
      <3> QED
        BY <2>7, <3>1, <3>2, DecideSettles
    <2>8. CASE FinishMerge(o)
      <3>0. op[o].at \in {"merged", "mergeRefused"} /\ op[o].tab \in Tabs /\ path' = path /\ ChecksOut(o)
        BY <2>8, FinishMergeSettles, StageOf, HeldIsOpen DEF OfTab
      <3>1. \A u \in Tabs \ {op[o].tab} : conflicted'[u] = conflicted[u] /\ dirty'[u] = dirty[u]
        BY <2>8, FinishMergeSettles DEF Settles, OtherTabs, TextsStay
      <3> QED
        BY <2>6, <3>0, <3>1 DEF OfTab
    <2>9. CASE ReloadWaits(o)
      <3>0. TabsStay /\ ReloadGoesOn(o) /\ op'[o].to = op[o].to /\ op'[o].rest = op[o].rest
        BY <2>9 DEF ReloadWaits
      <3>1. CASE op[o].at \notin OfTab /\ op'[o].at \notin {"saved", "unsaved", "reset"}
        BY <1>2, <2>0, <3>0, <3>1 DEF TabsStay
      <3>2. CASE op[o].at \in OfTab /\ op'[o].at \in OfTab /\ op'[o].tab = op[o].tab
        BY <1>2, <2>0, <3>0, <3>2 DEF TabsStay, OfTab
      <3>3. CASE ChecksOut(o)
        <4>1. op'[o].at = "saved" /\ ~dirty'[op[o].tab]
          BY <1>2, <3>3 DEF ChecksOut, Goes, ReloadGoesOn
        <4> QED
          BY <1>2, <2>0, <3>0, <4>1 DEF TabsStay
      <3> QED
        BY <2>9, <3>1, <3>2, <3>3 DEF ReloadWaits
    <2> QED
      BY <1>2, <2>1, <2>2, <2>3, <2>4, <2>5, <2>7, <2>8, <2>9, ReloadSteps DEF ReloadsTurn
  <1> QED
    BY <1>1, <1>2

(* One operation at a time, whatever the user types meanwhile and other    *)
(* programs change: a clean tab is as its base, the base has what the file *)
(* has of the edits of the user, and the tab what the file has of others.  *)
THEOREM ObInvariance == OneByOne => (Spec => []ObInv)
  <1> SUFFICES ASSUME OneByOne PROVE Spec => []ObInv
    OBVIOUS
  <1>0. Orderly
    BY Serially
  <1>1. Init => ObInv
    <2> SUFFICES ASSUME Init PROVE ObInv
      OBVIOUS
    <2>1. (\A t \in Tabs : path[t] = None) /\ active = None
      BY DEF Init
    <2>2. \A o \in Ops : op[o].at = "idle" /\ op[o].then = "none"
      BY DEF Init, Idle
    <2>3. OpenTabs = {}
      BY <2>1 DEF OpenTabs, Open
    <2>4. TabIsHeld /\ TextIsHeld /\ WritesWhatIsDirty /\ TurnsToOpen
      BY <2>2 DEF TabIsHeld, TextIsHeld, WritesWhatIsDirty, TurnsToOpen, OfTab, Merging, Writing
    <2>5. SameTheirs /\ CleanIsSaved /\ ConflictIsDirty /\ BaseIsOnDisk
      BY <2>3 DEF SameTheirs, CleanIsSaved, ConflictIsDirty, BaseIsOnDisk
    <2>6. WrittenIsOnDisk /\ ReadIsOnDisk /\ MovedIsOnDisk /\ ReloadSavesAll /\ ActiveTabIsOpen
      BY <2>1, <2>2 DEF WrittenIsOnDisk, ReadIsOnDisk, MovedIsOnDisk, ReloadSavesAll,
         ReloadGoesOn, ActiveTabIsOpen, Merging
    <2> QED
      BY <2>4, <2>5, <2>6 DEF ObInv
  <1>2. FsTyped /\ OrInv /\ ObInv /\ [Next]_vars => ObInv'
    BY TabIsHeldStep, TextIsHeldStep, WritesWhatIsDirtyStep, TurnsToOpenStep, SameTheirsStep,
       CleanIsSavedStep,
       ConflictIsDirtyStep, BaseIsOnDiskStep, WrittenIsOnDiskStep, ReadIsOnDiskStep, MovedIsOnDiskStep,
       ReloadSavesAllStep, ActiveTabIsOpenStep DEF ObInv
  <1>3. Spec => []FsTyped /\ []OrInv
    BY <1>0, FsInvariance, OrInvariance, PTL
  <1> QED
    BY <1>1, <1>2, <1>3, PTL DEF Spec

(* What an unasked-for write leaves on disk of other programs' edits. *)
LEMMA WriteKeepsTheirs ==
  ASSUME OneByOne, FsTyped, OrInv, ObInv, [Next]_vars, NEW o \in Ops,
         op[o].at \in {"write", "merge"}, op'[o].at \in {"wrote", "merged"}, files[op[o].path] # None
  PROVE  Theirs(files'[op[o].path]) = Theirs(files[op[o].path])
  <1>1. op[o].tab \in Tabs /\ op[o].path \in Paths /\ path[op[o].tab] = op[o].path /\ Open(op[o].tab)
    BY HeldIsOpen DEF OfTab
  <1>2. base[op[o].tab] = op[o].base
    BY DEF ObInv, TabIsHeld, OfTab
  <1>3. CASE Write(o)
    <2>1. files[op[o].path] = op[o].base /\ files'[op[o].path] = op[o].text
      BY <1>1, <1>3, WriteDoes DEF Goes, FsTyped, TabsTyped
    <2> QED
      BY <1>3, <2>1, StageOf DEF ObInv, TextIsHeld, Writing
  <1>4. CASE WriteMerged(o)
    <2>1. files[op[o].path] = op[o].disk /\ files'[op[o].path] = Merged(o)
      BY <1>1, <1>4, WriteMergedDoes DEF Goes, FsTyped, TabsTyped
    <2>2. op[o].text = content[op[o].tab]
      BY <1>4, StageOf DEF ObInv, TextIsHeld, Merging
    <2>3. Theirs(op[o].text) = Theirs(op[o].base)
      BY <1>1, <1>2, <2>2 DEF ObInv, SameTheirs, OpenTabs
    <2> QED
      BY <2>1, <2>3, MergeOfTheirs
  <1>5. ~ForceWrite(o)
    BY StageOf
  <1> QED
    BY <1>3, <1>4, <1>5, StageSteps DEF StagesTurn

(* What a step leaves in a tab of the edits of the user. *)
LEMMA StepKeepsEdits ==
  ASSUME OneByOne, FsTyped, OrInv, ObInv, [Next]_vars, NEW t \in Tabs,
         path[t] # None, path'[t] # None, op' # op, ~Discarding(t)
  PROVE  Ours(content[t]) \subseteq content'[t]
  <1>1. CASE content'[t] = content[t]
    BY <1>1 DEF Ours
  <1>2. ASSUME NEW o \in Ops, Decide(o) PROVE Ours(content[t]) \subseteq content'[t]
    <2>1. CASE Settles(op[o].tab, op[o].disk) /\ content[op[o].tab] \in {base[op[o].tab], op[o].disk}
      <3>1. CASE t = op[o].tab
        <4>1. Ours(content[t]) = Ours(op[o].disk) /\ content'[t] = op[o].disk
          BY <1>2, <2>1, <3>1, DecideSettles, GotIsBase DEF Settles
        <4> QED
          BY <4>1 DEF Ours
      <3>2. CASE t # op[o].tab
        BY <1>1, <2>1, <3>2 DEF Settles, OtherTabs
      <3> QED
        BY <3>1, <3>2
    <2> QED
      BY <1>1, <1>2, <2>1, DecideSettles DEF Marks, TextsStay
  <1>3. ASSUME NEW o \in Ops, FinishMerge(o) PROVE Ours(content[t]) \subseteq content'[t]
    <2>1. CASE op[o].at = "merged" /\ Settles(op[o].tab, Merged(o))
      <3>1. CASE t = op[o].tab
        <4>1. op[o].text = content[t] /\ Ours(op[o].disk) = Ours(op[o].base)
          BY <2>1, <3>1 DEF ObInv, TextIsHeld, ReadIsOnDisk, Merging
        <4>2. content'[t] = Merged(o) /\ Ours(Merged(o)) = Ours(content[t])
          BY <2>1, <3>1, <4>1, MergeOfOurs DEF Settles
        <4> QED
          BY <4>2 DEF Ours
      <3>2. CASE t # op[o].tab
        BY <1>1, <2>1, <3>2 DEF Settles, OtherTabs
      <3> QED
        BY <3>1, <3>2
    <2> QED
      BY <1>1, <1>3, <2>1, FinishMergeSettles DEF TextsStay
  <1>4. ASSUME NEW o \in Ops, Discarded(o) PROVE Ours(content[t]) \subseteq content'[t]
    <2>1. op[o].at = "gotAgain" /\ op'[o] # op[o]
      BY <1>4, DiscardedSettles, DiscardedDoes DEF Ends, Goes
    <2>2. t # op[o].tab
      BY <2>1 DEF Discarding
    <2> QED
      BY <1>1, <1>4, <2>2, DiscardedSettles DEF Settles, OtherTabs, TextsStay
  <1>5. ASSUME NEW o \in Ops, Wrote(o) \/ ContinueClose(o) \/ Deleted(o) \/ ResetDone(o) \/ Renamed(o)
        PROVE  content'[t] = content[t]
    BY <1>5, WroteSettles, ContinueCloseSettles, DeletedSettles, ResetDoneSettles, RenamedSettles
       DEF RestStays, TextsStay
  <1>6. ASSUME NEW o \in Ops, Opened(o) PROVE content'[t] = content[t]
    BY <1>6, OpenedSettles
  <1>7. CASE TabsStay
    BY <1>1, <1>7 DEF TabsStay
  <1>8. ASSUME NEW u \in Tabs, NEW e \in UserEdits, Type(u, e) PROVE FALSE
    BY <1>8, TypeDoes
  <1> QED
    BY <1>1, <1>2, <1>3, <1>4, <1>5, <1>6, <1>7, <1>8, TabSteps DEF TabsTurn

(* What a tab that goes has on disk. *)
LEMMA ClosingKeepsEdits ==
  ASSUME OneByOne, FsTyped, OrInv, ObInv, [Next]_vars, NEW t \in Tabs,
         path[t] # None, path'[t] = None, ~Deleting(t)
  PROVE  Ours(content[t]) \subseteq files[path[t]]
  <1>1. ASSUME NEW o \in Ops, op[o].at \notin {"wrote", "merged", "list", "deleted"}, ~dirty[t]
        PROVE  Ours(content[t]) \subseteq files[path[t]]
    <2>1. content[t] = base[t]
      BY <1>1 DEF ObInv, CleanIsSaved, OpenTabs, Open
    <2>2. Ours(base[t]) = Ours(files[path[t]])
      BY <1>1, BaseIsThere DEF Open
    <2> QED
      BY <2>1, <2>2 DEF Ours
  <1>2. ASSUME NEW o \in Ops, ContinueClose(o) PROVE Ours(content[t]) \subseteq files[path[t]]
    <2>1. op[o].at \in {"saved", "unsaved"}
      BY <1>2, ContinueCloseSettles
    <2>2. CASE Forget({op[o].to}) /\ ~dirty[op[o].to]
      <3>1. t = op[o].to
        BY <2>2, ForgetTyped DEF FsTyped
      <3> QED
        BY <1>1, <2>1, <2>2, <3>1
    <2>3. CASE UNCHANGED tabs
      BY <2>3 DEF tabs
    <2> QED
      BY <1>2, <2>2, <2>3, ContinueCloseDoes
  <1>3. ASSUME NEW o \in Ops, Deleted(o) PROVE FALSE
    <2>1. op[o].at = "deleted" /\ op'[o] # op[o]
      BY <1>3, DeletedSettles, DeletedDoes DEF Removes, Ends, Turns
    <2>2. path[t] = op[o].path
      BY <1>3, DeletedSettles
    <2> QED
      BY <2>1, <2>2 DEF Deleting
  <1>4. ASSUME NEW o \in Ops, ResetDone(o) PROVE Ours(content[t]) \subseteq files[path[t]]
    <2>1. op[o].at = "reset"
      BY <1>4, ResetDoneSettles
    <2>2. ~dirty[t]
      BY <2>1 DEF ObInv, ReloadSavesAll, OpenTabs, Open
    <2> QED
      BY <1>1, <2>1, <2>2
  <1>5. ASSUME NEW o \in Ops, Renamed(o) PROVE FALSE
    BY <1>5, RenamedSettles, NoneIsApart
  <1>6. ASSUME NEW o \in Ops, Opened(o) PROVE FALSE
    BY <1>6, OpenedSettles, NoneIsApart
  <1>7. CASE path' = path
    BY <1>7
  <1>8. ASSUME NEW o \in Ops, Wrote(o) \/ Decide(o) \/ FinishMerge(o) \/ Discarded(o) PROVE path' = path
    BY <1>8, WroteSettles, DecideSettles, FinishMergeSettles, DiscardedSettles
  <1> QED
    BY <1>2, <1>3, <1>4, <1>5, <1>6, <1>7, <1>8, TabSteps, TypeDoes DEF TabsTurn, TabsStay

(* "So external changes are not silently overwritten": a save the user did *)
(* not ask for leaves what other programs changed as it is.                *)
THEOREM SavesKeepExternal == OneByOne => (Spec => AutosaveKeepsExternal)
  <1> SUFFICES ASSUME OneByOne PROVE Spec => AutosaveKeepsExternal
    OBVIOUS
  <1>1. FsTyped /\ OrInv /\ ObInv /\ [Next]_vars =>
          [\A o \in Ops :
             /\ op[o].at \in {"write", "merge"} /\ op'[o].at \in {"wrote", "merged"}
             /\ files[op[o].path] # None
             => Theirs(files'[op[o].path]) = Theirs(files[op[o].path])]_vars
    BY WriteKeepsTheirs
  <1>2. Spec => []FsTyped /\ []OrInv /\ []ObInv
    BY Serially, FsInvariance, OrInvariance, ObInvariance, PTL
  <1> QED
    BY <1>1, <1>2, PTL DEF Spec, AutosaveKeepsExternal

(* No answer from disk, merge, rename or confirmation takes an edit out of *)
(* an open tab, unless the user discards a conflict.                       *)
THEOREM TabsKeepEdits == OneByOne => (Spec => TabKeepsEdits)
  <1> SUFFICES ASSUME OneByOne PROVE Spec => TabKeepsEdits
    OBVIOUS
  <1>1. FsTyped /\ OrInv /\ ObInv /\ [Next]_vars =>
          [\A t \in Tabs : path[t] # None /\ path'[t] # None /\ op' # op /\ ~Discarding(t)
             => Ours(content[t]) \subseteq content'[t]]_vars
    BY StepKeepsEdits
  <1>2. Spec => []FsTyped /\ []OrInv /\ []ObInv
    BY Serially, FsInvariance, OrInvariance, ObInvariance, PTL
  <1> QED
    BY <1>1, <1>2, PTL DEF Spec, TabKeepsEdits

(* "So unsaved content is not lost along with memory": a tab that is       *)
(* closed, or discarded by a reload, has the edits of the user on disk.    *)
THEOREM ClosesKeepEdits == OneByOne => (Spec => CloseKeepsEdits)
  <1> SUFFICES ASSUME OneByOne PROVE Spec => CloseKeepsEdits
    OBVIOUS
  <1>1. FsTyped /\ OrInv /\ ObInv /\ [Next]_vars =>
          [\A t \in Tabs :
             /\ path[t] # None /\ path'[t] = None /\ ~Deleting(t)
             /\ files[path[t]] # None
             => Ours(content[t]) \subseteq files[path[t]]]_vars
    BY ClosingKeepsEdits
  <1>2. Spec => []FsTyped /\ []OrInv /\ []ObInv
    BY Serially, FsInvariance, OrInvariance, ObInvariance, PTL
  <1> QED
    BY <1>1, <1>2, PTL DEF Spec, CloseKeepsEdits

(* "When the active tab is closed, activate the right neighbor": the       *)
(* editor never shows a tab that is not open.                              *)
THEOREM EditorShowsOpenTab == OneByOne => (Spec => []ActiveTabIsOpen)
  BY ObInvariance, PTL DEF ObInv
=============================================================================
