----------------------------- MODULE FileSync -----------------------------
(***************************************************************************)
(* The editor tabs of the frontend store (app.svelte.ts) against the query *)
(* files on disk (query_files.rs), which other programs change too.        *)
(*                                                                         *)
(* The store is one thread, but whatever awaits the backend lets every     *)
(* other handler, timer and response run.  An operation under way is a     *)
(* slot of `op`; its `at` is the await it is in, or the answer that lies   *)
(* ready for it.  When a call inside an operation returns, its caller      *)
(* continues before any other event does: the stages in Resuming go first. *)
(*                                                                         *)
(* A text is the set of the edits it contains, by the user and by other    *)
(* programs, so that what each side changed can be told apart; which edits *)
(* are on the same lines, for merge3 to find a conflict, is a constant.    *)
(* One connection is modelled: a path is a file of its folder.             *)
(***************************************************************************)
EXTENDS Naturals, FiniteSets

CONSTANTS
  Tabs,           \* editor tabs; a closed one may be opened on a file again
  Paths,          \* files of the connection's folder
  Ops,            \* slots for operations under way: bounds how many overlap
  UserEdits,      \* what the user can type
  ExternalEdits,  \* what other programs can change
  Overlaps,       \* {e, f}: edits on the same lines
  Uses,           \* what the user and the environment do in this instance
  None,
  MaxEvents       \* bound: actions of the user and of other programs

ASSUME EditsAssumption == UserEdits \cap ExternalEdits = {}
ASSUME NoneAssumption ==
  None \notin Tabs \cup Paths \cup {"failed"} /\ \A text \in SUBSET (UserEdits \cup ExternalEdits) : text # None
ASSUME MaxEventsAssumption == MaxEvents \in Nat

VARIABLES
  files,       \* the text of a file on disk, or None
  path,        \* the file of a tab, or None: closed
  content,     \* tab.content
  base,        \* tab.diskContent, the text last known to be on disk
  dirty,       \* tab.dirty
  conflicted,  \* tab.conflicted
  active,      \* activeEditorTabId
  pending,     \* autoSavePendingTabId, with its timer running, or None
  navigator,   \* the operation that advanced navigationGeneration last
  op,          \* the operations under way
  events       \* how much of MaxEvents is used

tabs == <<path, content, base, dirty, conflicted>>
vars == <<files, path, content, base, dirty, conflicted, active, pending, navigator, op, events>>

----------------------------------------------------------------------------
Texts == SUBSET (UserEdits \cup ExternalEdits)
Awaiting == {"write", "force", "wrote", "refused", "read", "got", "merge", "merged",
             "mergeRefused", "reread", "gotAgain", "open", "opened", "rename", "list",
             "delete", "deleted", "reset"}
Calls == {"write", "force", "merge", "read", "reread", "open", "rename", "list", "delete"}
Resuming == {"saved", "unsaved", "goto"}
Callers == {"none", "watch", "close", "activate", "select", "rename", "reload"}

(* The locals of an operation: the tab it saves or checks and that tab's   *)
(* file, the text it writes or merges, the base it was read against, what  *)
(* it read from disk, who called it, where that one goes next and, in the  *)
(* loops over all tabs, the tabs left.                                     *)
Operation == [at : Awaiting \cup Resuming \cup {"idle"}, then : Callers,
              tab : Tabs \cup {None}, path : Paths \cup {None},
              text : Texts, base : Texts, disk : Texts,
              from : Paths \cup {None},
              to : Tabs \cup Paths \cup {None, "failed"}, rest : SUBSET Tabs]
Idle == [at |-> "idle", then |-> "none", tab |-> None, path |-> None, text |-> {},
         base |-> {}, disk |-> {}, from |-> None, to |-> None, rest |-> {}]

TypeOK ==
  /\ files \in [Paths -> Texts \cup {None}]
  /\ path \in [Tabs -> Paths \cup {None}]
  /\ content \in [Tabs -> Texts] /\ base \in [Tabs -> Texts]
  /\ dirty \in [Tabs -> BOOLEAN] /\ conflicted \in [Tabs -> BOOLEAN]
  /\ active \in Tabs \cup {None}
  /\ pending \in Tabs \cup {None}
  /\ navigator \in Ops \cup {None}
  /\ op \in [Ops -> Operation]
  /\ events \in Nat
  /\ \A t \in Tabs : path[t] = None =>
       content[t] = {} /\ base[t] = {} /\ ~dirty[t] /\ ~conflicted[t]

Init ==
  /\ files \in [Paths -> {{}, None}]
  /\ path = [t \in Tabs |-> None]
  /\ content = [t \in Tabs |-> {}] /\ base = [t \in Tabs |-> {}]
  /\ dirty = [t \in Tabs |-> FALSE] /\ conflicted = [t \in Tabs |-> FALSE]
  /\ active = None /\ pending = None /\ navigator = None
  /\ op = [o \in Ops |-> Idle]
  /\ events = 0

Open(t) == path[t] # None
OpenTabs == {t \in Tabs : Open(t)}
Free(o) == op[o].at = "idle"
Quiet == \A o \in Ops : op[o].at \notin Resuming
Awaits(o, places) == op[o].at \in places /\ Quiet
Does(use) == use \in Uses /\ Quiet /\ events < MaxEvents /\ events' = events + 1
Begin(o, fields) == op' = [op EXCEPT ![o] = fields]
Go(o, place) == op' = [op EXCEPT ![o].at = place]
End(o) == op' = [op EXCEPT ![o] = Idle]
CancelPendingSaveFor(t) == pending' = IF pending = t THEN None ELSE pending

(* merge3 on texts as sets: each side's changes to the base, unless both   *)
(* changed the same lines differently.                                     *)
Changes(old, new) == (old \ new) \cup (new \ old)
Clash(old, local, remote) ==
  \E e \in Changes(old, local), f \in Changes(old, remote) :
    {e, f} \in Overlaps /\ ~({e, f} \subseteq Changes(old, local) \cap Changes(old, remote))
MergeRemote(old, local, remote) == remote  \* fault: takes the disk's text
Merge(old, local, remote) == (local \cap remote) \cup (local \ old) \cup (remote \ old)
Merged(o) == Merge(op[o].base, op[o].text, op[o].disk)

----------------------------------------------------------------------------
(* Saving *)

(* saveEditorTab without force, on behalf of `caller`.                     *)
Saving(caller, t, to, rest) ==
  [Idle EXCEPT !.at = "write", !.then = caller, !.tab = t, !.path = path[t],
               !.text = content[t], !.base = base[t], !.to = to, !.rest = rest]
Resumed(caller, to, rest) ==
  [Idle EXCEPT !.at = "saved", !.then = caller, !.to = to, !.rest = rest]

(* flushPendingSave: the scheduled tab only, and without an await if there *)
(* is nothing to save.                                                     *)
Flush(o, caller, from, to) ==
  /\ pending' = None
  /\ Begin(o, [IF pending # None /\ Open(pending) /\ dirty[pending]
                 THEN Saving(caller, pending, to, {}) ELSE Resumed(caller, to, {})
               EXCEPT !.from = from])

(* The debounce timer of scheduleAutoSave.                                 *)
AutoSave ==
  /\ pending # None /\ Quiet
  /\ pending' = None
  /\ IF Open(pending) /\ dirty[pending] /\ ~conflicted[pending]
       THEN \E o \in Ops : Free(o) /\ Begin(o, Saving("none", pending, None, {}))
       ELSE UNCHANGED op
  /\ UNCHANGED <<files, tabs, active, navigator, events>>

(* write_query_file_if_unchanged, in the backend.                          *)
WriteAlways(p, expected) == TRUE  \* fault: no compare before the write
Unchanged(p, expected) == files[p] \in {None, expected}
CompareAndWrite(o, expected, text, yes, no) ==
  /\ IF Unchanged(op[o].path, expected)
       THEN files' = [files EXCEPT ![op[o].path] = text] /\ Go(o, yes)
       ELSE Go(o, no) /\ UNCHANGED files
  /\ UNCHANGED <<tabs, active, pending, navigator, events>>

Write(o) ==
  /\ Awaits(o, {"write"})
  /\ CompareAndWrite(o, op[o].base, op[o].text, "wrote", "refused")

ForceWrite(o) ==
  /\ Awaits(o, {"force"})
  /\ files' = [files EXCEPT ![op[o].path] = op[o].text]
  /\ Go(o, "wrote")
  /\ UNCHANGED <<tabs, active, pending, navigator, events>>

(* The write is confirmed: dirty only falls if nothing was typed since.    *)
WroteAnyway(o) ==  \* fault: does not look whether the tab is still open
  LET t == op[o].tab IN
  /\ Awaits(o, {"wrote"})
  /\ base' = [base EXCEPT ![t] = op[o].text]
  /\ conflicted' = [conflicted EXCEPT ![t] = FALSE]
  /\ dirty' = [dirty EXCEPT ![t] = @ /\ content[t] # op[o].text]
  /\ Go(o, "saved")
  /\ UNCHANGED <<files, path, content, active, pending, navigator, events>>
Wrote(o) ==
  LET t == op[o].tab IN
  /\ Awaits(o, {"wrote"})
  /\ IF Open(t)
       THEN /\ base' = [base EXCEPT ![t] = op[o].text]
            /\ conflicted' = [conflicted EXCEPT ![t] = FALSE]
            /\ dirty' = [dirty EXCEPT ![t] = @ /\ content[t] # op[o].text]
       ELSE UNCHANGED <<base, conflicted, dirty>>
  /\ Go(o, "saved")
  /\ UNCHANGED <<files, path, content, active, pending, navigator, events>>

----------------------------------------------------------------------------
(* checkTabForExternalChange *)

Checking(o, t) ==
  [op[o] EXCEPT !.at = "read", !.tab = t, !.path = path[t], !.base = base[t], !.text = {},
                !.disk = {}]

(* The check is over; saveEditorTab looks at what became of the tab.       *)
EndCheck(o) ==
  LET t == op[o].tab IN
  Go(o, IF path'[t] # None /\ ~dirty'[t] /\ ~conflicted'[t] THEN "saved" ELSE "unsaved")

(* The compare-and-write found another text: leave it to the check.        *)
Refused(o) ==
  /\ Awaits(o, {"refused"})
  /\ UNCHANGED <<files, tabs, active, pending, navigator, events>>
  /\ IF Open(op[o].tab) THEN Begin(o, Checking(o, op[o].tab)) ELSE EndCheck(o)

(* A call to the backend failed: how its caller goes on.                   *)
Failed(o) ==
  CASE op[o].at = "read" -> EndCheck(o)
    [] op[o].at = "reread" /\ op[o].then = "activate" /\ navigator = o -> Go(o, "goto")
    [] op[o].at \in {"write", "force"} -> Go(o, "unsaved")
    [] op[o].at = "merge" -> Go(o, "mergeRefused")
    [] OTHER -> End(o)

(* Every read of a file: the check's, the re-read of a conflicted tab and  *)
(* that of a file being opened.                                            *)
Read(o) ==
  LET o1 == op[o] IN
  /\ Awaits(o, {"read", "reread", "open"})
  /\ UNCHANGED <<files, tabs, active, pending, navigator, events>>
  /\ IF files[o1.path] # None
       THEN Begin(o, [o1 EXCEPT !.disk = files[o1.path],
              !.at = CASE @ = "read" -> "got" [] @ = "reread" -> "gotAgain" [] OTHER -> "opened"])
       ELSE Failed(o)

DiskFails(o) ==
  /\ Awaits(o, Calls) /\ Does("diskFails")
  /\ op[o].at = "list" => "listFails" \in Uses
  /\ UNCHANGED <<files, tabs, active, pending, navigator>>
  /\ Failed(o)

(* The tab was closed or renamed, or its base advanced, during the await.  *)
NeverStale(o) == ~Open(op[o].tab)  \* fault: the base is not compared again
Stale(o) == path[op[o].tab] # op[o].path \/ base[op[o].tab] # op[o].base

KeepTab == UNCHANGED <<content, base, dirty, conflicted, pending>>
TakeDisk(t, text) ==
  /\ base' = [base EXCEPT ![t] = text]
  /\ dirty' = [dirty EXCEPT ![t] = FALSE]
  /\ conflicted' = [conflicted EXCEPT ![t] = FALSE]

ConflictOver(t) ==
  /\ conflicted' = [conflicted EXCEPT ![t] = FALSE]
  /\ pending' = IF conflicted[t] /\ dirty[t] THEN t ELSE pending
  /\ UNCHANGED <<content, base, dirty>>

Adopt(t, disk) ==
  /\ content' = [content EXCEPT ![t] = disk]
  /\ TakeDisk(t, disk)
  /\ CancelPendingSaveFor(t)

Conflict(t) ==
  /\ conflicted' = [conflicted EXCEPT ![t] = TRUE]
  /\ CancelPendingSaveFor(t)
  /\ UNCHANGED <<content, base, dirty>>

(* What the check does with what it read.                                  *)
Decide(o) ==
  LET t == op[o].tab   disk == op[o].disk IN
  /\ Awaits(o, {"got"})
  /\ UNCHANGED <<files, path, active, navigator, events>>
  /\ \/ /\ Stale(o)
        /\ KeepTab /\ EndCheck(o)
     \/ /\ ~Stale(o) /\ disk = base[t]
        /\ ConflictOver(t) /\ EndCheck(o)
     \/ /\ ~Stale(o) /\ disk # base[t] /\ content[t] = base[t]
        /\ Adopt(t, disk) /\ EndCheck(o)
     \/ /\ ~Stale(o) /\ disk # base[t] /\ content[t] # base[t] /\ content[t] = disk
        /\ TakeDisk(t, disk) /\ UNCHANGED <<content, pending>> /\ EndCheck(o)
     \/ /\ ~Stale(o) /\ Cardinality({disk, base[t], content[t]}) = 3
        /\ IF Clash(base[t], content[t], disk)
             THEN Conflict(t) /\ EndCheck(o)
             ELSE KeepTab /\ Begin(o, [op[o] EXCEPT !.at = "merge", !.text = content[t]])

(* The merged text goes to disk if that still is what was merged.          *)
WriteMerged(o) ==
  /\ Awaits(o, {"merge"})
  /\ CompareAndWrite(o, op[o].disk, Merged(o), "merged", "mergeRefused")

FinishMerge(o) ==
  LET t == op[o].tab IN
  /\ Awaits(o, {"merged", "mergeRefused"})
  /\ UNCHANGED <<files, path, active, navigator, events>>
  /\ IF op[o].at = "merged" /\ ~Stale(o)
       THEN /\ base' = [base EXCEPT ![t] = Merged(o)]
            /\ conflicted' = [conflicted EXCEPT ![t] = FALSE]
            /\ IF content[t] = op[o].text
                 THEN /\ content' = [content EXCEPT ![t] = Merged(o)]
                      /\ dirty' = [dirty EXCEPT ![t] = FALSE]
                      /\ CancelPendingSaveFor(t)
                 ELSE UNCHANGED <<content, dirty, pending>>
       ELSE KeepTab
  /\ EndCheck(o)

(* fileWatchTick: one tick at a time, over the tabs open when it starts.   *)
Watch(o) ==
  /\ "watch" \in Uses /\ Quiet
  /\ Free(o)
  /\ \A p \in Ops : op[p].then # "watch"
  /\ OpenTabs # {}
  /\ Begin(o, Resumed("watch", None, OpenTabs))
  /\ UNCHANGED <<files, tabs, active, pending, navigator, events>>

ContinueWatch(o) ==
  /\ op[o].then = "watch" /\ op[o].at \in {"saved", "unsaved"}
  /\ UNCHANGED <<files, tabs, active, pending, navigator, events>>
  /\ IF op[o].rest \cap OpenTabs = {} THEN End(o)
     ELSE \E t \in op[o].rest \cap OpenTabs :
            Begin(o, [Checking(o, t) EXCEPT !.rest = op[o].rest \ {t}])

----------------------------------------------------------------------------
(* What the user does with tabs *)

MergeInFlight(t) ==
  \E o \in Ops : op[o].at \in {"merge", "merged", "mergeRefused"} /\ op[o].tab = t
Reloading == \E o \in Ops : op[o].then = "reload"

(* updateEditorContent: the user types an edit, or takes one back.  Uses   *)
(* says in which of the await windows an instance has them type.           *)
Type(t, e) ==
  /\ active = t /\ Open(t)
  /\ Does("type")
  /\ e \in content[t] => "undo" \in Uses
  /\ MergeInFlight(t) => "typeInMerge" \in Uses
  /\ Reloading => "typeInReload" \in Uses
  /\ content' = [content EXCEPT ![t] = IF e \in @ THEN @ \ {e} ELSE @ \cup {e}]
  /\ dirty' = [dirty EXCEPT ![t] = TRUE]
  /\ pending' = IF conflicted[t] THEN pending ELSE t
  /\ UNCHANGED <<files, path, base, conflicted, active, navigator, op>>

(* overwriteActiveFileConflict.                                            *)
Overwrite(o, t) ==
  /\ active = t /\ Open(t) /\ conflicted[t]
  /\ Free(o) /\ Does("overwrite")
  /\ Begin(o, [Saving("none", t, None, {}) EXCEPT !.at = "force"])
  /\ UNCHANGED <<files, tabs, active, pending, navigator>>

(* discardActiveFileConflict, and selectFile on the file of a conflicted   *)
(* tab, which activates that tab afterwards.                               *)
Rereading(caller, t) ==
  [Idle EXCEPT !.at = "reread", !.then = caller, !.tab = t, !.path = path[t], !.to = t]
Discard(o, t) ==
  /\ active = t /\ Open(t) /\ conflicted[t]
  /\ Free(o) /\ Does("discard")
  /\ Begin(o, Rereading("none", t))
  /\ UNCHANGED <<files, tabs, active, pending, navigator>>

Discarded(o) ==
  LET t == op[o].tab IN
  /\ Awaits(o, {"gotAgain"})
  /\ IF Open(t) /\ (IF op[o].then = "none" THEN path[t] = op[o].path ELSE navigator = o)
       THEN Adopt(t, op[o].disk) ELSE KeepTab
  /\ IF op[o].then = "activate" /\ navigator = o THEN Go(o, "goto") ELSE End(o)
  /\ UNCHANGED <<files, path, active, navigator, events>>

(* activateEditorTab, up to the flush.                                     *)
GoTo(o, t) == [Idle EXCEPT !.at = "goto", !.then = "activate", !.to = t]
Activate(o) ==
  LET t == op[o].to IN
  /\ op[o].at = "goto"
  /\ IF t # active /\ Open(t)
       THEN navigator' = o /\ Flush(o, "activate", None, t)
       ELSE End(o) /\ UNCHANGED <<pending, navigator>>
  /\ UNCHANGED <<files, tabs, active, events>>

ContinueActivate(o) ==
  /\ op[o].then = "activate" /\ op[o].at \in {"saved", "unsaved"}
  /\ active' = IF navigator = o THEN op[o].to ELSE active
  /\ End(o)
  /\ UNCHANGED <<files, tabs, pending, navigator, events>>

SwitchTab(o, t) ==
  /\ Open(t) /\ t # active
  /\ Free(o) /\ Does("switch")
  /\ Begin(o, GoTo(o, t))
  /\ UNCHANGED <<files, tabs, active, pending, navigator>>

(* selectFile: an open tab is activated, a conflicted one read again;      *)
(* otherwise flush, read, and open a new tab, without looking again.       *)
Select(o, p) ==
  /\ Free(o) /\ Does("open")
  /\ navigator' = o
  /\ \/ \E t \in OpenTabs :
          /\ path[t] = p
          /\ conflicted[t] => "discard" \in Uses
          /\ Begin(o, IF conflicted[t] THEN Rereading("activate", t) ELSE GoTo(o, t))
          /\ UNCHANGED pending
     \/ /\ p \notin {path[t] : t \in Tabs}
        /\ Flush(o, "select", None, p)
  /\ UNCHANGED <<files, tabs, active>>

ContinueSelect(o) ==
  /\ op[o].then = "select" /\ op[o].at \in {"saved", "unsaved"}
  /\ Begin(o, [Idle EXCEPT !.at = "open", !.then = "select", !.path = op[o].to, !.to = op[o].to])
  /\ UNCHANGED <<files, tabs, active, pending, navigator, events>>

Unused(t) ==
  /\ ~Open(t) /\ t \notin {active, pending}
  /\ \A o \in Ops : t \notin {op[o].tab, op[o].to} \cup op[o].rest
Opened(o) ==
  /\ Awaits(o, {"opened"})
  /\ \E t \in Tabs :
       /\ Unused(t)
       /\ path' = [path EXCEPT ![t] = op[o].path]
       /\ content' = [content EXCEPT ![t] = op[o].disk]
       /\ base' = [base EXCEPT ![t] = op[o].disk]
       /\ active' = t
  /\ End(o)
  /\ UNCHANGED <<files, dirty, conflicted, pending, navigator, events>>

----------------------------------------------------------------------------
(* Closing, renaming, deleting, reloading *)

ForgetText(closed) ==  \* fault: keeps what was known of the closed tab
  /\ path' = [t \in Tabs |-> IF t \in closed THEN None ELSE path[t]]
  /\ content' = [t \in Tabs |-> IF t \in closed THEN {} ELSE content[t]]
  /\ base' = [t \in Tabs |-> IF t \in closed THEN {} ELSE base[t]]
  /\ UNCHANGED <<dirty, conflicted>>
Forget(closed) ==
  /\ path' = [t \in Tabs |-> IF t \in closed THEN None ELSE path[t]]
  /\ content' = [t \in Tabs |-> IF t \in closed THEN {} ELSE content[t]]
  /\ base' = [t \in Tabs |-> IF t \in closed THEN {} ELSE base[t]]
  /\ dirty' = [t \in Tabs |-> dirty[t] /\ t \notin closed]
  /\ conflicted' = [t \in Tabs |-> conflicted[t] /\ t \notin closed]

(* removeEditorTab after the save: a neighbour of the active tab takes over.*)
RemoveQuietly(o, closed) ==  \* fault: the active tab is not replaced
  /\ Forget(closed)
  /\ End(o) /\ UNCHANGED active
Remove(o, closed) ==
  /\ Forget(closed)
  /\ IF active \in closed
       THEN /\ active' = None
            /\ IF OpenTabs \ closed = {} THEN End(o)
               ELSE \E n \in OpenTabs \ closed : Begin(o, GoTo(o, n))
       ELSE End(o) /\ UNCHANGED active

Close(o, t) ==
  /\ Open(t) /\ ~conflicted[t]
  /\ Free(o) /\ Does("close")
  /\ CancelPendingSaveFor(t)
  /\ Begin(o, IF dirty[t] THEN Saving("close", t, t, {}) ELSE Resumed("close", t, {}))
  /\ UNCHANGED <<files, tabs, active, navigator>>

CloseAnyway(o) ==  \* fault: does not look at dirty again after the save
  LET t == op[o].to IN
  /\ op[o].then = "close" /\ op[o].at \in {"saved", "unsaved"}
  /\ IF op[o].at = "saved" /\ Open(t)
       THEN Remove(o, {t})
       ELSE End(o) /\ UNCHANGED <<tabs, active>>
  /\ UNCHANGED <<files, pending, navigator, events>>
ContinueClose(o) ==
  LET t == op[o].to IN
  /\ op[o].then = "close" /\ op[o].at \in {"saved", "unsaved"}
  /\ IF op[o].at = "saved" /\ Open(t) /\ ~dirty[t]
       THEN Remove(o, {t})
       ELSE End(o) /\ UNCHANGED <<tabs, active>>
  /\ UNCHANGED <<files, pending, navigator, events>>

(* deleteFile; its tabs are closed without saving.                         *)
Delete(o, p) ==
  /\ Free(o) /\ Does("delete")
  /\ Begin(o, [Idle EXCEPT !.at = "delete", !.path = p])
  /\ UNCHANGED <<files, tabs, active, pending, navigator>>

DeleteFile(o) ==
  /\ Awaits(o, {"delete"})
  /\ files' = [files EXCEPT ![op[o].path] = None]
  /\ IF files[op[o].path] # None THEN Go(o, "deleted") ELSE End(o)
  /\ UNCHANGED <<tabs, active, pending, navigator, events>>

Deleted(o) ==
  LET victims == {t \in Tabs : path[t] = op[o].path} IN
  /\ Awaits(o, {"deleted"})
  /\ Remove(o, victims)
  /\ pending' = IF pending \in victims THEN None ELSE pending
  /\ UNCHANGED <<files, navigator, events>>

(* renameFile: flush, rename on disk, list the folder, and only then tell  *)
(* the tabs.                                                               *)
RenameNow(o, p, q) == [Idle EXCEPT !.at = "rename", !.then = "rename", !.from = p, !.to = q]
Rename(o, p, q) ==
  /\ p # q
  /\ Free(o) /\ Does("rename")
  /\ IF p \in {path[t] : t \in Tabs}
       THEN Flush(o, "rename", p, q)
       ELSE Begin(o, RenameNow(o, p, q)) /\ UNCHANGED pending
  /\ UNCHANGED <<files, tabs, active, navigator>>

ContinueRename(o) ==
  /\ op[o].then = "rename" /\ op[o].at \in {"saved", "unsaved"}
  /\ IF op[o].at = "saved" THEN Begin(o, RenameNow(o, op[o].from, op[o].to)) ELSE End(o)
  /\ UNCHANGED <<files, tabs, active, pending, navigator, events>>

RenameFile(o) ==
  LET p == op[o].from   q == op[o].to IN
  /\ Awaits(o, {"rename"})
  /\ IF files[p] # None /\ files[q] = None
       THEN files' = [files EXCEPT ![p] = None, ![q] = files[p]] /\ Go(o, "list")
       ELSE End(o) /\ UNCHANGED files
  /\ UNCHANGED <<tabs, active, pending, navigator, events>>

RenamedAlone(o) ==  \* fault: the tabs do not follow
  /\ Awaits(o, {"list"})
  /\ End(o)
  /\ UNCHANGED <<files, tabs, active, pending, navigator, events>>
Renamed(o) ==
  /\ Awaits(o, {"list"})
  /\ path' = [t \in Tabs |-> IF path[t] = op[o].from THEN op[o].to ELSE path[t]]
  /\ End(o)
  /\ UNCHANGED <<files, content, base, dirty, conflicted, active, pending, navigator, events>>

(* reloadConnections: refused while a conflict remains; saves the tabs one *)
(* after another, those it has passed not again, awaits the reset of the   *)
(* backend, and discards all tabs.                                         *)
Reload(o) ==
  /\ \A t \in Tabs : ~conflicted[t]
  /\ Free(o) /\ Does("reload")
  /\ pending' = None
  /\ Begin(o, Resumed("reload", None, OpenTabs))
  /\ UNCHANGED <<files, tabs, active, navigator>>

ContinueReload(o) ==
  LET left == {t \in op[o].rest : dirty[t] /\ ~conflicted[t]}
      to == IF op[o].at = "unsaved" THEN "failed" ELSE op[o].to IN
  /\ op[o].then = "reload" /\ op[o].at \in {"saved", "unsaved"}
  /\ \/ \E t \in left, passed \in SUBSET (op[o].rest \ left) :
          Begin(o, Saving("reload", t, to, op[o].rest \ ({t} \cup passed)))
     \/ left = {} /\ IF to = "failed" THEN End(o)
                     ELSE Begin(o, [Idle EXCEPT !.at = "reset", !.then = "reload"])
  /\ UNCHANGED <<files, tabs, active, pending, navigator, events>>

ResetDone(o) ==
  /\ Awaits(o, {"reset"})
  /\ \/ Forget(Tabs) /\ active' = None /\ pending' = None
     \/ UNCHANGED <<tabs, active, pending>>
  /\ End(o)
  /\ UNCHANGED <<files, navigator, events>>

ContinueSave(o) ==
  /\ op[o].then = "none" /\ op[o].at \in {"saved", "unsaved"}
  /\ End(o)
  /\ UNCHANGED <<files, tabs, active, pending, navigator, events>>

----------------------------------------------------------------------------
(* Other programs *)

Change(p, e) ==
  /\ files[p] # None
  /\ Does("external")
  /\ e \in files[p] => "revert" \in Uses
  /\ files' = [files EXCEPT ![p] = IF e \in @ THEN @ \ {e} ELSE @ \cup {e}]
  /\ UNCHANGED <<tabs, active, pending, navigator, op>>

----------------------------------------------------------------------------
Continue(o) ==
  \/ ContinueSave(o) \/ ContinueWatch(o) \/ ContinueClose(o) \/ Activate(o)
  \/ ContinueActivate(o) \/ ContinueSelect(o) \/ ContinueRename(o) \/ ContinueReload(o)
Backend(o) ==
  \/ Write(o) \/ ForceWrite(o) \/ Read(o) \/ WriteMerged(o) \/ DeleteFile(o) \/ RenameFile(o)
Answer(o) ==
  \/ Wrote(o) \/ Refused(o) \/ Decide(o) \/ FinishMerge(o) \/ Discarded(o) \/ Opened(o)
  \/ Deleted(o) \/ Renamed(o) \/ ResetDone(o)
User(o) ==
  \/ \E t \in Tabs : Overwrite(o, t) \/ Discard(o, t) \/ SwitchTab(o, t) \/ Close(o, t)
  \/ \E p \in Paths : Select(o, p) \/ Delete(o, p) \/ \E q \in Paths : Rename(o, p, q)
  \/ Reload(o)

Next ==
  \/ \E o \in Ops : Continue(o) \/ Backend(o) \/ Answer(o) \/ User(o) \/ Watch(o) \/ DiskFails(o)
  \/ AutoSave
  \/ \E t \in Tabs, e \in UserEdits : Type(t, e)
  \/ \E p \in Paths, e \in ExternalEdits : Change(p, e)

Spec == Init /\ [][Next]_vars

(* Every call to the backend returns, what it called goes on, timers fire. *)
FairSpec ==
  /\ Spec
  /\ \A o \in Ops : WF_vars(Continue(o)) /\ WF_vars(Backend(o) \/ Answer(o)) /\ SF_vars(Watch(o))
  /\ SF_vars(AutoSave)

----------------------------------------------------------------------------
(* Properties *)

Ours(text) == text \cap UserEdits
Theirs(text) == text \cap ExternalEdits

(* "So external changes are not silently overwritten": a write the user    *)
(* did not ask for (autosave, save before closing, renaming or reloading,  *)
(* write-back of a merge) leaves what other programs changed as it is.     *)
AutosaveKeepsExternal ==
  [][\A o \in Ops :
       /\ op[o].at \in {"write", "merge"} /\ op'[o].at \in {"wrote", "merged"}
       /\ files[op[o].path] # None
       => Theirs(files'[op[o].path]) = Theirs(files[op[o].path])]_vars

(* What the user typed stays in the tab: no answer from disk, merge,       *)
(* rename or confirmation of an older save takes an edit out of an open    *)
(* tab, unless the user discards a conflict.                               *)
Discarding(t) == \E o \in Ops : op[o].at = "gotAgain" /\ op[o].tab = t /\ op'[o] # op[o]
TabKeepsEdits ==
  [][\A t \in Tabs : path[t] # None /\ path'[t] # None /\ op' # op /\ ~Discarding(t)
       => Ours(content[t]) \subseteq content'[t]]_vars

(* "So unsaved content is not lost along with memory": a tab only goes     *)
(* (closed, or discarded by a reload) when the user's edits in it are on   *)
(* disk, except with a deleted file.                                       *)
Deleting(t) == \E o \in Ops : op[o].at = "deleted" /\ op[o].path = path[t] /\ op'[o] # op[o]
CloseKeepsEdits ==
  [][\A t \in Tabs :
       /\ path[t] # None /\ path'[t] = None /\ ~Deleting(t)
       /\ files[path[t]] # None
       => Ours(content[t]) \subseteq files[path[t]]]_vars

(* "If a tab is already open, activate it; otherwise load the content,     *)
(* create a new tab": no file is open in two tabs.  (A file opened again   *)
(* while it is being read gets two.)                                       *)
OneTabPerFile == \A t, u \in OpenTabs : path[t] = path[u] => t = u

(* What the user typed and is on disk stays there.                         *)
SavedStays == \A p \in Paths : files[p] # None /\ files'[p] # None => Ours(files[p]) \subseteq files'[p]

(* "If a tab has the target file open, save before renaming and follow it  *)
(* after success": between operations no tab is left on a file that is     *)
(* gone (other programs delete none here).                                 *)
TabHasFile == (\A o \in Ops : Free(o)) => \A t \in OpenTabs : files[path[t]] # None

(* "When the active tab is closed, activate the right neighbor": the       *)
(* editor never shows a tab that is not open.  (Two closes that overlap    *)
(* break it: the neighbor may be closing, too.)                            *)
ActiveTabIsOpen == active # None => Open(active)

(* "matching the existing spec that autosave targets only one tab at a     *)
(* time": a tab does not stay dirty for ever while the disk works - it is  *)
(* saved, merged, closed, or in a conflict the user has been told of -     *)
(* unless another tab takes the one timer while it is dirty and nobody is  *)
(* saving it, or what its save was refused for is taken back before the    *)
(* tab has met it.                                                         *)
Unsaved(t) == Open(t) /\ dirty[t] /\ ~conflicted[t]
TimerTaken(t) == pending \notin {t, None} /\ \A o \in Ops : op[o].tab # t
RefusedInVain(t) ==
  \E o \in Ops : /\ op[o].at \in {"refused", "read", "got", "merge", "mergeRefused"}
                 /\ op[o].tab = t /\ op[o].then # "watch" /\ files[path[t]] = base[t]
LeftUnsaved(t) == Unsaved(t) /\ (TimerTaken(t) \/ RefusedInVain(t))
=============================================================================
