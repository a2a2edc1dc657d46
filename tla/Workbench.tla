----------------------------- MODULE Workbench -----------------------------
(***************************************************************************)
(* The connection context of the frontend store (app.svelte.ts): which     *)
(* connection and database are selected, which tab is active, which        *)
(* connections are established, and what runs on them.                     *)
(*                                                                         *)
(* The store is one thread; an operation is a slot of `task` that waits    *)
(* (`at`) for its save, its confirmation or the backend's answer, while    *)
(* every other operation may run.  The backend executes the calls in any   *)
(* order and awaits other things before it answers (a cache, the history,  *)
(* the menu): the answers reach the page in any order, too.  What a call   *)
(* does to the state here is one step, but for the two of `\c`.            *)
(*                                                                         *)
(* Of an editor tab only its connection is modelled; its text is in        *)
(* FileSync.  Chats, which keep a connection busy too, are in ChatAgent.   *)
(***************************************************************************)
EXTENDS Naturals, FiniteSets

CONSTANTS
  Names,         \* names of the connections
  MaxFiles,      \* bound: query files of a connection
  Databases, Configured,   \* databases, and the one the configuration names
  Handlers,      \* slots for operations under way: bounds how many overlap
  Nowhere,       \* null
  MaxDone,       \* bound: actions of the user
  MaxBatch       \* bound: statements of a batch

ASSUME WorkbenchAssumption ==
  /\ Configured \in Databases /\ Nowhere \notin Names \cup Databases \cup Handlers
  /\ {MaxFiles, MaxDone} \subseteq Nat /\ MaxBatch \in Nat \ {0}

VARIABLES
  selected,     \* selectedConnection
  schemaShown,        \* activeSchema
  writable,
  openTabs, activeTab,  \* editorTabs, activeEditorTabId
  contextOf,    \* the handler that took connectionContextGeneration last, if it may still commit
  movedBy,      \* the handler that took navigationGeneration last
  established,  \* resourcesLoaded
  resultTab,    \* the result tab of each connection: its recorded schema, and whether it holds a batch
  task,         \* the operations under way
  override,     \* backend: the overrides of the active schema
  replies,      \* those whose answer is on its way to the page
  turnedOn,     \* history: the connection selected when Writable was turned on
  exempt,       \* history: connections that met a window of the code (see the properties)
  done          \* how much of MaxDone is used

backendVars == <<override, replies>>
moveVars == <<contextOf, movedBy>>
tabVars == <<openTabs, activeTab>>
historyVars == <<turnedOn, exempt>>
wbVars == <<selected, schemaShown, writable, openTabs, activeTab, contextOf, movedBy, established, resultTab,
            task, override, replies, turnedOn, exempt, done>>

(* The editor tabs, named by the connection and the number of their file. *)
Editors == Names \X (1 .. MaxFiles)
NameOf(e) == e[1]

NoTab == [db |-> Nowhere, batch |-> FALSE]
NoTask == [at |-> "idle", kind |-> "none", on |-> Nowhere, to |-> Nowhere, was |-> Nowhere, then |-> Nowhere,
           db |-> Nowhere, left |-> 0, writes |-> FALSE, ok |-> TRUE, old |-> FALSE, overtaken |-> FALSE,
           stop |-> FALSE]
TaskStates ==
  [at : {"idle", "saving", "context", "reading", "listing", "stopping", "switching", "confirming", "checking",
         "next", "running", "proving", "asking", "applying", "resetting", "loading"},
   kind : {"none", "click", "reselect", "activate", "open", "ensure", "refetch", "change", "run", "rerun",
           "batch", "edits", "reload"},
   on : Names \cup {Nowhere},                   \* its connection, fixed before the first await
   to : Databases \cup Editors \cup {Nowhere},  \* the database or tab it goes to
   was : Names \cup Databases \cup {Nowhere},   \* the connection or override before
   then : Names \cup {Nowhere},                 \* the connection of a tab that was closed
   db : Databases \cup {Nowhere},               \* the database the backend answered or ran on
   left : 0 .. MaxBatch,                        \* statements of a batch left
   writes : BOOLEAN,                            \* writableAtStart
   ok : BOOLEAN,                                \* the call succeeded
   old : BOOLEAN,                               \* disconnected, or the result tab discarded, meanwhile
   overtaken : BOOLEAN,                         \* the backend executed a reset before this call
   stop : BOOLEAN]                              \* batchCancelRequests
WbTypeOK ==
  /\ selected \in Names \cup {Nowhere} /\ schemaShown \in Databases \cup {Nowhere} /\ writable \in BOOLEAN
  /\ openTabs \subseteq Editors /\ activeTab \in Editors \cup {Nowhere}
  /\ {contextOf, movedBy} \subseteq Handlers \cup {Nowhere}
  /\ established \subseteq Names
  /\ resultTab \in [Names -> [db : Databases \cup {Nowhere}, batch : BOOLEAN]]
  /\ task \in [Handlers -> TaskStates]
  /\ override \in [Names -> Databases \cup {Nowhere}]
  /\ replies \subseteq Handlers
  /\ turnedOn \in Names \cup {Nowhere} /\ exempt \in [unclosed : SUBSET Names, astray : SUBSET Names]
  /\ done \in 0 .. MaxDone

WbInit ==
  /\ selected = Nowhere /\ schemaShown = Nowhere /\ writable = FALSE
  /\ openTabs = {} /\ activeTab = Nowhere
  /\ contextOf = Nowhere /\ movedBy = Nowhere
  /\ established = {} /\ resultTab = [c \in Names |-> NoTab]
  /\ task = [h \in Handlers |-> NoTask]
  /\ override = [c \in Names |-> Nowhere] /\ replies = {}
  /\ turnedOn = Nowhere /\ exempt = [unclosed |-> {}, astray |-> {}] /\ done = 0

----------------------------------------------------------------------------
ActiveOf(c) == IF override[c] # Nowhere THEN override[c] ELSE Configured
EffectiveWritable(c) == c = selected /\ writable

(* isConnectionRunning: a run whose result tab is there, or cell edits.    *)
OccupiesConnection(t, c) ==
  /\ t.on = c
  /\ \/ t.kind \in {"run", "rerun", "batch"} /\ t.at \in {"next", "running", "proving", "asking"} /\ ~t.old
     \/ t.kind = "edits" /\ t.at = "applying"
IsRunning(c) == \E h \in Handlers : OccupiesConnection(task[h], c)
IsBatchRunning(c) == \E h \in Handlers : task[h].kind = "batch" /\ OccupiesConnection(task[h], c)
IsSwitching(c) == \E h \in Handlers : task[h].at = "switching" /\ task[h].on = c
IsReloading == \E h \in Handlers : task[h].kind \in {"reload", "reselect"}

(* The user starts something; the handler goes on; the backend executes    *)
(* what it asked; the page gets the answer.                                *)
Acts == done < MaxDone /\ done' = done + 1 /\ UNCHANGED backendVars
Starts(h) == task[h] = NoTask /\ Acts
GoesOn(h, at) == task[h].at = at /\ UNCHANGED <<backendVars, done>>
Executes(h, at) == task[h].at = at /\ h \notin replies /\ replies' = replies \cup {h}
Receives(h, at) ==
  /\ task[h].at \in at /\ h \in replies /\ replies' = replies \ {h}
  /\ UNCHANGED <<override, done>>
PageUnchanged ==
  UNCHANGED <<selected, schemaShown, writable, tabVars, moveVars, established, resultTab, turnedOn, done>>

SetTask(h, t) == [task EXCEPT ![h] = t]

(* maybeDisconnectIfIdle for each of some connections, once the tasks are  *)
(* as given; disconnects what nobody needs, and what lists its schemas     *)
(* finds out.                                                              *)
IsNeeded(c, tasks, tabs) ==
  (\E e \in tabs : NameOf(e) = c) \/ \E h \in Handlers : OccupiesConnection(tasks[h], c)
DisconnectIfIdle(names, tasks) ==
  LET idle == {c \in names \ {Nowhere} : ~IsNeeded(c, tasks, openTabs')} IN
  /\ established' = established \ idle
  /\ task' = [h \in Handlers |-> IF tasks[h].at = "listing" /\ tasks[h].on \in idle
                                 THEN [tasks[h] EXCEPT !.old = TRUE] ELSE tasks[h]]

----------------------------------------------------------------------------
(* Selecting a connection and activating a tab *)

SaveFirst(t) == [t EXCEPT !.at = "saving"]
LoadContext(t) == [t EXCEPT !.at = "context"]

(* A click on the selected connection calls a switch to another one off.   *)
Stay ==
  /\ Acts /\ selected # Nowhere /\ contextOf' = Nowhere
  /\ UNCHANGED <<selected, schemaShown, writable, tabVars, movedBy, established, resultTab, task, historyVars>>

SelectConnection(h, t) ==
  \/ task' = SetTask(h, SaveFirst(t)) /\ UNCHANGED contextOf
  \/ task' = SetTask(h, LoadContext(t)) /\ contextOf' = h
Click(h, c) ==
  /\ Starts(h) /\ c # selected
  /\ SelectConnection(h, [NoTask EXCEPT !.kind = "click", !.on = c, !.was = selected])
  /\ UNCHANGED <<selected, schemaShown, writable, tabVars, movedBy, established, resultTab, historyVars>>

(* activateEditorTab once the save is over: of a tab of this connection at *)
(* once, of another one after its context has been loaded.                 *)
ActivateHere(h, t) ==
  /\ NameOf(t.to) = selected
  /\ activeTab' = IF movedBy' = h THEN t.to ELSE activeTab
  /\ DisconnectIfIdle({t.then}, SetTask(h, NoTask)) /\ UNCHANGED contextOf
ActivateThere(h, t, tab) ==
  /\ NameOf(t.to) # selected
  /\ task' = SetTask(h, LoadContext([t EXCEPT !.was = selected])) /\ contextOf' = h
  /\ activeTab' = tab /\ UNCHANGED established
ActivateTab(h, t, tab) ==
  /\ movedBy' = h
  /\ \/ task' = SetTask(h, SaveFirst(t)) /\ activeTab' = tab /\ UNCHANGED <<contextOf, established>>
     \/ ActivateHere(h, t)
     \/ ActivateThere(h, t, tab)
ToTab(e, c) == [NoTask EXCEPT !.kind = "activate", !.on = NameOf(e), !.to = e, !.then = c]
ClickTab(h, e) ==
  /\ Starts(h) /\ e \in openTabs \ {activeTab}
  /\ UNCHANGED openTabs /\ ActivateTab(h, ToTab(e, Nowhere), activeTab)
  /\ UNCHANGED <<selected, schemaShown, writable, resultTab, historyVars>>
CloseTab(h, e) ==
  /\ Starts(h) /\ e \in openTabs /\ openTabs' = openTabs \ {e}
  /\ IF activeTab = e /\ openTabs' # {}
     THEN \E n \in openTabs' : ActivateTab(h, ToTab(n, NameOf(e)), Nowhere)
     ELSE /\ activeTab' = IF activeTab = e THEN Nowhere ELSE activeTab
          /\ DisconnectIfIdle({NameOf(e)}, task) /\ UNCHANGED moveVars
  /\ UNCHANGED <<selected, schemaShown, writable, resultTab, historyVars>>

SaveEnds(h) ==
  /\ GoesOn(h, "saving") /\ task[h].kind # "reload"
  /\ IF task[h].kind = "activate"
     THEN /\ UNCHANGED <<openTabs, movedBy>>
          /\ ActivateHere(h, task[h]) \/ ActivateThere(h, task[h], activeTab)
     ELSE /\ task' = SetTask(h, LoadContext(task[h])) /\ contextOf' = h
          /\ UNCHANGED <<tabVars, movedBy, established>>
  /\ exempt' = [exempt EXCEPT !.unclosed =
       IF task[h].kind # "activate" /\ task[h].was # selected THEN @ \cup ({selected} \ {Nowhere}) ELSE @]
  /\ UNCHANGED <<selected, schemaShown, writable, resultTab, turnedOn>>

Astray(c, met) == exempt' = [exempt EXCEPT !.astray = IF met THEN @ \cup {c} ELSE @]

(* An answer on its way that will have the page show a database of c: what *)
(* changes the database behind it may be answered before it.               *)
Shows(h, c) ==
  LET t == task[h] IN
  /\ h \in replies /\ t.on = c
  /\ \/ t.at = "context" /\ contextOf = h
     \/ t.at = "switching" /\ t.ok
     \/ t.at = "proving" /\ t.to # Nowhere /\ ~t.old

(* getActiveSchema, for a context or for running a tab again.              *)
ReadActive(h) ==
  /\ Executes(h, "context") \/ Executes(h, "checking")
  /\ task' = SetTask(h, [task[h] EXCEPT !.db = ActiveOf(task[h].on)])
  /\ Astray(task[h].on, \E k \in Handlers : task[k].at = "proving" /\ task[k].on = task[h].on)
  /\ PageUnchanged /\ UNCHANGED override

Overtaken(h) ==
  /\ Receives(h, {"context"}) /\ contextOf # h
  /\ UNCHANGED tabVars /\ DisconnectIfIdle({task[h].then}, SetTask(h, NoTask))
  /\ UNCHANGED <<selected, schemaShown, writable, moveVars, resultTab, historyVars>>

(* pickTabForConnection: the one active last, or opened last.              *)
TabToRestore(c, e) ==
  IF \E x \in openTabs : NameOf(x) = c THEN e \in openTabs /\ NameOf(e) = c ELSE e = Nowhere
WritableAfter(c) == IF selected = c THEN writable ELSE FALSE
CommitContext(h) ==
  LET t == task[h]
      refetch == [NoTask EXCEPT !.at = "listing", !.kind = "refetch", !.on = t.on] IN
  /\ Receives(h, {"context"}) /\ contextOf = h
  /\ selected' = t.on /\ schemaShown' = t.db /\ writable' = WritableAfter(t.on)
  /\ IF t.kind = "activate" THEN activeTab' = IF movedBy = h THEN t.to ELSE activeTab
                            ELSE TabToRestore(t.on, activeTab')
  /\ UNCHANGED openTabs
  /\ DisconnectIfIdle({t.was, t.then}, SetTask(h, IF t.on \in established THEN refetch ELSE NoTask))
  /\ UNCHANGED <<moveVars, resultTab, historyVars>>

----------------------------------------------------------------------------
(* Establishing a connection *)

ListSchemasOf(c) ==
  IF c \in established THEN NoTask ELSE [NoTask EXCEPT !.at = "listing", !.kind = "ensure", !.on = c]
Browse(h) ==
  /\ Starts(h) /\ selected # Nowhere /\ selected \notin established
  /\ task' = SetTask(h, ListSchemasOf(selected))
  /\ UNCHANGED <<selected, schemaShown, writable, tabVars, moveVars, established, resultTab, historyVars>>
OpenFile(h, e) ==
  /\ Starts(h) /\ e \notin openTabs /\ NameOf(e) = selected /\ movedBy' = h
  /\ task' = SetTask(h, [NoTask EXCEPT !.at = "reading", !.kind = "open", !.on = selected, !.to = e])
  /\ UNCHANGED <<selected, schemaShown, writable, tabVars, contextOf, established, resultTab, historyVars>>
FileRead(h) ==
  /\ GoesOn(h, "reading")
  /\ IF selected = task[h].on
     THEN openTabs' = openTabs \cup {task[h].to} /\ activeTab' = task[h].to
     ELSE UNCHANGED tabVars
  /\ task' = SetTask(h, IF selected = task[h].on THEN ListSchemasOf(selected) ELSE NoTask)
  /\ UNCHANGED <<selected, schemaShown, writable, moveVars, established, resultTab, historyVars>>
ListSchemas(h) ==
  /\ Executes(h, "listing") /\ \E ok \in BOOLEAN : task' = SetTask(h, [task[h] EXCEPT !.ok = ok])
  /\ PageUnchanged /\ UNCHANGED <<override, exempt>>
StillConnected(t) == t.ok /\ ~t.old
SchemasListed(h) ==
  LET t == task[h] IN
  /\ Receives(h, {"listing"}) /\ UNCHANGED tabVars
  /\ IF StillConnected(t)
     THEN /\ established' = IF t.kind = "ensure" THEN established \cup {t.on} ELSE established
          /\ task' = SetTask(h, NoTask)
     ELSE DisconnectIfIdle(IF t.ok THEN {t.on} ELSE {}, SetTask(h, NoTask))
  /\ UNCHANGED <<selected, schemaShown, writable, moveVars, resultTab, historyVars>>

----------------------------------------------------------------------------
(* Changing the database and the Writable switch *)

ToggleWritable ==
  /\ Acts /\ writable' = ~writable /\ turnedOn' = IF writable THEN Nowhere ELSE selected
  /\ UNCHANGED <<selected, schemaShown, tabVars, moveVars, established, resultTab, task, exempt>>

ChangeSchema(h, s) ==
  /\ Starts(h) /\ selected # Nowhere /\ s # schemaShown /\ ~IsBatchRunning(selected)
  /\ task' = SetTask(h, [NoTask EXCEPT !.at = "stopping", !.kind = "change", !.on = selected, !.to = s])
  /\ UNCHANGED <<selected, schemaShown, writable, tabVars, moveVars, established, resultTab, historyVars>>
(* The save and the stop of the chats are over.                            *)
SendChange(h) ==
  /\ GoesOn(h, "stopping")
  /\ task' = SetTask(h, IF IsBatchRunning(task[h].on) THEN NoTask ELSE [task[h] EXCEPT !.at = "switching"])
  /\ UNCHANGED <<selected, schemaShown, writable, tabVars, moveVars, established, resultTab, historyVars>>
SetActiveSchema(h) ==
  /\ Executes(h, "switching")
  /\ \/ override' = [override EXCEPT ![task[h].on] = task[h].to] /\ UNCHANGED task
     \/ task' = SetTask(h, [task[h] EXCEPT !.ok = FALSE]) /\ UNCHANGED override  \* the connection is not configured
  /\ Astray(task[h].on, \E k \in Handlers :
       \/ task[k].at = "proving" /\ task[k].on = task[h].on /\ task[k].to = task[h].to
       \/ Shows(k, task[h].on))
  /\ PageUnchanged
Show(c, s) == schemaShown' = IF selected = c /\ s # Nowhere THEN s ELSE schemaShown
ActiveSchemaSet(h) ==
  /\ Receives(h, {"switching"})
  /\ Show(task[h].on, IF task[h].ok THEN task[h].to ELSE Nowhere) /\ task' = SetTask(h, NoTask)
  /\ UNCHANGED <<selected, writable, tabVars, moveVars, established, resultTab, historyVars>>

----------------------------------------------------------------------------
(* What the backend makes of a statement, which may be `\c` *)

RunStatement(h) ==
  /\ Executes(h, "running") /\ task[h].to = Nowhere
  /\ \E ok \in BOOLEAN : task' = SetTask(h, [task[h] EXCEPT !.ok = ok, !.db = ActiveOf(task[h].on)])
  /\ PageUnchanged /\ UNCHANGED <<override, exempt>>
TryDatabase(h) ==
  LET t == task[h] IN
  /\ t.at = "running" /\ t.to # Nowhere
  /\ override' = [override EXCEPT ![t.on] = t.to]
  /\ task' = SetTask(h, [t EXCEPT !.at = "proving", !.was = override[t.on]])
  /\ Astray(t.on, t.old \/ t.overtaken \/ \E k \in Handlers : Shows(k, t.on))
  /\ PageUnchanged /\ UNCHANGED replies
Reported(t) == IF override[t.on] = t.to THEN t.to ELSE Nowhere
Proved(h) ==
  /\ Executes(h, "proving")
  /\ task' = SetTask(h, [task[h] EXCEPT !.to = Reported(task[h]), !.db = ActiveOf(task[h].on)])
  /\ PageUnchanged /\ UNCHANGED <<override, exempt>>
NotProved(h) ==
  LET t == task[h] IN
  /\ Executes(h, "proving")
  /\ override' = [override EXCEPT ![t.on] = IF @ = t.to THEN t.was ELSE @]
  /\ task' = SetTask(h, [t EXCEPT !.to = Nowhere, !.ok = FALSE,
                                  !.db = IF override'[t.on] # Nowhere THEN override'[t.on] ELSE Configured])
  /\ PageUnchanged /\ UNCHANGED exempt

----------------------------------------------------------------------------
(* Running one statement *)

Sendable == Databases \cup {Nowhere}  \* `\c` to a database, or any other
Run(h, s) ==
  /\ Starts(h) /\ selected # Nowhere /\ ~IsRunning(selected)
  /\ task' = SetTask(h, [NoTask EXCEPT !.at = "confirming", !.kind = "run", !.on = selected, !.to = s])
  /\ UNCHANGED <<selected, schemaShown, writable, tabVars, moveVars, established, resultTab, historyVars>>
Give(h) == task' = SetTask(h, NoTask) /\ UNCHANGED resultTab
MayStart(c) == selected = c /\ ~IsRunning(c)
Confirmed(h) ==
  LET t == task[h] IN
  /\ GoesOn(h, "confirming") /\ t.kind = "run"
  /\ \/ Give(h)
     \/ /\ MayStart(t.on)
        /\ task' = SetTask(h, [t EXCEPT !.at = "running"])
        /\ resultTab' = [resultTab EXCEPT ![t.on] = [db |-> schemaShown, batch |-> FALSE]]
  /\ UNCHANGED <<selected, schemaShown, writable, tabVars, moveVars, established, historyVars>>
Ran(h) ==
  LET t == task[h] IN
  /\ Receives(h, {"running", "proving"}) /\ t.kind \in {"run", "rerun"}
  /\ UNCHANGED tabVars
  /\ IF t.old THEN task' = SetTask(h, NoTask) /\ UNCHANGED <<established, schemaShown, resultTab>>
     ELSE /\ Show(t.on, t.to) /\ DisconnectIfIdle({t.on}, SetTask(h, NoTask))
          /\ resultTab' = [resultTab EXCEPT ![t.on].db = IF t.to # Nowhere THEN t.to ELSE @]
  /\ UNCHANGED <<selected, writable, moveVars, historyVars>>

(* rerunTab: of the statement, or of the batch, its result tab holds.      *)
Rerun(h, c, s) ==
  /\ Starts(h) /\ resultTab[c] # NoTab /\ ~IsRunning(c)
  /\ task' = SetTask(h, [NoTask EXCEPT !.at = "checking", !.kind = "rerun", !.on = c, !.to = s])
  /\ UNCHANGED <<selected, schemaShown, writable, tabVars, moveVars, established, resultTab, historyVars>>
BatchMayStart(c) == ~IsReloading /\ ~IsSwitching(c)
FirstOfBatch(t) ==
  [NoTask EXCEPT !.at = "next", !.kind = "batch", !.on = t.on, !.left = MaxBatch,
                 !.writes = EffectiveWritable(t.on)]
Checked(h) ==
  LET t == task[h] IN
  /\ Receives(h, {"checking"})
  /\ resultTab' = [resultTab EXCEPT ![t.on].db = IF t.old THEN @ ELSE t.db]
  /\ task' = SetTask(h, IF IsRunning(t.on) \/ (resultTab[t.on].batch /\ ~BatchMayStart(t.on)) THEN NoTask
                         ELSE IF resultTab[t.on].batch THEN FirstOfBatch(t)
                         ELSE [t EXCEPT !.at = "running", !.db = Nowhere])
  /\ UNCHANGED <<selected, schemaShown, writable, tabVars, moveVars, established, historyVars>>

(* submitCellEdits: when the edits are applied, the tab is run again.      *)
SubmitCellEdits(h, c) ==
  /\ Starts(h) /\ resultTab[c] # NoTab /\ ~resultTab[c].batch
  /\ EffectiveWritable(c) /\ resultTab[c].db = schemaShown /\ ~IsRunning(c)
  /\ task' = SetTask(h, [NoTask EXCEPT !.at = "applying", !.kind = "edits", !.on = c])
  /\ UNCHANGED <<selected, schemaShown, writable, tabVars, moveVars, established, resultTab, historyVars>>
RunStatements(h) ==
  /\ Executes(h, "applying") /\ \E ok \in BOOLEAN : task' = SetTask(h, [task[h] EXCEPT !.ok = ok])
  /\ PageUnchanged /\ UNCHANGED <<override, exempt>>
Applied(h) ==
  LET t == task[h] IN
  /\ Receives(h, {"applying"})
  /\ task' = SetTask(h, IF t.ok /\ resultTab[t.on] # NoTab
                         THEN [NoTask EXCEPT !.at = "checking", !.kind = "rerun", !.on = t.on] ELSE NoTask)
  /\ exempt' = [exempt EXCEPT !.unclosed = @ \cup {t.on}]
  /\ UNCHANGED <<selected, schemaShown, writable, tabVars, moveVars, established, resultTab, turnedOn>>

----------------------------------------------------------------------------
(* A batch: its statements one by one, in one result tab *)

RunBatch(h) ==
  /\ Starts(h) /\ selected # Nowhere /\ ~IsRunning(selected)
  /\ task' = SetTask(h, [NoTask EXCEPT !.at = "confirming", !.kind = "batch", !.on = selected])
  /\ UNCHANGED <<selected, schemaShown, writable, tabVars, moveVars, established, resultTab, historyVars>>
BatchSaved(h) ==
  LET t == task[h] IN
  /\ GoesOn(h, "confirming") /\ t.kind = "batch"
  /\ IF MayStart(t.on) /\ BatchMayStart(t.on)
     THEN /\ task' = SetTask(h, FirstOfBatch(t))
          /\ resultTab' = [resultTab EXCEPT ![t.on] = [db |-> schemaShown, batch |-> TRUE]]
     ELSE Give(h)
  /\ UNCHANGED <<selected, schemaShown, writable, tabVars, moveVars, established, historyVars>>
EndBatch(h) ==
  /\ UNCHANGED tabVars
  /\ DisconnectIfIdle(IF task[h].old THEN {} ELSE {task[h].on}, SetTask(h, NoTask))
MayGoOn(t) == ~t.stop /\ ~t.old /\ (t.writes => EffectiveWritable(t.on))
NextStatement(h, s) ==
  LET t == task[h] IN
  /\ GoesOn(h, "next")
  /\ \/ EndBatch(h)  \* stopped, or the confirmation of the statement was declined
     \/ /\ MayGoOn(t)
        /\ task' = SetTask(h, [t EXCEPT !.at = "running", !.to = s, !.left = @ - 1])
        /\ UNCHANGED <<tabVars, established>>
  /\ UNCHANGED <<selected, schemaShown, writable, moveVars, resultTab, historyVars>>
BatchRan(h) ==
  LET t == task[h]
      on == [t EXCEPT !.ok = TRUE, !.to = Nowhere, !.was = Nowhere] IN
  /\ Receives(h, {"running", "proving"}) /\ t.kind = "batch"
  /\ IF t.old \/ t.left = 0 \/ (~t.ok /\ t.stop) THEN EndBatch(h)
     ELSE /\ task' = SetTask(h, [on EXCEPT !.at = IF t.ok THEN "next" ELSE "asking"])
          /\ UNCHANGED <<tabVars, established>>
  /\ IF t.old THEN UNCHANGED <<schemaShown, resultTab>>
     ELSE /\ Show(t.on, t.to)
          /\ resultTab' = [resultTab EXCEPT ![t.on].db = IF t.to # Nowhere THEN t.to ELSE @]
  /\ UNCHANGED <<selected, writable, moveVars, historyVars>>
(* The user is asked whether to go on after an error.                      *)
AnswerPrompt(h) ==
  /\ GoesOn(h, "asking")
  /\ \/ EndBatch(h)
     \/ ~task[h].stop /\ task' = SetTask(h, [task[h] EXCEPT !.at = "next"]) /\ UNCHANGED <<tabVars, established>>
  /\ UNCHANGED <<selected, schemaShown, writable, moveVars, resultTab, historyVars>>
CancelBatch(h) ==
  /\ Acts /\ task[h].kind = "batch" /\ OccupiesConnection(task[h], task[h].on) /\ ~task[h].stop
  /\ task' = SetTask(h, [task[h] EXCEPT !.stop = TRUE])
  /\ UNCHANGED <<selected, schemaShown, writable, tabVars, moveVars, established, resultTab, historyVars>>

----------------------------------------------------------------------------
(* Reloading the configuration *)

Reload(h) ==
  /\ Starts(h) /\ task' = SetTask(h, [NoTask EXCEPT !.at = "saving", !.kind = "reload"])
  /\ UNCHANGED <<selected, schemaShown, writable, tabVars, moveVars, established, resultTab, historyVars>>
(* A conflicted tab, or a save that fails, ends the reload.                *)
GiveUpReload(h) ==
  /\ GoesOn(h, "saving") /\ task[h].kind = "reload" /\ task' = SetTask(h, NoTask)
  /\ UNCHANGED <<selected, schemaShown, writable, tabVars, moveVars, established, resultTab, historyVars>>
NoBatchStops(t) == t  \* fault: batches run on
StoppedBatch(t) == IF t.kind = "batch" /\ OccupiesConnection(t, t.on) THEN [t EXCEPT !.stop = TRUE] ELSE t
SendReset(h) ==
  /\ GoesOn(h, "saving") /\ task[h].kind = "reload"
  /\ task' = [k \in Handlers |-> IF k = h THEN [task[h] EXCEPT !.at = "resetting"] ELSE StoppedBatch(task[k])]
  /\ UNCHANGED <<selected, schemaShown, writable, tabVars, moveVars, established, resultTab, historyVars>>
ResetConnections(h) ==
  /\ Executes(h, "resetting") /\ override' = [c \in Names |-> Nowhere]
  /\ task' = [k \in Handlers |->
       [task[k] EXCEPT !.overtaken = @ \/ (task[k].at = "running" /\ k \notin replies)]]
  /\ exempt' = [exempt EXCEPT !.astray = @ \cup
       {c \in Names : \E k \in Handlers : task[k].at = "switching" /\ Shows(k, c)}]
  /\ PageUnchanged
TabDiscarded(t) ==
  [t EXCEPT !.old = @ \/ t.at \in {"listing", "next", "running", "proving", "asking", "checking"}]
ResetDone(h) ==
  /\ Receives(h, {"resetting"})
  /\ selected' = Nowhere /\ schemaShown' = Nowhere /\ writable' = FALSE /\ openTabs' = {} /\ activeTab' = Nowhere
  /\ contextOf' = Nowhere /\ established' = {} /\ resultTab' = [c \in Names |-> NoTab]
  /\ task' = [k \in Handlers |->
       IF k = h THEN [task[h] EXCEPT !.at = "loading", !.on = selected] ELSE TabDiscarded(task[k])]
  /\ UNCHANGED <<movedBy, historyVars>>
(* What was selected is selected again, if it is still configured.         *)
ConnectionsLoaded(h) ==
  LET c == task[h].on IN
  /\ GoesOn(h, "loading")
  /\ \/ task' = SetTask(h, NoTask) /\ UNCHANGED contextOf
     \/ c # Nowhere /\ c = selected /\ contextOf' = Nowhere /\ task' = SetTask(h, NoTask)
     \/ c # Nowhere /\ c # selected
        /\ SelectConnection(h, [NoTask EXCEPT !.kind = "reselect", !.on = c, !.was = selected])
  /\ UNCHANGED <<selected, schemaShown, writable, tabVars, movedBy, established, resultTab, historyVars>>

----------------------------------------------------------------------------
WbNext ==
  \/ Stay \/ ToggleWritable
  \/ \E h \in Handlers :
       \/ \E c \in Names : Click(h, c) \/ SubmitCellEdits(h, c) \/ \E s \in Sendable : Rerun(h, c, s)
       \/ \E e \in Editors : ClickTab(h, e) \/ CloseTab(h, e) \/ OpenFile(h, e)
       \/ \E s \in Databases : ChangeSchema(h, s)
       \/ \E s \in Sendable : Run(h, s) \/ NextStatement(h, s)
       \/ Browse(h) \/ RunBatch(h) \/ CancelBatch(h) \/ Reload(h)
       \/ SaveEnds(h) \/ ReadActive(h) \/ Overtaken(h) \/ CommitContext(h)
       \/ FileRead(h) \/ ListSchemas(h) \/ SchemasListed(h)
       \/ SendChange(h) \/ SetActiveSchema(h) \/ ActiveSchemaSet(h)
       \/ RunStatement(h) \/ TryDatabase(h) \/ Proved(h) \/ NotProved(h)
       \/ Confirmed(h) \/ Ran(h) \/ Checked(h) \/ RunStatements(h) \/ Applied(h)
       \/ BatchSaved(h) \/ BatchRan(h) \/ AnswerPrompt(h)
       \/ GiveUpReload(h) \/ SendReset(h) \/ ResetConnections(h) \/ ResetDone(h) \/ ConnectionsLoaded(h)

WbSpec == WbInit /\ [][WbNext]_wbVars

----------------------------------------------------------------------------
(* A batch stays on the database of its statements: nothing but its own    *)
(* `\c` changes the database between two of them, since a switch, a reload *)
(* and the start of a batch keep off each other (executeBatchInTab,        *)
(* batchStartBlocker, changeActiveSchema, reloadConnections).  Not in the  *)
(* code's power: a call sent before a reload and executed after it.        *)
BatchStaysOnItsDatabase ==
  \A h \in Handlers :
    LET t == task[h] IN
    t.kind = "batch" /\ t.at = "running" /\ h \notin replies /\ t.db # Nowhere
      /\ ~t.overtaken /\ t.on \notin exempt.astray
      => ActiveOf(t.on) = t.db

(* A connection executes one thing at a time, whatever was started while   *)
(* another was being confirmed: the backend cancels only the run it        *)
(* registered last (isConnectionRunning).                                  *)
OneRunAtATime ==
  \A c \in Names : \A h, k \in Handlers :
    OccupiesConnection(task[h], c) /\ OccupiesConnection(task[k], c) => h = k

(* Writes are allowed only on the connection they were allowed on, however *)
(* the selection moves (applyConnectionContext, reloadConnections).        *)
WritableOnlyWhereTurnedOn == writable => turnedOn = selected

(* What counts as established is selected, open in a tab or running: an    *)
(* idle connection is closed, and none that was closed while its schemas   *)
(* were listed is taken for established (maybeDisconnectIfIdle,            *)
(* loadConnectionSchemaResources).  The connection of a closed tab is      *)
(* looked at when the tab next to it has been activated, in its save or    *)
(* its context (`then`).  Exempt: connections whose cell edits ended,      *)
(* which nobody looks at again, and those selected while the save of an    *)
(* earlier click was under way, which that click does not know.            *)
EstablishedIsNeeded ==
  \A c \in established :
    \/ c = selected \/ IsNeeded(c, task, openTabs) \/ c \in exempt.unclosed
    \/ \E h \in Handlers : task[h].then = c

(* The database shown is the one statements run on, once no change of it   *)
(* is under way: also when a change fails, a `\c` is rolled back, the       *)
(* connection is left and selected again meanwhile, or a reload comes.     *)
(* Exempt: connections whose database was changed while the answer to an   *)
(* earlier change or selection was on its way to the page, which may come  *)
(* last; those selected, or set to the same database, while `\c` was       *)
(* trying a database that was then refused; and a `\c` that a reload       *)
(* overtook.                                                               *)
ChangesDatabase(t) ==
  t.at \in {"switching", "resetting"} \/ (t.at \in {"running", "proving"} /\ t.to # Nowhere)
ShownIsActive ==
  selected # Nowhere /\ selected \notin exempt.astray
  /\ (\A h \in Handlers : task[h].on \in {selected, Nowhere} => ~ChangesDatabase(task[h]))
    => schemaShown = ActiveOf(selected)

WorkbenchPromise ==
  /\ BatchStaysOnItsDatabase /\ OneRunAtATime /\ WritableOnlyWhereTurnedOn
  /\ EstablishedIsNeeded /\ ShownIsActive

(* The workbench keeps its types and its promise.                          *)
WorkbenchHolds == WbTypeOK /\ WorkbenchPromise

(* What Run executes comes from a tab of the connection it runs on: "the   *)
(* connection and tab always stay consistent" (app.svelte.ts 505).         *)
ActiveTabIsOfSelected == activeTab # Nowhere => NameOf(activeTab) = selected
=============================================================================
