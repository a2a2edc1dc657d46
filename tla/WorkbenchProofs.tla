-------------------------- MODULE WorkbenchProofs --------------------------
(***************************************************************************)
(* Theorems about Workbench, the connection context of the frontend, for   *)
(* any connections, databases, tabs and numbers of overlapping operations. *)
(*                                                                         *)
(* First what each action does to the operation that takes it and to the   *)
(* others (XDoes); then the parts of the invariant, one section each, with *)
(* a step per action; last WbInv, their conjunction, and the theorems.     *)
(***************************************************************************)
EXTENDS Workbench, TLAPS

----------------------------------------------------------------------------
(* The locals a handler has set, by what it waits for and for what.        *)
Answerable == {"context", "listing", "checking", "switching", "running", "proving", "applying", "resetting"}
Statements == {"run", "rerun", "batch"}
WellFormed(t) ==
  /\ t.at = "idle" => t = NoTask
  /\ t.at \notin {"idle", "saving", "resetting", "loading"} => t.on \in Names
  /\ t.at = "saving" => \/ t.kind = "reload" /\ t.on = Nowhere
                        \/ t.kind \in {"click", "reselect", "activate"} /\ t.on \in Names
  /\ t.at \in {"context", "saving"} /\ t.kind = "activate" => t.to \in Editors /\ NameOf(t.to) = t.on
  /\ t.at = "context" => t.kind \in {"click", "activate", "reselect"}
  /\ t.at = "reading" => t.kind = "open" /\ t.to \in Editors /\ NameOf(t.to) = t.on
  /\ t.at = "listing" => t.kind \in {"ensure", "refetch"}
  /\ t.at \in {"stopping", "switching"} => t.kind = "change" /\ t.to \in Databases
  /\ t.at = "confirming" => t.kind \in {"run", "batch"} /\ t.to \in Sendable /\ ~t.old
  /\ t.at = "checking" => t.kind = "rerun" /\ t.to \in Sendable
  /\ t.at \in {"next", "asking"} => t.kind = "batch" /\ t.left > 0 /\ t.to = Nowhere
  /\ t.at \in {"running", "proving"} => t.kind \in Statements /\ t.to \in Sendable
  /\ t.at = "proving" => t.was \in Databases \cup {Nowhere}
  /\ t.at = "applying" => t.kind = "edits"
  /\ t.at = "resetting" => t.kind = "reload" /\ t.on = Nowhere
  /\ t.at = "loading" => t.kind = "reload" /\ t.on \in Names \cup {Nowhere}
  /\ t.then # Nowhere => t.kind = "activate" /\ t.at \in {"saving", "context"}
Proper(t) == t \in TaskStates /\ WellFormed(t)
TasksProper == task \in [Handlers -> TaskStates] /\ \A h \in Handlers : Proper(task[h])

(* What is answered is a call, and a call that was executed.               *)
Answered(h) == h \in replies
CallsAreAnswered ==
  \A h \in Handlers :
    /\ Answered(h) => task[h].at \in Answerable
    /\ Answered(h) /\ task[h].at = "running" => task[h].to = Nowhere
    /\ ~Answered(h) /\ task[h].at = "proving" => task[h].to # Nowhere
WbTyped == WbTypeOK /\ TasksProper /\ CallsAreAnswered

----------------------------------------------------------------------------
(* What a step makes of the handlers                                       *)

(* maybeDisconnectIfIdle tells what lists schemas of a connection it closes. *)
Like(t, u) == u = t \/ (t.at = "listing" /\ u = [t EXCEPT !.old = TRUE])
Moves(h, t) == Like(t, task'[h]) /\ \A k \in Handlers \ {h} : Like(task[k], task'[k])

LEMMA NowhereIsApart == Nowhere \notin Names /\ Nowhere \notin Databases /\ Configured \in Databases
                        /\ MaxBatch \in Nat /\ MaxBatch > 0 /\ MaxDone \in Nat
  BY WorkbenchAssumption

LEMMA NoTaskIsProper == Proper(NoTask)
  BY NowhereIsApart DEF Proper, WellFormed, NoTask, TaskStates

LEMMA LikeKeeps ==
  ASSUME NEW t, Proper(t), NEW u, Like(t, u)
  PROVE  /\ Proper(u)
         /\ u.at = t.at /\ u.kind = t.kind /\ u.on = t.on /\ u.to = t.to /\ u.was = t.was /\ u.then = t.then
         /\ u.db = t.db /\ u.left = t.left /\ u.writes = t.writes /\ u.ok = t.ok
         /\ u.overtaken = t.overtaken /\ u.stop = t.stop
         /\ t.old => u.old
         /\ t.at # "listing" => u = t
         /\ \A c : OccupiesConnection(u, c) <=> OccupiesConnection(t, c)
  <1>1. CASE u = t
    BY <1>1
  <1>2. CASE t.at = "listing" /\ u = [t EXCEPT !.old = TRUE]
    <2>1. /\ u.at = t.at /\ u.kind = t.kind /\ u.on = t.on /\ u.to = t.to /\ u.was = t.was /\ u.then = t.then
          /\ u.db = t.db /\ u.left = t.left /\ u.writes = t.writes /\ u.ok = t.ok
          /\ u.overtaken = t.overtaken /\ u.stop = t.stop /\ u.old /\ u \in TaskStates
      BY <1>2 DEF Proper, TaskStates
    <2>2. WellFormed(u)
      BY <1>2, <2>1 DEF Proper, WellFormed
    <2> QED
      BY <1>2, <2>1, <2>2 DEF Proper, OccupiesConnection
  <1> QED
    BY <1>1, <1>2 DEF Like

LEMMA OneTask ==
  ASSUME TasksProper, NEW h \in Handlers, NEW t, Proper(t), task' = SetTask(h, t)
  PROVE  TasksProper' /\ Moves(h, t) /\ task'[h] = t /\ \A k \in Handlers \ {h} : task'[k] = task[k]
  <1>1. task'[h] = t /\ \A k \in Handlers \ {h} : task'[k] = task[k]
    BY DEF TasksProper, SetTask
  <1>2. task' \in [Handlers -> TaskStates]
    BY DEF TasksProper, SetTask, Proper
  <1> QED
    BY <1>1, <1>2 DEF TasksProper, Moves, Like

(* What maybeDisconnectIfIdle does, once the tasks are as given.           *)
LEMMA Disconnects ==
  ASSUME NEW tasks \in [Handlers -> TaskStates], \A k \in Handlers : Proper(tasks[k]),
         NEW names, DisconnectIfIdle(names, tasks)
  PROVE  /\ task' \in [Handlers -> TaskStates]
         /\ \A k \in Handlers : Like(tasks[k], task'[k]) /\ Proper(task'[k])
         /\ established' \subseteq established
         /\ \A c \in names \ {Nowhere} : ~IsNeeded(c, task', openTabs') =>
              c \notin established' /\ \A k \in Handlers : task'[k].at = "listing" /\ task'[k].on = c =>
              task'[k].old
         /\ \A c : c \notin names => (c \in established' <=> c \in established)
  <1> DEFINE idle == {c \in names \ {Nowhere} : ~IsNeeded(c, tasks, openTabs')}
             Told(k) == IF tasks[k].at = "listing" /\ tasks[k].on \in idle
                        THEN [tasks[k] EXCEPT !.old = TRUE] ELSE tasks[k]
  <1>1. established' = established \ idle /\ task' = [k \in Handlers |-> Told(k)]
    BY DEF DisconnectIfIdle
  <1>2. ASSUME NEW k \in Handlers
        PROVE Like(tasks[k], Told(k)) /\ Proper(Told(k))
    <2>1. Like(tasks[k], Told(k))
      BY DEF Like
    <2> QED
      BY <2>1, LikeKeeps
  <1>3. task' \in [Handlers -> TaskStates]
    BY <1>1, <1>2 DEF Proper
  <1>4. \A k \in Handlers : task'[k] = Told(k)
    BY <1>1
  <1>5. ASSUME NEW k \in Handlers
        PROVE  /\ task'[k].at = tasks[k].at /\ task'[k].on = tasks[k].on
               /\ \A c : OccupiesConnection(task'[k], c) <=> OccupiesConnection(tasks[k], c)
    <2>1. Like(tasks[k], task'[k])
      BY <1>2, <1>4
    <2> QED
      BY <2>1, LikeKeeps
  <1>6. \A c : IsNeeded(c, task', openTabs') <=> IsNeeded(c, tasks, openTabs')
    BY <1>5 DEF IsNeeded
  <1>7. ASSUME NEW k \in Handlers, tasks[k].at = "listing", tasks[k].on \in idle PROVE task'[k].old
    BY <1>4, <1>7 DEF Proper, TaskStates
  <1>8. \A k \in Handlers : task'[k].at = tasks[k].at /\ task'[k].on = tasks[k].on
    BY <1>5
  <1> HIDE DEF Told
  <1>9. ASSUME NEW c \in names \ {Nowhere}, ~IsNeeded(c, task', openTabs')
        PROVE c \notin established' /\ \A k \in Handlers : task'[k].at = "listing" /\ task'[k].on = c =>
              task'[k].old
    BY <1>1, <1>6, <1>7, <1>8, <1>9
  <1> QED
    BY <1>1, <1>2, <1>3, <1>4, <1>9

LEMMA OneIdles ==
  ASSUME TasksProper, NEW h \in Handlers, NEW t, Proper(t), NEW names, DisconnectIfIdle(names, SetTask(h, t))
  PROVE  /\ TasksProper' /\ Moves(h, t)
         /\ established' \subseteq established
         /\ \A c \in names \ {Nowhere} : ~IsNeeded(c, task', openTabs') =>
              c \notin established' /\ \A k \in Handlers : task'[k].at = "listing" /\ task'[k].on = c =>
              task'[k].old
         /\ \A c : c \notin names => (c \in established' <=> c \in established)
  <1> DEFINE tasks == SetTask(h, t)
  <1>1. tasks \in [Handlers -> TaskStates] /\ tasks[h] = t /\ \A k \in Handlers \ {h} : tasks[k] = task[k]
    BY DEF TasksProper, SetTask, Proper
  <1>2. \A k \in Handlers : Proper(tasks[k])
    BY <1>1 DEF TasksProper
  <1> HIDE DEF tasks
  <1>3. DisconnectIfIdle(names, tasks)
    BY DEF tasks
  <1> QED
    BY <1>1, <1>2, <1>3, Disconnects DEF TasksProper, Moves

(* What is answered after a step.                                          *)
OthersAnswered(h) ==
  /\ replies' \subseteq Handlers
  /\ \A k \in Handlers \ {h} : Answered(k)' <=> Answered(k)
LEMMA QuietQueue ==
  ASSUME WbTyped, NEW h \in Handlers, UNCHANGED replies
  PROVE  OthersAnswered(h) /\ (Answered(h)' <=> Answered(h))
  BY DEF WbTyped, WbTypeOK, OthersAnswered, Answered
LEMMA ExecutesQueue ==
  ASSUME WbTyped, NEW h \in Handlers, NEW at, Executes(h, at)
  PROVE  OthersAnswered(h) /\ Answered(h)' /\ ~Answered(h) /\ task[h].at = at
  BY DEF WbTyped, WbTypeOK, OthersAnswered, Executes, Answered
LEMMA ReceivesQueue ==
  ASSUME WbTyped, NEW h \in Handlers, NEW at, Receives(h, at)
  PROVE  OthersAnswered(h) /\ ~Answered(h)' /\ Answered(h) /\ task[h].at \in at
  BY DEF WbTyped, WbTypeOK, OthersAnswered, Receives, Answered

LEMMA CallsStep ==
  ASSUME WbTyped, NEW h \in Handlers, NEW t, Proper(t), TasksProper', Moves(h, t), OthersAnswered(h),
         Answered(h)' => t.at \in Answerable /\ (t.at = "running" => t.to = Nowhere),
         ~Answered(h)' /\ t.at = "proving" => t.to # Nowhere
  PROVE  CallsAreAnswered'
  <1> SUFFICES ASSUME NEW k \in Handlers
               PROVE /\ Answered(k)' => task'[k].at \in Answerable
                     /\ Answered(k)' /\ task'[k].at = "running" => task'[k].to = Nowhere
                     /\ ~Answered(k)' /\ task'[k].at = "proving" => task'[k].to # Nowhere
    BY DEF CallsAreAnswered
  <1>1. CASE k = h
    <2>1. task'[h].at = t.at /\ task'[h].to = t.to
      BY LikeKeeps DEF Moves
    <2> QED
      BY <1>1, <2>1
  <1>2. CASE k # h
    <2>1. task'[k].at = task[k].at /\ task'[k].to = task[k].to
      BY <1>2, LikeKeeps DEF Moves, WbTyped, TasksProper
    <2> QED
      BY <1>2, <2>1 DEF OthersAnswered, WbTyped, CallsAreAnswered
  <1> QED
    BY <1>1, <1>2

LEMMA NoTaskSet ==
  ASSUME TasksProper, NEW h \in Handlers
  PROVE  /\ SetTask(h, task[h]) = task
         /\ \A t, u : [SetTask(h, t) EXCEPT ![h] = u] = SetTask(h, u)
  BY DEF TasksProper, SetTask

LEMMA EstablishedShrinks ==
  ASSUME NEW names, NEW tasks, DisconnectIfIdle(names, tasks)
  PROVE  established' \subseteq established
  BY DEF DisconnectIfIdle

LEMMA ResultTabSet ==
  ASSUME WbTypeOK, NEW c \in Names, NEW d \in Databases \cup {Nowhere}, NEW b \in BOOLEAN
  PROVE  /\ [resultTab EXCEPT ![c].db = d] \in [Names -> [db : Databases \cup {Nowhere}, batch : BOOLEAN]]
         /\ [resultTab EXCEPT ![c] = [db |-> d, batch |-> b]]
              \in [Names -> [db : Databases \cup {Nowhere}, batch : BOOLEAN]]
  BY DEF WbTypeOK

LEMMA NoTaskTyped == NoTask \in TaskStates /\ MaxBatch \in 0 .. MaxBatch
  BY NoTaskIsProper, NowhereIsApart DEF Proper

ActiveAfter(c) == IF override'[c] # Nowhere THEN override'[c] ELSE Configured

(* What becomes of the task of a step, and of the others.                  *)
New(t, at, kind, on, to) ==
  /\ t.at = at /\ t.kind = kind /\ t.on = on /\ t.to = to /\ t.db = Nowhere
  /\ t.ok /\ ~t.old /\ ~t.overtaken /\ ~t.stop
Ended(t) == New(t, "idle", "none", Nowhere, Nowhere)
Stays(t, u) ==
  /\ u.kind = t.kind /\ u.on = t.on /\ u.then = t.then
  /\ (u.old <=> t.old) /\ (u.overtaken <=> t.overtaken)
Told(t, u) ==
  /\ u.at = t.at /\ u.kind = t.kind /\ u.on = t.on /\ u.to = t.to /\ u.was = t.was /\ u.then = t.then
  /\ u.db = t.db /\ (u.ok <=> t.ok) /\ (u.overtaken <=> t.overtaken) /\ (u.stop <=> t.stop)
  /\ (t.old => u.old) /\ (t.at # "listing" => (u.old <=> t.old))
OthersTold(h) == \A k \in Handlers \ {h} : Told(task[k], task'[k])

LEMMA NoTaskEnded == Ended(NoTask)
  BY DEF Ended, New, NoTask
LEMMA LikeIsTold ==
  ASSUME NEW t, Proper(t), NEW u, Like(t, u) PROVE Told(t, u) /\ (t.at # "listing" => u = t)
  BY LikeKeeps DEF Told
LEMMA OthersAreTold ==
  ASSUME WbTyped, NEW h \in Handlers, NEW t, Moves(h, t) PROVE OthersTold(h)
  BY LikeIsTold DEF WbTyped, TasksProper, Moves, OthersTold

(* What every step of a handler says of the tasks and of the answers.      *)
Sets(h, t) == task' = SetTask(h, t) \/ \E names : DisconnectIfIdle(names, SetTask(h, t))
Moved(h, t) ==
  /\ TasksProper' /\ CallsAreAnswered' /\ OthersAnswered(h)
  /\ OthersTold(h) /\ Told(t, task'[h]) /\ (t.at # "listing" => task'[h] = t)

LEMMA QuietMove ==
  ASSUME WbTyped, NEW h \in Handlers, NEW t, Proper(t), Sets(h, t), UNCHANGED replies,
         task[h].at \notin Answerable \/ (task[h].at = "running" /\ task[h].to # Nowhere),
         t.at = "proving" => t.to # Nowhere
  PROVE  Moved(h, t) /\ ~Answered(h) /\ ~Answered(h)'
  <1>1. TasksProper' /\ Moves(h, t)
    BY OneTask, OneIdles DEF Sets, WbTyped
  <1>2. OthersAnswered(h) /\ ~Answered(h) /\ ~Answered(h)'
    BY QuietQueue DEF WbTyped, CallsAreAnswered
  <1> QED
    BY <1>1, <1>2, CallsStep, OthersAreTold, LikeIsTold DEF Moves, Moved
LEMMA KeptMove ==
  ASSUME WbTyped, NEW h \in Handlers, NEW t, Proper(t), Sets(h, t), UNCHANGED replies,
         t.at = task[h].at, t.to = task[h].to
  PROVE  Moved(h, t) /\ (Answered(h)' <=> Answered(h))
  <1>1. TasksProper' /\ Moves(h, t)
    BY OneTask, OneIdles DEF Sets, WbTyped
  <1>2. OthersAnswered(h) /\ (Answered(h)' <=> Answered(h))
    BY QuietQueue
  <1>3. CallsAreAnswered'
    BY <1>1, <1>2, CallsStep DEF WbTyped, CallsAreAnswered
  <1> QED
    BY <1>1, <1>2, <1>3, OthersAreTold, LikeIsTold DEF Moves, Moved
LEMMA ExecutedMove ==
  ASSUME WbTyped, NEW h \in Handlers, NEW t, Proper(t), Sets(h, t), NEW at, Executes(h, at),
         t.at \in Answerable, t.at = "running" => t.to = Nowhere
  PROVE  Moved(h, t) /\ ~Answered(h) /\ Answered(h)'
  <1>1. TasksProper' /\ Moves(h, t)
    BY OneTask, OneIdles DEF Sets, WbTyped
  <1>2. OthersAnswered(h) /\ ~Answered(h) /\ Answered(h)'
    BY ExecutesQueue
  <1> QED
    BY <1>1, <1>2, CallsStep, OthersAreTold, LikeIsTold DEF Moves, Moved
LEMMA ReceivedMove ==
  ASSUME WbTyped, NEW h \in Handlers, NEW t, Proper(t), Sets(h, t), NEW at, Receives(h, at),
         t.at # "proving"
  PROVE  Moved(h, t) /\ Answered(h) /\ ~Answered(h)'
  <1>1. TasksProper' /\ Moves(h, t)
    BY OneTask, OneIdles DEF Sets, WbTyped
  <1>2. OthersAnswered(h) /\ Answered(h) /\ ~Answered(h)'
    BY ReceivesQueue
  <1> QED
    BY <1>1, <1>2, CallsStep, OthersAreTold, LikeIsTold DEF Moves, Moved

LEMMA NoTaskIdle == NoTask.at \notin Answerable
  BY DEF NoTask, Answerable

----------------------------------------------------------------------------
(* What each action does                                                   *)

LEMMA ClickDoes ==
  ASSUME WbTyped, NEW h \in Handlers, NEW c \in Names, Click(h, c)
  PROVE  /\ WbTyped'
         /\ task[h] = NoTask
         /\ ~Answered(h) /\ ~Answered(h)'
         /\ OthersAnswered(h)
         /\ OthersTold(h)
         /\ \/ New(task'[h], "saving", "click", c, Nowhere) /\ task'[h].was = selected
            \/ New(task'[h], "context", "click", c, Nowhere) /\ task'[h].was = selected
         /\ UNCHANGED <<selected, schemaShown, openTabs, established, resultTab, exempt, override, replies>>
  <1>1. task[h] = NoTask /\ Proper(task[h])
    BY DEF Click, Starts, WbTyped, TasksProper
  <1>2. PICK t : /\ task' = SetTask(h, t)
                 /\ \/ t = SaveFirst([NoTask EXCEPT !.kind = "click", !.on = c, !.was = selected])
                    \/ t = LoadContext([NoTask EXCEPT !.kind = "click", !.on = c, !.was = selected])
    BY <1>1 DEF Click, SelectConnection
  <1>3. selected \in Names \cup {Nowhere} /\ task[h] \in TaskStates /\ WellFormed(task[h])
    BY <1>1 DEF Proper, WbTyped, WbTypeOK
  <1>4. Proper(t) /\ t.at # "proving"
    <2>1. CASE t = SaveFirst([NoTask EXCEPT !.kind = "click", !.on = c, !.was = selected])
      BY <1>1, <1>3, <2>1, NowhereIsApart DEF Proper, WellFormed, TaskStates, NoTask, Sendable, Statements,
         SaveFirst
    <2>2. CASE t = LoadContext([NoTask EXCEPT !.kind = "click", !.on = c, !.was = selected])
      BY <1>1, <1>3, <2>2, NowhereIsApart DEF Proper, WellFormed, TaskStates, NoTask, Sendable, Statements,
         LoadContext
    <2> QED
      BY <1>2, <2>1, <2>2
  <1>5. UNCHANGED <<selected, schemaShown, writable, openTabs, activeTab, movedBy, established, resultTab,
                    override, turnedOn, exempt, replies>>
    BY DEF Click, Starts, Acts, backendVars, SelectConnection, tabVars, moveVars, historyVars
  <1>6. Moved(h, t) /\ ~Answered(h) /\ ~Answered(h)'
    BY <1>1, <1>2, <1>4, <1>5, NoTaskIdle, QuietMove DEF Sets
  <1>7. WbTypeOK'
    <2>1. contextOf' \in Handlers \cup {Nowhere}
      BY <1>1, <1>3 DEF Click, Starts, Acts, backendVars, SelectConnection, tabVars, moveVars, historyVars,
         WbTyped, WbTypeOK
    <2>2. done' \in 0 .. MaxDone
      BY NowhereIsApart DEF Click, Starts, Acts, WbTyped, WbTypeOK
    <2> QED
      BY <1>5, <1>6, <2>1, <2>2 DEF Moved, OthersAnswered, TasksProper, WbTyped, WbTypeOK
  <1>8. \/ New(task'[h], "saving", "click", c, Nowhere) /\ task'[h].was = selected
        \/ New(task'[h], "context", "click", c, Nowhere) /\ task'[h].was = selected
    <2>1. CASE t = SaveFirst([NoTask EXCEPT !.kind = "click", !.on = c, !.was = selected])
      BY <2>1, <1>6 DEF Moved, New, NoTask, SaveFirst
    <2>2. CASE t = LoadContext([NoTask EXCEPT !.kind = "click", !.on = c, !.was = selected])
      BY <2>2, <1>6 DEF Moved, New, NoTask, LoadContext
    <2> QED
      BY <1>2, <2>1, <2>2
  <1> QED
    BY <1>1, <1>5, <1>6, <1>7, <1>8 DEF Moved, WbTyped

LEMMA SubmitCellEditsDoes ==
  ASSUME WbTyped, NEW h \in Handlers, NEW c \in Names, SubmitCellEdits(h, c)
  PROVE  /\ WbTyped'
         /\ task[h] = NoTask
         /\ ~Answered(h) /\ ~Answered(h)'
         /\ OthersAnswered(h)
         /\ OthersTold(h)
         /\ New(task'[h], "applying", "edits", c, Nowhere)
         /\ UNCHANGED <<selected, schemaShown, openTabs, contextOf, established, resultTab, exempt, override,
                        replies>>
  <1>1. task[h] = NoTask /\ Proper(task[h])
    BY DEF SubmitCellEdits, Starts, WbTyped, TasksProper
  <1>2. PICK t : /\ task' = SetTask(h, t)
                 /\ t = [NoTask EXCEPT !.at = "applying", !.kind = "edits", !.on = c]
    BY <1>1 DEF SubmitCellEdits
  <1>3. selected \in Names \cup {Nowhere} /\ task[h] \in TaskStates /\ WellFormed(task[h])
    BY <1>1 DEF Proper, WbTyped, WbTypeOK
  <1>4. Proper(t) /\ t.at # "proving"
    <2>1. CASE t = [NoTask EXCEPT !.at = "applying", !.kind = "edits", !.on = c]
      BY <1>1, <1>3, <2>1, NowhereIsApart DEF Proper, WellFormed, TaskStates, NoTask, Sendable, Statements
    <2> QED
      BY <1>2, <2>1
  <1>5. UNCHANGED <<selected, schemaShown, writable, openTabs, activeTab, contextOf, movedBy, established,
                    resultTab, override, turnedOn, exempt, replies>>
    BY DEF SubmitCellEdits, Starts, Acts, backendVars, tabVars, moveVars, historyVars
  <1>6. Moved(h, t) /\ ~Answered(h) /\ ~Answered(h)'
    BY <1>1, <1>2, <1>4, <1>5, NoTaskIdle, QuietMove DEF Sets
  <1>7. WbTypeOK'
    <2>1. done' \in 0 .. MaxDone
      BY NowhereIsApart DEF SubmitCellEdits, Starts, Acts, WbTyped, WbTypeOK
    <2> QED
      BY <1>5, <1>6, <2>1 DEF Moved, OthersAnswered, TasksProper, WbTyped, WbTypeOK
  <1>8. New(task'[h], "applying", "edits", c, Nowhere)
    <2>1. CASE t = [NoTask EXCEPT !.at = "applying", !.kind = "edits", !.on = c]
      BY <2>1, <1>6 DEF Moved, New, NoTask
    <2> QED
      BY <1>2, <2>1
  <1> QED
    BY <1>1, <1>5, <1>6, <1>7, <1>8 DEF Moved, WbTyped

LEMMA RerunDoes ==
  ASSUME WbTyped, NEW h \in Handlers, NEW c \in Names, NEW s \in Sendable, Rerun(h, c, s)
  PROVE  /\ WbTyped'
         /\ task[h] = NoTask
         /\ ~Answered(h) /\ ~Answered(h)'
         /\ OthersAnswered(h)
         /\ OthersTold(h)
         /\ New(task'[h], "checking", "rerun", c, s)
         /\ UNCHANGED <<selected, schemaShown, openTabs, contextOf, established, resultTab, exempt, override,
                        replies>>
  <1>1. task[h] = NoTask /\ Proper(task[h])
    BY DEF Rerun, Starts, WbTyped, TasksProper
  <1>2. PICK t : /\ task' = SetTask(h, t)
                 /\ t = [NoTask EXCEPT !.at = "checking", !.kind = "rerun", !.on = c, !.to = s]
    BY <1>1 DEF Rerun
  <1>3. selected \in Names \cup {Nowhere} /\ task[h] \in TaskStates /\ WellFormed(task[h])
    BY <1>1 DEF Proper, WbTyped, WbTypeOK
  <1>4. Proper(t) /\ t.at # "proving"
    <2>1. CASE t = [NoTask EXCEPT !.at = "checking", !.kind = "rerun", !.on = c, !.to = s]
      BY <1>1, <1>3, <2>1, NowhereIsApart DEF Proper, WellFormed, TaskStates, NoTask, Sendable, Statements
    <2> QED
      BY <1>2, <2>1
  <1>5. UNCHANGED <<selected, schemaShown, writable, openTabs, activeTab, contextOf, movedBy, established,
                    resultTab, override, turnedOn, exempt, replies>>
    BY DEF Rerun, Starts, Acts, backendVars, tabVars, moveVars, historyVars
  <1>6. Moved(h, t) /\ ~Answered(h) /\ ~Answered(h)'
    BY <1>1, <1>2, <1>4, <1>5, NoTaskIdle, QuietMove DEF Sets
  <1>7. WbTypeOK'
    <2>1. done' \in 0 .. MaxDone
      BY NowhereIsApart DEF Rerun, Starts, Acts, WbTyped, WbTypeOK
    <2> QED
      BY <1>5, <1>6, <2>1 DEF Moved, OthersAnswered, TasksProper, WbTyped, WbTypeOK
  <1>8. New(task'[h], "checking", "rerun", c, s)
    <2>1. CASE t = [NoTask EXCEPT !.at = "checking", !.kind = "rerun", !.on = c, !.to = s]
      BY <2>1, <1>6 DEF Moved, New, NoTask
    <2> QED
      BY <1>2, <2>1
  <1> QED
    BY <1>1, <1>5, <1>6, <1>7, <1>8 DEF Moved, WbTyped

LEMMA OpenFileDoes ==
  ASSUME WbTyped, NEW h \in Handlers, NEW e \in Editors, OpenFile(h, e)
  PROVE  /\ WbTyped'
         /\ task[h] = NoTask
         /\ ~Answered(h) /\ ~Answered(h)'
         /\ OthersAnswered(h)
         /\ OthersTold(h)
         /\ New(task'[h], "reading", "open", selected, e)
         /\ UNCHANGED <<selected, schemaShown, openTabs, contextOf, established, resultTab, exempt, override,
                        replies>>
  <1>1. task[h] = NoTask /\ Proper(task[h])
    BY DEF OpenFile, Starts, WbTyped, TasksProper
  <1>2. PICK t : /\ task' = SetTask(h, t)
                 /\ t = [NoTask EXCEPT !.at = "reading", !.kind = "open", !.on = selected, !.to = e]
    BY <1>1 DEF OpenFile, Editors, NameOf
  <1>3. selected \in Names /\ e \in Editors /\ NameOf(e) = selected
    BY NowhereIsApart DEF OpenFile, WbTyped, WbTypeOK, Editors, NameOf
  <1>4. Proper(t) /\ t.at # "proving"
    <2>1. CASE t = [NoTask EXCEPT !.at = "reading", !.kind = "open", !.on = selected, !.to = e]
      <3>0. task[h].on \in Names \cup {Nowhere} /\ selected \in Names \cup {Nowhere}
        BY <1>1 DEF Proper, TaskStates, WbTyped, WbTypeOK, EffectiveWritable, Sendable
      <3>1. t \in TaskStates
        BY <3>0, <1>3, <2>1, NowhereIsApart, NoTaskTyped DEF TaskStates
      <3>2. t.at = "reading" /\ t.kind = "open" /\ t.on = selected /\ t.to = e /\ t.then = Nowhere /\ t.left = 0 /\
            t.old = FALSE
        BY <2>1 DEF NoTask
      <3>3. task[h].on \in Names \cup {Nowhere}
        BY <1>1 DEF Proper, TaskStates
      <3> QED
        BY <1>1, <1>3, <2>1, NowhereIsApart, <3>1, <3>2, <3>3 DEF Proper, WellFormed, Sendable
    <2> QED
      BY <1>2, <2>1
  <1>5. UNCHANGED <<selected, schemaShown, writable, openTabs, activeTab, contextOf, established, resultTab,
                    override, turnedOn, exempt, replies>>
    BY DEF OpenFile, Starts, Acts, backendVars, Editors, NameOf, tabVars, moveVars, historyVars
  <1>6. Moved(h, t) /\ ~Answered(h) /\ ~Answered(h)'
    BY <1>1, <1>2, <1>4, <1>5, NoTaskIdle, QuietMove DEF Sets
  <1>7. WbTypeOK'
    <2>1. movedBy' \in Handlers \cup {Nowhere}
      BY <1>1, <1>3 DEF OpenFile, Starts, Acts, backendVars, Editors, NameOf, tabVars, moveVars, historyVars,
         WbTyped, WbTypeOK
    <2>2. done' \in 0 .. MaxDone
      BY NowhereIsApart DEF OpenFile, Starts, Acts, WbTyped, WbTypeOK
    <2> QED
      BY <1>5, <1>6, <2>1, <2>2 DEF Moved, OthersAnswered, TasksProper, WbTyped, WbTypeOK
  <1>8. New(task'[h], "reading", "open", selected, e)
    <2>1. CASE t = [NoTask EXCEPT !.at = "reading", !.kind = "open", !.on = selected, !.to = e]
      BY <2>1, <1>6 DEF Moved, New, NoTask
    <2> QED
      BY <1>2, <2>1
  <1> QED
    BY <1>1, <1>5, <1>6, <1>7, <1>8 DEF Moved, WbTyped

LEMMA ChangeSchemaDoes ==
  ASSUME WbTyped, NEW h \in Handlers, NEW s \in Databases, ChangeSchema(h, s)
  PROVE  /\ WbTyped'
         /\ task[h] = NoTask
         /\ ~Answered(h) /\ ~Answered(h)'
         /\ OthersAnswered(h)
         /\ OthersTold(h)
         /\ New(task'[h], "stopping", "change", selected, s)
         /\ UNCHANGED <<selected, schemaShown, openTabs, contextOf, established, resultTab, exempt, override,
                        replies>>
  <1>1. task[h] = NoTask /\ Proper(task[h])
    BY DEF ChangeSchema, Starts, WbTyped, TasksProper
  <1>2. PICK t : /\ task' = SetTask(h, t)
                 /\ t = [NoTask EXCEPT !.at = "stopping", !.kind = "change", !.on = selected, !.to = s]
    BY <1>1 DEF ChangeSchema
  <1>3. selected \in Names
    BY NowhereIsApart DEF ChangeSchema, WbTyped, WbTypeOK
  <1>4. Proper(t) /\ t.at # "proving"
    <2>1. CASE t = [NoTask EXCEPT !.at = "stopping", !.kind = "change", !.on = selected, !.to = s]
      BY <1>1, <1>3, <2>1, NowhereIsApart DEF Proper, WellFormed, TaskStates, NoTask, Sendable, Statements
    <2> QED
      BY <1>2, <2>1
  <1>5. UNCHANGED <<selected, schemaShown, writable, openTabs, activeTab, contextOf, movedBy, established,
                    resultTab, override, turnedOn, exempt, replies>>
    BY DEF ChangeSchema, Starts, Acts, backendVars, tabVars, moveVars, historyVars
  <1>6. Moved(h, t) /\ ~Answered(h) /\ ~Answered(h)'
    BY <1>1, <1>2, <1>4, <1>5, NoTaskIdle, QuietMove DEF Sets
  <1>7. WbTypeOK'
    <2>1. done' \in 0 .. MaxDone
      BY NowhereIsApart DEF ChangeSchema, Starts, Acts, WbTyped, WbTypeOK
    <2> QED
      BY <1>5, <1>6, <2>1 DEF Moved, OthersAnswered, TasksProper, WbTyped, WbTypeOK
  <1>8. New(task'[h], "stopping", "change", selected, s)
    <2>1. CASE t = [NoTask EXCEPT !.at = "stopping", !.kind = "change", !.on = selected, !.to = s]
      BY <2>1, <1>6 DEF Moved, New, NoTask
    <2> QED
      BY <1>2, <2>1
  <1> QED
    BY <1>1, <1>5, <1>6, <1>7, <1>8 DEF Moved, WbTyped

LEMMA RunDoes ==
  ASSUME WbTyped, NEW h \in Handlers, NEW s \in Sendable, Run(h, s)
  PROVE  /\ WbTyped'
         /\ task[h] = NoTask
         /\ ~Answered(h) /\ ~Answered(h)'
         /\ OthersAnswered(h)
         /\ OthersTold(h)
         /\ New(task'[h], "confirming", "run", selected, s)
         /\ UNCHANGED <<selected, schemaShown, openTabs, contextOf, established, resultTab, exempt, override,
                        replies>>
  <1>1. task[h] = NoTask /\ Proper(task[h])
    BY DEF Run, Starts, WbTyped, TasksProper
  <1>2. PICK t : /\ task' = SetTask(h, t)
                 /\ t = [NoTask EXCEPT !.at = "confirming", !.kind = "run", !.on = selected, !.to = s]
    BY <1>1 DEF Run
  <1>3. selected \in Names
    BY NowhereIsApart DEF Run, WbTyped, WbTypeOK
  <1>4. Proper(t) /\ t.at # "proving"
    <2>1. CASE t = [NoTask EXCEPT !.at = "confirming", !.kind = "run", !.on = selected, !.to = s]
      <3>0. task[h].on \in Names \cup {Nowhere} /\ selected \in Names \cup {Nowhere} /\
            s \in Databases \cup {Nowhere}
        BY <1>1 DEF Proper, TaskStates, WbTyped, WbTypeOK, EffectiveWritable, Sendable
      <3>1. t \in TaskStates
        BY <3>0, <1>3, <2>1, NowhereIsApart, NoTaskTyped DEF TaskStates
      <3>2. t.at = "confirming" /\ t.kind = "run" /\ t.on = selected /\ t.to = s /\ t.then = Nowhere /\
            t.left = 0 /\ t.old = FALSE
        BY <2>1 DEF NoTask
      <3>3. task[h].on \in Names \cup {Nowhere}
        BY <1>1 DEF Proper, TaskStates
      <3> QED
        BY <1>1, <1>3, <2>1, NowhereIsApart, <3>1, <3>2, <3>3 DEF Proper, WellFormed, Sendable
    <2> QED
      BY <1>2, <2>1
  <1>5. UNCHANGED <<selected, schemaShown, writable, openTabs, activeTab, contextOf, movedBy, established,
                    resultTab, override, turnedOn, exempt, replies>>
    BY DEF Run, Starts, Acts, backendVars, tabVars, moveVars, historyVars
  <1>6. Moved(h, t) /\ ~Answered(h) /\ ~Answered(h)'
    BY <1>1, <1>2, <1>4, <1>5, NoTaskIdle, QuietMove DEF Sets
  <1>7. WbTypeOK'
    <2>1. done' \in 0 .. MaxDone
      BY NowhereIsApart DEF Run, Starts, Acts, WbTyped, WbTypeOK
    <2> QED
      BY <1>5, <1>6, <2>1 DEF Moved, OthersAnswered, TasksProper, WbTyped, WbTypeOK
  <1>8. New(task'[h], "confirming", "run", selected, s)
    <2>1. CASE t = [NoTask EXCEPT !.at = "confirming", !.kind = "run", !.on = selected, !.to = s]
      BY <2>1, <1>6 DEF Moved, New, NoTask
    <2> QED
      BY <1>2, <2>1
  <1> QED
    BY <1>1, <1>5, <1>6, <1>7, <1>8 DEF Moved, WbTyped

LEMMA BrowseDoes ==
  ASSUME WbTyped, NEW h \in Handlers, Browse(h)
  PROVE  /\ WbTyped'
         /\ task[h] = NoTask
         /\ ~Answered(h) /\ ~Answered(h)'
         /\ OthersAnswered(h)
         /\ OthersTold(h)
         /\ New(task'[h], "listing", "ensure", selected, Nowhere)
         /\ UNCHANGED <<selected, schemaShown, openTabs, contextOf, established, resultTab, exempt, override,
                        replies>>
  <1>1. task[h] = NoTask /\ Proper(task[h])
    BY DEF Browse, Starts, WbTyped, TasksProper
  <1>2. PICK t : /\ task' = SetTask(h, t)
                 /\ t = [NoTask EXCEPT !.at = "listing", !.kind = "ensure", !.on = selected]
    BY <1>1 DEF Browse, ListSchemasOf
  <1>3. selected \in Names
    BY NowhereIsApart DEF Browse, WbTyped, WbTypeOK
  <1>4. Proper(t) /\ t.at # "proving"
    <2>1. CASE t = [NoTask EXCEPT !.at = "listing", !.kind = "ensure", !.on = selected]
      BY <1>1, <1>3, <2>1, NowhereIsApart DEF Proper, WellFormed, TaskStates, NoTask, Sendable, Statements
    <2> QED
      BY <1>2, <2>1
  <1>5. UNCHANGED <<selected, schemaShown, writable, openTabs, activeTab, contextOf, movedBy, established,
                    resultTab, override, turnedOn, exempt, replies>>
    BY DEF Browse, Starts, Acts, backendVars, ListSchemasOf, tabVars, moveVars, historyVars
  <1>6. Moved(h, t) /\ ~Answered(h) /\ ~Answered(h)'
    BY <1>1, <1>2, <1>4, <1>5, NoTaskIdle, QuietMove DEF Sets
  <1>7. WbTypeOK'
    <2>1. done' \in 0 .. MaxDone
      BY NowhereIsApart DEF Browse, Starts, Acts, WbTyped, WbTypeOK
    <2> QED
      BY <1>5, <1>6, <2>1 DEF Moved, OthersAnswered, TasksProper, WbTyped, WbTypeOK
  <1>8. New(task'[h], "listing", "ensure", selected, Nowhere)
    <2>1. CASE t = [NoTask EXCEPT !.at = "listing", !.kind = "ensure", !.on = selected]
      <3>1. task'[h] = t
        BY <1>2, <1>4, OneTask DEF WbTyped
      <3> QED
        BY <2>1, <3>1 DEF New, NoTask
    <2> QED
      BY <1>2, <2>1
  <1> QED
    BY <1>1, <1>5, <1>6, <1>7, <1>8 DEF Moved, WbTyped

LEMMA RunBatchDoes ==
  ASSUME WbTyped, NEW h \in Handlers, RunBatch(h)
  PROVE  /\ WbTyped'
         /\ task[h] = NoTask
         /\ ~Answered(h) /\ ~Answered(h)'
         /\ OthersAnswered(h)
         /\ OthersTold(h)
         /\ New(task'[h], "confirming", "batch", selected, Nowhere)
         /\ UNCHANGED <<selected, schemaShown, openTabs, contextOf, established, resultTab, exempt, override,
                        replies>>
  <1>1. task[h] = NoTask /\ Proper(task[h])
    BY DEF RunBatch, Starts, WbTyped, TasksProper
  <1>2. PICK t : /\ task' = SetTask(h, t)
                 /\ t = [NoTask EXCEPT !.at = "confirming", !.kind = "batch", !.on = selected]
    BY <1>1 DEF RunBatch
  <1>3. selected \in Names
    BY NowhereIsApart DEF RunBatch, WbTyped, WbTypeOK
  <1>4. Proper(t) /\ t.at # "proving"
    <2>1. CASE t = [NoTask EXCEPT !.at = "confirming", !.kind = "batch", !.on = selected]
      BY <1>1, <1>3, <2>1, NowhereIsApart DEF Proper, WellFormed, TaskStates, NoTask, Sendable, Statements
    <2> QED
      BY <1>2, <2>1
  <1>5. UNCHANGED <<selected, schemaShown, writable, openTabs, activeTab, contextOf, movedBy, established,
                    resultTab, override, turnedOn, exempt, replies>>
    BY DEF RunBatch, Starts, Acts, backendVars, tabVars, moveVars, historyVars
  <1>6. Moved(h, t) /\ ~Answered(h) /\ ~Answered(h)'
    BY <1>1, <1>2, <1>4, <1>5, NoTaskIdle, QuietMove DEF Sets
  <1>7. WbTypeOK'
    <2>1. done' \in 0 .. MaxDone
      BY NowhereIsApart DEF RunBatch, Starts, Acts, WbTyped, WbTypeOK
    <2> QED
      BY <1>5, <1>6, <2>1 DEF Moved, OthersAnswered, TasksProper, WbTyped, WbTypeOK
  <1>8. New(task'[h], "confirming", "batch", selected, Nowhere)
    <2>1. CASE t = [NoTask EXCEPT !.at = "confirming", !.kind = "batch", !.on = selected]
      BY <2>1, <1>6 DEF Moved, New, NoTask
    <2> QED
      BY <1>2, <2>1
  <1> QED
    BY <1>1, <1>5, <1>6, <1>7, <1>8 DEF Moved, WbTyped

LEMMA ReloadDoes ==
  ASSUME WbTyped, NEW h \in Handlers, Reload(h)
  PROVE  /\ WbTyped'
         /\ task[h] = NoTask
         /\ ~Answered(h) /\ ~Answered(h)'
         /\ OthersAnswered(h)
         /\ OthersTold(h)
         /\ New(task'[h], "saving", "reload", Nowhere, Nowhere)
         /\ UNCHANGED <<selected, schemaShown, openTabs, contextOf, established, resultTab, exempt, override,
                        replies>>
  <1>1. task[h] = NoTask /\ Proper(task[h])
    BY DEF Reload, Starts, WbTyped, TasksProper
  <1>2. PICK t : /\ task' = SetTask(h, t)
                 /\ t = [NoTask EXCEPT !.at = "saving", !.kind = "reload"]
    BY <1>1 DEF Reload
  <1>3. selected \in Names \cup {Nowhere} /\ task[h] \in TaskStates /\ WellFormed(task[h])
    BY <1>1 DEF Proper, WbTyped, WbTypeOK
  <1>4. Proper(t) /\ t.at # "proving"
    <2>1. CASE t = [NoTask EXCEPT !.at = "saving", !.kind = "reload"]
      BY <1>1, <1>3, <2>1, NowhereIsApart DEF Proper, WellFormed, TaskStates, NoTask, Sendable, Statements
    <2> QED
      BY <1>2, <2>1
  <1>5. UNCHANGED <<selected, schemaShown, writable, openTabs, activeTab, contextOf, movedBy, established,
                    resultTab, override, turnedOn, exempt, replies>>
    BY DEF Reload, Starts, Acts, backendVars, tabVars, moveVars, historyVars
  <1>6. Moved(h, t) /\ ~Answered(h) /\ ~Answered(h)'
    BY <1>1, <1>2, <1>4, <1>5, NoTaskIdle, QuietMove DEF Sets
  <1>7. WbTypeOK'
    <2>1. done' \in 0 .. MaxDone
      BY NowhereIsApart DEF Reload, Starts, Acts, WbTyped, WbTypeOK
    <2> QED
      BY <1>5, <1>6, <2>1 DEF Moved, OthersAnswered, TasksProper, WbTyped, WbTypeOK
  <1>8. New(task'[h], "saving", "reload", Nowhere, Nowhere)
    <2>1. CASE t = [NoTask EXCEPT !.at = "saving", !.kind = "reload"]
      BY <2>1, <1>6 DEF Moved, New, NoTask
    <2> QED
      BY <1>2, <2>1
  <1> QED
    BY <1>1, <1>5, <1>6, <1>7, <1>8 DEF Moved, WbTyped

LEMMA ClickTabDoes ==
  ASSUME WbTyped, NEW h \in Handlers, NEW e \in Editors, ClickTab(h, e)
  PROVE  /\ WbTyped'
         /\ task[h] = NoTask
         /\ ~Answered(h) /\ ~Answered(h)'
         /\ OthersAnswered(h)
         /\ OthersTold(h)
         /\ \/ New(task'[h], "saving", "activate", NameOf(e), e) /\ task'[h].then = Nowhere
            \/ Ended(task'[h])
            \/ /\ New(task'[h], "context", "activate", NameOf(e), e) /\ task'[h].then = Nowhere
               /\ task'[h].was = selected
         /\ UNCHANGED <<selected, schemaShown, openTabs, resultTab, exempt, override, replies>>
  <1>1. task[h] = NoTask /\ Proper(task[h])
    BY DEF ClickTab, Starts, WbTyped, TasksProper
  <1>2. PICK t : /\ task' = SetTask(h, t) \/ \E names : DisconnectIfIdle(names, SetTask(h, t))
                 /\ \/ t = SaveFirst(ToTab(e, Nowhere))
                    \/ t = NoTask
                    \/ t = LoadContext([ToTab(e, Nowhere) EXCEPT !.was = selected])
    BY <1>1 DEF ClickTab, ActivateTab, ActivateHere, ActivateThere
  <1>3. selected \in Names \cup {Nowhere} /\ task[h] \in TaskStates /\ WellFormed(task[h])
    BY <1>1 DEF Proper, WbTyped, WbTypeOK
  <1>4. Proper(t) /\ t.at # "proving"
    <2>1. CASE t = SaveFirst(ToTab(e, Nowhere))
      <3>1. NameOf(e) \in Names
        BY DEF WbTyped, WbTypeOK, Editors, NameOf, CloseTab
      <3>3. e \in Editors /\ NameOf(e) \in Names /\ Nowhere \in Names \cup {Nowhere}
        BY <3>1 DEF WbTyped, WbTypeOK
      <3>0. selected \in Names \cup {Nowhere}
        BY DEF WbTyped, WbTypeOK
      <3>4. t \in TaskStates
        BY <3>0, <2>1, <3>3, NoTaskTyped DEF TaskStates, ToTab, SaveFirst
      <3>5. t.at = "saving" /\ t.kind = "activate" /\ t.on = NameOf(e) /\ t.to = e /\ t.then = Nowhere
        BY <2>1 DEF NoTask, ToTab, SaveFirst
      <3> QED
        BY <3>3, <3>4, <3>5 DEF Proper, WellFormed
    <2>2. CASE t = NoTask
      BY <2>2, NoTaskIsProper DEF NoTask
    <2>3. CASE t = LoadContext([ToTab(e, Nowhere) EXCEPT !.was = selected])
      <3>1. NameOf(e) \in Names
        BY DEF WbTyped, WbTypeOK, Editors, NameOf, CloseTab
      <3>3. e \in Editors /\ NameOf(e) \in Names /\ Nowhere \in Names \cup {Nowhere}
        BY <3>1 DEF WbTyped, WbTypeOK
      <3>0. selected \in Names \cup {Nowhere}
        BY DEF WbTyped, WbTypeOK
      <3>4. t \in TaskStates
        BY <3>0, <2>3, <3>3, NoTaskTyped DEF TaskStates, ToTab, LoadContext
      <3>5. t.at = "context" /\ t.kind = "activate" /\ t.on = NameOf(e) /\ t.to = e /\ t.then = Nowhere
        BY <2>3 DEF NoTask, ToTab, LoadContext
      <3> QED
        BY <3>3, <3>4, <3>5 DEF Proper, WellFormed
    <2> QED
      BY <1>2, <2>1, <2>2, <2>3
  <1>5. UNCHANGED <<selected, schemaShown, writable, openTabs, resultTab, override, turnedOn, exempt, replies>>
    BY DEF ClickTab, Starts, Acts, backendVars, ActivateTab, ActivateHere, ActivateThere, tabVars, moveVars,
       historyVars
  <1>6. Moved(h, t) /\ ~Answered(h) /\ ~Answered(h)'
    BY <1>1, <1>2, <1>4, <1>5, NoTaskIdle, QuietMove DEF Sets
  <1>7. WbTypeOK'
    <2>1. activeTab' \in Editors \cup {Nowhere} /\ contextOf' \in Handlers \cup {Nowhere} /\
          movedBy' \in Handlers \cup {Nowhere}
      BY <1>1, <1>3 DEF ClickTab, Starts, Acts, backendVars, ActivateTab, ActivateHere, ActivateThere, tabVars,
         moveVars, historyVars, WbTyped, WbTypeOK, ToTab
    <2>2. established' \subseteq Names
      BY <1>1, <1>3, EstablishedShrinks DEF ClickTab, Starts, Acts, backendVars, ActivateTab, ActivateHere,
         ActivateThere, tabVars, moveVars, historyVars, WbTyped, WbTypeOK
    <2>3. done' \in 0 .. MaxDone
      BY NowhereIsApart DEF ClickTab, Starts, Acts, WbTyped, WbTypeOK
    <2> QED
      BY <1>5, <1>6, <2>1, <2>2, <2>3 DEF Moved, OthersAnswered, TasksProper, WbTyped, WbTypeOK
  <1>8. \/ New(task'[h], "saving", "activate", NameOf(e), e) /\ task'[h].then = Nowhere
        \/ Ended(task'[h])
        \/ /\ New(task'[h], "context", "activate", NameOf(e), e) /\ task'[h].then = Nowhere
           /\ task'[h].was = selected
    <2>1. CASE t = SaveFirst(ToTab(e, Nowhere))
      BY <2>1, <1>6 DEF Moved, New, NoTask, SaveFirst, ToTab
    <2>2. CASE t = NoTask
      <3>1. t.at # "listing"
        BY <2>2 DEF NoTask
      <3>2. task'[h] = NoTask
        BY <2>2, <3>1, <1>6 DEF Moved
      <3> QED
        BY <2>2, <3>2, NoTaskEnded
    <2>3. CASE t = LoadContext([ToTab(e, Nowhere) EXCEPT !.was = selected])
      BY <2>3, <1>6 DEF Moved, New, NoTask, LoadContext, ToTab
    <2> QED
      BY <1>2, <2>1, <2>2, <2>3
  <1> QED
    BY <1>1, <1>5, <1>6, <1>7, <1>8 DEF Moved, WbTyped

LEMMA CloseTabDoes ==
  ASSUME WbTyped, NEW h \in Handlers, NEW e \in Editors, CloseTab(h, e)
  PROVE  /\ WbTyped'
         /\ task[h] = NoTask
         /\ ~Answered(h) /\ ~Answered(h)'
         /\ OthersAnswered(h)
         /\ OthersTold(h)
         /\ \/ Ended(task'[h])
            \/ \E n \in openTabs \ {e} : /\ New(task'[h], "saving", "activate", NameOf(n), n)
                                         /\ task'[h].then = NameOf(e)
            \/ \E n \in openTabs \ {e} : /\ New(task'[h], "context", "activate", NameOf(n), n)
                                         /\ task'[h].then = NameOf(e) /\ task'[h].was = selected
         /\ UNCHANGED <<selected, schemaShown, resultTab, exempt, override, replies>>
  <1>1. task[h] = NoTask /\ Proper(task[h])
    BY DEF CloseTab, Starts, WbTyped, TasksProper
  <1>0. task = SetTask(h, NoTask)
    BY <1>1, NoTaskSet DEF WbTyped
  <1>2. PICK t : /\ task' = SetTask(h, t) \/ \E names : DisconnectIfIdle(names, SetTask(h, t))
                 /\ \/ t = NoTask
                    \/ \E n \in openTabs \ {e} : t = SaveFirst(ToTab(n, NameOf(e)))
                    \/ \E n \in openTabs \ {e} : t = LoadContext([ToTab(n, NameOf(e)) EXCEPT !.was = selected])
    BY <1>1, <1>0 DEF CloseTab, ActivateTab, ActivateHere, ActivateThere, moveVars, WbTyped
  <1>3. selected \in Names \cup {Nowhere} /\ task[h] \in TaskStates /\ WellFormed(task[h])
    BY <1>1 DEF Proper, WbTyped, WbTypeOK
  <1>4. Proper(t) /\ t.at # "proving"
    <2>1. CASE t = NoTask
      BY <2>1, NoTaskIsProper DEF NoTask
    <2>2. CASE \E n \in openTabs \ {e} : t = SaveFirst(ToTab(n, NameOf(e)))
      <3>1. NameOf(e) \in Names /\ \A n \in openTabs : n \in Editors /\ NameOf(n) \in Names
        BY DEF WbTyped, WbTypeOK, Editors, NameOf, CloseTab
      <3>2. PICK n \in openTabs \ {e} : t = SaveFirst(ToTab(n, NameOf(e)))
        BY <2>2
      <3>3. n \in Editors /\ NameOf(n) \in Names /\ NameOf(e) \in Names \cup {Nowhere}
        BY <3>1, <3>2 DEF WbTyped, WbTypeOK
      <3>0. selected \in Names \cup {Nowhere}
        BY DEF WbTyped, WbTypeOK
      <3>4. t \in TaskStates
        BY <3>0, <3>2, <3>3, NoTaskTyped DEF TaskStates, ToTab, SaveFirst
      <3>5. t.at = "saving" /\ t.kind = "activate" /\ t.on = NameOf(n) /\ t.to = n /\ t.then = NameOf(e)
        BY <3>2 DEF NoTask, ToTab, SaveFirst
      <3> QED
        BY <3>3, <3>4, <3>5 DEF Proper, WellFormed
    <2>3. CASE \E n \in openTabs \ {e} : t = LoadContext([ToTab(n, NameOf(e)) EXCEPT !.was = selected])
      <3>1. NameOf(e) \in Names /\ \A n \in openTabs : n \in Editors /\ NameOf(n) \in Names
        BY DEF WbTyped, WbTypeOK, Editors, NameOf, CloseTab
      <3>2. PICK n \in openTabs \ {e} : t = LoadContext([ToTab(n, NameOf(e)) EXCEPT !.was = selected])
        BY <2>3
      <3>3. n \in Editors /\ NameOf(n) \in Names /\ NameOf(e) \in Names \cup {Nowhere}
        BY <3>1, <3>2 DEF WbTyped, WbTypeOK
      <3>0. selected \in Names \cup {Nowhere}
        BY DEF WbTyped, WbTypeOK
      <3>4. t \in TaskStates
        BY <3>0, <3>2, <3>3, NoTaskTyped DEF TaskStates, ToTab, LoadContext
      <3>5. t.at = "context" /\ t.kind = "activate" /\ t.on = NameOf(n) /\ t.to = n /\ t.then = NameOf(e)
        BY <3>2 DEF NoTask, ToTab, LoadContext
      <3> QED
        BY <3>3, <3>4, <3>5 DEF Proper, WellFormed
    <2> QED
      BY <1>2, <2>1, <2>2, <2>3
  <1>5. UNCHANGED <<selected, schemaShown, writable, resultTab, override, turnedOn, exempt, replies>>
    BY DEF CloseTab, Starts, Acts, backendVars, ActivateTab, ActivateHere, ActivateThere, moveVars, tabVars,
       historyVars
  <1>6. Moved(h, t) /\ ~Answered(h) /\ ~Answered(h)'
    BY <1>1, <1>2, <1>4, <1>5, NoTaskIdle, QuietMove DEF Sets
  <1>7. WbTypeOK'
    <2>1. openTabs' \subseteq Editors /\ activeTab' \in Editors \cup {Nowhere} /\
          contextOf' \in Handlers \cup {Nowhere} /\ movedBy' \in Handlers \cup {Nowhere}
      <3>1. \A n \in openTabs : n \in Editors
        BY DEF WbTyped, WbTypeOK
      <3>2. \A n : ToTab(n, NameOf(e)).to = n
        BY DEF ToTab, NoTask
      <3>3. openTabs' = openTabs \ {e} /\ openTabs \subseteq Editors /\
            {contextOf, movedBy} \subseteq Handlers \cup {Nowhere}
        BY DEF CloseTab, WbTyped, WbTypeOK
      <3>4. CASE \E n \in openTabs' : ActivateTab(h, ToTab(n, NameOf(e)), Nowhere)
        <4>1. PICK n \in openTabs' : ActivateTab(h, ToTab(n, NameOf(e)), Nowhere)
          BY <3>4
        <4>2. activeTab' \in {n, Nowhere, activeTab} /\ contextOf' \in {contextOf, h} /\ movedBy' = h
          BY <3>2, <4>1 DEF ActivateTab, ActivateHere, ActivateThere
        <4> QED
          BY <3>1, <3>3, <4>1, <4>2 DEF WbTyped, WbTypeOK
      <3>5. CASE activeTab' \in {Nowhere, activeTab} /\ UNCHANGED moveVars
        BY <3>3, <3>5 DEF moveVars, WbTyped, WbTypeOK
      <3> QED
        BY <3>4, <3>5 DEF CloseTab
    <2>2. established' \subseteq Names
      BY <1>1, <1>3, EstablishedShrinks DEF CloseTab, Starts, Acts, backendVars, ActivateTab, ActivateHere,
         ActivateThere, moveVars, tabVars, historyVars, WbTyped, WbTypeOK
    <2>3. done' \in 0 .. MaxDone
      BY NowhereIsApart DEF CloseTab, Starts, Acts, WbTyped, WbTypeOK
    <2> QED
      BY <1>5, <1>6, <2>1, <2>2, <2>3 DEF Moved, OthersAnswered, TasksProper, WbTyped, WbTypeOK
  <1>8. \/ Ended(task'[h])
        \/ \E n \in openTabs \ {e} : /\ New(task'[h], "saving", "activate", NameOf(n), n)
                                     /\ task'[h].then = NameOf(e)
        \/ \E n \in openTabs \ {e} : /\ New(task'[h], "context", "activate", NameOf(n), n)
                                     /\ task'[h].then = NameOf(e) /\ task'[h].was = selected
    <2>1. CASE t = NoTask
      <3>1. t.at # "listing"
        BY <2>1 DEF NoTask
      <3>2. task'[h] = NoTask
        BY <2>1, <3>1, <1>6 DEF Moved
      <3> QED
        BY <2>1, <3>2, NoTaskEnded
    <2>2. CASE \E n \in openTabs \ {e} : t = SaveFirst(ToTab(n, NameOf(e)))
      <3>1. PICK n \in openTabs \ {e} : t = SaveFirst(ToTab(n, NameOf(e)))
        BY <2>2
      <3>2. t.at # "listing" /\ New(t, "saving", "activate", NameOf(n), n) /\ t.then = NameOf(e)
        BY <3>1 DEF New, NoTask, SaveFirst, ToTab
      <3> QED
        BY <3>2, <1>6 DEF Moved
    <2>3. CASE \E n \in openTabs \ {e} : t = LoadContext([ToTab(n, NameOf(e)) EXCEPT !.was = selected])
      <3>1. PICK n \in openTabs \ {e} : t = LoadContext([ToTab(n, NameOf(e)) EXCEPT !.was = selected])
        BY <2>3
      <3>2. t.at # "listing" /\ New(t, "context", "activate", NameOf(n), n) /\ t.then = NameOf(e) /\
            t.was = selected
        BY <3>1 DEF New, NoTask, LoadContext, ToTab
      <3> QED
        BY <3>2, <1>6 DEF Moved
    <2> QED
      BY <1>2, <2>1, <2>2, <2>3
  <1> QED
    BY <1>1, <1>5, <1>6, <1>7, <1>8 DEF Moved, WbTyped

LEMMA CancelBatchDoes ==
  ASSUME WbTyped, NEW h \in Handlers, CancelBatch(h)
  PROVE  /\ WbTyped'
         /\ task[h].kind = "batch" /\ OccupiesConnection(task[h], task[h].on)
         /\ (Answered(h)' <=> Answered(h))
         /\ OthersAnswered(h)
         /\ OthersTold(h)
         /\ /\ Stays(task[h], task'[h]) /\ task'[h].at = task[h].at /\ task'[h].to = task[h].to
            /\ task'[h].was = task[h].was /\ task'[h].db = task[h].db /\ (task'[h].ok <=> task[h].ok)
            /\ task'[h].stop
         /\ UNCHANGED <<selected, schemaShown, openTabs, contextOf, established, resultTab, exempt, override,
                        replies>>
  <1>1. task[h].kind = "batch" /\ OccupiesConnection(task[h], task[h].on) /\ Proper(task[h])
    BY DEF CancelBatch, WbTyped, TasksProper
  <1>2. PICK t : /\ task' = SetTask(h, t)
                 /\ t = [task[h] EXCEPT !.stop = TRUE]
    BY <1>1 DEF CancelBatch
  <1>3. selected \in Names \cup {Nowhere} /\ task[h] \in TaskStates /\ WellFormed(task[h])
    BY <1>1 DEF Proper, WbTyped, WbTypeOK
  <1>4. Proper(t) /\ t.at = task[h].at /\ t.to = task[h].to
    <2>1. CASE t = [task[h] EXCEPT !.stop = TRUE]
      BY <1>1, <1>3, <2>1, NowhereIsApart DEF Proper, WellFormed, TaskStates, NoTask, Sendable, Statements,
         OccupiesConnection
    <2> QED
      BY <1>2, <2>1
  <1>5. UNCHANGED <<selected, schemaShown, writable, openTabs, activeTab, contextOf, movedBy, established,
                    resultTab, override, turnedOn, exempt, replies>>
    BY DEF CancelBatch, Acts, backendVars, tabVars, moveVars, historyVars
  <1>6. Moved(h, t) /\ (Answered(h)' <=> Answered(h))
    BY <1>1, <1>2, <1>4, <1>5, KeptMove DEF Sets
  <1>7. WbTypeOK'
    <2>1. done' \in 0 .. MaxDone
      BY NowhereIsApart DEF CancelBatch, Acts, WbTyped, WbTypeOK
    <2> QED
      BY <1>5, <1>6, <2>1 DEF Moved, OthersAnswered, TasksProper, WbTyped, WbTypeOK
  <1>8. /\ Stays(task[h], task'[h]) /\ task'[h].at = task[h].at /\ task'[h].to = task[h].to
        /\ task'[h].was = task[h].was /\ task'[h].db = task[h].db /\ (task'[h].ok <=> task[h].ok)
        /\ task'[h].stop
    <2>1. CASE t = [task[h] EXCEPT !.stop = TRUE]
      BY <2>1, <1>1, <1>6 DEF Moved, Proper, TaskStates, Stays, OccupiesConnection
    <2> QED
      BY <1>2, <2>1
  <1> QED
    BY <1>1, <1>5, <1>6, <1>7, <1>8 DEF Moved, WbTyped

LEMMA SaveEndsDoes ==
  ASSUME WbTyped, NEW h \in Handlers, SaveEnds(h)
  PROVE  /\ WbTyped'
         /\ task[h].at = "saving" /\ task[h].kind # "reload"
         /\ ~Answered(h) /\ ~Answered(h)'
         /\ OthersAnswered(h)
         /\ OthersTold(h)
         /\ \/ task[h].kind = "activate" /\ Ended(task'[h])
            \/ /\ task[h].kind = "activate" /\ Stays(task[h], task'[h]) /\ task'[h].at = "context"
               /\ task'[h].was = selected /\ task'[h].to = task[h].to /\ task'[h].db = task[h].db
               /\ (task'[h].ok <=> task[h].ok) /\ (task'[h].stop <=> task[h].stop)
            \/ /\ task[h].kind # "activate" /\ Stays(task[h], task'[h]) /\ task'[h].at = "context"
               /\ task'[h].to = task[h].to /\ task'[h].was = task[h].was /\ task'[h].db = task[h].db
               /\ (task'[h].ok <=> task[h].ok) /\ (task'[h].stop <=> task[h].stop)
         /\ UNCHANGED <<selected, schemaShown, openTabs, resultTab, override, replies>>
  <1>1. task[h].at = "saving" /\ task[h].kind # "reload" /\ Proper(task[h])
    BY DEF SaveEnds, GoesOn, WbTyped, TasksProper
  <1>2. PICK t : /\ task' = SetTask(h, t) \/ \E names : DisconnectIfIdle(names, SetTask(h, t))
                 /\ \/ task[h].kind = "activate" /\ t = NoTask
                    \/ task[h].kind = "activate" /\ t = LoadContext([task[h] EXCEPT !.was = selected])
                    \/ task[h].kind # "activate" /\ t = LoadContext(task[h])
    BY <1>1 DEF SaveEnds, ActivateHere, ActivateThere
  <1>3. selected \in Names \cup {Nowhere} /\ task[h] \in TaskStates /\ WellFormed(task[h])
    BY <1>1 DEF Proper, WbTyped, WbTypeOK
  <1>4. Proper(t) /\ t.at # "proving"
    <2>1. CASE task[h].kind = "activate" /\ t = NoTask
      BY <2>1, NoTaskIsProper DEF NoTask
    <2>2. CASE task[h].kind = "activate" /\ t = LoadContext([task[h] EXCEPT !.was = selected])
      BY <1>1, <1>3, <2>2, NowhereIsApart DEF Proper, WellFormed, TaskStates, NoTask, Sendable, Statements,
         LoadContext
    <2>3. CASE task[h].kind # "activate" /\ t = LoadContext(task[h])
      BY <1>1, <1>3, <2>3, NowhereIsApart DEF Proper, WellFormed, TaskStates, NoTask, Sendable, Statements,
         LoadContext
    <2> QED
      BY <1>2, <2>1, <2>2, <2>3
  <1>5. UNCHANGED <<selected, schemaShown, writable, openTabs, movedBy, resultTab, override, turnedOn, done,
                    replies>>
    BY DEF SaveEnds, GoesOn, backendVars, ActivateHere, ActivateThere, tabVars, moveVars, historyVars
  <1>6. Moved(h, t) /\ ~Answered(h) /\ ~Answered(h)'
    BY <1>1, <1>2, <1>4, <1>5, QuietMove DEF Sets, Answerable
  <1>7. WbTypeOK'
    <2>1. activeTab' \in Editors \cup {Nowhere} /\ contextOf' \in Handlers \cup {Nowhere}
      BY <1>1, <1>3 DEF SaveEnds, GoesOn, backendVars, ActivateHere, ActivateThere, tabVars, moveVars, historyVars,
         WbTyped, WbTypeOK, Proper, WellFormed
    <2>2. established' \subseteq Names
      BY <1>1, <1>3, EstablishedShrinks DEF SaveEnds, GoesOn, backendVars, ActivateHere, ActivateThere, tabVars,
         moveVars, historyVars, WbTyped, WbTypeOK
    <2>3. exempt' \in [unclosed : SUBSET Names, astray : SUBSET Names]
      BY <1>1, <1>3, NowhereIsApart DEF SaveEnds, GoesOn, backendVars, ActivateHere, ActivateThere, tabVars,
         moveVars, historyVars, WbTyped, WbTypeOK, Proper, WellFormed
    <2> QED
      BY <1>5, <1>6, <2>1, <2>2, <2>3 DEF Moved, OthersAnswered, TasksProper, WbTyped, WbTypeOK
  <1>8. \/ task[h].kind = "activate" /\ Ended(task'[h])
        \/ /\ task[h].kind = "activate" /\ Stays(task[h], task'[h]) /\ task'[h].at = "context"
           /\ task'[h].was = selected /\ task'[h].to = task[h].to /\ task'[h].db = task[h].db
           /\ (task'[h].ok <=> task[h].ok) /\ (task'[h].stop <=> task[h].stop)
        \/ /\ task[h].kind # "activate" /\ Stays(task[h], task'[h]) /\ task'[h].at = "context"
           /\ task'[h].to = task[h].to /\ task'[h].was = task[h].was /\ task'[h].db = task[h].db
           /\ (task'[h].ok <=> task[h].ok) /\ (task'[h].stop <=> task[h].stop)
    <2>1. CASE task[h].kind = "activate" /\ t = NoTask
      <3>1. t.at # "listing"
        BY <2>1 DEF NoTask
      <3>2. task'[h] = NoTask
        BY <2>1, <3>1, <1>6 DEF Moved
      <3> QED
        BY <2>1, <3>2, NoTaskEnded
    <2>2. CASE task[h].kind = "activate" /\ t = LoadContext([task[h] EXCEPT !.was = selected])
      BY <2>2, <1>1, <1>6 DEF Moved, Proper, TaskStates, Stays, LoadContext
    <2>3. CASE task[h].kind # "activate" /\ t = LoadContext(task[h])
      BY <2>3, <1>1, <1>6 DEF Moved, Proper, TaskStates, Stays, LoadContext
    <2> QED
      BY <1>2, <2>1, <2>2, <2>3
  <1> QED
    BY <1>1, <1>5, <1>6, <1>7, <1>8 DEF Moved, WbTyped

LEMMA NextStatementDoes ==
  ASSUME WbTyped, NEW h \in Handlers, NEW s \in Sendable, NextStatement(h, s)
  PROVE  /\ WbTyped'
         /\ task[h].at = "next"
         /\ ~Answered(h) /\ ~Answered(h)'
         /\ OthersAnswered(h)
         /\ OthersTold(h)
         /\ \/ Ended(task'[h])
            \/ /\ MayGoOn(task[h]) /\ Stays(task[h], task'[h]) /\ task'[h].at = "running" /\ task'[h].to = s
               /\ task'[h].was = task[h].was /\ task'[h].db = task[h].db /\ (task'[h].ok <=> task[h].ok)
               /\ (task'[h].stop <=> task[h].stop)
         /\ UNCHANGED <<selected, schemaShown, openTabs, contextOf, resultTab, exempt, override, replies>>
  <1>1. task[h].at = "next" /\ Proper(task[h])
    BY DEF NextStatement, GoesOn, WbTyped, TasksProper
  <1>2. PICK t : /\ task' = SetTask(h, t) \/ \E names : DisconnectIfIdle(names, SetTask(h, t))
                 /\ \/ t = NoTask
                    \/ MayGoOn(task[h]) /\ t = [task[h] EXCEPT !.at = "running", !.to = s, !.left = @ - 1]
    BY <1>1 DEF NextStatement, EndBatch
  <1>3. selected \in Names \cup {Nowhere} /\ task[h] \in TaskStates /\ WellFormed(task[h])
    BY <1>1 DEF Proper, WbTyped, WbTypeOK
  <1>4. Proper(t) /\ t.at # "proving"
    <2>1. CASE t = NoTask
      BY <2>1, NoTaskIsProper DEF NoTask
    <2>2. CASE MayGoOn(task[h]) /\ t = [task[h] EXCEPT !.at = "running", !.to = s, !.left = @ - 1]
      <3>1. t.left = task[h].left - 1 /\ t.left \in 0 .. MaxBatch
        BY <1>1, <1>3, <2>2, NowhereIsApart DEF Proper, WellFormed, TaskStates
      <3>2. t \in TaskStates
        BY <1>1, <1>3, <2>2, NowhereIsApart, <3>1 DEF Proper, TaskStates, Sendable
      <3>3. t.at = "running" /\ t.to = s /\ t.kind = task[h].kind /\ t.on = task[h].on /\ t.then = task[h].then
        BY <1>1, <2>2 DEF Proper, TaskStates
      <3> QED
        BY <1>1, <1>3, <2>2, NowhereIsApart, <3>2, <3>3 DEF Proper, WellFormed, Statements
    <2> QED
      BY <1>2, <2>1, <2>2
  <1>5. UNCHANGED <<selected, schemaShown, writable, openTabs, activeTab, contextOf, movedBy, resultTab, override,
                    turnedOn, exempt, done, replies>>
    BY DEF NextStatement, GoesOn, backendVars, EndBatch, tabVars, moveVars, historyVars
  <1>6. Moved(h, t) /\ ~Answered(h) /\ ~Answered(h)'
    BY <1>1, <1>2, <1>4, <1>5, QuietMove DEF Sets, Answerable
  <1>7. WbTypeOK'
    <2>1. established' \subseteq Names
      BY <1>1, <1>3, EstablishedShrinks DEF NextStatement, GoesOn, backendVars, EndBatch, tabVars, moveVars,
         historyVars, WbTyped, WbTypeOK
    <2> QED
      BY <1>5, <1>6, <2>1 DEF Moved, OthersAnswered, TasksProper, WbTyped, WbTypeOK
  <1>8. \/ Ended(task'[h])
        \/ /\ MayGoOn(task[h]) /\ Stays(task[h], task'[h]) /\ task'[h].at = "running" /\ task'[h].to = s
           /\ task'[h].was = task[h].was /\ task'[h].db = task[h].db /\ (task'[h].ok <=> task[h].ok)
           /\ (task'[h].stop <=> task[h].stop)
    <2>1. CASE t = NoTask
      <3>1. t.at # "listing"
        BY <2>1 DEF NoTask
      <3>2. task'[h] = NoTask
        BY <2>1, <3>1, <1>6 DEF Moved
      <3> QED
        BY <2>1, <3>2, NoTaskEnded
    <2>2. CASE MayGoOn(task[h]) /\ t = [task[h] EXCEPT !.at = "running", !.to = s, !.left = @ - 1]
      BY <2>2, <1>1, <1>6 DEF Moved, Proper, TaskStates, Stays
    <2> QED
      BY <1>2, <2>1, <2>2
  <1> QED
    BY <1>1, <1>5, <1>6, <1>7, <1>8 DEF Moved, WbTyped

LEMMA ReadActiveDoes ==
  ASSUME WbTyped, NEW h \in Handlers, ReadActive(h)
  PROVE  /\ WbTyped'
         /\ task[h].at \in {"context", "checking"}
         /\ ~Answered(h) /\ Answered(h)'
         /\ OthersAnswered(h)
         /\ OthersTold(h)
         /\ /\ Stays(task[h], task'[h]) /\ task'[h].db = ActiveOf(task[h].on) /\ task'[h].at = task[h].at
            /\ task'[h].to = task[h].to /\ task'[h].was = task[h].was /\ (task'[h].ok <=> task[h].ok)
            /\ (task'[h].stop <=> task[h].stop)
         /\ UNCHANGED <<selected, schemaShown, openTabs, contextOf, established, resultTab, override>>
  <1>1. task[h].at \in {"context", "checking"} /\ Proper(task[h])
    BY DEF ReadActive, Executes, WbTyped, TasksProper
  <1>2. PICK t : /\ task' = SetTask(h, t)
                 /\ t = [task[h] EXCEPT !.db = ActiveOf(task[h].on)]
    BY <1>1 DEF ReadActive, PageUnchanged, Astray
  <1>3. task[h].on \in Names /\ ActiveOf(task[h].on) \in Databases
    BY <1>1, NowhereIsApart DEF Proper, WellFormed, WbTyped, WbTypeOK, ActiveOf
  <1>4. Proper(t) /\ t.at \in Answerable /\ (t.at = "running" => t.to = Nowhere)
    <2>1. CASE t = [task[h] EXCEPT !.db = ActiveOf(task[h].on)]
      BY <1>1, <1>3, <2>1, NowhereIsApart DEF Proper, WellFormed, TaskStates, NoTask, Sendable, Statements,
         Answerable
    <2> QED
      BY <1>2, <2>1
  <1>5. UNCHANGED <<selected, schemaShown, writable, openTabs, activeTab, contextOf, movedBy, established,
                    resultTab, override, turnedOn, done>>
    BY DEF ReadActive, Executes, PageUnchanged, Astray, tabVars, moveVars, historyVars
  <1>6. Moved(h, t) /\ ~Answered(h) /\ Answered(h)'
    BY <1>1, <1>2, <1>4, <1>5, ExecutedMove DEF Sets, ReadActive
  <1>7. WbTypeOK'
    <2>1. exempt' \in [unclosed : SUBSET Names, astray : SUBSET Names]
      BY <1>1, <1>3, NowhereIsApart DEF ReadActive, Executes, PageUnchanged, Astray, tabVars, moveVars,
         historyVars, WbTyped, WbTypeOK, Proper, WellFormed
    <2> QED
      BY <1>5, <1>6, <2>1 DEF Moved, OthersAnswered, TasksProper, WbTyped, WbTypeOK
  <1>8. /\ Stays(task[h], task'[h]) /\ task'[h].db = ActiveOf(task[h].on) /\ task'[h].at = task[h].at
        /\ task'[h].to = task[h].to /\ task'[h].was = task[h].was /\ (task'[h].ok <=> task[h].ok)
        /\ (task'[h].stop <=> task[h].stop)
    <2>1. CASE t = [task[h] EXCEPT !.db = ActiveOf(task[h].on)]
      BY <2>1, <1>1, <1>6 DEF Moved, Proper, TaskStates, Stays
    <2> QED
      BY <1>2, <2>1
  <1> QED
    BY <1>1, <1>5, <1>6, <1>7, <1>8 DEF Moved, WbTyped

LEMMA OvertakenDoes ==
  ASSUME WbTyped, NEW h \in Handlers, Overtaken(h)
  PROVE  /\ WbTyped'
         /\ task[h].at = "context"
         /\ Answered(h) /\ ~Answered(h)'
         /\ OthersAnswered(h)
         /\ OthersTold(h)
         /\ Ended(task'[h])
         /\ UNCHANGED <<selected, schemaShown, openTabs, contextOf, resultTab, exempt, override>>
  <1>1. task[h].at = "context" /\ Proper(task[h])
    BY DEF Overtaken, Receives, WbTyped, TasksProper
  <1>2. PICK t : /\ task' = SetTask(h, t) \/ \E names : DisconnectIfIdle(names, SetTask(h, t))
                 /\ t = NoTask
    BY <1>1 DEF Overtaken
  <1>3. selected \in Names \cup {Nowhere} /\ task[h] \in TaskStates /\ WellFormed(task[h])
    BY <1>1 DEF Proper, WbTyped, WbTypeOK
  <1>4. Proper(t) /\ t.at # "proving"
    <2>1. CASE t = NoTask
      BY <2>1, NoTaskIsProper DEF NoTask
    <2> QED
      BY <1>2, <2>1
  <1>5. UNCHANGED <<selected, schemaShown, writable, openTabs, activeTab, contextOf, movedBy, resultTab, override,
                    turnedOn, exempt, done>>
    BY DEF Overtaken, Receives, tabVars, moveVars, historyVars
  <1>6. Moved(h, t) /\ Answered(h) /\ ~Answered(h)'
    BY <1>1, <1>2, <1>4, <1>5, ReceivedMove DEF Sets, Overtaken
  <1>7. WbTypeOK'
    <2>1. established' \subseteq Names
      BY <1>1, <1>3, EstablishedShrinks DEF Overtaken, Receives, tabVars, moveVars, historyVars, WbTyped, WbTypeOK
    <2> QED
      BY <1>5, <1>6, <2>1 DEF Moved, OthersAnswered, TasksProper, WbTyped, WbTypeOK
  <1>8. Ended(task'[h])
    <2>1. CASE t = NoTask
      <3>1. t.at # "listing"
        BY <2>1 DEF NoTask
      <3> QED
        BY <2>1, <3>1, <1>6, NoTaskEnded DEF Moved
    <2> QED
      BY <1>2, <2>1
  <1> QED
    BY <1>1, <1>5, <1>6, <1>7, <1>8 DEF Moved, WbTyped

LEMMA CommitContextDoes ==
  ASSUME WbTyped, NEW h \in Handlers, CommitContext(h)
  PROVE  /\ WbTyped'
         /\ task[h].at = "context"
         /\ Answered(h) /\ ~Answered(h)'
         /\ OthersAnswered(h)
         /\ OthersTold(h)
         /\ \/ Ended(task'[h])
            \/ task'[h].at = "listing" /\ task'[h].kind = "refetch" /\ task'[h].on = task[h].on
         /\ UNCHANGED <<openTabs, contextOf, resultTab, exempt, override>>
  <1>1. task[h].at = "context" /\ Proper(task[h])
    BY DEF CommitContext, Receives, WbTyped, TasksProper
  <1>2. PICK t : /\ task' = SetTask(h, t) \/ \E names : DisconnectIfIdle(names, SetTask(h, t))
                 /\ \/ t = NoTask
                    \/ t = [NoTask EXCEPT !.at = "listing", !.kind = "refetch", !.on = task[h].on]
    BY <1>1 DEF CommitContext, WritableAfter, TabToRestore
  <1>3. selected \in Names \cup {Nowhere} /\ task[h] \in TaskStates /\ WellFormed(task[h])
    BY <1>1 DEF Proper, WbTyped, WbTypeOK
  <1>4. Proper(t) /\ t.at # "proving"
    <2>1. CASE t = NoTask
      BY <2>1, NoTaskIsProper DEF NoTask
    <2>2. CASE t = [NoTask EXCEPT !.at = "listing", !.kind = "refetch", !.on = task[h].on]
      <3>0. task[h].on \in Names \cup {Nowhere} /\ selected \in Names \cup {Nowhere}
        BY <1>1 DEF Proper, TaskStates, WbTyped, WbTypeOK, EffectiveWritable, Sendable
      <3>1. t \in TaskStates
        BY <3>0, <1>3, <2>2, NowhereIsApart, NoTaskTyped DEF TaskStates
      <3>2. t.at = "listing" /\ t.kind = "refetch" /\ t.on = task[h].on /\ t.to = Nowhere /\ t.then = Nowhere /\
            t.left = 0 /\ t.old = FALSE
        BY <2>2 DEF NoTask
      <3>3. task[h].on \in Names \cup {Nowhere}
        BY <1>1 DEF Proper, TaskStates
      <3> QED
        BY <1>1, <1>3, <2>2, NowhereIsApart, <3>1, <3>2, <3>3 DEF Proper, WellFormed, Sendable
    <2> QED
      BY <1>2, <2>1, <2>2
  <1>5. UNCHANGED <<openTabs, contextOf, movedBy, resultTab, override, turnedOn, exempt, done>>
    BY DEF CommitContext, Receives, WritableAfter, TabToRestore, tabVars, moveVars, historyVars
  <1>6. Moved(h, t) /\ Answered(h) /\ ~Answered(h)'
    BY <1>1, <1>2, <1>4, <1>5, ReceivedMove DEF Sets, CommitContext
  <1>7. WbTypeOK'
    <2>1. selected' \in Names \cup {Nowhere} /\ schemaShown' \in Databases \cup {Nowhere} /\ writable' \in BOOLEAN
      BY <1>3, <1>1, NowhereIsApart DEF CommitContext, Receives, WritableAfter, TabToRestore, tabVars, moveVars,
         historyVars, WbTyped, WbTypeOK, Proper, WellFormed, TaskStates, Sendable
    <2>2. activeTab' \in Editors \cup {Nowhere}
      BY <1>1, <1>3 DEF CommitContext, Receives, WritableAfter, TabToRestore, tabVars, moveVars, historyVars,
         WbTyped, WbTypeOK, Proper, WellFormed
    <2>3. established' \subseteq Names
      BY <1>1, <1>3, EstablishedShrinks DEF CommitContext, Receives, WritableAfter, TabToRestore, tabVars,
         moveVars, historyVars, WbTyped, WbTypeOK
    <2> QED
      BY <1>5, <1>6, <2>1, <2>2, <2>3 DEF Moved, OthersAnswered, TasksProper, WbTyped, WbTypeOK
  <1>8. \/ Ended(task'[h])
        \/ task'[h].at = "listing" /\ task'[h].kind = "refetch" /\ task'[h].on = task[h].on
    <2>1. CASE t = NoTask
      <3>1. t.at # "listing"
        BY <2>1 DEF NoTask
      <3>2. task'[h] = NoTask
        BY <2>1, <3>1, <1>6 DEF Moved
      <3> QED
        BY <2>1, <3>2, NoTaskEnded
    <2>2. CASE t = [NoTask EXCEPT !.at = "listing", !.kind = "refetch", !.on = task[h].on]
      BY <2>2, <1>6 DEF Moved, New, NoTask, Told
    <2> QED
      BY <1>2, <2>1, <2>2
  <1> QED
    BY <1>1, <1>5, <1>6, <1>7, <1>8 DEF Moved, WbTyped

LEMMA FileReadDoes ==
  ASSUME WbTyped, NEW h \in Handlers, FileRead(h)
  PROVE  /\ WbTyped'
         /\ task[h].at = "reading"
         /\ ~Answered(h) /\ ~Answered(h)'
         /\ OthersAnswered(h)
         /\ OthersTold(h)
         /\ \/ Ended(task'[h])
            \/ selected = task[h].on /\ New(task'[h], "listing", "ensure", task[h].on, Nowhere)
         /\ UNCHANGED <<selected, schemaShown, contextOf, established, resultTab, exempt, override, replies>>
  <1>1. task[h].at = "reading" /\ Proper(task[h])
    BY DEF FileRead, GoesOn, WbTyped, TasksProper
  <1>2. PICK t : /\ task' = SetTask(h, t)
                 /\ \/ t = NoTask
                    \/ selected = task[h].on /\
                       t = [NoTask EXCEPT !.at = "listing", !.kind = "ensure", !.on = task[h].on]
    BY <1>1 DEF FileRead, ListSchemasOf, Proper, WellFormed
  <1>3. selected \in Names \cup {Nowhere} /\ task[h] \in TaskStates /\ WellFormed(task[h])
    BY <1>1 DEF Proper, WbTyped, WbTypeOK
  <1>4. Proper(t) /\ t.at # "proving"
    <2>1. CASE t = NoTask
      BY <2>1, NoTaskIsProper DEF NoTask
    <2>2. CASE selected = task[h].on /\ t = [NoTask EXCEPT !.at = "listing", !.kind = "ensure", !.on = task[h].on]
      <3>0. task[h].on \in Names \cup {Nowhere} /\ selected \in Names \cup {Nowhere}
        BY <1>1 DEF Proper, TaskStates, WbTyped, WbTypeOK, EffectiveWritable, Sendable
      <3>1. t \in TaskStates
        BY <3>0, <1>3, <2>2, NowhereIsApart, NoTaskTyped DEF TaskStates
      <3>2. t.at = "listing" /\ t.kind = "ensure" /\ t.on = task[h].on /\ t.to = Nowhere /\ t.then = Nowhere /\
            t.left = 0 /\ t.old = FALSE
        BY <2>2 DEF NoTask
      <3>3. task[h].on \in Names \cup {Nowhere}
        BY <1>1 DEF Proper, TaskStates
      <3> QED
        BY <1>1, <1>3, <2>2, NowhereIsApart, <3>1, <3>2, <3>3 DEF Proper, WellFormed, Sendable
    <2> QED
      BY <1>2, <2>1, <2>2
  <1>5. UNCHANGED <<selected, schemaShown, writable, contextOf, movedBy, established, resultTab, override,
                    turnedOn, exempt, done, replies>>
    BY DEF FileRead, GoesOn, backendVars, ListSchemasOf, tabVars, moveVars, historyVars
  <1>6. Moved(h, t) /\ ~Answered(h) /\ ~Answered(h)'
    BY <1>1, <1>2, <1>4, <1>5, QuietMove DEF Sets, Answerable
  <1>7. WbTypeOK'
    <2>1. openTabs' \subseteq Editors /\ activeTab' \in Editors \cup {Nowhere}
      BY <1>1, <1>3 DEF FileRead, GoesOn, backendVars, ListSchemasOf, tabVars, moveVars, historyVars, WbTyped,
         WbTypeOK, Proper, WellFormed
    <2> QED
      BY <1>5, <1>6, <2>1 DEF Moved, OthersAnswered, TasksProper, WbTyped, WbTypeOK
  <1>8. \/ Ended(task'[h])
        \/ selected = task[h].on /\ New(task'[h], "listing", "ensure", task[h].on, Nowhere)
    <2>1. CASE t = NoTask
      <3>1. t.at # "listing"
        BY <2>1 DEF NoTask
      <3>2. task'[h] = NoTask
        BY <2>1, <3>1, <1>6 DEF Moved
      <3> QED
        BY <2>1, <3>2, NoTaskEnded
    <2>2. CASE selected = task[h].on /\ t = [NoTask EXCEPT !.at = "listing", !.kind = "ensure", !.on = task[h].on]
      <3>1. task'[h] = t
        BY <1>2, <1>4, OneTask DEF WbTyped
      <3> QED
        BY <2>2, <3>1 DEF New, NoTask
    <2> QED
      BY <1>2, <2>1, <2>2
  <1> QED
    BY <1>1, <1>5, <1>6, <1>7, <1>8 DEF Moved, WbTyped

LEMMA ListSchemasDoes ==
  ASSUME WbTyped, NEW h \in Handlers, ListSchemas(h)
  PROVE  /\ WbTyped'
         /\ task[h].at = "listing"
         /\ ~Answered(h) /\ Answered(h)'
         /\ OthersAnswered(h)
         /\ OthersTold(h)
         /\ /\ Stays(task[h], task'[h]) /\ task'[h].at = task[h].at /\ task'[h].to = task[h].to
            /\ task'[h].was = task[h].was /\ task'[h].db = task[h].db /\ (task'[h].stop <=> task[h].stop)
         /\ UNCHANGED <<selected, schemaShown, openTabs, contextOf, established, resultTab, exempt, override>>
  <1>1. task[h].at = "listing" /\ Proper(task[h])
    BY DEF ListSchemas, Executes, WbTyped, TasksProper
  <1>2. PICK t : /\ task' = SetTask(h, t)
                 /\ \E ok \in BOOLEAN : t = [task[h] EXCEPT !.ok = ok]
    BY <1>1 DEF ListSchemas, PageUnchanged
  <1>3. selected \in Names \cup {Nowhere} /\ task[h] \in TaskStates /\ WellFormed(task[h])
    BY <1>1 DEF Proper, WbTyped, WbTypeOK
  <1>4. Proper(t) /\ t.at \in Answerable /\ (t.at = "running" => t.to = Nowhere)
    <2>1. CASE \E ok \in BOOLEAN : t = [task[h] EXCEPT !.ok = ok]
      BY <1>1, <1>3, <2>1, NowhereIsApart DEF Proper, WellFormed, TaskStates, NoTask, Sendable, Statements,
         Answerable
    <2> QED
      BY <1>2, <2>1
  <1>5. UNCHANGED <<selected, schemaShown, writable, openTabs, activeTab, contextOf, movedBy, established,
                    resultTab, override, turnedOn, exempt, done>>
    BY DEF ListSchemas, Executes, PageUnchanged, tabVars, moveVars, historyVars
  <1>6. Moved(h, t) /\ ~Answered(h) /\ Answered(h)'
    BY <1>1, <1>2, <1>4, <1>5, ExecutedMove DEF Sets, ListSchemas
  <1>7. WbTypeOK'
    BY <1>5, <1>6 DEF Moved, OthersAnswered, TasksProper, WbTyped, WbTypeOK
  <1>8. /\ Stays(task[h], task'[h]) /\ task'[h].at = task[h].at /\ task'[h].to = task[h].to
        /\ task'[h].was = task[h].was /\ task'[h].db = task[h].db /\ (task'[h].stop <=> task[h].stop)
    <2>1. CASE \E ok \in BOOLEAN : t = [task[h] EXCEPT !.ok = ok]
      <3>1. task'[h] = t
        BY <1>2, <1>4, OneTask DEF WbTyped
      <3> QED
        BY <2>1, <1>1, <3>1 DEF Proper, TaskStates, Stays
    <2> QED
      BY <1>2, <2>1
  <1> QED
    BY <1>1, <1>5, <1>6, <1>7, <1>8 DEF Moved, WbTyped

LEMMA SchemasListedDoes ==
  ASSUME WbTyped, NEW h \in Handlers, SchemasListed(h)
  PROVE  /\ WbTyped'
         /\ task[h].at = "listing"
         /\ Answered(h) /\ ~Answered(h)'
         /\ OthersAnswered(h)
         /\ OthersTold(h)
         /\ Ended(task'[h])
         /\ UNCHANGED <<selected, schemaShown, openTabs, contextOf, resultTab, exempt, override>>
  <1>1. task[h].at = "listing" /\ Proper(task[h])
    BY DEF SchemasListed, Receives, WbTyped, TasksProper
  <1>2. PICK t : /\ task' = SetTask(h, t) \/ \E names : DisconnectIfIdle(names, SetTask(h, t))
                 /\ t = NoTask
    BY <1>1 DEF SchemasListed
  <1>3. selected \in Names \cup {Nowhere} /\ task[h] \in TaskStates /\ WellFormed(task[h])
    BY <1>1 DEF Proper, WbTyped, WbTypeOK
  <1>4. Proper(t) /\ t.at # "proving"
    <2>1. CASE t = NoTask
      BY <2>1, NoTaskIsProper DEF NoTask
    <2> QED
      BY <1>2, <2>1
  <1>5. UNCHANGED <<selected, schemaShown, writable, openTabs, activeTab, contextOf, movedBy, resultTab, override,
                    turnedOn, exempt, done>>
    BY DEF SchemasListed, Receives, tabVars, moveVars, historyVars
  <1>6. Moved(h, t) /\ Answered(h) /\ ~Answered(h)'
    BY <1>1, <1>2, <1>4, <1>5, ReceivedMove DEF Sets, SchemasListed
  <1>7. WbTypeOK'
    <2>1. established' \subseteq Names
      BY <1>1, <1>3, EstablishedShrinks DEF SchemasListed, Receives, tabVars, moveVars, historyVars, WbTyped,
         WbTypeOK, Proper, WellFormed
    <2> QED
      BY <1>5, <1>6, <2>1 DEF Moved, OthersAnswered, TasksProper, WbTyped, WbTypeOK
  <1>8. Ended(task'[h])
    <2>1. CASE t = NoTask
      <3>1. t.at # "listing"
        BY <2>1 DEF NoTask
      <3> QED
        BY <2>1, <3>1, <1>6, NoTaskEnded DEF Moved
    <2> QED
      BY <1>2, <2>1
  <1> QED
    BY <1>1, <1>5, <1>6, <1>7, <1>8 DEF Moved, WbTyped

LEMMA SendChangeDoes ==
  ASSUME WbTyped, NEW h \in Handlers, SendChange(h)
  PROVE  /\ WbTyped'
         /\ task[h].at = "stopping"
         /\ ~Answered(h) /\ ~Answered(h)'
         /\ OthersAnswered(h)
         /\ OthersTold(h)
         /\ \/ Ended(task'[h])
            \/ /\ ~IsBatchRunning(task[h].on) /\ Stays(task[h], task'[h]) /\ task'[h].at = "switching"
               /\ task'[h].to = task[h].to /\ task'[h].was = task[h].was /\ task'[h].db = task[h].db
               /\ (task'[h].ok <=> task[h].ok) /\ (task'[h].stop <=> task[h].stop)
         /\ UNCHANGED <<selected, schemaShown, openTabs, contextOf, established, resultTab, exempt, override,
                        replies>>
  <1>1. task[h].at = "stopping" /\ Proper(task[h])
    BY DEF SendChange, GoesOn, WbTyped, TasksProper
  <1>2. PICK t : /\ task' = SetTask(h, t)
                 /\ \/ t = NoTask
                    \/ ~IsBatchRunning(task[h].on) /\ t = [task[h] EXCEPT !.at = "switching"]
    BY <1>1 DEF SendChange
  <1>3. selected \in Names \cup {Nowhere} /\ task[h] \in TaskStates /\ WellFormed(task[h])
    BY <1>1 DEF Proper, WbTyped, WbTypeOK
  <1>4. Proper(t) /\ t.at # "proving"
    <2>1. CASE t = NoTask
      BY <2>1, NoTaskIsProper DEF NoTask
    <2>2. CASE ~IsBatchRunning(task[h].on) /\ t = [task[h] EXCEPT !.at = "switching"]
      BY <1>1, <1>3, <2>2, NowhereIsApart DEF Proper, WellFormed, TaskStates, NoTask, Sendable, Statements
    <2> QED
      BY <1>2, <2>1, <2>2
  <1>5. UNCHANGED <<selected, schemaShown, writable, openTabs, activeTab, contextOf, movedBy, established,
                    resultTab, override, turnedOn, exempt, done, replies>>
    BY DEF SendChange, GoesOn, backendVars, tabVars, moveVars, historyVars
  <1>6. Moved(h, t) /\ ~Answered(h) /\ ~Answered(h)'
    BY <1>1, <1>2, <1>4, <1>5, QuietMove DEF Sets, Answerable
  <1>7. WbTypeOK'
    BY <1>5, <1>6 DEF Moved, OthersAnswered, TasksProper, WbTyped, WbTypeOK
  <1>8. \/ Ended(task'[h])
        \/ /\ ~IsBatchRunning(task[h].on) /\ Stays(task[h], task'[h]) /\ task'[h].at = "switching"
           /\ task'[h].to = task[h].to /\ task'[h].was = task[h].was /\ task'[h].db = task[h].db
           /\ (task'[h].ok <=> task[h].ok) /\ (task'[h].stop <=> task[h].stop)
    <2>1. CASE t = NoTask
      <3>1. t.at # "listing"
        BY <2>1 DEF NoTask
      <3>2. task'[h] = NoTask
        BY <2>1, <3>1, <1>6 DEF Moved
      <3> QED
        BY <2>1, <3>2, NoTaskEnded
    <2>2. CASE ~IsBatchRunning(task[h].on) /\ t = [task[h] EXCEPT !.at = "switching"]
      BY <2>2, <1>1, <1>6 DEF Moved, Proper, TaskStates, Stays
    <2> QED
      BY <1>2, <2>1, <2>2
  <1> QED
    BY <1>1, <1>5, <1>6, <1>7, <1>8 DEF Moved, WbTyped

LEMMA SetActiveSchemaDoes ==
  ASSUME WbTyped, NEW h \in Handlers, SetActiveSchema(h)
  PROVE  /\ WbTyped'
         /\ task[h].at = "switching"
         /\ ~Answered(h) /\ Answered(h)'
         /\ OthersAnswered(h)
         /\ OthersTold(h)
         /\ \/ /\ override' = [override EXCEPT ![task[h].on] = task[h].to] /\ Stays(task[h], task'[h])
               /\ task'[h].at = task[h].at /\ task'[h].to = task[h].to /\ task'[h].was = task[h].was
               /\ task'[h].db = task[h].db /\ (task'[h].ok <=> task[h].ok) /\ (task'[h].stop <=> task[h].stop)
            \/ /\ UNCHANGED override /\ Stays(task[h], task'[h]) /\ task'[h].at = task[h].at
               /\ task'[h].to = task[h].to /\ task'[h].was = task[h].was /\ task'[h].db = task[h].db
               /\ ~task'[h].ok /\ (task'[h].stop <=> task[h].stop)
         /\ UNCHANGED <<selected, schemaShown, openTabs, contextOf, established, resultTab>>
  <1>1. task[h].at = "switching" /\ Proper(task[h])
    BY DEF SetActiveSchema, Executes, WbTyped, TasksProper
  <1>2. PICK t : /\ task' = SetTask(h, t)
                 /\ \/ override' = [override EXCEPT ![task[h].on] = task[h].to] /\ t = task[h]
                    \/ UNCHANGED override /\ t = [task[h] EXCEPT !.ok = FALSE]
    BY <1>1, NoTaskSet DEF SetActiveSchema, PageUnchanged, Astray, WbTyped
  <1>3. selected \in Names \cup {Nowhere} /\ task[h] \in TaskStates /\ WellFormed(task[h])
    BY <1>1 DEF Proper, WbTyped, WbTypeOK
  <1>4. Proper(t) /\ t.at \in Answerable /\ (t.at = "running" => t.to = Nowhere)
    <2>1. CASE override' = [override EXCEPT ![task[h].on] = task[h].to] /\ t = task[h]
      BY <1>1, <1>3, <2>1, NowhereIsApart DEF Proper, WellFormed, TaskStates, NoTask, Sendable, Statements,
         Answerable
    <2>2. CASE UNCHANGED override /\ t = [task[h] EXCEPT !.ok = FALSE]
      BY <1>1, <1>3, <2>2, NowhereIsApart DEF Proper, WellFormed, TaskStates, NoTask, Sendable, Statements,
         Answerable
    <2> QED
      BY <1>2, <2>1, <2>2
  <1>5. UNCHANGED <<selected, schemaShown, writable, openTabs, activeTab, contextOf, movedBy, established,
                    resultTab, turnedOn, done>>
    BY DEF SetActiveSchema, Executes, PageUnchanged, Astray, tabVars, moveVars, historyVars
  <1>6. Moved(h, t) /\ ~Answered(h) /\ Answered(h)'
    BY <1>1, <1>2, <1>4, <1>5, ExecutedMove DEF Sets, SetActiveSchema
  <1>7. WbTypeOK'
    <2>1. override' \in [Names -> Databases \cup {Nowhere}]
      BY <1>1, <1>3, NowhereIsApart DEF SetActiveSchema, Executes, PageUnchanged, Astray, tabVars, moveVars,
         historyVars, WbTyped, WbTypeOK, Proper, WellFormed, TaskStates, Sendable
    <2>2. exempt' \in [unclosed : SUBSET Names, astray : SUBSET Names]
      BY <1>1, <1>3, NowhereIsApart DEF SetActiveSchema, Executes, PageUnchanged, Astray, tabVars, moveVars,
         historyVars, WbTyped, WbTypeOK, Proper, WellFormed
    <2> QED
      BY <1>5, <1>6, <2>1, <2>2 DEF Moved, OthersAnswered, TasksProper, WbTyped, WbTypeOK
  <1>8. \/ /\ override' = [override EXCEPT ![task[h].on] = task[h].to] /\ Stays(task[h], task'[h])
           /\ task'[h].at = task[h].at /\ task'[h].to = task[h].to /\ task'[h].was = task[h].was
           /\ task'[h].db = task[h].db /\ (task'[h].ok <=> task[h].ok) /\ (task'[h].stop <=> task[h].stop)
        \/ /\ UNCHANGED override /\ Stays(task[h], task'[h]) /\ task'[h].at = task[h].at
           /\ task'[h].to = task[h].to /\ task'[h].was = task[h].was /\ task'[h].db = task[h].db
           /\ ~task'[h].ok /\ (task'[h].stop <=> task[h].stop)
    <2>1. CASE override' = [override EXCEPT ![task[h].on] = task[h].to] /\ t = task[h]
      BY <2>1, <1>1, <1>6 DEF Moved, Proper, TaskStates, Stays
    <2>2. CASE UNCHANGED override /\ t = [task[h] EXCEPT !.ok = FALSE]
      BY <2>2, <1>1, <1>6 DEF Moved, Proper, TaskStates, Stays
    <2> QED
      BY <1>2, <2>1, <2>2
  <1> QED
    BY <1>1, <1>5, <1>6, <1>7, <1>8 DEF Moved, WbTyped

LEMMA ActiveSchemaSetDoes ==
  ASSUME WbTyped, NEW h \in Handlers, ActiveSchemaSet(h)
  PROVE  /\ WbTyped'
         /\ task[h].at = "switching"
         /\ Answered(h) /\ ~Answered(h)'
         /\ OthersAnswered(h)
         /\ OthersTold(h)
         /\ Ended(task'[h])
         /\ UNCHANGED <<selected, openTabs, contextOf, established, resultTab, exempt, override>>
  <1>1. task[h].at = "switching" /\ Proper(task[h])
    BY DEF ActiveSchemaSet, Receives, WbTyped, TasksProper
  <1>2. PICK t : /\ task' = SetTask(h, t)
                 /\ t = NoTask
    BY <1>1 DEF ActiveSchemaSet, Show
  <1>3. selected \in Names \cup {Nowhere} /\ task[h] \in TaskStates /\ WellFormed(task[h])
    BY <1>1 DEF Proper, WbTyped, WbTypeOK
  <1>4. Proper(t) /\ t.at # "proving"
    <2>1. CASE t = NoTask
      BY <2>1, NoTaskIsProper DEF NoTask
    <2> QED
      BY <1>2, <2>1
  <1>5. UNCHANGED <<selected, writable, openTabs, activeTab, contextOf, movedBy, established, resultTab, override,
                    turnedOn, exempt, done>>
    BY DEF ActiveSchemaSet, Receives, Show, tabVars, moveVars, historyVars
  <1>6. Moved(h, t) /\ Answered(h) /\ ~Answered(h)'
    BY <1>1, <1>2, <1>4, <1>5, ReceivedMove DEF Sets, ActiveSchemaSet
  <1>7. WbTypeOK'
    <2>1. schemaShown' \in Databases \cup {Nowhere}
      BY <1>3, <1>1, NowhereIsApart DEF ActiveSchemaSet, Receives, Show, tabVars, moveVars, historyVars, WbTyped,
         WbTypeOK, Proper, WellFormed, TaskStates, Sendable
    <2> QED
      BY <1>5, <1>6, <2>1 DEF Moved, OthersAnswered, TasksProper, WbTyped, WbTypeOK
  <1>8. Ended(task'[h])
    <2>1. CASE t = NoTask
      <3>1. t.at # "listing"
        BY <2>1 DEF NoTask
      <3> QED
        BY <2>1, <3>1, <1>6, NoTaskEnded DEF Moved
    <2> QED
      BY <1>2, <2>1
  <1> QED
    BY <1>1, <1>5, <1>6, <1>7, <1>8 DEF Moved, WbTyped

LEMMA RunStatementDoes ==
  ASSUME WbTyped, NEW h \in Handlers, RunStatement(h)
  PROVE  /\ WbTyped'
         /\ task[h].at = "running" /\ task[h].to = Nowhere
         /\ ~Answered(h) /\ Answered(h)'
         /\ OthersAnswered(h)
         /\ OthersTold(h)
         /\ /\ Stays(task[h], task'[h]) /\ task'[h].db = ActiveOf(task[h].on) /\ task'[h].at = task[h].at
            /\ task'[h].to = task[h].to /\ task'[h].was = task[h].was /\ (task'[h].stop <=> task[h].stop)
         /\ UNCHANGED <<selected, schemaShown, openTabs, contextOf, established, resultTab, exempt, override>>
  <1>1. task[h].at = "running" /\ task[h].to = Nowhere /\ Proper(task[h])
    BY DEF RunStatement, Executes, WbTyped, TasksProper
  <1>2. PICK t : /\ task' = SetTask(h, t)
                 /\ \E ok \in BOOLEAN : t = [task[h] EXCEPT !.ok = ok, !.db = ActiveOf(task[h].on)]
    BY <1>1 DEF RunStatement, PageUnchanged
  <1>3. task[h].on \in Names /\ ActiveOf(task[h].on) \in Databases
    BY <1>1, NowhereIsApart DEF Proper, WellFormed, WbTyped, WbTypeOK, ActiveOf
  <1>4. Proper(t) /\ t.at \in Answerable /\ (t.at = "running" => t.to = Nowhere)
    <2>1. CASE \E ok \in BOOLEAN : t = [task[h] EXCEPT !.ok = ok, !.db = ActiveOf(task[h].on)]
      BY <1>1, <1>3, <2>1, NowhereIsApart DEF Proper, WellFormed, TaskStates, NoTask, Sendable, Statements,
         Answerable
    <2> QED
      BY <1>2, <2>1
  <1>5. UNCHANGED <<selected, schemaShown, writable, openTabs, activeTab, contextOf, movedBy, established,
                    resultTab, override, turnedOn, exempt, done>>
    BY DEF RunStatement, Executes, PageUnchanged, tabVars, moveVars, historyVars
  <1>6. Moved(h, t) /\ ~Answered(h) /\ Answered(h)'
    BY <1>1, <1>2, <1>4, <1>5, ExecutedMove DEF Sets, RunStatement
  <1>7. WbTypeOK'
    BY <1>5, <1>6 DEF Moved, OthersAnswered, TasksProper, WbTyped, WbTypeOK
  <1>8. /\ Stays(task[h], task'[h]) /\ task'[h].db = ActiveOf(task[h].on) /\ task'[h].at = task[h].at
        /\ task'[h].to = task[h].to /\ task'[h].was = task[h].was /\ (task'[h].stop <=> task[h].stop)
    <2>1. CASE \E ok \in BOOLEAN : t = [task[h] EXCEPT !.ok = ok, !.db = ActiveOf(task[h].on)]
      <3>1. PICK ok \in BOOLEAN : t = [task[h] EXCEPT !.ok = ok, !.db = ActiveOf(task[h].on)]
        BY <2>1
      <3>2. t.at # "listing" /\ Stays(task[h], t) /\ t.db = ActiveOf(task[h].on) /\ t.at = task[h].at /\
            t.to = task[h].to /\ t.was = task[h].was /\ (t.stop <=> task[h].stop)
        BY <1>1, <3>1 DEF Proper, TaskStates, Stays
      <3> QED
        BY <2>1, <3>2, <1>6 DEF Moved
    <2> QED
      BY <1>2, <2>1
  <1> QED
    BY <1>1, <1>5, <1>6, <1>7, <1>8 DEF Moved, WbTyped

LEMMA TryDatabaseDoes ==
  ASSUME WbTyped, NEW h \in Handlers, TryDatabase(h)
  PROVE  /\ WbTyped'
         /\ task[h].at = "running" /\ task[h].to # Nowhere
         /\ ~Answered(h) /\ ~Answered(h)'
         /\ OthersAnswered(h)
         /\ OthersTold(h)
         /\ /\ Stays(task[h], task'[h]) /\ task'[h].at = "proving" /\ task'[h].was = override[task[h].on]
            /\ task'[h].to = task[h].to /\ task'[h].db = task[h].db /\ (task'[h].ok <=> task[h].ok)
            /\ (task'[h].stop <=> task[h].stop)
         /\ UNCHANGED <<selected, schemaShown, openTabs, contextOf, established, resultTab, replies>>
  <1>1. task[h].at = "running" /\ task[h].to # Nowhere /\ Proper(task[h])
    BY DEF TryDatabase, WbTyped, TasksProper
  <1>2. PICK t : /\ task' = SetTask(h, t)
                 /\ t = [task[h] EXCEPT !.at = "proving", !.was = override[task[h].on]]
    BY <1>1 DEF TryDatabase, PageUnchanged, Astray
  <1>3. task[h].on \in Names /\ override[task[h].on] \in Databases \cup {Nowhere}
    BY <1>1 DEF Proper, WellFormed, WbTyped, WbTypeOK
  <1>4. Proper(t) /\ t.at = "proving" /\ t.to # Nowhere
    <2>1. CASE t = [task[h] EXCEPT !.at = "proving", !.was = override[task[h].on]]
      BY <1>1, <1>3, <2>1, NowhereIsApart DEF Proper, WellFormed, TaskStates, NoTask, Sendable, Statements
    <2> QED
      BY <1>2, <2>1
  <1>5. UNCHANGED <<selected, schemaShown, writable, openTabs, activeTab, contextOf, movedBy, established,
                    resultTab, turnedOn, done, replies>>
    BY DEF TryDatabase, PageUnchanged, Astray, tabVars, moveVars, historyVars
  <1>6. Moved(h, t) /\ ~Answered(h) /\ ~Answered(h)'
    BY <1>1, <1>2, <1>4, <1>5, QuietMove DEF Sets, Answerable
  <1>7. WbTypeOK'
    <2>1. override' \in [Names -> Databases \cup {Nowhere}]
      BY <1>1, <1>3, NowhereIsApart DEF TryDatabase, PageUnchanged, Astray, tabVars, moveVars, historyVars,
         WbTyped, WbTypeOK, Proper, WellFormed, TaskStates, Sendable
    <2>2. exempt' \in [unclosed : SUBSET Names, astray : SUBSET Names]
      BY <1>1, <1>3, NowhereIsApart DEF TryDatabase, PageUnchanged, Astray, tabVars, moveVars, historyVars,
         WbTyped, WbTypeOK, Proper, WellFormed
    <2> QED
      BY <1>5, <1>6, <2>1, <2>2 DEF Moved, OthersAnswered, TasksProper, WbTyped, WbTypeOK
  <1>8. /\ Stays(task[h], task'[h]) /\ task'[h].at = "proving" /\ task'[h].was = override[task[h].on]
        /\ task'[h].to = task[h].to /\ task'[h].db = task[h].db /\ (task'[h].ok <=> task[h].ok)
        /\ (task'[h].stop <=> task[h].stop)
    <2>1. CASE t = [task[h] EXCEPT !.at = "proving", !.was = override[task[h].on]]
      BY <2>1, <1>1, <1>6 DEF Moved, Proper, TaskStates, Stays
    <2> QED
      BY <1>2, <2>1
  <1> QED
    BY <1>1, <1>5, <1>6, <1>7, <1>8 DEF Moved, WbTyped

LEMMA ProvedDoes ==
  ASSUME WbTyped, NEW h \in Handlers, Proved(h)
  PROVE  /\ WbTyped'
         /\ task[h].at = "proving"
         /\ ~Answered(h) /\ Answered(h)'
         /\ OthersAnswered(h)
         /\ OthersTold(h)
         /\ /\ Stays(task[h], task'[h]) /\ task'[h].to = Reported(task[h]) /\ task'[h].db = ActiveOf(task[h].on)
            /\ task'[h].at = task[h].at /\ task'[h].was = task[h].was /\ (task'[h].ok <=> task[h].ok)
            /\ (task'[h].stop <=> task[h].stop)
         /\ UNCHANGED <<selected, schemaShown, openTabs, contextOf, established, resultTab, exempt, override>>
  <1>1. task[h].at = "proving" /\ Proper(task[h])
    BY DEF Proved, Executes, WbTyped, TasksProper
  <1>2. PICK t : /\ task' = SetTask(h, t)
                 /\ t = [task[h] EXCEPT !.to = Reported(task[h]), !.db = ActiveOf(task[h].on)]
    BY <1>1 DEF Proved, PageUnchanged
  <1>3. task[h].on \in Names /\ ActiveOf(task[h].on) \in Databases
    BY <1>1, NowhereIsApart DEF Proper, WellFormed, WbTyped, WbTypeOK, ActiveOf
  <1>4. Proper(t) /\ t.at \in Answerable /\ (t.at = "running" => t.to = Nowhere)
    <2>1. CASE t = [task[h] EXCEPT !.to = Reported(task[h]), !.db = ActiveOf(task[h].on)]
      BY <1>1, <1>3, <2>1, NowhereIsApart DEF Proper, WellFormed, TaskStates, NoTask, Sendable, Statements,
         Answerable, Reported
    <2> QED
      BY <1>2, <2>1
  <1>5. UNCHANGED <<selected, schemaShown, writable, openTabs, activeTab, contextOf, movedBy, established,
                    resultTab, override, turnedOn, exempt, done>>
    BY DEF Proved, Executes, PageUnchanged, tabVars, moveVars, historyVars
  <1>6. Moved(h, t) /\ ~Answered(h) /\ Answered(h)'
    BY <1>1, <1>2, <1>4, <1>5, ExecutedMove DEF Sets, Proved
  <1>7. WbTypeOK'
    BY <1>5, <1>6 DEF Moved, OthersAnswered, TasksProper, WbTyped, WbTypeOK
  <1>8. /\ Stays(task[h], task'[h]) /\ task'[h].to = Reported(task[h]) /\ task'[h].db = ActiveOf(task[h].on)
        /\ task'[h].at = task[h].at /\ task'[h].was = task[h].was /\ (task'[h].ok <=> task[h].ok)
        /\ (task'[h].stop <=> task[h].stop)
    <2>1. CASE t = [task[h] EXCEPT !.to = Reported(task[h]), !.db = ActiveOf(task[h].on)]
      BY <2>1, <1>1, <1>6 DEF Moved, Proper, TaskStates, Stays
    <2> QED
      BY <1>2, <2>1
  <1> QED
    BY <1>1, <1>5, <1>6, <1>7, <1>8 DEF Moved, WbTyped

LEMMA NotProvedDoes ==
  ASSUME WbTyped, NEW h \in Handlers, NotProved(h)
  PROVE  /\ WbTyped'
         /\ task[h].at = "proving"
         /\ ~Answered(h) /\ Answered(h)'
         /\ OthersAnswered(h)
         /\ OthersTold(h)
         /\ /\ Stays(task[h], task'[h]) /\ task'[h].to = Nowhere /\ task'[h].db = ActiveAfter(task[h].on)
            /\ task'[h].at = task[h].at /\ task'[h].was = task[h].was /\ ~task'[h].ok
            /\ (task'[h].stop <=> task[h].stop)
         /\ UNCHANGED <<selected, schemaShown, openTabs, contextOf, established, resultTab, exempt>>
  <1>1. task[h].at = "proving" /\ Proper(task[h])
    BY DEF NotProved, Executes, WbTyped, TasksProper
  <1>2. PICK t : /\ task' = SetTask(h, t)
                 /\ t = [task[h] EXCEPT !.to = Nowhere, !.ok = FALSE, !.db = ActiveAfter(task[h].on)]
    BY <1>1 DEF NotProved, PageUnchanged, ActiveAfter
  <1>3. task[h].on \in Names /\ override' \in [Names -> Databases \cup {Nowhere}] /\
        ActiveAfter(task[h].on) \in Databases \cup {Nowhere}
    BY <1>1, NowhereIsApart DEF NotProved, Proper, WellFormed, WbTyped, WbTypeOK, TaskStates, ActiveAfter
  <1>4. Proper(t) /\ t.at \in Answerable /\ (t.at = "running" => t.to = Nowhere)
    <2>1. CASE t = [task[h] EXCEPT !.to = Nowhere, !.ok = FALSE, !.db = ActiveAfter(task[h].on)]
      BY <1>1, <1>3, <2>1, NowhereIsApart DEF Proper, WellFormed, TaskStates, NoTask, Sendable, Statements,
         Answerable
    <2> QED
      BY <1>2, <2>1
  <1>5. UNCHANGED <<selected, schemaShown, writable, openTabs, activeTab, contextOf, movedBy, established,
                    resultTab, turnedOn, exempt, done>>
    BY DEF NotProved, Executes, PageUnchanged, tabVars, moveVars, historyVars
  <1>6. Moved(h, t) /\ ~Answered(h) /\ Answered(h)'
    BY <1>1, <1>2, <1>4, <1>5, ExecutedMove DEF Sets, NotProved
  <1>7. WbTypeOK'
    <2>1. override' \in [Names -> Databases \cup {Nowhere}]
      BY <1>1, <1>3, NowhereIsApart DEF NotProved, Executes, PageUnchanged, tabVars, moveVars, historyVars,
         WbTyped, WbTypeOK, Proper, WellFormed, TaskStates, Sendable
    <2> QED
      BY <1>5, <1>6, <2>1 DEF Moved, OthersAnswered, TasksProper, WbTyped, WbTypeOK
  <1>8. /\ Stays(task[h], task'[h]) /\ task'[h].to = Nowhere /\ task'[h].db = ActiveAfter(task[h].on)
        /\ task'[h].at = task[h].at /\ task'[h].was = task[h].was /\ ~task'[h].ok
        /\ (task'[h].stop <=> task[h].stop)
    <2>1. CASE t = [task[h] EXCEPT !.to = Nowhere, !.ok = FALSE, !.db = ActiveAfter(task[h].on)]
      BY <2>1, <1>1, <1>6 DEF Moved, Proper, TaskStates, Stays
    <2> QED
      BY <1>2, <2>1
  <1> QED
    BY <1>1, <1>5, <1>6, <1>7, <1>8 DEF Moved, WbTyped

LEMMA ConfirmedDoes ==
  ASSUME WbTyped, NEW h \in Handlers, Confirmed(h)
  PROVE  /\ WbTyped'
         /\ task[h].at = "confirming" /\ task[h].kind = "run"
         /\ ~Answered(h) /\ ~Answered(h)'
         /\ OthersAnswered(h)
         /\ OthersTold(h)
         /\ \/ Ended(task'[h])
            \/ /\ MayStart(task[h].on) /\ Stays(task[h], task'[h]) /\ task'[h].at = "running"
               /\ task'[h].to = task[h].to /\ task'[h].was = task[h].was /\ task'[h].db = task[h].db
               /\ (task'[h].ok <=> task[h].ok) /\ (task'[h].stop <=> task[h].stop)
         /\ UNCHANGED <<selected, schemaShown, openTabs, contextOf, established, exempt, override, replies>>
  <1>1. task[h].at = "confirming" /\ task[h].kind = "run" /\ Proper(task[h])
    BY DEF Confirmed, GoesOn, WbTyped, TasksProper
  <1>2. PICK t : /\ task' = SetTask(h, t)
                 /\ \/ t = NoTask
                    \/ MayStart(task[h].on) /\ t = [task[h] EXCEPT !.at = "running"]
    BY <1>1 DEF Confirmed, Give
  <1>3. selected \in Names \cup {Nowhere} /\ task[h] \in TaskStates /\ WellFormed(task[h])
    BY <1>1 DEF Proper, WbTyped, WbTypeOK
  <1>4. Proper(t) /\ t.at # "proving"
    <2>1. CASE t = NoTask
      BY <2>1, NoTaskIsProper DEF NoTask
    <2>2. CASE MayStart(task[h].on) /\ t = [task[h] EXCEPT !.at = "running"]
      BY <1>1, <1>3, <2>2, NowhereIsApart DEF Proper, WellFormed, TaskStates, NoTask, Sendable, Statements
    <2> QED
      BY <1>2, <2>1, <2>2
  <1>5. UNCHANGED <<selected, schemaShown, writable, openTabs, activeTab, contextOf, movedBy, established,
                    override, turnedOn, exempt, done, replies>>
    BY DEF Confirmed, GoesOn, backendVars, Give, tabVars, moveVars, historyVars
  <1>6. Moved(h, t) /\ ~Answered(h) /\ ~Answered(h)'
    BY <1>1, <1>2, <1>4, <1>5, QuietMove DEF Sets, Answerable
  <1>7. WbTypeOK'
    <2>1. resultTab' \in [Names -> [db : Databases \cup {Nowhere}, batch : BOOLEAN]]
      <3>1. task[h].on \in Names /\ task[h].to \in Databases \cup {Nowhere} /\
            task[h].db \in Databases \cup {Nowhere}
        BY <1>1, NowhereIsApart DEF Proper, WellFormed, TaskStates, Sendable
      <3>2. resultTab[task[h].on].db \in Databases \cup {Nowhere} /\ schemaShown \in Databases \cup {Nowhere}
        BY <3>1 DEF WbTyped, WbTypeOK
      <3>3. \A b \in BOOLEAN : [resultTab EXCEPT ![task[h].on] = [db |-> schemaShown, batch |-> b]]
               \in [Names -> [db : Databases \cup {Nowhere}, batch : BOOLEAN]]
        BY <3>1, <3>2, ResultTabSet DEF WbTyped
      <3>4. resultTab' = resultTab \/ \E b \in BOOLEAN :
            resultTab' = [resultTab EXCEPT ![task[h].on] = [db |-> schemaShown, batch |-> b]]
        BY DEF Confirmed, Give
      <3> QED
        BY <3>3, <3>4 DEF WbTyped, WbTypeOK
    <2> QED
      BY <1>5, <1>6, <2>1 DEF Moved, OthersAnswered, TasksProper, WbTyped, WbTypeOK
  <1>8. \/ Ended(task'[h])
        \/ /\ MayStart(task[h].on) /\ Stays(task[h], task'[h]) /\ task'[h].at = "running"
           /\ task'[h].to = task[h].to /\ task'[h].was = task[h].was /\ task'[h].db = task[h].db
           /\ (task'[h].ok <=> task[h].ok) /\ (task'[h].stop <=> task[h].stop)
    <2>1. CASE t = NoTask
      <3>1. t.at # "listing"
        BY <2>1 DEF NoTask
      <3>2. task'[h] = NoTask
        BY <2>1, <3>1, <1>6 DEF Moved
      <3> QED
        BY <2>1, <3>2, NoTaskEnded
    <2>2. CASE MayStart(task[h].on) /\ t = [task[h] EXCEPT !.at = "running"]
      BY <2>2, <1>1, <1>6 DEF Moved, Proper, TaskStates, Stays
    <2> QED
      BY <1>2, <2>1, <2>2
  <1> QED
    BY <1>1, <1>5, <1>6, <1>7, <1>8 DEF Moved, WbTyped

LEMMA RanDoes ==
  ASSUME WbTyped, NEW h \in Handlers, Ran(h)
  PROVE  /\ WbTyped'
         /\ task[h].at \in {"running", "proving"} /\ task[h].kind \in {"run", "rerun"}
         /\ Answered(h) /\ ~Answered(h)'
         /\ OthersAnswered(h)
         /\ OthersTold(h)
         /\ Ended(task'[h])
         /\ UNCHANGED <<selected, openTabs, contextOf, exempt, override>>
  <1>1. task[h].at \in {"running", "proving"} /\ task[h].kind \in {"run", "rerun"} /\ Proper(task[h])
    BY DEF Ran, Receives, WbTyped, TasksProper
  <1>2. PICK t : /\ task' = SetTask(h, t) \/ \E names : DisconnectIfIdle(names, SetTask(h, t))
                 /\ t = NoTask
    BY <1>1 DEF Ran, Show
  <1>3. selected \in Names \cup {Nowhere} /\ task[h] \in TaskStates /\ WellFormed(task[h])
    BY <1>1 DEF Proper, WbTyped, WbTypeOK
  <1>4. Proper(t) /\ t.at # "proving"
    <2>1. CASE t = NoTask
      BY <2>1, NoTaskIsProper DEF NoTask
    <2> QED
      BY <1>2, <2>1
  <1>5. UNCHANGED <<selected, writable, openTabs, activeTab, contextOf, movedBy, override, turnedOn, exempt, done>>
    BY DEF Ran, Receives, Show, tabVars, moveVars, historyVars
  <1>6. Moved(h, t) /\ Answered(h) /\ ~Answered(h)'
    BY <1>1, <1>2, <1>4, <1>5, ReceivedMove DEF Sets, Ran
  <1>7. WbTypeOK'
    <2>1. schemaShown' \in Databases \cup {Nowhere}
      BY <1>3, <1>1, NowhereIsApart DEF Ran, Receives, Show, tabVars, moveVars, historyVars, WbTyped, WbTypeOK,
         Proper, WellFormed, TaskStates, Sendable
    <2>2. established' \subseteq Names
      BY <1>1, <1>3, EstablishedShrinks DEF Ran, Receives, Show, tabVars, moveVars, historyVars, WbTyped, WbTypeOK
    <2>3. resultTab' \in [Names -> [db : Databases \cup {Nowhere}, batch : BOOLEAN]]
      <3>1. task[h].on \in Names /\ task[h].to \in Databases \cup {Nowhere} /\
            task[h].db \in Databases \cup {Nowhere}
        BY <1>1, NowhereIsApart DEF Proper, WellFormed, TaskStates, Sendable
      <3>2. resultTab[task[h].on].db \in Databases \cup {Nowhere} /\ schemaShown \in Databases \cup {Nowhere}
        BY <3>1 DEF WbTyped, WbTypeOK
      <3> QED
        BY <3>1, <3>2, ResultTabSet DEF Ran, Show, WbTyped, WbTypeOK
    <2> QED
      BY <1>5, <1>6, <2>1, <2>2, <2>3 DEF Moved, OthersAnswered, TasksProper, WbTyped, WbTypeOK
  <1>8. Ended(task'[h])
    <2>1. CASE t = NoTask
      <3>1. t.at # "listing"
        BY <2>1 DEF NoTask
      <3> QED
        BY <2>1, <3>1, <1>6, NoTaskEnded DEF Moved
    <2> QED
      BY <1>2, <2>1
  <1> QED
    BY <1>1, <1>5, <1>6, <1>7, <1>8 DEF Moved, WbTyped

LEMMA CheckedDoes ==
  ASSUME WbTyped, NEW h \in Handlers, Checked(h)
  PROVE  /\ WbTyped'
         /\ task[h].at = "checking"
         /\ Answered(h) /\ ~Answered(h)'
         /\ OthersAnswered(h)
         /\ OthersTold(h)
         /\ \/ Ended(task'[h])
            \/ /\ ~IsRunning(task[h].on) /\ BatchMayStart(task[h].on) /\ resultTab[task[h].on].batch
               /\ New(task'[h], "next", "batch", task[h].on, Nowhere)
            \/ /\ ~IsRunning(task[h].on) /\ ~resultTab[task[h].on].batch /\ Stays(task[h], task'[h])
               /\ task'[h].at = "running" /\ task'[h].db = Nowhere /\ task'[h].to = task[h].to
               /\ task'[h].was = task[h].was /\ (task'[h].ok <=> task[h].ok) /\ (task'[h].stop <=> task[h].stop)
         /\ UNCHANGED <<selected, schemaShown, openTabs, contextOf, established, exempt, override>>
  <1>1. task[h].at = "checking" /\ Proper(task[h])
    BY DEF Checked, Receives, WbTyped, TasksProper
  <1>2. PICK t : /\ task' = SetTask(h, t)
                 /\ \/ t = NoTask
                    \/ ~IsRunning(task[h].on) /\ BatchMayStart(task[h].on) /\ resultTab[task[h].on].batch /\
                       t = FirstOfBatch(task[h])
                    \/ ~IsRunning(task[h].on) /\ ~resultTab[task[h].on].batch /\
                       t = [task[h] EXCEPT !.at = "running", !.db = Nowhere]
    BY <1>1 DEF Checked
  <1>3. selected \in Names \cup {Nowhere} /\ task[h] \in TaskStates /\ WellFormed(task[h])
    BY <1>1 DEF Proper, WbTyped, WbTypeOK
  <1>4. Proper(t) /\ t.at # "proving"
    <2>1. CASE t = NoTask
      BY <2>1, NoTaskIsProper DEF NoTask
    <2>2. CASE ~IsRunning(task[h].on) /\ BatchMayStart(task[h].on) /\ resultTab[task[h].on].batch /\
         t = FirstOfBatch(task[h])
      <3>0. task[h].on \in Names \cup {Nowhere} /\ selected \in Names \cup {Nowhere} /\
            EffectiveWritable(task[h].on) \in BOOLEAN
        BY <1>1 DEF Proper, TaskStates, WbTyped, WbTypeOK, EffectiveWritable, Sendable
      <3>1. t \in TaskStates
        BY <3>0, <1>3, <2>2, NowhereIsApart, NoTaskTyped DEF TaskStates, FirstOfBatch
      <3>2. t.at = "next" /\ t.kind = "batch" /\ t.on = task[h].on /\ t.to = Nowhere /\ t.then = Nowhere /\
            t.left = MaxBatch /\ t.old = FALSE
        BY <2>2 DEF NoTask, FirstOfBatch, EffectiveWritable
      <3>3. task[h].on \in Names \cup {Nowhere}
        BY <1>1 DEF Proper, TaskStates
      <3> QED
        BY <1>1, <1>3, <2>2, NowhereIsApart, <3>1, <3>2, <3>3 DEF Proper, WellFormed, Sendable
    <2>3. CASE ~IsRunning(task[h].on) /\ ~resultTab[task[h].on].batch /\
         t = [task[h] EXCEPT !.at = "running", !.db = Nowhere]
      BY <1>1, <1>3, <2>3, NowhereIsApart DEF Proper, WellFormed, TaskStates, NoTask, Sendable, Statements
    <2> QED
      BY <1>2, <2>1, <2>2, <2>3
  <1>5. UNCHANGED <<selected, schemaShown, writable, openTabs, activeTab, contextOf, movedBy, established,
                    override, turnedOn, exempt, done>>
    BY DEF Checked, Receives, tabVars, moveVars, historyVars
  <1>6. Moved(h, t) /\ Answered(h) /\ ~Answered(h)'
    BY <1>1, <1>2, <1>4, <1>5, ReceivedMove DEF Sets, Checked
  <1>7. WbTypeOK'
    <2>1. resultTab' \in [Names -> [db : Databases \cup {Nowhere}, batch : BOOLEAN]]
      <3>1. task[h].on \in Names /\ task[h].to \in Databases \cup {Nowhere} /\
            task[h].db \in Databases \cup {Nowhere}
        BY <1>1, NowhereIsApart DEF Proper, WellFormed, TaskStates, Sendable
      <3>2. resultTab[task[h].on].db \in Databases \cup {Nowhere} /\ schemaShown \in Databases \cup {Nowhere}
        BY <3>1 DEF WbTyped, WbTypeOK
      <3> QED
        BY <3>1, <3>2, ResultTabSet DEF Checked, WbTyped, WbTypeOK
    <2> QED
      BY <1>5, <1>6, <2>1 DEF Moved, OthersAnswered, TasksProper, WbTyped, WbTypeOK
  <1>8. \/ Ended(task'[h])
        \/ /\ ~IsRunning(task[h].on) /\ BatchMayStart(task[h].on) /\ resultTab[task[h].on].batch
           /\ New(task'[h], "next", "batch", task[h].on, Nowhere)
        \/ /\ ~IsRunning(task[h].on) /\ ~resultTab[task[h].on].batch /\ Stays(task[h], task'[h])
           /\ task'[h].at = "running" /\ task'[h].db = Nowhere /\ task'[h].to = task[h].to
           /\ task'[h].was = task[h].was /\ (task'[h].ok <=> task[h].ok) /\ (task'[h].stop <=> task[h].stop)
    <2>1. CASE t = NoTask
      <3>1. t.at # "listing"
        BY <2>1 DEF NoTask
      <3>2. task'[h] = NoTask
        BY <2>1, <3>1, <1>6 DEF Moved
      <3> QED
        BY <2>1, <3>2, NoTaskEnded
    <2>2. CASE ~IsRunning(task[h].on) /\ BatchMayStart(task[h].on) /\ resultTab[task[h].on].batch /\
         t = FirstOfBatch(task[h])
      <3>1. t = FirstOfBatch(task[h])
        BY <2>2
      <3>2. t.at # "listing" /\ New(t, "next", "batch", task[h].on, Nowhere)
        BY <3>1 DEF New, NoTask, FirstOfBatch
      <3> QED
        BY <2>2, <3>2, <1>6 DEF Moved
    <2>3. CASE ~IsRunning(task[h].on) /\ ~resultTab[task[h].on].batch /\
         t = [task[h] EXCEPT !.at = "running", !.db = Nowhere]
      BY <2>3, <1>1, <1>6 DEF Moved, Proper, TaskStates, Stays
    <2> QED
      BY <1>2, <2>1, <2>2, <2>3
  <1> QED
    BY <1>1, <1>5, <1>6, <1>7, <1>8 DEF Moved, WbTyped

LEMMA RunStatementsDoes ==
  ASSUME WbTyped, NEW h \in Handlers, RunStatements(h)
  PROVE  /\ WbTyped'
         /\ task[h].at = "applying"
         /\ ~Answered(h) /\ Answered(h)'
         /\ OthersAnswered(h)
         /\ OthersTold(h)
         /\ /\ Stays(task[h], task'[h]) /\ task'[h].at = task[h].at /\ task'[h].to = task[h].to
            /\ task'[h].was = task[h].was /\ task'[h].db = task[h].db /\ (task'[h].stop <=> task[h].stop)
         /\ UNCHANGED <<selected, schemaShown, openTabs, contextOf, established, resultTab, exempt, override>>
  <1>1. task[h].at = "applying" /\ Proper(task[h])
    BY DEF RunStatements, Executes, WbTyped, TasksProper
  <1>2. PICK t : /\ task' = SetTask(h, t)
                 /\ \E ok \in BOOLEAN : t = [task[h] EXCEPT !.ok = ok]
    BY <1>1 DEF RunStatements, PageUnchanged
  <1>3. selected \in Names \cup {Nowhere} /\ task[h] \in TaskStates /\ WellFormed(task[h])
    BY <1>1 DEF Proper, WbTyped, WbTypeOK
  <1>4. Proper(t) /\ t.at \in Answerable /\ (t.at = "running" => t.to = Nowhere)
    <2>1. CASE \E ok \in BOOLEAN : t = [task[h] EXCEPT !.ok = ok]
      BY <1>1, <1>3, <2>1, NowhereIsApart DEF Proper, WellFormed, TaskStates, NoTask, Sendable, Statements,
         Answerable
    <2> QED
      BY <1>2, <2>1
  <1>5. UNCHANGED <<selected, schemaShown, writable, openTabs, activeTab, contextOf, movedBy, established,
                    resultTab, override, turnedOn, exempt, done>>
    BY DEF RunStatements, Executes, PageUnchanged, tabVars, moveVars, historyVars
  <1>6. Moved(h, t) /\ ~Answered(h) /\ Answered(h)'
    BY <1>1, <1>2, <1>4, <1>5, ExecutedMove DEF Sets, RunStatements
  <1>7. WbTypeOK'
    BY <1>5, <1>6 DEF Moved, OthersAnswered, TasksProper, WbTyped, WbTypeOK
  <1>8. /\ Stays(task[h], task'[h]) /\ task'[h].at = task[h].at /\ task'[h].to = task[h].to
        /\ task'[h].was = task[h].was /\ task'[h].db = task[h].db /\ (task'[h].stop <=> task[h].stop)
    <2>1. CASE \E ok \in BOOLEAN : t = [task[h] EXCEPT !.ok = ok]
      BY <2>1, <1>1, <1>6 DEF Moved, Proper, TaskStates, Stays
    <2> QED
      BY <1>2, <2>1
  <1> QED
    BY <1>1, <1>5, <1>6, <1>7, <1>8 DEF Moved, WbTyped

LEMMA AppliedDoes ==
  ASSUME WbTyped, NEW h \in Handlers, Applied(h)
  PROVE  /\ WbTyped'
         /\ task[h].at = "applying"
         /\ Answered(h) /\ ~Answered(h)'
         /\ OthersAnswered(h)
         /\ OthersTold(h)
         /\ \/ Ended(task'[h])
            \/ resultTab[task[h].on] # NoTab /\ New(task'[h], "checking", "rerun", task[h].on, Nowhere)
         /\ UNCHANGED <<selected, schemaShown, openTabs, contextOf, established, resultTab, override>>
  <1>1. task[h].at = "applying" /\ Proper(task[h])
    BY DEF Applied, Receives, WbTyped, TasksProper
  <1>2. PICK t : /\ task' = SetTask(h, t)
                 /\ \/ t = NoTask
                    \/ resultTab[task[h].on] # NoTab /\
                       t = [NoTask EXCEPT !.at = "checking", !.kind = "rerun", !.on = task[h].on]
    BY <1>1 DEF Applied
  <1>3. selected \in Names \cup {Nowhere} /\ task[h] \in TaskStates /\ WellFormed(task[h])
    BY <1>1 DEF Proper, WbTyped, WbTypeOK
  <1>4. Proper(t) /\ t.at # "proving"
    <2>1. CASE t = NoTask
      BY <2>1, NoTaskIsProper DEF NoTask
    <2>2. CASE resultTab[task[h].on] # NoTab /\
         t = [NoTask EXCEPT !.at = "checking", !.kind = "rerun", !.on = task[h].on]
      <3>0. task[h].on \in Names \cup {Nowhere} /\ selected \in Names \cup {Nowhere}
        BY <1>1 DEF Proper, TaskStates, WbTyped, WbTypeOK, EffectiveWritable, Sendable
      <3>1. t \in TaskStates
        BY <3>0, <1>3, <2>2, NowhereIsApart, NoTaskTyped DEF TaskStates
      <3>2. t.at = "checking" /\ t.kind = "rerun" /\ t.on = task[h].on /\ t.to = Nowhere /\ t.then = Nowhere /\
            t.left = 0 /\ t.old = FALSE
        BY <2>2 DEF NoTask
      <3>3. task[h].on \in Names \cup {Nowhere}
        BY <1>1 DEF Proper, TaskStates
      <3> QED
        BY <1>1, <1>3, <2>2, NowhereIsApart, <3>1, <3>2, <3>3 DEF Proper, WellFormed, Sendable
    <2> QED
      BY <1>2, <2>1, <2>2
  <1>5. UNCHANGED <<selected, schemaShown, writable, openTabs, activeTab, contextOf, movedBy, established,
                    resultTab, override, turnedOn, done>>
    BY DEF Applied, Receives, tabVars, moveVars, historyVars
  <1>6. Moved(h, t) /\ Answered(h) /\ ~Answered(h)'
    BY <1>1, <1>2, <1>4, <1>5, ReceivedMove DEF Sets, Applied
  <1>7. WbTypeOK'
    <2>1. exempt' \in [unclosed : SUBSET Names, astray : SUBSET Names]
      BY <1>1, <1>3, NowhereIsApart DEF Applied, Receives, tabVars, moveVars, historyVars, WbTyped, WbTypeOK,
         Proper, WellFormed
    <2> QED
      BY <1>5, <1>6, <2>1 DEF Moved, OthersAnswered, TasksProper, WbTyped, WbTypeOK
  <1>8. \/ Ended(task'[h])
        \/ resultTab[task[h].on] # NoTab /\ New(task'[h], "checking", "rerun", task[h].on, Nowhere)
    <2>1. CASE t = NoTask
      <3>1. t.at # "listing"
        BY <2>1 DEF NoTask
      <3>2. task'[h] = NoTask
        BY <2>1, <3>1, <1>6 DEF Moved
      <3> QED
        BY <2>1, <3>2, NoTaskEnded
    <2>2. CASE resultTab[task[h].on] # NoTab /\
         t = [NoTask EXCEPT !.at = "checking", !.kind = "rerun", !.on = task[h].on]
      BY <2>2, <1>6 DEF Moved, New, NoTask
    <2> QED
      BY <1>2, <2>1, <2>2
  <1> QED
    BY <1>1, <1>5, <1>6, <1>7, <1>8 DEF Moved, WbTyped

LEMMA BatchSavedDoes ==
  ASSUME WbTyped, NEW h \in Handlers, BatchSaved(h)
  PROVE  /\ WbTyped'
         /\ task[h].at = "confirming" /\ task[h].kind = "batch"
         /\ ~Answered(h) /\ ~Answered(h)'
         /\ OthersAnswered(h)
         /\ OthersTold(h)
         /\ \/ Ended(task'[h])
            \/ /\ MayStart(task[h].on) /\ BatchMayStart(task[h].on)
               /\ New(task'[h], "next", "batch", task[h].on, Nowhere)
         /\ UNCHANGED <<selected, schemaShown, openTabs, contextOf, established, exempt, override, replies>>
  <1>1. task[h].at = "confirming" /\ task[h].kind = "batch" /\ Proper(task[h])
    BY DEF BatchSaved, GoesOn, WbTyped, TasksProper
  <1>2. PICK t : /\ task' = SetTask(h, t)
                 /\ \/ t = NoTask
                    \/ MayStart(task[h].on) /\ BatchMayStart(task[h].on) /\ t = FirstOfBatch(task[h])
    BY <1>1 DEF BatchSaved, Give
  <1>3. selected \in Names \cup {Nowhere} /\ task[h] \in TaskStates /\ WellFormed(task[h])
    BY <1>1 DEF Proper, WbTyped, WbTypeOK
  <1>4. Proper(t) /\ t.at # "proving"
    <2>1. CASE t = NoTask
      BY <2>1, NoTaskIsProper DEF NoTask
    <2>2. CASE MayStart(task[h].on) /\ BatchMayStart(task[h].on) /\ t = FirstOfBatch(task[h])
      <3>0. task[h].on \in Names \cup {Nowhere} /\ selected \in Names \cup {Nowhere} /\
            EffectiveWritable(task[h].on) \in BOOLEAN
        BY <1>1 DEF Proper, TaskStates, WbTyped, WbTypeOK, EffectiveWritable, Sendable
      <3>1. t \in TaskStates
        BY <3>0, <1>3, <2>2, NowhereIsApart, NoTaskTyped DEF TaskStates, FirstOfBatch
      <3>2. t.at = "next" /\ t.kind = "batch" /\ t.on = task[h].on /\ t.to = Nowhere /\ t.then = Nowhere /\
            t.left = MaxBatch /\ t.old = FALSE
        BY <2>2 DEF NoTask, FirstOfBatch, EffectiveWritable
      <3>3. task[h].on \in Names \cup {Nowhere}
        BY <1>1 DEF Proper, TaskStates
      <3> QED
        BY <1>1, <1>3, <2>2, NowhereIsApart, <3>1, <3>2, <3>3 DEF Proper, WellFormed, Sendable
    <2> QED
      BY <1>2, <2>1, <2>2
  <1>5. UNCHANGED <<selected, schemaShown, writable, openTabs, activeTab, contextOf, movedBy, established,
                    override, turnedOn, exempt, done, replies>>
    BY DEF BatchSaved, GoesOn, backendVars, Give, tabVars, moveVars, historyVars
  <1>6. Moved(h, t) /\ ~Answered(h) /\ ~Answered(h)'
    BY <1>1, <1>2, <1>4, <1>5, QuietMove DEF Sets, Answerable
  <1>7. WbTypeOK'
    <2>1. resultTab' \in [Names -> [db : Databases \cup {Nowhere}, batch : BOOLEAN]]
      <3>1. task[h].on \in Names /\ task[h].to \in Databases \cup {Nowhere} /\
            task[h].db \in Databases \cup {Nowhere}
        BY <1>1, NowhereIsApart DEF Proper, WellFormed, TaskStates, Sendable
      <3>2. resultTab[task[h].on].db \in Databases \cup {Nowhere} /\ schemaShown \in Databases \cup {Nowhere}
        BY <3>1 DEF WbTyped, WbTypeOK
      <3>3. \A b \in BOOLEAN : [resultTab EXCEPT ![task[h].on] = [db |-> schemaShown, batch |-> b]]
               \in [Names -> [db : Databases \cup {Nowhere}, batch : BOOLEAN]]
        BY <3>1, <3>2, ResultTabSet DEF WbTyped
      <3>4. resultTab' = resultTab \/ \E b \in BOOLEAN :
            resultTab' = [resultTab EXCEPT ![task[h].on] = [db |-> schemaShown, batch |-> b]]
        BY DEF BatchSaved, Give
      <3> QED
        BY <3>3, <3>4 DEF WbTyped, WbTypeOK
    <2> QED
      BY <1>5, <1>6, <2>1 DEF Moved, OthersAnswered, TasksProper, WbTyped, WbTypeOK
  <1>8. \/ Ended(task'[h])
        \/ /\ MayStart(task[h].on) /\ BatchMayStart(task[h].on)
           /\ New(task'[h], "next", "batch", task[h].on, Nowhere)
    <2>1. CASE t = NoTask
      <3>1. t.at # "listing"
        BY <2>1 DEF NoTask
      <3>2. task'[h] = NoTask
        BY <2>1, <3>1, <1>6 DEF Moved
      <3> QED
        BY <2>1, <3>2, NoTaskEnded
    <2>2. CASE MayStart(task[h].on) /\ BatchMayStart(task[h].on) /\ t = FirstOfBatch(task[h])
      BY <2>2, <1>6 DEF Moved, New, NoTask, FirstOfBatch
    <2> QED
      BY <1>2, <2>1, <2>2
  <1> QED
    BY <1>1, <1>5, <1>6, <1>7, <1>8 DEF Moved, WbTyped

LEMMA BatchRanDoes ==
  ASSUME WbTyped, NEW h \in Handlers, BatchRan(h)
  PROVE  /\ WbTyped'
         /\ task[h].at \in {"running", "proving"} /\ task[h].kind = "batch"
         /\ Answered(h) /\ ~Answered(h)'
         /\ OthersAnswered(h)
         /\ OthersTold(h)
         /\ \/ Ended(task'[h])
            \/ /\ ~task[h].old /\ task[h].left # 0 /\ Stays(task[h], task'[h])
               /\ task'[h].at \in {"next", "asking"} /\ task'[h].to = Nowhere /\ task'[h].was = Nowhere
               /\ task'[h].db = task[h].db /\ task'[h].ok /\ (task'[h].stop <=> task[h].stop)
         /\ UNCHANGED <<selected, openTabs, contextOf, exempt, override>>
  <1>1. task[h].at \in {"running", "proving"} /\ task[h].kind = "batch" /\ Proper(task[h])
    BY DEF BatchRan, Receives, WbTyped, TasksProper
  <1>2. PICK t : /\ task' = SetTask(h, t) \/ \E names : DisconnectIfIdle(names, SetTask(h, t))
                 /\ \/ t = NoTask
                    \/ ~task[h].old /\ task[h].left # 0 /\
                       \E at \in {"next", "asking"} :
                       t = [task[h] EXCEPT !.ok = TRUE, !.to = Nowhere, !.was = Nowhere, !.at = at]
    BY <1>1 DEF BatchRan, EndBatch, Show
  <1>3. task[h].left # 0 => task[h].left > 0
    BY <1>1, NowhereIsApart DEF Proper, TaskStates
  <1>4. Proper(t) /\ t.at # "proving"
    <2>1. CASE t = NoTask
      BY <2>1, NoTaskIsProper DEF NoTask
    <2>2. CASE ~task[h].old /\ task[h].left # 0 /\
         \E at \in {"next", "asking"} : t = [task[h] EXCEPT !.ok = TRUE, !.to = Nowhere, !.was = Nowhere, !.at = at]
      BY <1>1, <1>3, <2>2, NowhereIsApart DEF Proper, WellFormed, TaskStates, NoTask, Sendable, Statements
    <2> QED
      BY <1>2, <2>1, <2>2
  <1>5. UNCHANGED <<selected, writable, openTabs, activeTab, contextOf, movedBy, override, turnedOn, exempt, done>>
    BY DEF BatchRan, Receives, EndBatch, Show, tabVars, moveVars, historyVars
  <1>6. Moved(h, t) /\ Answered(h) /\ ~Answered(h)'
    BY <1>1, <1>2, <1>4, <1>5, ReceivedMove DEF Sets, BatchRan
  <1>7. WbTypeOK'
    <2>1. schemaShown' \in Databases \cup {Nowhere}
      BY <1>3, <1>1, NowhereIsApart DEF BatchRan, Receives, EndBatch, Show, tabVars, moveVars, historyVars,
         WbTyped, WbTypeOK, Proper, WellFormed, TaskStates, Sendable
    <2>2. established' \subseteq Names
      BY <1>1, <1>3, EstablishedShrinks DEF BatchRan, Receives, EndBatch, Show, tabVars, moveVars, historyVars,
         WbTyped, WbTypeOK
    <2>3. resultTab' \in [Names -> [db : Databases \cup {Nowhere}, batch : BOOLEAN]]
      <3>1. task[h].on \in Names /\ task[h].to \in Databases \cup {Nowhere} /\
            task[h].db \in Databases \cup {Nowhere}
        BY <1>1, NowhereIsApart DEF Proper, WellFormed, TaskStates, Sendable
      <3>2. resultTab[task[h].on].db \in Databases \cup {Nowhere} /\ schemaShown \in Databases \cup {Nowhere}
        BY <3>1 DEF WbTyped, WbTypeOK
      <3> QED
        BY <3>1, <3>2, ResultTabSet DEF BatchRan, EndBatch, Show, WbTyped, WbTypeOK
    <2> QED
      BY <1>5, <1>6, <2>1, <2>2, <2>3 DEF Moved, OthersAnswered, TasksProper, WbTyped, WbTypeOK
  <1>8. \/ Ended(task'[h])
        \/ /\ ~task[h].old /\ task[h].left # 0 /\ Stays(task[h], task'[h])
           /\ task'[h].at \in {"next", "asking"} /\ task'[h].to = Nowhere /\ task'[h].was = Nowhere
           /\ task'[h].db = task[h].db /\ task'[h].ok /\ (task'[h].stop <=> task[h].stop)
    <2>1. CASE t = NoTask
      <3>1. t.at # "listing"
        BY <2>1 DEF NoTask
      <3>2. task'[h] = NoTask
        BY <2>1, <3>1, <1>6 DEF Moved
      <3> QED
        BY <2>1, <3>2, NoTaskEnded
    <2>2. CASE ~task[h].old /\ task[h].left # 0 /\
         \E at \in {"next", "asking"} : t = [task[h] EXCEPT !.ok = TRUE, !.to = Nowhere, !.was = Nowhere, !.at = at]
      <3>1. PICK at \in {"next", "asking"} :
                 t = [task[h] EXCEPT !.ok = TRUE, !.to = Nowhere, !.was = Nowhere, !.at = at]
        BY <2>2
      <3>2. t.at # "listing" /\ Stays(task[h], t) /\ t.at \in {"next", "asking"} /\ t.to = Nowhere /\
            t.was = Nowhere /\ t.db = task[h].db /\ t.ok /\ (t.stop <=> task[h].stop)
        BY <1>1, <3>1 DEF Proper, TaskStates, Stays
      <3> QED
        BY <2>2, <3>2, <1>6 DEF Moved
    <2> QED
      BY <1>2, <2>1, <2>2
  <1> QED
    BY <1>1, <1>5, <1>6, <1>7, <1>8 DEF Moved, WbTyped

LEMMA AnswerPromptDoes ==
  ASSUME WbTyped, NEW h \in Handlers, AnswerPrompt(h)
  PROVE  /\ WbTyped'
         /\ task[h].at = "asking"
         /\ ~Answered(h) /\ ~Answered(h)'
         /\ OthersAnswered(h)
         /\ OthersTold(h)
         /\ \/ Ended(task'[h])
            \/ /\ ~task[h].stop /\ Stays(task[h], task'[h]) /\ task'[h].at = "next" /\ task'[h].to = task[h].to
               /\ task'[h].was = task[h].was /\ task'[h].db = task[h].db /\ (task'[h].ok <=> task[h].ok)
               /\ (task'[h].stop <=> task[h].stop)
         /\ UNCHANGED <<selected, schemaShown, openTabs, contextOf, resultTab, exempt, override, replies>>
  <1>1. task[h].at = "asking" /\ Proper(task[h])
    BY DEF AnswerPrompt, GoesOn, WbTyped, TasksProper
  <1>2. PICK t : /\ task' = SetTask(h, t) \/ \E names : DisconnectIfIdle(names, SetTask(h, t))
                 /\ \/ t = NoTask
                    \/ ~task[h].stop /\ t = [task[h] EXCEPT !.at = "next"]
    BY <1>1 DEF AnswerPrompt, EndBatch
  <1>3. selected \in Names \cup {Nowhere} /\ task[h] \in TaskStates /\ WellFormed(task[h])
    BY <1>1 DEF Proper, WbTyped, WbTypeOK
  <1>4. Proper(t) /\ t.at # "proving"
    <2>1. CASE t = NoTask
      BY <2>1, NoTaskIsProper DEF NoTask
    <2>2. CASE ~task[h].stop /\ t = [task[h] EXCEPT !.at = "next"]
      BY <1>1, <1>3, <2>2, NowhereIsApart DEF Proper, WellFormed, TaskStates, NoTask, Sendable, Statements
    <2> QED
      BY <1>2, <2>1, <2>2
  <1>5. UNCHANGED <<selected, schemaShown, writable, openTabs, activeTab, contextOf, movedBy, resultTab, override,
                    turnedOn, exempt, done, replies>>
    BY DEF AnswerPrompt, GoesOn, backendVars, EndBatch, tabVars, moveVars, historyVars
  <1>6. Moved(h, t) /\ ~Answered(h) /\ ~Answered(h)'
    BY <1>1, <1>2, <1>4, <1>5, QuietMove DEF Sets, Answerable
  <1>7. WbTypeOK'
    <2>1. established' \subseteq Names
      BY <1>1, <1>3, EstablishedShrinks DEF AnswerPrompt, GoesOn, backendVars, EndBatch, tabVars, moveVars,
         historyVars, WbTyped, WbTypeOK
    <2> QED
      BY <1>5, <1>6, <2>1 DEF Moved, OthersAnswered, TasksProper, WbTyped, WbTypeOK
  <1>8. \/ Ended(task'[h])
        \/ /\ ~task[h].stop /\ Stays(task[h], task'[h]) /\ task'[h].at = "next" /\ task'[h].to = task[h].to
           /\ task'[h].was = task[h].was /\ task'[h].db = task[h].db /\ (task'[h].ok <=> task[h].ok)
           /\ (task'[h].stop <=> task[h].stop)
    <2>1. CASE t = NoTask
      <3>1. t.at # "listing"
        BY <2>1 DEF NoTask
      <3>2. task'[h] = NoTask
        BY <2>1, <3>1, <1>6 DEF Moved
      <3> QED
        BY <2>1, <3>2, NoTaskEnded
    <2>2. CASE ~task[h].stop /\ t = [task[h] EXCEPT !.at = "next"]
      BY <2>2, <1>1, <1>6 DEF Moved, Proper, TaskStates, Stays
    <2> QED
      BY <1>2, <2>1, <2>2
  <1> QED
    BY <1>1, <1>5, <1>6, <1>7, <1>8 DEF Moved, WbTyped

LEMMA GiveUpReloadDoes ==
  ASSUME WbTyped, NEW h \in Handlers, GiveUpReload(h)
  PROVE  /\ WbTyped'
         /\ task[h].at = "saving" /\ task[h].kind = "reload"
         /\ ~Answered(h) /\ ~Answered(h)'
         /\ OthersAnswered(h)
         /\ OthersTold(h)
         /\ Ended(task'[h])
         /\ UNCHANGED <<selected, schemaShown, openTabs, contextOf, established, resultTab, exempt, override,
                        replies>>
  <1>1. task[h].at = "saving" /\ task[h].kind = "reload" /\ Proper(task[h])
    BY DEF GiveUpReload, GoesOn, WbTyped, TasksProper
  <1>2. PICK t : /\ task' = SetTask(h, t)
                 /\ t = NoTask
    BY <1>1 DEF GiveUpReload
  <1>3. selected \in Names \cup {Nowhere} /\ task[h] \in TaskStates /\ WellFormed(task[h])
    BY <1>1 DEF Proper, WbTyped, WbTypeOK
  <1>4. Proper(t) /\ t.at # "proving"
    <2>1. CASE t = NoTask
      BY <2>1, NoTaskIsProper DEF NoTask
    <2> QED
      BY <1>2, <2>1
  <1>5. UNCHANGED <<selected, schemaShown, writable, openTabs, activeTab, contextOf, movedBy, established,
                    resultTab, override, turnedOn, exempt, done, replies>>
    BY DEF GiveUpReload, GoesOn, backendVars, tabVars, moveVars, historyVars
  <1>6. Moved(h, t) /\ ~Answered(h) /\ ~Answered(h)'
    BY <1>1, <1>2, <1>4, <1>5, QuietMove DEF Sets, Answerable
  <1>7. WbTypeOK'
    BY <1>5, <1>6 DEF Moved, OthersAnswered, TasksProper, WbTyped, WbTypeOK
  <1>8. Ended(task'[h])
    <2>1. CASE t = NoTask
      <3>1. t.at # "listing"
        BY <2>1 DEF NoTask
      <3> QED
        BY <2>1, <3>1, <1>6, NoTaskEnded DEF Moved
    <2> QED
      BY <1>2, <2>1
  <1> QED
    BY <1>1, <1>5, <1>6, <1>7, <1>8 DEF Moved, WbTyped

LEMMA ConnectionsLoadedDoes ==
  ASSUME WbTyped, NEW h \in Handlers, ConnectionsLoaded(h)
  PROVE  /\ WbTyped'
         /\ task[h].at = "loading"
         /\ ~Answered(h) /\ ~Answered(h)'
         /\ OthersAnswered(h)
         /\ OthersTold(h)
         /\ \/ Ended(task'[h])
            \/ /\ task[h].on # Nowhere /\ New(task'[h], "saving", "reselect", task[h].on, Nowhere)
               /\ task'[h].was = selected
            \/ /\ task[h].on # Nowhere /\ New(task'[h], "context", "reselect", task[h].on, Nowhere)
               /\ task'[h].was = selected
         /\ UNCHANGED <<selected, schemaShown, openTabs, established, resultTab, exempt, override, replies>>
  <1>1. task[h].at = "loading" /\ Proper(task[h])
    BY DEF ConnectionsLoaded, GoesOn, WbTyped, TasksProper
  <1>2. PICK t : /\ task' = SetTask(h, t)
                 /\ \/ t = NoTask
                    \/ task[h].on # Nowhere /\
                       t = SaveFirst([NoTask EXCEPT !.kind = "reselect", !.on = task[h].on, !.was = selected])
                    \/ task[h].on # Nowhere /\
                       t = LoadContext([NoTask EXCEPT !.kind = "reselect", !.on = task[h].on, !.was = selected])
    BY <1>1 DEF ConnectionsLoaded, SelectConnection
  <1>3. selected \in Names \cup {Nowhere} /\ task[h] \in TaskStates /\ WellFormed(task[h])
    BY <1>1 DEF Proper, WbTyped, WbTypeOK
  <1>4. Proper(t) /\ t.at # "proving"
    <2>1. CASE t = NoTask
      BY <2>1, NoTaskIsProper DEF NoTask
    <2>2. CASE task[h].on # Nowhere /\
         t = SaveFirst([NoTask EXCEPT !.kind = "reselect", !.on = task[h].on, !.was = selected])
      <3>0. task[h].on \in Names \cup {Nowhere} /\ selected \in Names \cup {Nowhere}
        BY <1>1 DEF Proper, TaskStates, WbTyped, WbTypeOK, EffectiveWritable, Sendable
      <3>1. t \in TaskStates
        BY <3>0, <1>3, <2>2, NowhereIsApart, NoTaskTyped DEF TaskStates, SaveFirst
      <3>2. t.at = "saving" /\ t.kind = "reselect" /\ t.on = task[h].on /\ t.to = Nowhere /\ t.then = Nowhere /\
            t.left = 0 /\ t.old = FALSE
        BY <2>2 DEF NoTask, SaveFirst
      <3>3. task[h].on \in Names \cup {Nowhere}
        BY <1>1 DEF Proper, TaskStates
      <3> QED
        BY <1>1, <1>3, <2>2, NowhereIsApart, <3>1, <3>2, <3>3 DEF Proper, WellFormed, Sendable
    <2>3. CASE task[h].on # Nowhere /\
         t = LoadContext([NoTask EXCEPT !.kind = "reselect", !.on = task[h].on, !.was = selected])
      <3>0. task[h].on \in Names \cup {Nowhere} /\ selected \in Names \cup {Nowhere}
        BY <1>1 DEF Proper, TaskStates, WbTyped, WbTypeOK, EffectiveWritable, Sendable
      <3>1. t \in TaskStates
        BY <3>0, <1>3, <2>3, NowhereIsApart, NoTaskTyped DEF TaskStates, LoadContext
      <3>2. t.at = "context" /\ t.kind = "reselect" /\ t.on = task[h].on /\ t.to = Nowhere /\ t.then = Nowhere /\
            t.left = 0 /\ t.old = FALSE
        BY <2>3 DEF NoTask, LoadContext
      <3>3. task[h].on \in Names \cup {Nowhere}
        BY <1>1 DEF Proper, TaskStates
      <3> QED
        BY <1>1, <1>3, <2>3, NowhereIsApart, <3>1, <3>2, <3>3 DEF Proper, WellFormed, Sendable
    <2> QED
      BY <1>2, <2>1, <2>2, <2>3
  <1>5. UNCHANGED <<selected, schemaShown, writable, openTabs, activeTab, movedBy, established, resultTab,
                    override, turnedOn, exempt, done, replies>>
    BY DEF ConnectionsLoaded, GoesOn, backendVars, SelectConnection, tabVars, moveVars, historyVars
  <1>6. Moved(h, t) /\ ~Answered(h) /\ ~Answered(h)'
    BY <1>1, <1>2, <1>4, <1>5, QuietMove DEF Sets, Answerable
  <1>7. WbTypeOK'
    <2>1. contextOf' \in Handlers \cup {Nowhere}
      BY <1>1, <1>3 DEF ConnectionsLoaded, GoesOn, backendVars, SelectConnection, tabVars, moveVars, historyVars,
         WbTyped, WbTypeOK
    <2> QED
      BY <1>5, <1>6, <2>1 DEF Moved, OthersAnswered, TasksProper, WbTyped, WbTypeOK
  <1>8. \/ Ended(task'[h])
        \/ /\ task[h].on # Nowhere /\ New(task'[h], "saving", "reselect", task[h].on, Nowhere)
           /\ task'[h].was = selected
        \/ /\ task[h].on # Nowhere /\ New(task'[h], "context", "reselect", task[h].on, Nowhere)
           /\ task'[h].was = selected
    <2>1. CASE t = NoTask
      <3>1. t.at # "listing"
        BY <2>1 DEF NoTask
      <3>2. task'[h] = NoTask
        BY <2>1, <3>1, <1>6 DEF Moved
      <3> QED
        BY <2>1, <3>2, NoTaskEnded
    <2>2. CASE task[h].on # Nowhere /\
         t = SaveFirst([NoTask EXCEPT !.kind = "reselect", !.on = task[h].on, !.was = selected])
      BY <2>2, <1>6 DEF Moved, New, NoTask, SaveFirst
    <2>3. CASE task[h].on # Nowhere /\
         t = LoadContext([NoTask EXCEPT !.kind = "reselect", !.on = task[h].on, !.was = selected])
      BY <2>3, <1>6 DEF Moved, New, NoTask, LoadContext
    <2> QED
      BY <1>2, <2>1, <2>2, <2>3
  <1> QED
    BY <1>1, <1>5, <1>6, <1>7, <1>8 DEF Moved, WbTyped

----------------------------------------------------------------------------
(* A reload touches every task                                             *)

Touched(t, u) ==
  /\ u.at = t.at /\ u.kind = t.kind /\ u.on = t.on /\ u.to = t.to /\ u.was = t.was /\ u.then = t.then
  /\ u.db = t.db /\ u.left = t.left /\ u.ok = t.ok
  /\ (t.old => u.old) /\ (t.overtaken => u.overtaken) /\ (t.stop => u.stop)
Discards(at) == at \in {"listing", "next", "running", "proving", "asking", "checking"}
Overtake(k) == [task[k] EXCEPT !.overtaken = @ \/ (task[k].at = "running" /\ k \notin replies)]

LEMMA StoppedIsProper ==
  ASSUME NEW t, Proper(t) PROVE Proper(StoppedBatch(t)) /\ Touched(t, StoppedBatch(t))
  <1>1. StoppedBatch(t) \in TaskStates /\ Touched(t, StoppedBatch(t)) /\ StoppedBatch(t).old = t.old
    <2>1. CASE StoppedBatch(t) = t
      BY <2>1 DEF Proper, Touched
    <2>2. CASE StoppedBatch(t) = [t EXCEPT !.stop = TRUE]
      <3>1. StoppedBatch(t) \in TaskStates
        BY <2>2 DEF Proper, TaskStates
      <3> QED
        BY <2>2, <3>1 DEF Proper, TaskStates, Touched
    <2> QED
      BY <2>1, <2>2 DEF StoppedBatch
  <1>2. t.at = "idle" => StoppedBatch(t) = t
    BY DEF StoppedBatch, Proper, WellFormed, NoTask
  <1> HIDE DEF StoppedBatch
  <1> QED
    BY <1>1, <1>2 DEF Proper, WellFormed, Touched

LEMMA OvertakenIsProper ==
  ASSUME TasksProper, NEW k \in Handlers
  PROVE  Proper(Overtake(k)) /\ Touched(task[k], Overtake(k))
  <1>0. Proper(task[k]) /\ (k \notin replies) \in BOOLEAN
    BY DEF TasksProper
  <1>1. Overtake(k) \in TaskStates /\ Touched(task[k], Overtake(k)) /\ Overtake(k).old = task[k].old
    <2>1. PICK b \in BOOLEAN : Overtake(k) = [task[k] EXCEPT !.overtaken = b] /\ (task[k].overtaken => b)
      BY <1>0 DEF Proper, TaskStates, Overtake
    <2>2. Overtake(k) \in TaskStates
      BY <1>0, <2>1 DEF Proper, TaskStates
    <2> QED
      BY <1>0, <2>1, <2>2 DEF Proper, TaskStates, Touched
  <1>2. task[k].at = "idle" => Overtake(k) = task[k]
    BY <1>0 DEF Overtake, Proper, TaskStates
  <1> HIDE DEF Overtake
  <1> QED
    BY <1>0, <1>1, <1>2 DEF Proper, WellFormed, Touched

LEMMA DiscardedIsProper ==
  ASSUME NEW t, Proper(t) PROVE Proper(TabDiscarded(t)) /\ Touched(t, TabDiscarded(t))
  <1>1. /\ TabDiscarded(t) \in TaskStates /\ Touched(t, TabDiscarded(t))
        /\ t.at = "confirming" => TabDiscarded(t).old = t.old
    <2>1. PICK b \in BOOLEAN : TabDiscarded(t) = [t EXCEPT !.old = b] /\ (t.old => b) /\
                               (t.at = "confirming" => b = t.old)
      BY DEF Proper, TaskStates, TabDiscarded
    <2>2. TabDiscarded(t) \in TaskStates
      BY <2>1 DEF Proper, TaskStates
    <2> QED
      BY <2>1, <2>2 DEF Proper, TaskStates, Touched
  <1>2. t.at = "idle" => TabDiscarded(t) = t
    BY DEF TabDiscarded, Proper, TaskStates
  <1> HIDE DEF TabDiscarded
  <1> QED
    BY <1>1, <1>2 DEF Proper, WellFormed, Touched

LEMMA SendResetDoes ==
  ASSUME WbTyped, NEW h \in Handlers, SendReset(h)
  PROVE  /\ WbTyped'
         /\ task[h].at = "saving" /\ task[h].kind = "reload" /\ task[h].on = Nowhere
         /\ task'[h].at = "resetting" /\ task'[h].kind = "reload" /\ task'[h].on = Nowhere
         /\ \A k \in Handlers \ {h} :
              /\ Touched(task[k], task'[k])
              /\ (task'[k].old <=> task[k].old) /\ (task'[k].overtaken <=> task[k].overtaken)
              /\ task[k].kind = "batch" /\ OccupiesConnection(task[k], task[k].on) => task'[k].stop
         /\ UNCHANGED replies /\ \A k \in Handlers : Answered(k)' <=> Answered(k)
  <1>1. task[h].at = "saving" /\ task[h].kind = "reload" /\ Proper(task[h]) /\ task[h].on = Nowhere
    <2>1. task[h].at = "saving" /\ task[h].kind = "reload" /\ Proper(task[h])
      BY DEF SendReset, GoesOn, WbTyped, TasksProper
    <2> QED
      BY <2>1 DEF Proper, WellFormed
  <1>2. task'[h] = [task[h] EXCEPT !.at = "resetting"] /\ \A k \in Handlers \ {h} : task'[k] = StoppedBatch(task[k])
    BY DEF SendReset
  <1>3. Proper(task'[h])
    BY <1>1, <1>2 DEF Proper, WellFormed, TaskStates
  <1>4. \A k \in Handlers \ {h} : Proper(task'[k]) /\ Touched(task[k], task'[k])
    BY <1>2, StoppedIsProper DEF WbTyped, TasksProper
  <1>5. TasksProper'
    <2>1. \A k \in Handlers : Proper(task'[k])
      BY <1>3, <1>4
    <2>2. task' = [k \in Handlers |-> task'[k]]
      BY DEF SendReset
    <2> QED
      BY <2>1, <2>2 DEF TasksProper, Proper
  <1>6. UNCHANGED replies
    BY DEF SendReset, GoesOn, backendVars
  <1>7. CallsAreAnswered'
    BY <1>1, <1>2, <1>4, <1>6 DEF WbTyped, CallsAreAnswered, Answered, Touched, Answerable, Proper, TaskStates
  <1>8. WbTypeOK'
    BY <1>5 DEF SendReset, GoesOn, backendVars, tabVars, moveVars, historyVars, WbTyped, WbTypeOK, TasksProper
  <1>9. task'[h].at = "resetting" /\ task'[h].kind = "reload" /\ task'[h].on = Nowhere
    BY <1>1, <1>2 DEF Proper, TaskStates
  <1>10. ASSUME NEW k \in Handlers \ {h}
         PROVE  /\ (task'[k].old <=> task[k].old) /\ (task'[k].overtaken <=> task[k].overtaken)
                /\ task[k].kind = "batch" /\ OccupiesConnection(task[k], task[k].on) => task'[k].stop
    <2>1. task[k] \in TaskStates
      BY DEF WbTyped, TasksProper
    <2>2. CASE task[k].kind = "batch" /\ OccupiesConnection(task[k], task[k].on)
      <3>1. task'[k] = [task[k] EXCEPT !.stop = TRUE]
        BY <1>2, <2>2 DEF StoppedBatch
      <3> QED
        BY <2>1, <3>1 DEF TaskStates
    <2>3. CASE ~(task[k].kind = "batch" /\ OccupiesConnection(task[k], task[k].on))
      BY <1>2, <2>3 DEF StoppedBatch
    <2> QED
      BY <2>2, <2>3
  <1>11. \A k \in Handlers : Answered(k)' <=> Answered(k)
    BY <1>6 DEF Answered
  <1> QED
    BY <1>1, <1>4, <1>5, <1>6, <1>7, <1>8, <1>9, <1>10, <1>11 DEF WbTyped

LEMMA ResetConnectionsDoes ==
  ASSUME WbTyped, NEW h \in Handlers, ResetConnections(h)
  PROVE  /\ WbTyped'
         /\ task[h].at = "resetting" /\ ~Answered(h) /\ Answered(h)' /\ OthersAnswered(h)
         /\ \A k \in Handlers :
              /\ Touched(task[k], task'[k])
              /\ (task'[k].old <=> task[k].old) /\ (task'[k].stop <=> task[k].stop)
              /\ task'[k].overtaken <=> task[k].overtaken \/ (task[k].at = "running" /\ ~Answered(k))
         /\ exempt'.unclosed = exempt.unclosed /\ exempt.astray \subseteq exempt'.astray
  <1>1. task[h].at = "resetting" /\ ~Answered(h) /\ Answered(h)' /\ OthersAnswered(h)
    BY ExecutesQueue DEF ResetConnections
  <1>2. \A k \in Handlers : task'[k] = Overtake(k)
    BY DEF ResetConnections, Overtake
  <1>3. \A k \in Handlers : Proper(task'[k]) /\ Touched(task[k], task'[k])
    BY <1>2, OvertakenIsProper DEF WbTyped
  <1>4. TasksProper'
    <2>1. task' = [k \in Handlers |-> task'[k]]
      BY DEF ResetConnections
    <2> QED
      BY <1>3, <2>1 DEF TasksProper, Proper
  <1>5. CallsAreAnswered'
    BY <1>1, <1>3 DEF WbTyped, CallsAreAnswered, Touched, Answerable, OthersAnswered
  <1>8. /\ exempt' \in [unclosed : SUBSET Names, astray : SUBSET Names]
        /\ exempt'.unclosed = exempt.unclosed /\ exempt.astray \subseteq exempt'.astray
    BY DEF ResetConnections, WbTyped, WbTypeOK
  <1>6. WbTypeOK'
    BY <1>1, <1>4, <1>8, NowhereIsApart
    DEF ResetConnections, Executes, PageUnchanged, tabVars, moveVars, WbTyped, WbTypeOK, TasksProper, OthersAnswered
  <1>7. ASSUME NEW k \in Handlers
        PROVE  /\ (task'[k].old <=> task[k].old) /\ (task'[k].stop <=> task[k].stop)
               /\ task'[k].overtaken <=> task[k].overtaken \/ (task[k].at = "running" /\ ~Answered(k))
    <2>1. task[k] \in TaskStates
      BY DEF WbTyped, TasksProper
    <2>2. PICK b \in BOOLEAN :
            /\ task'[k] = [task[k] EXCEPT !.overtaken = b]
            /\ b <=> task[k].overtaken \/ (task[k].at = "running" /\ ~Answered(k))
      BY <1>2, <2>1 DEF Overtake, Answered, TaskStates
    <2> QED
      BY <2>1, <2>2 DEF TaskStates
  <1> QED
    BY <1>1, <1>3, <1>4, <1>5, <1>6, <1>7, <1>8 DEF WbTyped

LEMMA ResetDoneDoes ==
  ASSUME WbTyped, NEW h \in Handlers, ResetDone(h)
  PROVE  /\ WbTyped'
         /\ task[h].at = "resetting" /\ task[h].kind = "reload" /\ Answered(h) /\ ~Answered(h)' /\ OthersAnswered(h)
         /\ task'[h].at = "loading" /\ task'[h].kind = "reload" /\ task'[h].on = selected
         /\ task'[h].was = task[h].was /\ task'[h].then = task[h].then
         /\ \A k \in Handlers \ {h} :
              /\ Touched(task[k], task'[k])
              /\ task'[k].old <=> task[k].old \/ Discards(task[k].at)
              /\ (task'[k].overtaken <=> task[k].overtaken) /\ (task'[k].stop <=> task[k].stop)
  <1>1. task[h].at = "resetting" /\ task[h].kind = "reload" /\ Answered(h) /\ ~Answered(h)' /\ OthersAnswered(h)
    <2>1. task[h].at \in {"resetting"} /\ Answered(h) /\ ~Answered(h)' /\ OthersAnswered(h)
      BY ReceivesQueue DEF ResetDone
    <2> QED
      BY <2>1 DEF WbTyped, TasksProper, Proper, WellFormed
  <1>2. /\ task'[h] = [task[h] EXCEPT !.at = "loading", !.on = selected]
        /\ \A k \in Handlers \ {h} : task'[k] = TabDiscarded(task[k])
    BY DEF ResetDone
  <1>3. Proper(task'[h])
    <2>1. Proper(task[h]) /\ selected \in Names \cup {Nowhere}
      BY DEF WbTyped, TasksProper, WbTypeOK
    <2> QED
      BY <1>1, <1>2, <2>1 DEF Proper, WellFormed, TaskStates
  <1>4. \A k \in Handlers \ {h} : Proper(task'[k]) /\ Touched(task[k], task'[k])
    BY <1>2, DiscardedIsProper DEF WbTyped, TasksProper
  <1>5. TasksProper'
    <2>1. \A k \in Handlers : Proper(task'[k])
      BY <1>3, <1>4
    <2>2. task' = [k \in Handlers |-> task'[k]]
      BY DEF ResetDone
    <2> QED
      BY <2>1, <2>2 DEF TasksProper, Proper
  <1>6. task'[h].at = "loading" /\ task'[h].kind = "reload" /\ task'[h].on = selected
        /\ task'[h].was = task[h].was /\ task'[h].then = task[h].then
    BY <1>1, <1>2 DEF WbTyped, TasksProper, TaskStates
  <1>7. CallsAreAnswered'
    BY <1>1, <1>6, <1>4 DEF WbTyped, CallsAreAnswered, Touched, Answerable, OthersAnswered
  <1>8. WbTypeOK'
    <2>1. selected' \in Names \cup {Nowhere} /\ schemaShown' \in Databases \cup {Nowhere} /\ writable' \in BOOLEAN
          /\ openTabs' \subseteq Editors /\ activeTab' \in Editors \cup {Nowhere}
          /\ {contextOf', movedBy'} \subseteq Handlers \cup {Nowhere} /\ established' \subseteq Names
      BY DEF ResetDone, WbTyped, WbTypeOK
    <2>2. resultTab' \in [Names -> [db : Databases \cup {Nowhere}, batch : BOOLEAN]]
      BY DEF ResetDone, NoTab
    <2> QED
      BY <1>1, <1>5, <2>1, <2>2
      DEF ResetDone, Receives, historyVars, WbTyped, WbTypeOK, TasksProper, OthersAnswered
  <1>9. ASSUME NEW k \in Handlers \ {h}
        PROVE  /\ task'[k].old <=> task[k].old \/ Discards(task[k].at)
               /\ (task'[k].overtaken <=> task[k].overtaken) /\ (task'[k].stop <=> task[k].stop)
    <2>1. task[k] \in TaskStates
      BY DEF WbTyped, TasksProper
    <2>2. PICK b \in BOOLEAN :
            task'[k] = [task[k] EXCEPT !.old = b] /\ (b <=> task[k].old \/ Discards(task[k].at))
      BY <1>2, <2>1 DEF TabDiscarded, Discards, TaskStates
    <2> QED
      BY <2>1, <2>2 DEF TaskStates
  <1> QED
    BY <1>1, <1>4, <1>5, <1>6, <1>7, <1>8, <1>9 DEF WbTyped

LEMMA StayTyped ==
  ASSUME WbTyped, Stay PROVE WbTyped' /\ task' = task
  BY NowhereIsApart
  DEF Stay, Acts, backendVars, tabVars, historyVars, WbTyped, WbTypeOK, TasksProper, CallsAreAnswered, Answered
LEMMA ToggleTyped ==
  ASSUME WbTyped, ToggleWritable PROVE WbTyped' /\ task' = task
  BY NowhereIsApart
  DEF ToggleWritable, Acts, backendVars, tabVars, moveVars, WbTyped, WbTypeOK, TasksProper, CallsAreAnswered,
      Answered
LEMMA UnchangedTyped ==
  ASSUME WbTyped, UNCHANGED wbVars PROVE WbTyped'
  BY DEF wbVars, WbTyped, WbTypeOK, TasksProper, CallsAreAnswered, Answered, tabVars, moveVars, historyVars,
     backendVars
LEMMA InitTyped ==
  ASSUME WbInit PROVE WbTyped
  <1>1. TasksProper
    BY NoTaskIsProper, NoTaskTyped DEF WbInit, TasksProper
  <1>2. replies \subseteq Handlers /\ \A h \in Handlers : ~Answered(h)
    BY DEF WbInit, Answered
  <1>3. WbTypeOK
    <2>1. resultTab \in [Names -> [db : Databases \cup {Nowhere}, batch : BOOLEAN]]
      BY DEF WbInit, NoTab
    <2>2. done \in 0 .. MaxDone
      BY NowhereIsApart DEF WbInit
    <2> QED
      BY <1>1, <1>2, <2>1, <2>2 DEF WbInit, WbTypeOK, TasksProper
  <1>4. CallsAreAnswered
    BY <1>2 DEF WbInit, CallsAreAnswered, NoTask
  <1> QED
    BY <1>1, <1>3, <1>4 DEF WbTyped

----------------------------------------------------------------------------
(* The types, and where writes are allowed                                 *)

LEMMA TypedStep ==
  ASSUME WbTyped, [WbNext]_wbVars PROVE WbTyped'
  <1>1. ASSUME NEW h \in Handlers, NEW c \in Names, Click(h, c) PROVE WbTyped'
    BY <1>1, ClickDoes
  <1>2. ASSUME NEW h \in Handlers, NEW c \in Names, SubmitCellEdits(h, c) PROVE WbTyped'
    BY <1>2, SubmitCellEditsDoes
  <1>3. ASSUME NEW h \in Handlers, NEW c \in Names, NEW s \in Sendable, Rerun(h, c, s) PROVE WbTyped'
    BY <1>3, RerunDoes
  <1>4. ASSUME NEW h \in Handlers, NEW e \in Editors, OpenFile(h, e) PROVE WbTyped'
    BY <1>4, OpenFileDoes
  <1>5. ASSUME NEW h \in Handlers, NEW s \in Databases, ChangeSchema(h, s) PROVE WbTyped'
    BY <1>5, ChangeSchemaDoes
  <1>6. ASSUME NEW h \in Handlers, NEW s \in Sendable, Run(h, s) PROVE WbTyped'
    BY <1>6, RunDoes
  <1>7. ASSUME NEW h \in Handlers, Browse(h) PROVE WbTyped'
    BY <1>7, BrowseDoes
  <1>8. ASSUME NEW h \in Handlers, RunBatch(h) PROVE WbTyped'
    BY <1>8, RunBatchDoes
  <1>9. ASSUME NEW h \in Handlers, Reload(h) PROVE WbTyped'
    BY <1>9, ReloadDoes
  <1>10. ASSUME NEW h \in Handlers, NEW e \in Editors, ClickTab(h, e) PROVE WbTyped'
    BY <1>10, ClickTabDoes
  <1>11. ASSUME NEW h \in Handlers, NEW e \in Editors, CloseTab(h, e) PROVE WbTyped'
    BY <1>11, CloseTabDoes
  <1>12. ASSUME NEW h \in Handlers, CancelBatch(h) PROVE WbTyped'
    BY <1>12, CancelBatchDoes
  <1>13. ASSUME NEW h \in Handlers, SaveEnds(h) PROVE WbTyped'
    BY <1>13, SaveEndsDoes
  <1>14. ASSUME NEW h \in Handlers, NEW s \in Sendable, NextStatement(h, s) PROVE WbTyped'
    BY <1>14, NextStatementDoes
  <1>15. ASSUME NEW h \in Handlers, ReadActive(h) PROVE WbTyped'
    BY <1>15, ReadActiveDoes
  <1>16. ASSUME NEW h \in Handlers, Overtaken(h) PROVE WbTyped'
    BY <1>16, OvertakenDoes
  <1>17. ASSUME NEW h \in Handlers, CommitContext(h) PROVE WbTyped'
    BY <1>17, CommitContextDoes
  <1>18. ASSUME NEW h \in Handlers, FileRead(h) PROVE WbTyped'
    BY <1>18, FileReadDoes
  <1>19. ASSUME NEW h \in Handlers, ListSchemas(h) PROVE WbTyped'
    BY <1>19, ListSchemasDoes
  <1>20. ASSUME NEW h \in Handlers, SchemasListed(h) PROVE WbTyped'
    BY <1>20, SchemasListedDoes
  <1>21. ASSUME NEW h \in Handlers, SendChange(h) PROVE WbTyped'
    BY <1>21, SendChangeDoes
  <1>22. ASSUME NEW h \in Handlers, SetActiveSchema(h) PROVE WbTyped'
    BY <1>22, SetActiveSchemaDoes
  <1>23. ASSUME NEW h \in Handlers, ActiveSchemaSet(h) PROVE WbTyped'
    BY <1>23, ActiveSchemaSetDoes
  <1>24. ASSUME NEW h \in Handlers, RunStatement(h) PROVE WbTyped'
    BY <1>24, RunStatementDoes
  <1>25. ASSUME NEW h \in Handlers, TryDatabase(h) PROVE WbTyped'
    BY <1>25, TryDatabaseDoes
  <1>26. ASSUME NEW h \in Handlers, Proved(h) PROVE WbTyped'
    BY <1>26, ProvedDoes
  <1>27. ASSUME NEW h \in Handlers, NotProved(h) PROVE WbTyped'
    BY <1>27, NotProvedDoes
  <1>28. ASSUME NEW h \in Handlers, Confirmed(h) PROVE WbTyped'
    BY <1>28, ConfirmedDoes
  <1>29. ASSUME NEW h \in Handlers, Ran(h) PROVE WbTyped'
    BY <1>29, RanDoes
  <1>30. ASSUME NEW h \in Handlers, Checked(h) PROVE WbTyped'
    BY <1>30, CheckedDoes
  <1>31. ASSUME NEW h \in Handlers, RunStatements(h) PROVE WbTyped'
    BY <1>31, RunStatementsDoes
  <1>32. ASSUME NEW h \in Handlers, Applied(h) PROVE WbTyped'
    BY <1>32, AppliedDoes
  <1>33. ASSUME NEW h \in Handlers, BatchSaved(h) PROVE WbTyped'
    BY <1>33, BatchSavedDoes
  <1>34. ASSUME NEW h \in Handlers, BatchRan(h) PROVE WbTyped'
    BY <1>34, BatchRanDoes
  <1>35. ASSUME NEW h \in Handlers, AnswerPrompt(h) PROVE WbTyped'
    BY <1>35, AnswerPromptDoes
  <1>36. ASSUME NEW h \in Handlers, GiveUpReload(h) PROVE WbTyped'
    BY <1>36, GiveUpReloadDoes
  <1>37. ASSUME NEW h \in Handlers, ConnectionsLoaded(h) PROVE WbTyped'
    BY <1>37, ConnectionsLoadedDoes
  <1>38. ASSUME NEW h \in Handlers, SendReset(h) PROVE WbTyped'
    BY <1>38, SendResetDoes
  <1>39. ASSUME NEW h \in Handlers, ResetConnections(h) PROVE WbTyped'
    BY <1>39, ResetConnectionsDoes
  <1>40. ASSUME NEW h \in Handlers, ResetDone(h) PROVE WbTyped'
    BY <1>40, ResetDoneDoes
  <1>41. CASE Stay
    BY <1>41, StayTyped
  <1>42. CASE ToggleWritable
    BY <1>42, ToggleTyped
  <1>43. CASE UNCHANGED wbVars
    BY <1>43, UnchangedTyped
  <1> QED
    BY <1>1, <1>2, <1>3, <1>4, <1>5, <1>6, <1>7, <1>8, <1>9, <1>10, <1>11, <1>12, <1>13, <1>14, <1>15, <1>16,
       <1>17, <1>18, <1>19, <1>20, <1>21, <1>22, <1>23, <1>24, <1>25, <1>26, <1>27, <1>28, <1>29, <1>30, <1>31,
       <1>32, <1>33, <1>34, <1>35, <1>36, <1>37, <1>38, <1>39, <1>40, <1>41, <1>42, <1>43 DEF WbNext

LEMMA WritableStep ==
  ASSUME WbTyped, WritableOnlyWhereTurnedOn, [WbNext]_wbVars PROVE WritableOnlyWhereTurnedOn'
  <1>1. ASSUME NEW h \in Handlers, NEW c \in Names, Click(h, c) PROVE WritableOnlyWhereTurnedOn'
    BY <1>1 DEF Click, WritableOnlyWhereTurnedOn, historyVars
  <1>2. ASSUME NEW h \in Handlers, NEW c \in Names, SubmitCellEdits(h, c) PROVE WritableOnlyWhereTurnedOn'
    BY <1>2 DEF SubmitCellEdits, WritableOnlyWhereTurnedOn, historyVars
  <1>3. ASSUME NEW h \in Handlers, NEW c \in Names, NEW s \in Sendable, Rerun(h, c, s)
        PROVE WritableOnlyWhereTurnedOn'
    BY <1>3 DEF Rerun, WritableOnlyWhereTurnedOn, historyVars
  <1>4. ASSUME NEW h \in Handlers, NEW e \in Editors, OpenFile(h, e) PROVE WritableOnlyWhereTurnedOn'
    BY <1>4 DEF OpenFile, WritableOnlyWhereTurnedOn, historyVars
  <1>5. ASSUME NEW h \in Handlers, NEW s \in Databases, ChangeSchema(h, s) PROVE WritableOnlyWhereTurnedOn'
    BY <1>5 DEF ChangeSchema, WritableOnlyWhereTurnedOn, historyVars
  <1>6. ASSUME NEW h \in Handlers, NEW s \in Sendable, Run(h, s) PROVE WritableOnlyWhereTurnedOn'
    BY <1>6 DEF Run, WritableOnlyWhereTurnedOn, historyVars
  <1>7. ASSUME NEW h \in Handlers, Browse(h) PROVE WritableOnlyWhereTurnedOn'
    BY <1>7 DEF Browse, WritableOnlyWhereTurnedOn, historyVars
  <1>8. ASSUME NEW h \in Handlers, RunBatch(h) PROVE WritableOnlyWhereTurnedOn'
    BY <1>8 DEF RunBatch, WritableOnlyWhereTurnedOn, historyVars
  <1>9. ASSUME NEW h \in Handlers, Reload(h) PROVE WritableOnlyWhereTurnedOn'
    BY <1>9 DEF Reload, WritableOnlyWhereTurnedOn, historyVars
  <1>10. ASSUME NEW h \in Handlers, NEW e \in Editors, ClickTab(h, e) PROVE WritableOnlyWhereTurnedOn'
    BY <1>10 DEF ClickTab, WritableOnlyWhereTurnedOn, historyVars
  <1>11. ASSUME NEW h \in Handlers, NEW e \in Editors, CloseTab(h, e) PROVE WritableOnlyWhereTurnedOn'
    BY <1>11 DEF CloseTab, WritableOnlyWhereTurnedOn, historyVars
  <1>12. ASSUME NEW h \in Handlers, CancelBatch(h) PROVE WritableOnlyWhereTurnedOn'
    BY <1>12 DEF CancelBatch, WritableOnlyWhereTurnedOn, historyVars
  <1>13. ASSUME NEW h \in Handlers, SaveEnds(h) PROVE WritableOnlyWhereTurnedOn'
    BY <1>13 DEF SaveEnds, WritableOnlyWhereTurnedOn, historyVars
  <1>14. ASSUME NEW h \in Handlers, NEW s \in Sendable, NextStatement(h, s) PROVE WritableOnlyWhereTurnedOn'
    BY <1>14 DEF NextStatement, WritableOnlyWhereTurnedOn, historyVars
  <1>15. ASSUME NEW h \in Handlers, ReadActive(h) PROVE WritableOnlyWhereTurnedOn'
    BY <1>15 DEF ReadActive, WritableOnlyWhereTurnedOn, PageUnchanged, historyVars, Astray
  <1>16. ASSUME NEW h \in Handlers, Overtaken(h) PROVE WritableOnlyWhereTurnedOn'
    BY <1>16 DEF Overtaken, WritableOnlyWhereTurnedOn, historyVars
  <1>17. ASSUME NEW h \in Handlers, CommitContext(h) PROVE WritableOnlyWhereTurnedOn'
    BY <1>17 DEF CommitContext, WritableOnlyWhereTurnedOn, WritableAfter, historyVars
  <1>18. ASSUME NEW h \in Handlers, FileRead(h) PROVE WritableOnlyWhereTurnedOn'
    BY <1>18 DEF FileRead, WritableOnlyWhereTurnedOn, historyVars
  <1>19. ASSUME NEW h \in Handlers, ListSchemas(h) PROVE WritableOnlyWhereTurnedOn'
    BY <1>19 DEF ListSchemas, WritableOnlyWhereTurnedOn, PageUnchanged, historyVars
  <1>20. ASSUME NEW h \in Handlers, SchemasListed(h) PROVE WritableOnlyWhereTurnedOn'
    BY <1>20 DEF SchemasListed, WritableOnlyWhereTurnedOn, historyVars
  <1>21. ASSUME NEW h \in Handlers, SendChange(h) PROVE WritableOnlyWhereTurnedOn'
    BY <1>21 DEF SendChange, WritableOnlyWhereTurnedOn, historyVars
  <1>22. ASSUME NEW h \in Handlers, SetActiveSchema(h) PROVE WritableOnlyWhereTurnedOn'
    BY <1>22 DEF SetActiveSchema, WritableOnlyWhereTurnedOn, PageUnchanged, historyVars, Astray
  <1>23. ASSUME NEW h \in Handlers, ActiveSchemaSet(h) PROVE WritableOnlyWhereTurnedOn'
    BY <1>23 DEF ActiveSchemaSet, WritableOnlyWhereTurnedOn, historyVars
  <1>24. ASSUME NEW h \in Handlers, RunStatement(h) PROVE WritableOnlyWhereTurnedOn'
    BY <1>24 DEF RunStatement, WritableOnlyWhereTurnedOn, PageUnchanged, historyVars
  <1>25. ASSUME NEW h \in Handlers, TryDatabase(h) PROVE WritableOnlyWhereTurnedOn'
    BY <1>25 DEF TryDatabase, WritableOnlyWhereTurnedOn, PageUnchanged, historyVars, Astray
  <1>26. ASSUME NEW h \in Handlers, Proved(h) PROVE WritableOnlyWhereTurnedOn'
    BY <1>26 DEF Proved, WritableOnlyWhereTurnedOn, PageUnchanged, historyVars
  <1>27. ASSUME NEW h \in Handlers, NotProved(h) PROVE WritableOnlyWhereTurnedOn'
    BY <1>27 DEF NotProved, WritableOnlyWhereTurnedOn, PageUnchanged, historyVars
  <1>28. ASSUME NEW h \in Handlers, Confirmed(h) PROVE WritableOnlyWhereTurnedOn'
    BY <1>28 DEF Confirmed, WritableOnlyWhereTurnedOn, historyVars
  <1>29. ASSUME NEW h \in Handlers, Ran(h) PROVE WritableOnlyWhereTurnedOn'
    BY <1>29 DEF Ran, WritableOnlyWhereTurnedOn, historyVars
  <1>30. ASSUME NEW h \in Handlers, Checked(h) PROVE WritableOnlyWhereTurnedOn'
    BY <1>30 DEF Checked, WritableOnlyWhereTurnedOn, historyVars
  <1>31. ASSUME NEW h \in Handlers, RunStatements(h) PROVE WritableOnlyWhereTurnedOn'
    BY <1>31 DEF RunStatements, WritableOnlyWhereTurnedOn, PageUnchanged, historyVars
  <1>32. ASSUME NEW h \in Handlers, Applied(h) PROVE WritableOnlyWhereTurnedOn'
    BY <1>32 DEF Applied, WritableOnlyWhereTurnedOn, historyVars
  <1>33. ASSUME NEW h \in Handlers, BatchSaved(h) PROVE WritableOnlyWhereTurnedOn'
    BY <1>33 DEF BatchSaved, WritableOnlyWhereTurnedOn, historyVars
  <1>34. ASSUME NEW h \in Handlers, BatchRan(h) PROVE WritableOnlyWhereTurnedOn'
    BY <1>34 DEF BatchRan, WritableOnlyWhereTurnedOn, historyVars
  <1>35. ASSUME NEW h \in Handlers, AnswerPrompt(h) PROVE WritableOnlyWhereTurnedOn'
    BY <1>35 DEF AnswerPrompt, WritableOnlyWhereTurnedOn, historyVars
  <1>36. ASSUME NEW h \in Handlers, GiveUpReload(h) PROVE WritableOnlyWhereTurnedOn'
    BY <1>36 DEF GiveUpReload, WritableOnlyWhereTurnedOn, historyVars
  <1>37. ASSUME NEW h \in Handlers, ConnectionsLoaded(h) PROVE WritableOnlyWhereTurnedOn'
    BY <1>37 DEF ConnectionsLoaded, WritableOnlyWhereTurnedOn, historyVars
  <1>38. ASSUME NEW h \in Handlers, SendReset(h) PROVE WritableOnlyWhereTurnedOn'
    BY <1>38 DEF SendReset, WritableOnlyWhereTurnedOn, historyVars
  <1>39. ASSUME NEW h \in Handlers, ResetConnections(h) PROVE WritableOnlyWhereTurnedOn'
    BY <1>39 DEF ResetConnections, WritableOnlyWhereTurnedOn, PageUnchanged, historyVars
  <1>40. ASSUME NEW h \in Handlers, ResetDone(h) PROVE WritableOnlyWhereTurnedOn'
    BY <1>40 DEF ResetDone, WritableOnlyWhereTurnedOn, historyVars
  <1>41. CASE Stay
    BY <1>41 DEF WritableOnlyWhereTurnedOn, Stay, historyVars
  <1>42. CASE ToggleWritable
    BY <1>42 DEF WritableOnlyWhereTurnedOn, ToggleWritable, historyVars
  <1>43. CASE UNCHANGED wbVars
    BY <1>43 DEF WritableOnlyWhereTurnedOn, wbVars, historyVars
  <1> QED
    BY <1>1, <1>2, <1>3, <1>4, <1>5, <1>6, <1>7, <1>8, <1>9, <1>10, <1>11, <1>12, <1>13, <1>14, <1>15, <1>16,
       <1>17, <1>18, <1>19, <1>20, <1>21, <1>22, <1>23, <1>24, <1>25, <1>26, <1>27, <1>28, <1>29, <1>30, <1>31,
       <1>32, <1>33, <1>34, <1>35, <1>36, <1>37, <1>38, <1>39, <1>40, <1>41, <1>42, <1>43 DEF WbNext

----------------------------------------------------------------------------
(* What runs, and what keeps off it                                        *)

Batch(t, c) == t.kind = "batch" /\ OccupiesConnection(t, c)
BatchMeetsNoSwitch ==
  \A h, k \in Handlers : \A c \in Names :
    Batch(task[h], c) => ~(task[k].at = "switching" /\ task[k].on = c)
ReloadStopsBatches ==
  \A h, k \in Handlers : \A c \in Names : Batch(task[h], c) /\ task[k].at = "resetting" => task[h].stop
RunsApart == OneRunAtATime /\ BatchMeetsNoSwitch /\ ReloadStopsBatches

(* What a step may make of its task: it starts only what may start.        *)
Turn(h) ==
  /\ \A c : OccupiesConnection(task'[h], c) => OccupiesConnection(task[h], c) \/ ~IsRunning(c)
  /\ \A c : Batch(task'[h], c) => (Batch(task[h], c) /\ (task[h].stop => task'[h].stop)) \/ BatchMayStart(c)
  /\ task'[h].at = "switching" =>
       (task[h].at = "switching" /\ task'[h].on = task[h].on) \/ ~IsBatchRunning(task'[h].on)
  /\ task'[h].at = "resetting" => task[h].at = "resetting"

LEMMA TurnKeepsApart ==
  ASSUME WbTyped, RunsApart, NEW h \in Handlers, OthersTold(h), Turn(h)
  PROVE  RunsApart'
  <1>1. \A k \in Handlers \ {h} : \A c : OccupiesConnection(task'[k], c) <=> OccupiesConnection(task[k], c)
    BY DEF OthersTold, Told, OccupiesConnection
  <1>2. OneRunAtATime'
    BY <1>1 DEF RunsApart, OneRunAtATime, IsRunning, Turn
  <1>3. \A k \in Handlers \ {h} :
          /\ \A c : Batch(task'[k], c) <=> Batch(task[k], c)
          /\ task'[k].at = task[k].at /\ task'[k].on = task[k].on /\ (task'[k].stop <=> task[k].stop)
    BY <1>1 DEF OthersTold, Told, Batch
  <1>4. BatchMeetsNoSwitch'
    <2> SUFFICES ASSUME NEW i \in Handlers, NEW k \in Handlers, NEW c \in Names, Batch(task'[i], c),
                        task'[k].at = "switching", task'[k].on = c
                 PROVE  FALSE
      BY DEF BatchMeetsNoSwitch
    <2>1. CASE i = h /\ k # h
      <3>1. ~Batch(task[h], c) /\ task[k].at = "switching" /\ task[k].on = c
        BY <1>3, <2>1 DEF RunsApart, BatchMeetsNoSwitch
      <3> QED
        BY <2>1, <3>1 DEF Turn, BatchMayStart, IsSwitching
    <2>2. CASE i # h /\ k = h
      <3>1. Batch(task[i], c)
        BY <1>3, <2>2
      <3>2. IsBatchRunning(c)
        BY <3>1 DEF IsBatchRunning, Batch
      <3> QED
        BY <2>2, <3>1, <3>2 DEF Turn, RunsApart, BatchMeetsNoSwitch
    <2>3. CASE i = h /\ k = h
      BY <2>3 DEF Batch, OccupiesConnection
    <2>4. CASE i # h /\ k # h
      BY <1>3, <2>4 DEF RunsApart, BatchMeetsNoSwitch
    <2> QED
      BY <2>1, <2>2, <2>3, <2>4
  <1>5. ReloadStopsBatches'
    <2> SUFFICES ASSUME NEW i \in Handlers, NEW k \in Handlers, NEW c \in Names, Batch(task'[i], c),
                        task'[k].at = "resetting"
                 PROVE  task'[i].stop
      BY DEF ReloadStopsBatches
    <2>1. task[k].at = "resetting" /\ task[k].kind = "reload"
      <3>1. task[k].at = "resetting"
        BY <1>3 DEF Turn
      <3> QED
        BY <3>1 DEF WbTyped, TasksProper, Proper, WellFormed
    <2>2. IsReloading
      BY <2>1 DEF IsReloading
    <2>3. CASE i = h
      BY <2>1, <2>2, <2>3 DEF Turn, BatchMayStart, RunsApart, ReloadStopsBatches
    <2>4. CASE i # h
      BY <1>3, <2>1, <2>4 DEF RunsApart, ReloadStopsBatches
    <2> QED
      BY <2>3, <2>4
  <1> QED
    BY <1>2, <1>4, <1>5 DEF RunsApart

(* A reload touches all tasks, but starts nothing, and stops the batches.  *)
LEMMA ResetKeepsApart ==
  ASSUME RunsApart,
         \A k \in Handlers :
           /\ \A c : OccupiesConnection(task'[k], c) => OccupiesConnection(task[k], c)
           /\ task'[k].kind = task[k].kind
           /\ task[k].kind = "batch" /\ task[k].stop => task'[k].stop
           /\ task'[k].at = "switching" => task[k].at = "switching" /\ task'[k].on = task[k].on,
         \A k \in Handlers : \A c : Batch(task[k], c) => task'[k].stop \/
           \A i \in Handlers : task'[i].at = "resetting" => task[i].at = "resetting"
  PROVE  RunsApart'
  <1>1. OneRunAtATime'
    BY DEF RunsApart, OneRunAtATime
  <1>2. \A k \in Handlers : \A c : Batch(task'[k], c) => Batch(task[k], c)
    BY DEF Batch
  <1>3. BatchMeetsNoSwitch'
    BY <1>2 DEF RunsApart, BatchMeetsNoSwitch
  <1>4. ReloadStopsBatches'
    BY <1>2 DEF RunsApart, ReloadStopsBatches, Batch
  <1> QED
    BY <1>1, <1>3, <1>4 DEF RunsApart

LEMMA ApartStep ==
  ASSUME WbTyped, RunsApart, [WbNext]_wbVars PROVE RunsApart'
  <1>1. ASSUME NEW h \in Handlers, NEW c \in Names, Click(h, c) PROVE RunsApart'
    <2>1. Turn(h)
      BY <1>1, ClickDoes DEF Turn, Batch, OccupiesConnection, New, Ended, Stays, WbTyped, TasksProper, Proper,
         WellFormed
    <2> QED
      BY <1>1, ClickDoes, <2>1, TurnKeepsApart
  <1>2. ASSUME NEW h \in Handlers, NEW c \in Names, SubmitCellEdits(h, c) PROVE RunsApart'
    <2>1. task'[h].at = "applying" /\ task'[h].kind = "edits" /\ task'[h].on = c /\ ~IsRunning(c)
      BY <1>2, SubmitCellEditsDoes DEF New, SubmitCellEdits
    <2>2. Turn(h)
      BY <2>1 DEF Turn, Batch, OccupiesConnection
    <2> QED
      BY <1>2, SubmitCellEditsDoes, <2>2, TurnKeepsApart
  <1>3. ASSUME NEW h \in Handlers, NEW c \in Names, NEW s \in Sendable, Rerun(h, c, s) PROVE RunsApart'
    <2>1. Turn(h)
      BY <1>3, RerunDoes DEF Turn, Batch, OccupiesConnection, New, Ended, Stays, WbTyped, TasksProper, Proper,
         WellFormed
    <2> QED
      BY <1>3, RerunDoes, <2>1, TurnKeepsApart
  <1>4. ASSUME NEW h \in Handlers, NEW e \in Editors, OpenFile(h, e) PROVE RunsApart'
    <2>1. Turn(h)
      BY <1>4, OpenFileDoes DEF Turn, Batch, OccupiesConnection, New, Ended, Stays, WbTyped, TasksProper, Proper,
         WellFormed
    <2> QED
      BY <1>4, OpenFileDoes, <2>1, TurnKeepsApart
  <1>5. ASSUME NEW h \in Handlers, NEW s \in Databases, ChangeSchema(h, s) PROVE RunsApart'
    <2>1. Turn(h)
      BY <1>5, ChangeSchemaDoes DEF Turn, Batch, OccupiesConnection, New, Ended, Stays, WbTyped, TasksProper,
         Proper, WellFormed
    <2> QED
      BY <1>5, ChangeSchemaDoes, <2>1, TurnKeepsApart
  <1>6. ASSUME NEW h \in Handlers, NEW s \in Sendable, Run(h, s) PROVE RunsApart'
    <2>1. Turn(h)
      BY <1>6, RunDoes DEF Turn, Batch, OccupiesConnection, New, Ended, Stays, WbTyped, TasksProper, Proper,
         WellFormed
    <2> QED
      BY <1>6, RunDoes, <2>1, TurnKeepsApart
  <1>7. ASSUME NEW h \in Handlers, Browse(h) PROVE RunsApart'
    <2>1. Turn(h)
      BY <1>7, BrowseDoes DEF Turn, Batch, OccupiesConnection, New, Ended, Stays, WbTyped, TasksProper, Proper,
         WellFormed
    <2> QED
      BY <1>7, BrowseDoes, <2>1, TurnKeepsApart
  <1>8. ASSUME NEW h \in Handlers, RunBatch(h) PROVE RunsApart'
    <2>1. Turn(h)
      BY <1>8, RunBatchDoes DEF Turn, Batch, OccupiesConnection, New, Ended, Stays, WbTyped, TasksProper, Proper,
         WellFormed
    <2> QED
      BY <1>8, RunBatchDoes, <2>1, TurnKeepsApart
  <1>9. ASSUME NEW h \in Handlers, Reload(h) PROVE RunsApart'
    <2>1. Turn(h)
      BY <1>9, ReloadDoes DEF Turn, Batch, OccupiesConnection, New, Ended, Stays, WbTyped, TasksProper, Proper,
         WellFormed
    <2> QED
      BY <1>9, ReloadDoes, <2>1, TurnKeepsApart
  <1>10. ASSUME NEW h \in Handlers, NEW e \in Editors, ClickTab(h, e) PROVE RunsApart'
    <2>1. Turn(h)
      BY <1>10, ClickTabDoes DEF Turn, Batch, OccupiesConnection, New, Ended, Stays, WbTyped, TasksProper, Proper,
         WellFormed
    <2> QED
      BY <1>10, ClickTabDoes, <2>1, TurnKeepsApart
  <1>11. ASSUME NEW h \in Handlers, NEW e \in Editors, CloseTab(h, e) PROVE RunsApart'
    <2>1. Turn(h)
      BY <1>11, CloseTabDoes DEF Turn, Batch, OccupiesConnection, New, Ended, Stays, WbTyped, TasksProper, Proper,
         WellFormed
    <2> QED
      BY <1>11, CloseTabDoes, <2>1, TurnKeepsApart
  <1>12. ASSUME NEW h \in Handlers, CancelBatch(h) PROVE RunsApart'
    <2>1. Turn(h)
      BY <1>12, CancelBatchDoes DEF Turn, Batch, OccupiesConnection, New, Ended, Stays, WbTyped, TasksProper,
         Proper, WellFormed
    <2> QED
      BY <1>12, CancelBatchDoes, <2>1, TurnKeepsApart
  <1>13. ASSUME NEW h \in Handlers, SaveEnds(h) PROVE RunsApart'
    <2>1. Turn(h)
      BY <1>13, SaveEndsDoes DEF Turn, Batch, OccupiesConnection, New, Ended, Stays, WbTyped, TasksProper, Proper,
         WellFormed
    <2> QED
      BY <1>13, SaveEndsDoes, <2>1, TurnKeepsApart
  <1>14. ASSUME NEW h \in Handlers, NEW s \in Sendable, NextStatement(h, s) PROVE RunsApart'
    <2>1. Turn(h)
      BY <1>14, NextStatementDoes DEF Turn, Batch, OccupiesConnection, New, Ended, Stays, WbTyped, TasksProper,
         Proper, WellFormed, MayGoOn
    <2> QED
      BY <1>14, NextStatementDoes, <2>1, TurnKeepsApart
  <1>15. ASSUME NEW h \in Handlers, ReadActive(h) PROVE RunsApart'
    <2>1. Turn(h)
      BY <1>15, ReadActiveDoes DEF Turn, Batch, OccupiesConnection, New, Ended, Stays, WbTyped, TasksProper,
         Proper, WellFormed
    <2> QED
      BY <1>15, ReadActiveDoes, <2>1, TurnKeepsApart
  <1>16. ASSUME NEW h \in Handlers, Overtaken(h) PROVE RunsApart'
    <2>1. Turn(h)
      BY <1>16, OvertakenDoes DEF Turn, Batch, OccupiesConnection, New, Ended, Stays, WbTyped, TasksProper, Proper,
         WellFormed
    <2> QED
      BY <1>16, OvertakenDoes, <2>1, TurnKeepsApart
  <1>17. ASSUME NEW h \in Handlers, CommitContext(h) PROVE RunsApart'
    <2>1. Turn(h)
      BY <1>17, CommitContextDoes DEF Turn, Batch, OccupiesConnection, New, Ended, Stays, WbTyped, TasksProper,
         Proper, WellFormed
    <2> QED
      BY <1>17, CommitContextDoes, <2>1, TurnKeepsApart
  <1>18. ASSUME NEW h \in Handlers, FileRead(h) PROVE RunsApart'
    <2>1. Turn(h)
      BY <1>18, FileReadDoes DEF Turn, Batch, OccupiesConnection, New, Ended, Stays, WbTyped, TasksProper, Proper,
         WellFormed
    <2> QED
      BY <1>18, FileReadDoes, <2>1, TurnKeepsApart
  <1>19. ASSUME NEW h \in Handlers, ListSchemas(h) PROVE RunsApart'
    <2>1. Turn(h)
      BY <1>19, ListSchemasDoes DEF Turn, Batch, OccupiesConnection, New, Ended, Stays, WbTyped, TasksProper,
         Proper, WellFormed
    <2> QED
      BY <1>19, ListSchemasDoes, <2>1, TurnKeepsApart
  <1>20. ASSUME NEW h \in Handlers, SchemasListed(h) PROVE RunsApart'
    <2>1. Turn(h)
      BY <1>20, SchemasListedDoes DEF Turn, Batch, OccupiesConnection, New, Ended, Stays, WbTyped, TasksProper,
         Proper, WellFormed
    <2> QED
      BY <1>20, SchemasListedDoes, <2>1, TurnKeepsApart
  <1>21. ASSUME NEW h \in Handlers, SendChange(h) PROVE RunsApart'
    <2>1. Turn(h)
      BY <1>21, SendChangeDoes DEF Turn, Batch, OccupiesConnection, New, Ended, Stays, WbTyped, TasksProper,
         Proper, WellFormed
    <2> QED
      BY <1>21, SendChangeDoes, <2>1, TurnKeepsApart
  <1>22. ASSUME NEW h \in Handlers, SetActiveSchema(h) PROVE RunsApart'
    <2>1. Turn(h)
      BY <1>22, SetActiveSchemaDoes DEF Turn, Batch, OccupiesConnection, New, Ended, Stays, WbTyped, TasksProper,
         Proper, WellFormed
    <2> QED
      BY <1>22, SetActiveSchemaDoes, <2>1, TurnKeepsApart
  <1>23. ASSUME NEW h \in Handlers, ActiveSchemaSet(h) PROVE RunsApart'
    <2>1. Turn(h)
      BY <1>23, ActiveSchemaSetDoes DEF Turn, Batch, OccupiesConnection, New, Ended, Stays, WbTyped, TasksProper,
         Proper, WellFormed
    <2> QED
      BY <1>23, ActiveSchemaSetDoes, <2>1, TurnKeepsApart
  <1>24. ASSUME NEW h \in Handlers, RunStatement(h) PROVE RunsApart'
    <2>1. Turn(h)
      BY <1>24, RunStatementDoes DEF Turn, Batch, OccupiesConnection, New, Ended, Stays, WbTyped, TasksProper,
         Proper, WellFormed
    <2> QED
      BY <1>24, RunStatementDoes, <2>1, TurnKeepsApart
  <1>25. ASSUME NEW h \in Handlers, TryDatabase(h) PROVE RunsApart'
    <2>1. Turn(h)
      BY <1>25, TryDatabaseDoes DEF Turn, Batch, OccupiesConnection, New, Ended, Stays, WbTyped, TasksProper,
         Proper, WellFormed
    <2> QED
      BY <1>25, TryDatabaseDoes, <2>1, TurnKeepsApart
  <1>26. ASSUME NEW h \in Handlers, Proved(h) PROVE RunsApart'
    <2>1. Turn(h)
      BY <1>26, ProvedDoes DEF Turn, Batch, OccupiesConnection, New, Ended, Stays, WbTyped, TasksProper, Proper,
         WellFormed
    <2> QED
      BY <1>26, ProvedDoes, <2>1, TurnKeepsApart
  <1>27. ASSUME NEW h \in Handlers, NotProved(h) PROVE RunsApart'
    <2>1. Turn(h)
      BY <1>27, NotProvedDoes DEF Turn, Batch, OccupiesConnection, New, Ended, Stays, WbTyped, TasksProper, Proper,
         WellFormed
    <2> QED
      BY <1>27, NotProvedDoes, <2>1, TurnKeepsApart
  <1>28. ASSUME NEW h \in Handlers, Confirmed(h) PROVE RunsApart'
    <2>1. Turn(h)
      BY <1>28, ConfirmedDoes DEF Turn, Batch, OccupiesConnection, New, Ended, Stays, WbTyped, TasksProper, Proper,
         WellFormed, MayStart
    <2> QED
      BY <1>28, ConfirmedDoes, <2>1, TurnKeepsApart
  <1>29. ASSUME NEW h \in Handlers, Ran(h) PROVE RunsApart'
    <2>1. Turn(h)
      BY <1>29, RanDoes DEF Turn, Batch, OccupiesConnection, New, Ended, Stays, WbTyped, TasksProper, Proper,
         WellFormed
    <2> QED
      BY <1>29, RanDoes, <2>1, TurnKeepsApart
  <1>30. ASSUME NEW h \in Handlers, Checked(h) PROVE RunsApart'
    <2>1. Turn(h)
      BY <1>30, CheckedDoes DEF Turn, Batch, OccupiesConnection, New, Ended, Stays, WbTyped, TasksProper, Proper,
         WellFormed
    <2> QED
      BY <1>30, CheckedDoes, <2>1, TurnKeepsApart
  <1>31. ASSUME NEW h \in Handlers, RunStatements(h) PROVE RunsApart'
    <2>1. Turn(h)
      BY <1>31, RunStatementsDoes DEF Turn, Batch, OccupiesConnection, New, Ended, Stays, WbTyped, TasksProper,
         Proper, WellFormed
    <2> QED
      BY <1>31, RunStatementsDoes, <2>1, TurnKeepsApart
  <1>32. ASSUME NEW h \in Handlers, Applied(h) PROVE RunsApart'
    <2>1. Turn(h)
      BY <1>32, AppliedDoes DEF Turn, Batch, OccupiesConnection, New, Ended, Stays, WbTyped, TasksProper, Proper,
         WellFormed
    <2> QED
      BY <1>32, AppliedDoes, <2>1, TurnKeepsApart
  <1>33. ASSUME NEW h \in Handlers, BatchSaved(h) PROVE RunsApart'
    <2>1. Turn(h)
      BY <1>33, BatchSavedDoes DEF Turn, Batch, OccupiesConnection, New, Ended, Stays, WbTyped, TasksProper,
         Proper, WellFormed, MayStart
    <2> QED
      BY <1>33, BatchSavedDoes, <2>1, TurnKeepsApart
  <1>34. ASSUME NEW h \in Handlers, BatchRan(h) PROVE RunsApart'
    <2>1. Turn(h)
      BY <1>34, BatchRanDoes DEF Turn, Batch, OccupiesConnection, New, Ended, Stays, WbTyped, TasksProper, Proper,
         WellFormed
    <2> QED
      BY <1>34, BatchRanDoes, <2>1, TurnKeepsApart
  <1>35. ASSUME NEW h \in Handlers, AnswerPrompt(h) PROVE RunsApart'
    <2>1. Turn(h)
      BY <1>35, AnswerPromptDoes DEF Turn, Batch, OccupiesConnection, New, Ended, Stays, WbTyped, TasksProper,
         Proper, WellFormed
    <2> QED
      BY <1>35, AnswerPromptDoes, <2>1, TurnKeepsApart
  <1>36. ASSUME NEW h \in Handlers, GiveUpReload(h) PROVE RunsApart'
    <2>1. Turn(h)
      BY <1>36, GiveUpReloadDoes DEF Turn, Batch, OccupiesConnection, New, Ended, Stays, WbTyped, TasksProper,
         Proper, WellFormed
    <2> QED
      BY <1>36, GiveUpReloadDoes, <2>1, TurnKeepsApart
  <1>37. ASSUME NEW h \in Handlers, ConnectionsLoaded(h) PROVE RunsApart'
    <2>1. Turn(h)
      BY <1>37, ConnectionsLoadedDoes DEF Turn, Batch, OccupiesConnection, New, Ended, Stays, WbTyped, TasksProper,
         Proper, WellFormed
    <2> QED
      BY <1>37, ConnectionsLoadedDoes, <2>1, TurnKeepsApart
  <1>38. ASSUME NEW h \in Handlers, SendReset(h) PROVE RunsApart'
    <2>1. \A k \in Handlers :
            /\ \A c : OccupiesConnection(task'[k], c) => OccupiesConnection(task[k], c)
            /\ task'[k].kind = task[k].kind /\ (task[k].kind = "batch" /\ task[k].stop => task'[k].stop)
            /\ task'[k].at = "switching" => task[k].at = "switching" /\ task'[k].on = task[k].on
      BY <1>38, SendResetDoes DEF Touched, OccupiesConnection, WbTyped, TasksProper
    <2>2. \A k \in Handlers : \A c : Batch(task[k], c) => task'[k].stop
      BY <1>38, SendResetDoes DEF Touched, OccupiesConnection, Batch, WbTyped, TasksProper, Proper, WellFormed
    <2> QED
      BY <2>1, <2>2, ResetKeepsApart
  <1>39. ASSUME NEW h \in Handlers, ResetConnections(h) PROVE RunsApart'
    <2>1. \A k \in Handlers :
            /\ \A c : OccupiesConnection(task'[k], c) => OccupiesConnection(task[k], c)
            /\ task'[k].kind = task[k].kind /\ (task[k].kind = "batch" /\ task[k].stop => task'[k].stop)
            /\ task'[k].at = "switching" => task[k].at = "switching" /\ task'[k].on = task[k].on
      BY <1>39, ResetConnectionsDoes DEF Touched, OccupiesConnection, WbTyped, TasksProper
    <2>2. \A i \in Handlers : task'[i].at = "resetting" => task[i].at = "resetting"
      BY <1>39, ResetConnectionsDoes DEF Touched, OccupiesConnection, WbTyped
    <2> QED
      BY <2>1, <2>2, ResetKeepsApart
  <1>40. ASSUME NEW h \in Handlers, ResetDone(h) PROVE RunsApart'
    <2>1. \A k \in Handlers :
            /\ \A c : OccupiesConnection(task'[k], c) => OccupiesConnection(task[k], c)
            /\ task'[k].kind = task[k].kind /\ (task[k].kind = "batch" /\ task[k].stop => task'[k].stop)
            /\ task'[k].at = "switching" => task[k].at = "switching" /\ task'[k].on = task[k].on
      BY <1>40, ResetDoneDoes DEF Touched, OccupiesConnection, WbTyped, TasksProper
    <2>2. \A i \in Handlers : task'[i].at = "resetting" => task[i].at = "resetting"
      BY <1>40, ResetDoneDoes DEF Touched, OccupiesConnection, WbTyped
    <2> QED
      BY <2>1, <2>2, ResetKeepsApart
  <1>41. CASE Stay
    BY <1>41, StayTyped DEF RunsApart, OneRunAtATime, BatchMeetsNoSwitch, ReloadStopsBatches
  <1>42. CASE ToggleWritable
    BY <1>42, ToggleTyped DEF RunsApart, OneRunAtATime, BatchMeetsNoSwitch, ReloadStopsBatches
  <1>43. CASE UNCHANGED wbVars
    BY <1>43 DEF RunsApart, OneRunAtATime, BatchMeetsNoSwitch, ReloadStopsBatches, wbVars
  <1> QED
    BY <1>1, <1>2, <1>3, <1>4, <1>5, <1>6, <1>7, <1>8, <1>9, <1>10, <1>11, <1>12, <1>13, <1>14, <1>15, <1>16,
       <1>17, <1>18, <1>19, <1>20, <1>21, <1>22, <1>23, <1>24, <1>25, <1>26, <1>27, <1>28, <1>29, <1>30, <1>31,
       <1>32, <1>33, <1>34, <1>35, <1>36, <1>37, <1>38, <1>39, <1>40, <1>41, <1>42, <1>43 DEF WbNext

----------------------------------------------------------------------------
(* A statement of a batch that a reload did not stop in time               *)

ResetDoneSoon == \E h \in Handlers : task[h].at = "resetting" /\ Answered(h)
SentBeforeReset ==
  \A h \in Handlers :
    task[h].kind = "batch" /\ task[h].at = "running" /\ ~Answered(h) /\ (task[h].old \/ ResetDoneSoon)
      => task[h].overtaken
Sends(h) ==
  /\ task'[h].kind = "batch" /\ task'[h].at = "running" /\ ~Answered(h)' =>
       \/ /\ task[h].kind = "batch" /\ task[h].at = "running" /\ ~Answered(h)
          /\ (task'[h].old => task[h].old) /\ (task[h].overtaken => task'[h].overtaken)
       \/ ~task'[h].old /\ ~task[h].stop /\ task[h].on \in Names /\ Batch(task[h], task[h].on)
  /\ task'[h].at = "resetting" => task[h].at = "resetting" /\ (Answered(h)' => Answered(h))

LEMMA SentMoves ==
  ASSUME RunsApart, SentBeforeReset, NEW h \in Handlers, OthersTold(h), OthersAnswered(h), Sends(h)
  PROVE  SentBeforeReset'
  <1>1. ResetDoneSoon' => ResetDoneSoon
    BY DEF ResetDoneSoon, Sends, OthersTold, Told, OthersAnswered
  <1>2. ResetDoneSoon => \A c \in Names : Batch(task[h], c) => task[h].stop
    BY DEF ResetDoneSoon, RunsApart, ReloadStopsBatches
  <1> SUFFICES ASSUME NEW k \in Handlers, task'[k].kind = "batch", task'[k].at = "running", ~Answered(k)',
                      task'[k].old \/ ResetDoneSoon'
               PROVE  task'[k].overtaken
    BY DEF SentBeforeReset
  <1>3. CASE k = h
    BY <1>1, <1>2, <1>3 DEF Sends, SentBeforeReset
  <1>4. CASE k # h
    <2>1. /\ task[k].kind = "batch" /\ task[k].at = "running" /\ ~Answered(k)
          /\ (task'[k].old <=> task[k].old) /\ (task'[k].overtaken <=> task[k].overtaken)
      BY <1>4 DEF OthersTold, Told, OthersAnswered
    <2> QED
      BY <1>1, <2>1 DEF SentBeforeReset
  <1> QED
    BY <1>3, <1>4

LEMMA SendResetSent ==
  ASSUME WbTyped, SentBeforeReset, NEW h \in Handlers, SendReset(h) PROVE SentBeforeReset'
  <1>0. ~Answered(h)
    BY SendResetDoes DEF WbTyped, CallsAreAnswered, Answerable
  <1>1. ResetDoneSoon' => ResetDoneSoon
    BY <1>0, SendResetDoes DEF ResetDoneSoon, Touched
  <1> QED
    BY <1>1, SendResetDoes DEF SentBeforeReset, Touched
LEMMA ResetConnectionsSent ==
  ASSUME WbTyped, NEW h \in Handlers, ResetConnections(h) PROVE SentBeforeReset'
  BY ResetConnectionsDoes DEF SentBeforeReset, Touched, OthersAnswered
LEMMA ResetDoneSent ==
  ASSUME WbTyped, SentBeforeReset, NEW h \in Handlers, ResetDone(h) PROVE SentBeforeReset'
  <1>1. ResetDoneSoon
    BY ResetDoneDoes DEF ResetDoneSoon
  <1> QED
    BY <1>1, ResetDoneDoes DEF SentBeforeReset, Touched, OthersAnswered

LEMMA SentStep ==
  ASSUME WbTyped, RunsApart, SentBeforeReset, [WbNext]_wbVars PROVE SentBeforeReset'
  <1>1. ASSUME NEW h \in Handlers, NEW c \in Names, Click(h, c) PROVE SentBeforeReset'
    <2>1. Sends(h)
      BY <1>1, ClickDoes DEF Sends, New, Ended, Stays, WbTyped, TasksProper, Proper, WellFormed
    <2> QED
      BY <1>1, ClickDoes, <2>1, SentMoves
  <1>2. ASSUME NEW h \in Handlers, NEW c \in Names, SubmitCellEdits(h, c) PROVE SentBeforeReset'
    <2>1. Sends(h)
      BY <1>2, SubmitCellEditsDoes DEF Sends, New, Ended, Stays, WbTyped, TasksProper, Proper, WellFormed
    <2> QED
      BY <1>2, SubmitCellEditsDoes, <2>1, SentMoves
  <1>3. ASSUME NEW h \in Handlers, NEW c \in Names, NEW s \in Sendable, Rerun(h, c, s) PROVE SentBeforeReset'
    <2>1. Sends(h)
      BY <1>3, RerunDoes DEF Sends, New, Ended, Stays, WbTyped, TasksProper, Proper, WellFormed
    <2> QED
      BY <1>3, RerunDoes, <2>1, SentMoves
  <1>4. ASSUME NEW h \in Handlers, NEW e \in Editors, OpenFile(h, e) PROVE SentBeforeReset'
    <2>1. Sends(h)
      BY <1>4, OpenFileDoes DEF Sends, New, Ended, Stays, WbTyped, TasksProper, Proper, WellFormed
    <2> QED
      BY <1>4, OpenFileDoes, <2>1, SentMoves
  <1>5. ASSUME NEW h \in Handlers, NEW s \in Databases, ChangeSchema(h, s) PROVE SentBeforeReset'
    <2>1. Sends(h)
      BY <1>5, ChangeSchemaDoes DEF Sends, New, Ended, Stays, WbTyped, TasksProper, Proper, WellFormed
    <2> QED
      BY <1>5, ChangeSchemaDoes, <2>1, SentMoves
  <1>6. ASSUME NEW h \in Handlers, NEW s \in Sendable, Run(h, s) PROVE SentBeforeReset'
    <2>1. Sends(h)
      BY <1>6, RunDoes DEF Sends, New, Ended, Stays, WbTyped, TasksProper, Proper, WellFormed
    <2> QED
      BY <1>6, RunDoes, <2>1, SentMoves
  <1>7. ASSUME NEW h \in Handlers, Browse(h) PROVE SentBeforeReset'
    <2>1. Sends(h)
      BY <1>7, BrowseDoes DEF Sends, New, Ended, Stays, WbTyped, TasksProper, Proper, WellFormed
    <2> QED
      BY <1>7, BrowseDoes, <2>1, SentMoves
  <1>8. ASSUME NEW h \in Handlers, RunBatch(h) PROVE SentBeforeReset'
    <2>1. Sends(h)
      BY <1>8, RunBatchDoes DEF Sends, New, Ended, Stays, WbTyped, TasksProper, Proper, WellFormed
    <2> QED
      BY <1>8, RunBatchDoes, <2>1, SentMoves
  <1>9. ASSUME NEW h \in Handlers, Reload(h) PROVE SentBeforeReset'
    <2>1. Sends(h)
      BY <1>9, ReloadDoes DEF Sends, New, Ended, Stays, WbTyped, TasksProper, Proper, WellFormed
    <2> QED
      BY <1>9, ReloadDoes, <2>1, SentMoves
  <1>10. ASSUME NEW h \in Handlers, NEW e \in Editors, ClickTab(h, e) PROVE SentBeforeReset'
    <2>1. Sends(h)
      BY <1>10, ClickTabDoes DEF Sends, New, Ended, Stays, WbTyped, TasksProper, Proper, WellFormed
    <2> QED
      BY <1>10, ClickTabDoes, <2>1, SentMoves
  <1>11. ASSUME NEW h \in Handlers, NEW e \in Editors, CloseTab(h, e) PROVE SentBeforeReset'
    <2>1. Sends(h)
      BY <1>11, CloseTabDoes DEF Sends, New, Ended, Stays, WbTyped, TasksProper, Proper, WellFormed
    <2> QED
      BY <1>11, CloseTabDoes, <2>1, SentMoves
  <1>12. ASSUME NEW h \in Handlers, CancelBatch(h) PROVE SentBeforeReset'
    <2>1. Sends(h)
      BY <1>12, CancelBatchDoes DEF Sends, New, Ended, Stays, WbTyped, TasksProper, Proper, WellFormed
    <2> QED
      BY <1>12, CancelBatchDoes, <2>1, SentMoves
  <1>13. ASSUME NEW h \in Handlers, SaveEnds(h) PROVE SentBeforeReset'
    <2>1. Sends(h)
      BY <1>13, SaveEndsDoes DEF Sends, New, Ended, Stays, WbTyped, TasksProper, Proper, WellFormed
    <2> QED
      BY <1>13, SaveEndsDoes, <2>1, SentMoves
  <1>14. ASSUME NEW h \in Handlers, NEW s \in Sendable, NextStatement(h, s) PROVE SentBeforeReset'
    <2>1. Sends(h)
      BY <1>14, NextStatementDoes DEF Sends, New, Ended, Stays, WbTyped, TasksProper, Proper, WellFormed, MayGoOn,
         Batch, OccupiesConnection
    <2> QED
      BY <1>14, NextStatementDoes, <2>1, SentMoves
  <1>15. ASSUME NEW h \in Handlers, ReadActive(h) PROVE SentBeforeReset'
    <2>1. Sends(h)
      BY <1>15, ReadActiveDoes DEF Sends, New, Ended, Stays, WbTyped, TasksProper, Proper, WellFormed
    <2> QED
      BY <1>15, ReadActiveDoes, <2>1, SentMoves
  <1>16. ASSUME NEW h \in Handlers, Overtaken(h) PROVE SentBeforeReset'
    <2>1. Sends(h)
      BY <1>16, OvertakenDoes DEF Sends, New, Ended, Stays, WbTyped, TasksProper, Proper, WellFormed
    <2> QED
      BY <1>16, OvertakenDoes, <2>1, SentMoves
  <1>17. ASSUME NEW h \in Handlers, CommitContext(h) PROVE SentBeforeReset'
    <2>1. Sends(h)
      BY <1>17, CommitContextDoes DEF Sends, New, Ended, Stays, WbTyped, TasksProper, Proper, WellFormed
    <2> QED
      BY <1>17, CommitContextDoes, <2>1, SentMoves
  <1>18. ASSUME NEW h \in Handlers, FileRead(h) PROVE SentBeforeReset'
    <2>1. Sends(h)
      BY <1>18, FileReadDoes DEF Sends, New, Ended, Stays, WbTyped, TasksProper, Proper, WellFormed
    <2> QED
      BY <1>18, FileReadDoes, <2>1, SentMoves
  <1>19. ASSUME NEW h \in Handlers, ListSchemas(h) PROVE SentBeforeReset'
    <2>1. Sends(h)
      BY <1>19, ListSchemasDoes DEF Sends, New, Ended, Stays, WbTyped, TasksProper, Proper, WellFormed
    <2> QED
      BY <1>19, ListSchemasDoes, <2>1, SentMoves
  <1>20. ASSUME NEW h \in Handlers, SchemasListed(h) PROVE SentBeforeReset'
    <2>1. Sends(h)
      BY <1>20, SchemasListedDoes DEF Sends, New, Ended, Stays, WbTyped, TasksProper, Proper, WellFormed
    <2> QED
      BY <1>20, SchemasListedDoes, <2>1, SentMoves
  <1>21. ASSUME NEW h \in Handlers, SendChange(h) PROVE SentBeforeReset'
    <2>1. Sends(h)
      BY <1>21, SendChangeDoes DEF Sends, New, Ended, Stays, WbTyped, TasksProper, Proper, WellFormed
    <2> QED
      BY <1>21, SendChangeDoes, <2>1, SentMoves
  <1>22. ASSUME NEW h \in Handlers, SetActiveSchema(h) PROVE SentBeforeReset'
    <2>1. Sends(h)
      BY <1>22, SetActiveSchemaDoes DEF Sends, New, Ended, Stays, WbTyped, TasksProper, Proper, WellFormed
    <2> QED
      BY <1>22, SetActiveSchemaDoes, <2>1, SentMoves
  <1>23. ASSUME NEW h \in Handlers, ActiveSchemaSet(h) PROVE SentBeforeReset'
    <2>1. Sends(h)
      BY <1>23, ActiveSchemaSetDoes DEF Sends, New, Ended, Stays, WbTyped, TasksProper, Proper, WellFormed
    <2> QED
      BY <1>23, ActiveSchemaSetDoes, <2>1, SentMoves
  <1>24. ASSUME NEW h \in Handlers, RunStatement(h) PROVE SentBeforeReset'
    <2>1. Sends(h)
      BY <1>24, RunStatementDoes DEF Sends, New, Ended, Stays, WbTyped, TasksProper, Proper, WellFormed
    <2> QED
      BY <1>24, RunStatementDoes, <2>1, SentMoves
  <1>25. ASSUME NEW h \in Handlers, TryDatabase(h) PROVE SentBeforeReset'
    <2>1. Sends(h)
      BY <1>25, TryDatabaseDoes DEF Sends, New, Ended, Stays, WbTyped, TasksProper, Proper, WellFormed
    <2> QED
      BY <1>25, TryDatabaseDoes, <2>1, SentMoves
  <1>26. ASSUME NEW h \in Handlers, Proved(h) PROVE SentBeforeReset'
    <2>1. Sends(h)
      BY <1>26, ProvedDoes DEF Sends, New, Ended, Stays, WbTyped, TasksProper, Proper, WellFormed
    <2> QED
      BY <1>26, ProvedDoes, <2>1, SentMoves
  <1>27. ASSUME NEW h \in Handlers, NotProved(h) PROVE SentBeforeReset'
    <2>1. Sends(h)
      BY <1>27, NotProvedDoes DEF Sends, New, Ended, Stays, WbTyped, TasksProper, Proper, WellFormed
    <2> QED
      BY <1>27, NotProvedDoes, <2>1, SentMoves
  <1>28. ASSUME NEW h \in Handlers, Confirmed(h) PROVE SentBeforeReset'
    <2>1. Sends(h)
      BY <1>28, ConfirmedDoes DEF Sends, New, Ended, Stays, WbTyped, TasksProper, Proper, WellFormed
    <2> QED
      BY <1>28, ConfirmedDoes, <2>1, SentMoves
  <1>29. ASSUME NEW h \in Handlers, Ran(h) PROVE SentBeforeReset'
    <2>1. Sends(h)
      BY <1>29, RanDoes DEF Sends, New, Ended, Stays, WbTyped, TasksProper, Proper, WellFormed
    <2> QED
      BY <1>29, RanDoes, <2>1, SentMoves
  <1>30. ASSUME NEW h \in Handlers, Checked(h) PROVE SentBeforeReset'
    <2>1. Sends(h)
      BY <1>30, CheckedDoes DEF Sends, New, Ended, Stays, WbTyped, TasksProper, Proper, WellFormed
    <2> QED
      BY <1>30, CheckedDoes, <2>1, SentMoves
  <1>31. ASSUME NEW h \in Handlers, RunStatements(h) PROVE SentBeforeReset'
    <2>1. Sends(h)
      BY <1>31, RunStatementsDoes DEF Sends, New, Ended, Stays, WbTyped, TasksProper, Proper, WellFormed
    <2> QED
      BY <1>31, RunStatementsDoes, <2>1, SentMoves
  <1>32. ASSUME NEW h \in Handlers, Applied(h) PROVE SentBeforeReset'
    <2>1. Sends(h)
      BY <1>32, AppliedDoes DEF Sends, New, Ended, Stays, WbTyped, TasksProper, Proper, WellFormed
    <2> QED
      BY <1>32, AppliedDoes, <2>1, SentMoves
  <1>33. ASSUME NEW h \in Handlers, BatchSaved(h) PROVE SentBeforeReset'
    <2>1. Sends(h)
      BY <1>33, BatchSavedDoes DEF Sends, New, Ended, Stays, WbTyped, TasksProper, Proper, WellFormed
    <2> QED
      BY <1>33, BatchSavedDoes, <2>1, SentMoves
  <1>34. ASSUME NEW h \in Handlers, BatchRan(h) PROVE SentBeforeReset'
    <2>1. Sends(h)
      BY <1>34, BatchRanDoes DEF Sends, New, Ended, Stays, WbTyped, TasksProper, Proper, WellFormed
    <2> QED
      BY <1>34, BatchRanDoes, <2>1, SentMoves
  <1>35. ASSUME NEW h \in Handlers, AnswerPrompt(h) PROVE SentBeforeReset'
    <2>1. Sends(h)
      BY <1>35, AnswerPromptDoes DEF Sends, New, Ended, Stays, WbTyped, TasksProper, Proper, WellFormed
    <2> QED
      BY <1>35, AnswerPromptDoes, <2>1, SentMoves
  <1>36. ASSUME NEW h \in Handlers, GiveUpReload(h) PROVE SentBeforeReset'
    <2>1. Sends(h)
      BY <1>36, GiveUpReloadDoes DEF Sends, New, Ended, Stays, WbTyped, TasksProper, Proper, WellFormed
    <2> QED
      BY <1>36, GiveUpReloadDoes, <2>1, SentMoves
  <1>37. ASSUME NEW h \in Handlers, ConnectionsLoaded(h) PROVE SentBeforeReset'
    <2>1. Sends(h)
      BY <1>37, ConnectionsLoadedDoes DEF Sends, New, Ended, Stays, WbTyped, TasksProper, Proper, WellFormed
    <2> QED
      BY <1>37, ConnectionsLoadedDoes, <2>1, SentMoves
  <1>38. ASSUME NEW h \in Handlers, SendReset(h) PROVE SentBeforeReset'
    BY <1>38, SendResetSent
  <1>39. ASSUME NEW h \in Handlers, ResetConnections(h) PROVE SentBeforeReset'
    BY <1>39, ResetConnectionsSent
  <1>40. ASSUME NEW h \in Handlers, ResetDone(h) PROVE SentBeforeReset'
    BY <1>40, ResetDoneSent
  <1>41. CASE Stay
    BY <1>41, StayTyped DEF SentBeforeReset, ResetDoneSoon, Answered, Stay, Acts, backendVars
  <1>42. CASE ToggleWritable
    BY <1>42, ToggleTyped DEF SentBeforeReset, ResetDoneSoon, Answered, ToggleWritable, Acts, backendVars
  <1>43. CASE UNCHANGED wbVars
    BY <1>43 DEF SentBeforeReset, ResetDoneSoon, Answered, wbVars, backendVars
  <1> QED
    BY <1>1, <1>2, <1>3, <1>4, <1>5, <1>6, <1>7, <1>8, <1>9, <1>10, <1>11, <1>12, <1>13, <1>14, <1>15, <1>16,
       <1>17, <1>18, <1>19, <1>20, <1>21, <1>22, <1>23, <1>24, <1>25, <1>26, <1>27, <1>28, <1>29, <1>30, <1>31,
       <1>32, <1>33, <1>34, <1>35, <1>36, <1>37, <1>38, <1>39, <1>40, <1>41, <1>42, <1>43 DEF WbNext

----------------------------------------------------------------------------
(* A connection that lost a `\c` under way to a reload                     *)

LoadsContext(h, c) == task[h].at = "context" /\ contextOf = h /\ Answered(h) /\ task[h].on = c
ShowsResult == {"checking", "next", "running", "proving", "asking"}
Lost(c) == \E k \in Handlers : task[k].at = "proving" /\ task[k].old /\ task[k].on = c
Unseen(c) ==
  /\ c # selected /\ resultTab[c] = NoTab
  /\ \A h \in Handlers : ~LoadsContext(h, c) /\ (task[h].on = c /\ task[h].at \in ShowsResult => task[h].old)
LostIsUnseen == \A c \in Names \ exempt.astray : Lost(c) => Unseen(c)

(* What one step must leave so.                                            *)
LosesNone(h) ==
  task'[h].at = "proving" /\ task'[h].old =>
    \/ task[h].at = "proving" /\ task[h].old /\ task[h].on = task'[h].on
    \/ task'[h].on \in exempt'.astray
LeavesUnseen(h, c) ==
  /\ c # selected' /\ resultTab'[c] = NoTab
  /\ ~LoadsContext(h, c)' /\ contextOf' \in {contextOf, h, Nowhere}
  /\ task'[h].on = c /\ task'[h].at \in ShowsResult => task'[h].old

LEMMA UnseenMoves ==
  ASSUME LostIsUnseen, exempt.astray \subseteq exempt'.astray, NEW h \in Handlers, OthersTold(h), OthersAnswered(h),
         LosesNone(h),
         \A c \in Names \ exempt'.astray : Lost(c) /\ Unseen(c) => LeavesUnseen(h, c)
  PROVE  LostIsUnseen'
  <1> SUFFICES ASSUME NEW c \in Names \ exempt'.astray, Lost(c)' PROVE Unseen(c)'
    BY DEF LostIsUnseen
  <1>0. Nowhere \notin Handlers
    BY WorkbenchAssumption
  <1>1. Lost(c)
    <2>1. PICK k \in Handlers : task'[k].at = "proving" /\ task'[k].old /\ task'[k].on = c
      BY DEF Lost
    <2>2. task[k].at = "proving" /\ task[k].old /\ task[k].on = c
      BY <2>1 DEF LosesNone, OthersTold, Told
    <2> QED
      BY <2>2 DEF Lost
  <1>2. Unseen(c) /\ LeavesUnseen(h, c)
    BY <1>1 DEF LostIsUnseen
  <1>3. ASSUME NEW k \in Handlers \ {h}
        PROVE ~LoadsContext(k, c)' /\ (task'[k].on = c /\ task'[k].at \in ShowsResult => task'[k].old)
    BY <1>0, <1>2 DEF OthersTold, Told, OthersAnswered, Unseen, LeavesUnseen, LoadsContext
  <1> QED
    BY <1>2, <1>3 DEF Unseen, LeavesUnseen

LEMMA SendResetUnseen ==
  ASSUME WbTyped, LostIsUnseen, NEW h \in Handlers, SendReset(h) PROVE LostIsUnseen'
  <1>1. UNCHANGED <<selected, contextOf, resultTab, exempt>>
    BY DEF SendReset, moveVars, historyVars
  <1>2. \A k \in Handlers :
          /\ task'[k].on = task[k].on /\ (task'[k].at = task[k].at \/ k = h)
          /\ (task'[k].old <=> task[k].old) \/ k = h
    BY SendResetDoes DEF Touched
  <1>3. \A c : Lost(c)' => Lost(c)
    BY <1>2, SendResetDoes DEF Lost
  <1>4. \A c : Unseen(c) => Unseen(c)'
    BY <1>1, <1>2, SendResetDoes DEF Unseen, LoadsContext, ShowsResult
  <1> QED
    BY <1>1, <1>3, <1>4 DEF LostIsUnseen
LEMMA ResetConnectionsUnseen ==
  ASSUME WbTyped, LostIsUnseen, NEW h \in Handlers, ResetConnections(h) PROVE LostIsUnseen'
  <1>1. UNCHANGED <<selected, contextOf, resultTab>> /\ exempt.astray \subseteq exempt'.astray
    BY ResetConnectionsDoes DEF ResetConnections, PageUnchanged, moveVars
  <1>2. \A k \in Handlers : task'[k].on = task[k].on /\ task'[k].at = task[k].at /\ (task'[k].old <=> task[k].old)
    BY ResetConnectionsDoes DEF Touched
  <1>3. task[h].at = "resetting" /\ \A k \in Handlers \ {h} : Answered(k)' <=> Answered(k)
    BY ResetConnectionsDoes DEF OthersAnswered
  <1>4. \A c : Lost(c)' => Lost(c)
    BY <1>2 DEF Lost
  <1>5. \A c : Unseen(c) => Unseen(c)'
    BY <1>1, <1>2, <1>3 DEF Unseen, LoadsContext
  <1> QED
    BY <1>1, <1>4, <1>5 DEF LostIsUnseen
LEMMA ResetDoneUnseen ==
  ASSUME WbTyped, NEW h \in Handlers, ResetDone(h) PROVE LostIsUnseen'
  <1>1. Nowhere \notin Names /\ Nowhere \notin Handlers
    BY WorkbenchAssumption
  <1>2. selected' = Nowhere /\ contextOf' = Nowhere /\ \A c \in Names : resultTab'[c] = NoTab
    BY DEF ResetDone
  <1>3. \A k \in Handlers : task'[k].at \in ShowsResult => task'[k].old
    BY ResetDoneDoes DEF Touched, ShowsResult, Discards
  <1> QED
    BY <1>1, <1>2, <1>3 DEF LostIsUnseen, Unseen, LoadsContext

LEMMA ExemptGrows ==
  ASSUME WbTyped, [WbNext]_wbVars
  PROVE  exempt.astray \subseteq exempt'.astray /\ exempt.unclosed \subseteq exempt'.unclosed
  <1>1. ASSUME NEW h \in Handlers, NEW c \in Names, Click(h, c)
        PROVE exempt.astray \subseteq exempt'.astray /\ exempt.unclosed \subseteq exempt'.unclosed
    BY <1>1, ClickDoes
  <1>2. ASSUME NEW h \in Handlers, NEW c \in Names, SubmitCellEdits(h, c)
        PROVE exempt.astray \subseteq exempt'.astray /\ exempt.unclosed \subseteq exempt'.unclosed
    BY <1>2, SubmitCellEditsDoes
  <1>3. ASSUME NEW h \in Handlers, NEW c \in Names, NEW s \in Sendable, Rerun(h, c, s)
        PROVE exempt.astray \subseteq exempt'.astray /\ exempt.unclosed \subseteq exempt'.unclosed
    BY <1>3, RerunDoes
  <1>4. ASSUME NEW h \in Handlers, NEW e \in Editors, OpenFile(h, e)
        PROVE exempt.astray \subseteq exempt'.astray /\ exempt.unclosed \subseteq exempt'.unclosed
    BY <1>4, OpenFileDoes
  <1>5. ASSUME NEW h \in Handlers, NEW s \in Databases, ChangeSchema(h, s)
        PROVE exempt.astray \subseteq exempt'.astray /\ exempt.unclosed \subseteq exempt'.unclosed
    BY <1>5, ChangeSchemaDoes
  <1>6. ASSUME NEW h \in Handlers, NEW s \in Sendable, Run(h, s)
        PROVE exempt.astray \subseteq exempt'.astray /\ exempt.unclosed \subseteq exempt'.unclosed
    BY <1>6, RunDoes
  <1>7. ASSUME NEW h \in Handlers, Browse(h)
        PROVE exempt.astray \subseteq exempt'.astray /\ exempt.unclosed \subseteq exempt'.unclosed
    BY <1>7, BrowseDoes
  <1>8. ASSUME NEW h \in Handlers, RunBatch(h)
        PROVE exempt.astray \subseteq exempt'.astray /\ exempt.unclosed \subseteq exempt'.unclosed
    BY <1>8, RunBatchDoes
  <1>9. ASSUME NEW h \in Handlers, Reload(h)
        PROVE exempt.astray \subseteq exempt'.astray /\ exempt.unclosed \subseteq exempt'.unclosed
    BY <1>9, ReloadDoes
  <1>10. ASSUME NEW h \in Handlers, NEW e \in Editors, ClickTab(h, e)
         PROVE exempt.astray \subseteq exempt'.astray /\ exempt.unclosed \subseteq exempt'.unclosed
    BY <1>10, ClickTabDoes
  <1>11. ASSUME NEW h \in Handlers, NEW e \in Editors, CloseTab(h, e)
         PROVE exempt.astray \subseteq exempt'.astray /\ exempt.unclosed \subseteq exempt'.unclosed
    BY <1>11, CloseTabDoes
  <1>12. ASSUME NEW h \in Handlers, CancelBatch(h)
         PROVE exempt.astray \subseteq exempt'.astray /\ exempt.unclosed \subseteq exempt'.unclosed
    BY <1>12, CancelBatchDoes
  <1>13. ASSUME NEW h \in Handlers, SaveEnds(h)
         PROVE exempt.astray \subseteq exempt'.astray /\ exempt.unclosed \subseteq exempt'.unclosed
    BY <1>13 DEF SaveEnds, WbTyped, WbTypeOK
  <1>14. ASSUME NEW h \in Handlers, NEW s \in Sendable, NextStatement(h, s)
         PROVE exempt.astray \subseteq exempt'.astray /\ exempt.unclosed \subseteq exempt'.unclosed
    BY <1>14, NextStatementDoes
  <1>15. ASSUME NEW h \in Handlers, ReadActive(h)
         PROVE exempt.astray \subseteq exempt'.astray /\ exempt.unclosed \subseteq exempt'.unclosed
    BY <1>15 DEF ReadActive, Astray, WbTyped, WbTypeOK
  <1>16. ASSUME NEW h \in Handlers, Overtaken(h)
         PROVE exempt.astray \subseteq exempt'.astray /\ exempt.unclosed \subseteq exempt'.unclosed
    BY <1>16, OvertakenDoes
  <1>17. ASSUME NEW h \in Handlers, CommitContext(h)
         PROVE exempt.astray \subseteq exempt'.astray /\ exempt.unclosed \subseteq exempt'.unclosed
    BY <1>17, CommitContextDoes
  <1>18. ASSUME NEW h \in Handlers, FileRead(h)
         PROVE exempt.astray \subseteq exempt'.astray /\ exempt.unclosed \subseteq exempt'.unclosed
    BY <1>18, FileReadDoes
  <1>19. ASSUME NEW h \in Handlers, ListSchemas(h)
         PROVE exempt.astray \subseteq exempt'.astray /\ exempt.unclosed \subseteq exempt'.unclosed
    BY <1>19, ListSchemasDoes
  <1>20. ASSUME NEW h \in Handlers, SchemasListed(h)
         PROVE exempt.astray \subseteq exempt'.astray /\ exempt.unclosed \subseteq exempt'.unclosed
    BY <1>20, SchemasListedDoes
  <1>21. ASSUME NEW h \in Handlers, SendChange(h)
         PROVE exempt.astray \subseteq exempt'.astray /\ exempt.unclosed \subseteq exempt'.unclosed
    BY <1>21, SendChangeDoes
  <1>22. ASSUME NEW h \in Handlers, SetActiveSchema(h)
         PROVE exempt.astray \subseteq exempt'.astray /\ exempt.unclosed \subseteq exempt'.unclosed
    BY <1>22 DEF SetActiveSchema, Astray, WbTyped, WbTypeOK
  <1>23. ASSUME NEW h \in Handlers, ActiveSchemaSet(h)
         PROVE exempt.astray \subseteq exempt'.astray /\ exempt.unclosed \subseteq exempt'.unclosed
    BY <1>23, ActiveSchemaSetDoes
  <1>24. ASSUME NEW h \in Handlers, RunStatement(h)
         PROVE exempt.astray \subseteq exempt'.astray /\ exempt.unclosed \subseteq exempt'.unclosed
    BY <1>24, RunStatementDoes
  <1>25. ASSUME NEW h \in Handlers, TryDatabase(h)
         PROVE exempt.astray \subseteq exempt'.astray /\ exempt.unclosed \subseteq exempt'.unclosed
    BY <1>25 DEF TryDatabase, Astray, WbTyped, WbTypeOK
  <1>26. ASSUME NEW h \in Handlers, Proved(h)
         PROVE exempt.astray \subseteq exempt'.astray /\ exempt.unclosed \subseteq exempt'.unclosed
    BY <1>26, ProvedDoes
  <1>27. ASSUME NEW h \in Handlers, NotProved(h)
         PROVE exempt.astray \subseteq exempt'.astray /\ exempt.unclosed \subseteq exempt'.unclosed
    BY <1>27, NotProvedDoes
  <1>28. ASSUME NEW h \in Handlers, Confirmed(h)
         PROVE exempt.astray \subseteq exempt'.astray /\ exempt.unclosed \subseteq exempt'.unclosed
    BY <1>28, ConfirmedDoes
  <1>29. ASSUME NEW h \in Handlers, Ran(h)
         PROVE exempt.astray \subseteq exempt'.astray /\ exempt.unclosed \subseteq exempt'.unclosed
    BY <1>29, RanDoes
  <1>30. ASSUME NEW h \in Handlers, Checked(h)
         PROVE exempt.astray \subseteq exempt'.astray /\ exempt.unclosed \subseteq exempt'.unclosed
    BY <1>30, CheckedDoes
  <1>31. ASSUME NEW h \in Handlers, RunStatements(h)
         PROVE exempt.astray \subseteq exempt'.astray /\ exempt.unclosed \subseteq exempt'.unclosed
    BY <1>31, RunStatementsDoes
  <1>32. ASSUME NEW h \in Handlers, Applied(h)
         PROVE exempt.astray \subseteq exempt'.astray /\ exempt.unclosed \subseteq exempt'.unclosed
    BY <1>32 DEF Applied, WbTyped, WbTypeOK
  <1>33. ASSUME NEW h \in Handlers, BatchSaved(h)
         PROVE exempt.astray \subseteq exempt'.astray /\ exempt.unclosed \subseteq exempt'.unclosed
    BY <1>33, BatchSavedDoes
  <1>34. ASSUME NEW h \in Handlers, BatchRan(h)
         PROVE exempt.astray \subseteq exempt'.astray /\ exempt.unclosed \subseteq exempt'.unclosed
    BY <1>34, BatchRanDoes
  <1>35. ASSUME NEW h \in Handlers, AnswerPrompt(h)
         PROVE exempt.astray \subseteq exempt'.astray /\ exempt.unclosed \subseteq exempt'.unclosed
    BY <1>35, AnswerPromptDoes
  <1>36. ASSUME NEW h \in Handlers, GiveUpReload(h)
         PROVE exempt.astray \subseteq exempt'.astray /\ exempt.unclosed \subseteq exempt'.unclosed
    BY <1>36, GiveUpReloadDoes
  <1>37. ASSUME NEW h \in Handlers, ConnectionsLoaded(h)
         PROVE exempt.astray \subseteq exempt'.astray /\ exempt.unclosed \subseteq exempt'.unclosed
    BY <1>37, ConnectionsLoadedDoes
  <1>38. ASSUME NEW h \in Handlers, SendReset(h)
         PROVE exempt.astray \subseteq exempt'.astray /\ exempt.unclosed \subseteq exempt'.unclosed
    BY <1>38 DEF SendReset, historyVars, WbTyped, WbTypeOK
  <1>39. ASSUME NEW h \in Handlers, ResetConnections(h)
         PROVE exempt.astray \subseteq exempt'.astray /\ exempt.unclosed \subseteq exempt'.unclosed
    BY <1>39, ResetConnectionsDoes
  <1>40. ASSUME NEW h \in Handlers, ResetDone(h)
         PROVE exempt.astray \subseteq exempt'.astray /\ exempt.unclosed \subseteq exempt'.unclosed
    BY <1>40 DEF ResetDone, historyVars, WbTyped, WbTypeOK
  <1>41. CASE Stay
    BY <1>41 DEF Stay, historyVars
  <1>42. CASE ToggleWritable
    BY <1>42 DEF ToggleWritable, historyVars
  <1>43. CASE UNCHANGED wbVars
    BY <1>43 DEF wbVars, historyVars
  <1> QED
    BY <1>1, <1>2, <1>3, <1>4, <1>5, <1>6, <1>7, <1>8, <1>9, <1>10, <1>11, <1>12, <1>13, <1>14, <1>15, <1>16,
       <1>17, <1>18, <1>19, <1>20, <1>21, <1>22, <1>23, <1>24, <1>25, <1>26, <1>27, <1>28, <1>29, <1>30, <1>31,
       <1>32, <1>33, <1>34, <1>35, <1>36, <1>37, <1>38, <1>39, <1>40, <1>41, <1>42, <1>43 DEF WbNext

LEMMA UnseenStep ==
  ASSUME WbTyped, LostIsUnseen, [WbNext]_wbVars PROVE LostIsUnseen'
  <1>0. exempt.astray \subseteq exempt'.astray
    BY ExemptGrows
  <1>1. ASSUME NEW h \in Handlers, NEW c \in Names, Click(h, c) PROVE LostIsUnseen'
    <2>1. LosesNone(h)
      BY <1>1, ClickDoes DEF LosesNone, New, Ended, Stays, WbTyped, TasksProper, Proper, WellFormed
    <2>2. ASSUME NEW d \in Names \ exempt'.astray, Lost(d), Unseen(d) PROVE LeavesUnseen(h, d)
      <3>1. d # selected /\ resultTab[d] = NoTab /\ (task[h].on = d /\ task[h].at \in ShowsResult => task[h].old)
        BY <2>2 DEF Unseen
      <3>2. d # selected'
        BY <3>1, <1>1, ClickDoes
      <3>3. resultTab'[d] = NoTab
        BY <3>1, <1>1, ClickDoes DEF ShowsResult
      <3>4. task'[h].at # "context" \/ ~Answered(h)'
        BY <1>1, ClickDoes DEF New, Ended, Stays
      <3>5. contextOf' \in {contextOf, h, Nowhere}
        BY <1>1, ClickDoes DEF Click, SelectConnection
      <3>6. task'[h].on = d /\ task'[h].at \in ShowsResult => task'[h].old
        BY <3>1, <1>1, ClickDoes DEF ShowsResult, New
      <3> QED
        BY <3>2, <3>3, <3>4, <3>5, <3>6 DEF LeavesUnseen, LoadsContext
    <2> QED
      BY <1>1, <1>0, ClickDoes, <2>1, <2>2, UnseenMoves
  <1>2. ASSUME NEW h \in Handlers, NEW c \in Names, SubmitCellEdits(h, c) PROVE LostIsUnseen'
    <2>1. LosesNone(h)
      BY <1>2, SubmitCellEditsDoes DEF LosesNone, New, Ended, Stays, WbTyped, TasksProper, Proper, WellFormed
    <2>2. ASSUME NEW d \in Names \ exempt'.astray, Lost(d), Unseen(d) PROVE LeavesUnseen(h, d)
      BY <1>2, SubmitCellEditsDoes, <2>2 DEF LeavesUnseen, Unseen, LoadsContext, ShowsResult, New, Ended, Stays,
         WbTyped, TasksProper, Proper, WellFormed
    <2> QED
      BY <1>2, <1>0, SubmitCellEditsDoes, <2>1, <2>2, UnseenMoves
  <1>3. ASSUME NEW h \in Handlers, NEW c \in Names, NEW s \in Sendable, Rerun(h, c, s) PROVE LostIsUnseen'
    <2>1. LosesNone(h)
      BY <1>3, RerunDoes DEF LosesNone, New, Ended, Stays, WbTyped, TasksProper, Proper, WellFormed
    <2>2. ASSUME NEW d \in Names \ exempt'.astray, Lost(d), Unseen(d) PROVE LeavesUnseen(h, d)
      <3>1. d # selected /\ resultTab[d] = NoTab /\ (task[h].on = d /\ task[h].at \in ShowsResult => task[h].old)
        BY <2>2 DEF Unseen
      <3>2. d # selected'
        BY <3>1, <1>3, RerunDoes
      <3>3. resultTab'[d] = NoTab
        BY <3>1, <1>3, RerunDoes DEF ShowsResult
      <3>4. task'[h].at # "context" \/ ~Answered(h)'
        BY <1>3, RerunDoes DEF New, Ended, Stays
      <3>5. contextOf' \in {contextOf, h, Nowhere}
        BY <1>3, RerunDoes
      <3>6. task'[h].on = d /\ task'[h].at \in ShowsResult => task'[h].old
        BY <3>1, <1>3, RerunDoes DEF ShowsResult, New, Rerun
      <3> QED
        BY <3>2, <3>3, <3>4, <3>5, <3>6 DEF LeavesUnseen, LoadsContext
    <2> QED
      BY <1>3, <1>0, RerunDoes, <2>1, <2>2, UnseenMoves
  <1>4. ASSUME NEW h \in Handlers, NEW e \in Editors, OpenFile(h, e) PROVE LostIsUnseen'
    <2>1. LosesNone(h)
      BY <1>4, OpenFileDoes DEF LosesNone, New, Ended, Stays, WbTyped, TasksProper, Proper, WellFormed
    <2>2. ASSUME NEW d \in Names \ exempt'.astray, Lost(d), Unseen(d) PROVE LeavesUnseen(h, d)
      BY <1>4, OpenFileDoes, <2>2 DEF LeavesUnseen, Unseen, LoadsContext, ShowsResult, New, Ended, Stays, WbTyped,
         TasksProper, Proper, WellFormed
    <2> QED
      BY <1>4, <1>0, OpenFileDoes, <2>1, <2>2, UnseenMoves
  <1>5. ASSUME NEW h \in Handlers, NEW s \in Databases, ChangeSchema(h, s) PROVE LostIsUnseen'
    <2>1. LosesNone(h)
      BY <1>5, ChangeSchemaDoes DEF LosesNone, New, Ended, Stays, WbTyped, TasksProper, Proper, WellFormed
    <2>2. ASSUME NEW d \in Names \ exempt'.astray, Lost(d), Unseen(d) PROVE LeavesUnseen(h, d)
      BY <1>5, ChangeSchemaDoes, <2>2 DEF LeavesUnseen, Unseen, LoadsContext, ShowsResult, New, Ended, Stays,
         WbTyped, TasksProper, Proper, WellFormed
    <2> QED
      BY <1>5, <1>0, ChangeSchemaDoes, <2>1, <2>2, UnseenMoves
  <1>6. ASSUME NEW h \in Handlers, NEW s \in Sendable, Run(h, s) PROVE LostIsUnseen'
    <2>1. LosesNone(h)
      BY <1>6, RunDoes DEF LosesNone, New, Ended, Stays, WbTyped, TasksProper, Proper, WellFormed
    <2>2. ASSUME NEW d \in Names \ exempt'.astray, Lost(d), Unseen(d) PROVE LeavesUnseen(h, d)
      BY <1>6, RunDoes, <2>2 DEF LeavesUnseen, Unseen, LoadsContext, ShowsResult, New, Ended, Stays, WbTyped,
         TasksProper, Proper, WellFormed
    <2> QED
      BY <1>6, <1>0, RunDoes, <2>1, <2>2, UnseenMoves
  <1>7. ASSUME NEW h \in Handlers, Browse(h) PROVE LostIsUnseen'
    <2>1. LosesNone(h)
      BY <1>7, BrowseDoes DEF LosesNone, New, Ended, Stays, WbTyped, TasksProper, Proper, WellFormed
    <2>2. ASSUME NEW d \in Names \ exempt'.astray, Lost(d), Unseen(d) PROVE LeavesUnseen(h, d)
      BY <1>7, BrowseDoes, <2>2 DEF LeavesUnseen, Unseen, LoadsContext, ShowsResult, New, Ended, Stays, WbTyped,
         TasksProper, Proper, WellFormed
    <2> QED
      BY <1>7, <1>0, BrowseDoes, <2>1, <2>2, UnseenMoves
  <1>8. ASSUME NEW h \in Handlers, RunBatch(h) PROVE LostIsUnseen'
    <2>1. LosesNone(h)
      BY <1>8, RunBatchDoes DEF LosesNone, New, Ended, Stays, WbTyped, TasksProper, Proper, WellFormed
    <2>2. ASSUME NEW d \in Names \ exempt'.astray, Lost(d), Unseen(d) PROVE LeavesUnseen(h, d)
      BY <1>8, RunBatchDoes, <2>2 DEF LeavesUnseen, Unseen, LoadsContext, ShowsResult, New, Ended, Stays, WbTyped,
         TasksProper, Proper, WellFormed
    <2> QED
      BY <1>8, <1>0, RunBatchDoes, <2>1, <2>2, UnseenMoves
  <1>9. ASSUME NEW h \in Handlers, Reload(h) PROVE LostIsUnseen'
    <2>1. LosesNone(h)
      BY <1>9, ReloadDoes DEF LosesNone, New, Ended, Stays, WbTyped, TasksProper, Proper, WellFormed
    <2>2. ASSUME NEW d \in Names \ exempt'.astray, Lost(d), Unseen(d) PROVE LeavesUnseen(h, d)
      BY <1>9, ReloadDoes, <2>2 DEF LeavesUnseen, Unseen, LoadsContext, ShowsResult, New, Ended, Stays, WbTyped,
         TasksProper, Proper, WellFormed
    <2> QED
      BY <1>9, <1>0, ReloadDoes, <2>1, <2>2, UnseenMoves
  <1>10. ASSUME NEW h \in Handlers, NEW e \in Editors, ClickTab(h, e) PROVE LostIsUnseen'
    <2>1. LosesNone(h)
      BY <1>10, ClickTabDoes DEF LosesNone, New, Ended, Stays, WbTyped, TasksProper, Proper, WellFormed
    <2>2. ASSUME NEW d \in Names \ exempt'.astray, Lost(d), Unseen(d) PROVE LeavesUnseen(h, d)
      BY <1>10, ClickTabDoes, <2>2 DEF LeavesUnseen, Unseen, LoadsContext, ShowsResult, New, Ended, Stays, WbTyped,
         TasksProper, Proper, WellFormed, ClickTab, ActivateTab, ActivateHere, ActivateThere
    <2> QED
      BY <1>10, <1>0, ClickTabDoes, <2>1, <2>2, UnseenMoves
  <1>11. ASSUME NEW h \in Handlers, NEW e \in Editors, CloseTab(h, e) PROVE LostIsUnseen'
    <2>1. LosesNone(h)
      BY <1>11, CloseTabDoes DEF LosesNone, New, Ended, Stays, WbTyped, TasksProper, Proper, WellFormed
    <2>2. ASSUME NEW d \in Names \ exempt'.astray, Lost(d), Unseen(d) PROVE LeavesUnseen(h, d)
      BY <1>11, CloseTabDoes, <2>2 DEF LeavesUnseen, Unseen, LoadsContext, ShowsResult, New, Ended, Stays, WbTyped,
         TasksProper, Proper, WellFormed, CloseTab, ActivateTab, ActivateHere, ActivateThere, moveVars
    <2> QED
      BY <1>11, <1>0, CloseTabDoes, <2>1, <2>2, UnseenMoves
  <1>12. ASSUME NEW h \in Handlers, CancelBatch(h) PROVE LostIsUnseen'
    <2>1. LosesNone(h)
      BY <1>12, CancelBatchDoes DEF LosesNone, New, Ended, Stays, WbTyped, TasksProper, Proper, WellFormed
    <2>2. ASSUME NEW d \in Names \ exempt'.astray, Lost(d), Unseen(d) PROVE LeavesUnseen(h, d)
      BY <1>12, CancelBatchDoes, <2>2 DEF LeavesUnseen, Unseen, LoadsContext, ShowsResult, New, Ended, Stays,
         WbTyped, TasksProper, Proper, WellFormed
    <2> QED
      BY <1>12, <1>0, CancelBatchDoes, <2>1, <2>2, UnseenMoves
  <1>13. ASSUME NEW h \in Handlers, SaveEnds(h) PROVE LostIsUnseen'
    <2>1. LosesNone(h)
      BY <1>13, SaveEndsDoes DEF LosesNone, New, Ended, Stays, WbTyped, TasksProper, Proper, WellFormed
    <2>2. ASSUME NEW d \in Names \ exempt'.astray, Lost(d), Unseen(d) PROVE LeavesUnseen(h, d)
      BY <1>13, SaveEndsDoes, <2>2 DEF LeavesUnseen, Unseen, LoadsContext, ShowsResult, New, Ended, Stays, WbTyped,
         TasksProper, Proper, WellFormed, SaveEnds, ActivateHere, ActivateThere
    <2> QED
      BY <1>13, <1>0, SaveEndsDoes, <2>1, <2>2, UnseenMoves
  <1>14. ASSUME NEW h \in Handlers, NEW s \in Sendable, NextStatement(h, s) PROVE LostIsUnseen'
    <2>1. LosesNone(h)
      BY <1>14, NextStatementDoes DEF LosesNone, New, Ended, Stays, WbTyped, TasksProper, Proper, WellFormed
    <2>2. ASSUME NEW d \in Names \ exempt'.astray, Lost(d), Unseen(d) PROVE LeavesUnseen(h, d)
      BY <1>14, NextStatementDoes, <2>2 DEF LeavesUnseen, Unseen, LoadsContext, ShowsResult, New, Ended, Stays,
         WbTyped, TasksProper, Proper, WellFormed
    <2> QED
      BY <1>14, <1>0, NextStatementDoes, <2>1, <2>2, UnseenMoves
  <1>15. ASSUME NEW h \in Handlers, ReadActive(h) PROVE LostIsUnseen'
    <2>1. LosesNone(h)
      BY <1>15, ReadActiveDoes DEF LosesNone, New, Ended, Stays, WbTyped, TasksProper, Proper, WellFormed
    <2>2. ASSUME NEW d \in Names \ exempt'.astray, Lost(d), Unseen(d) PROVE LeavesUnseen(h, d)
      BY <1>15, ReadActiveDoes, <2>2 DEF LeavesUnseen, Unseen, LoadsContext, ShowsResult, New, Ended, Stays,
         WbTyped, TasksProper, Proper, WellFormed, ReadActive, Astray, WbTypeOK, Lost
    <2> QED
      BY <1>15, <1>0, ReadActiveDoes, <2>1, <2>2, UnseenMoves
  <1>16. ASSUME NEW h \in Handlers, Overtaken(h) PROVE LostIsUnseen'
    <2>1. LosesNone(h)
      BY <1>16, OvertakenDoes DEF LosesNone, New, Ended, Stays, WbTyped, TasksProper, Proper, WellFormed
    <2>2. ASSUME NEW d \in Names \ exempt'.astray, Lost(d), Unseen(d) PROVE LeavesUnseen(h, d)
      BY <1>16, OvertakenDoes, <2>2 DEF LeavesUnseen, Unseen, LoadsContext, ShowsResult, New, Ended, Stays,
         WbTyped, TasksProper, Proper, WellFormed
    <2> QED
      BY <1>16, <1>0, OvertakenDoes, <2>1, <2>2, UnseenMoves
  <1>17. ASSUME NEW h \in Handlers, CommitContext(h) PROVE LostIsUnseen'
    <2>1. LosesNone(h)
      BY <1>17, CommitContextDoes DEF LosesNone, New, Ended, Stays, WbTyped, TasksProper, Proper, WellFormed
    <2>2. ASSUME NEW d \in Names \ exempt'.astray, Lost(d), Unseen(d) PROVE LeavesUnseen(h, d)
      BY <1>17, CommitContextDoes, <2>2 DEF LeavesUnseen, Unseen, LoadsContext, ShowsResult, New, Ended, Stays,
         WbTyped, TasksProper, Proper, WellFormed, CommitContext, Receives
    <2> QED
      BY <1>17, <1>0, CommitContextDoes, <2>1, <2>2, UnseenMoves
  <1>18. ASSUME NEW h \in Handlers, FileRead(h) PROVE LostIsUnseen'
    <2>1. LosesNone(h)
      BY <1>18, FileReadDoes DEF LosesNone, New, Ended, Stays, WbTyped, TasksProper, Proper, WellFormed
    <2>2. ASSUME NEW d \in Names \ exempt'.astray, Lost(d), Unseen(d) PROVE LeavesUnseen(h, d)
      BY <1>18, FileReadDoes, <2>2 DEF LeavesUnseen, Unseen, LoadsContext, ShowsResult, New, Ended, Stays, WbTyped,
         TasksProper, Proper, WellFormed
    <2> QED
      BY <1>18, <1>0, FileReadDoes, <2>1, <2>2, UnseenMoves
  <1>19. ASSUME NEW h \in Handlers, ListSchemas(h) PROVE LostIsUnseen'
    <2>1. LosesNone(h)
      BY <1>19, ListSchemasDoes DEF LosesNone, New, Ended, Stays, WbTyped, TasksProper, Proper, WellFormed
    <2>2. ASSUME NEW d \in Names \ exempt'.astray, Lost(d), Unseen(d) PROVE LeavesUnseen(h, d)
      BY <1>19, ListSchemasDoes, <2>2 DEF LeavesUnseen, Unseen, LoadsContext, ShowsResult, New, Ended, Stays,
         WbTyped, TasksProper, Proper, WellFormed
    <2> QED
      BY <1>19, <1>0, ListSchemasDoes, <2>1, <2>2, UnseenMoves
  <1>20. ASSUME NEW h \in Handlers, SchemasListed(h) PROVE LostIsUnseen'
    <2>1. LosesNone(h)
      BY <1>20, SchemasListedDoes DEF LosesNone, New, Ended, Stays, WbTyped, TasksProper, Proper, WellFormed
    <2>2. ASSUME NEW d \in Names \ exempt'.astray, Lost(d), Unseen(d) PROVE LeavesUnseen(h, d)
      BY <1>20, SchemasListedDoes, <2>2 DEF LeavesUnseen, Unseen, LoadsContext, ShowsResult, New, Ended, Stays,
         WbTyped, TasksProper, Proper, WellFormed
    <2> QED
      BY <1>20, <1>0, SchemasListedDoes, <2>1, <2>2, UnseenMoves
  <1>21. ASSUME NEW h \in Handlers, SendChange(h) PROVE LostIsUnseen'
    <2>1. LosesNone(h)
      BY <1>21, SendChangeDoes DEF LosesNone, New, Ended, Stays, WbTyped, TasksProper, Proper, WellFormed
    <2>2. ASSUME NEW d \in Names \ exempt'.astray, Lost(d), Unseen(d) PROVE LeavesUnseen(h, d)
      BY <1>21, SendChangeDoes, <2>2 DEF LeavesUnseen, Unseen, LoadsContext, ShowsResult, New, Ended, Stays,
         WbTyped, TasksProper, Proper, WellFormed
    <2> QED
      BY <1>21, <1>0, SendChangeDoes, <2>1, <2>2, UnseenMoves
  <1>22. ASSUME NEW h \in Handlers, SetActiveSchema(h) PROVE LostIsUnseen'
    <2>1. LosesNone(h)
      BY <1>22, SetActiveSchemaDoes DEF LosesNone, New, Ended, Stays, WbTyped, TasksProper, Proper, WellFormed
    <2>2. ASSUME NEW d \in Names \ exempt'.astray, Lost(d), Unseen(d) PROVE LeavesUnseen(h, d)
      BY <1>22, SetActiveSchemaDoes, <2>2 DEF LeavesUnseen, Unseen, LoadsContext, ShowsResult, New, Ended, Stays,
         WbTyped, TasksProper, Proper, WellFormed
    <2> QED
      BY <1>22, <1>0, SetActiveSchemaDoes, <2>1, <2>2, UnseenMoves
  <1>23. ASSUME NEW h \in Handlers, ActiveSchemaSet(h) PROVE LostIsUnseen'
    <2>1. LosesNone(h)
      BY <1>23, ActiveSchemaSetDoes DEF LosesNone, New, Ended, Stays, WbTyped, TasksProper, Proper, WellFormed
    <2>2. ASSUME NEW d \in Names \ exempt'.astray, Lost(d), Unseen(d) PROVE LeavesUnseen(h, d)
      BY <1>23, ActiveSchemaSetDoes, <2>2 DEF LeavesUnseen, Unseen, LoadsContext, ShowsResult, New, Ended, Stays,
         WbTyped, TasksProper, Proper, WellFormed
    <2> QED
      BY <1>23, <1>0, ActiveSchemaSetDoes, <2>1, <2>2, UnseenMoves
  <1>24. ASSUME NEW h \in Handlers, RunStatement(h) PROVE LostIsUnseen'
    <2>1. LosesNone(h)
      BY <1>24, RunStatementDoes DEF LosesNone, New, Ended, Stays, WbTyped, TasksProper, Proper, WellFormed
    <2>2. ASSUME NEW d \in Names \ exempt'.astray, Lost(d), Unseen(d) PROVE LeavesUnseen(h, d)
      BY <1>24, RunStatementDoes, <2>2 DEF LeavesUnseen, Unseen, LoadsContext, ShowsResult, New, Ended, Stays,
         WbTyped, TasksProper, Proper, WellFormed
    <2> QED
      BY <1>24, <1>0, RunStatementDoes, <2>1, <2>2, UnseenMoves
  <1>25. ASSUME NEW h \in Handlers, TryDatabase(h) PROVE LostIsUnseen'
    <2>1. LosesNone(h)
      BY <1>25, TryDatabaseDoes DEF LosesNone, New, Ended, Stays, WbTyped, TasksProper, Proper, WellFormed,
         TryDatabase,
         Astray, WbTypeOK
    <2>2. ASSUME NEW d \in Names \ exempt'.astray, Lost(d), Unseen(d) PROVE LeavesUnseen(h, d)
      <3>1. d # selected /\ resultTab[d] = NoTab /\ (task[h].on = d /\ task[h].at \in ShowsResult => task[h].old)
        BY <2>2 DEF Unseen
      <3>2. d # selected'
        BY <3>1, <1>25, TryDatabaseDoes
      <3>3. resultTab'[d] = NoTab
        BY <3>1, <1>25, TryDatabaseDoes DEF ShowsResult
      <3>4. task'[h].at # "context" \/ ~Answered(h)'
        BY <1>25, TryDatabaseDoes DEF New, Ended, Stays
      <3>5. contextOf' \in {contextOf, h, Nowhere}
        BY <1>25, TryDatabaseDoes
      <3>6. task'[h].on = d /\ task'[h].at \in ShowsResult => task'[h].old
        BY <3>1, <1>25, TryDatabaseDoes DEF ShowsResult, Stays, WbTyped, TasksProper, Proper, WellFormed
      <3> QED
        BY <3>2, <3>3, <3>4, <3>5, <3>6 DEF LeavesUnseen, LoadsContext
    <2> QED
      BY <1>25, <1>0, TryDatabaseDoes, <2>1, <2>2, UnseenMoves
  <1>26. ASSUME NEW h \in Handlers, Proved(h) PROVE LostIsUnseen'
    <2>1. LosesNone(h)
      BY <1>26, ProvedDoes DEF LosesNone, New, Ended, Stays, WbTyped, TasksProper, Proper, WellFormed
    <2>2. ASSUME NEW d \in Names \ exempt'.astray, Lost(d), Unseen(d) PROVE LeavesUnseen(h, d)
      BY <1>26, ProvedDoes, <2>2 DEF LeavesUnseen, Unseen, LoadsContext, ShowsResult, New, Ended, Stays, WbTyped,
         TasksProper, Proper, WellFormed
    <2> QED
      BY <1>26, <1>0, ProvedDoes, <2>1, <2>2, UnseenMoves
  <1>27. ASSUME NEW h \in Handlers, NotProved(h) PROVE LostIsUnseen'
    <2>1. LosesNone(h)
      BY <1>27, NotProvedDoes DEF LosesNone, New, Ended, Stays, WbTyped, TasksProper, Proper, WellFormed
    <2>2. ASSUME NEW d \in Names \ exempt'.astray, Lost(d), Unseen(d) PROVE LeavesUnseen(h, d)
      BY <1>27, NotProvedDoes, <2>2 DEF LeavesUnseen, Unseen, LoadsContext, ShowsResult, New, Ended, Stays,
         WbTyped, TasksProper, Proper, WellFormed
    <2> QED
      BY <1>27, <1>0, NotProvedDoes, <2>1, <2>2, UnseenMoves
  <1>28. ASSUME NEW h \in Handlers, Confirmed(h) PROVE LostIsUnseen'
    <2>1. LosesNone(h)
      BY <1>28, ConfirmedDoes DEF LosesNone, New, Ended, Stays, WbTyped, TasksProper, Proper, WellFormed
    <2>2. ASSUME NEW d \in Names \ exempt'.astray, Lost(d), Unseen(d) PROVE LeavesUnseen(h, d)
      <3>1. d # selected /\ resultTab[d] = NoTab /\ (task[h].on = d /\ task[h].at \in ShowsResult => task[h].old)
        BY <2>2 DEF Unseen
      <3>2. d # selected'
        BY <3>1, <1>28, ConfirmedDoes
      <3>3. resultTab'[d] = NoTab
        BY <3>1, <1>28, ConfirmedDoes DEF ShowsResult, Confirmed, Give, MayStart, WbTypeOK, WbTyped
      <3>4. task'[h].at # "context" \/ ~Answered(h)'
        BY <1>28, ConfirmedDoes DEF New, Ended, Stays
      <3>5. contextOf' \in {contextOf, h, Nowhere}
        BY <1>28, ConfirmedDoes
      <3>6. task'[h].on = d /\ task'[h].at \in ShowsResult => task'[h].old
        BY <3>1, <1>28, ConfirmedDoes DEF ShowsResult, Stays, Ended, New, MayStart
      <3> QED
        BY <3>2, <3>3, <3>4, <3>5, <3>6 DEF LeavesUnseen, LoadsContext
    <2> QED
      BY <1>28, <1>0, ConfirmedDoes, <2>1, <2>2, UnseenMoves
  <1>29. ASSUME NEW h \in Handlers, Ran(h) PROVE LostIsUnseen'
    <2>1. LosesNone(h)
      BY <1>29, RanDoes DEF LosesNone, New, Ended, Stays, WbTyped, TasksProper, Proper, WellFormed
    <2>2. ASSUME NEW d \in Names \ exempt'.astray, Lost(d), Unseen(d) PROVE LeavesUnseen(h, d)
      <3>1. d # selected /\ resultTab[d] = NoTab /\ (task[h].on = d /\ task[h].at \in ShowsResult => task[h].old)
        BY <2>2 DEF Unseen
      <3>2. d # selected'
        BY <3>1, <1>29, RanDoes
      <3>3. resultTab'[d] = NoTab
        BY <3>1, <1>29, RanDoes DEF ShowsResult, Ran, WbTypeOK, WbTyped
      <3>4. task'[h].at # "context" \/ ~Answered(h)'
        BY <1>29, RanDoes DEF New, Ended, Stays
      <3>5. contextOf' \in {contextOf, h, Nowhere}
        BY <1>29, RanDoes
      <3>6. task'[h].on = d /\ task'[h].at \in ShowsResult => task'[h].old
        BY <3>1, <1>29, RanDoes DEF ShowsResult, Ended, New
      <3> QED
        BY <3>2, <3>3, <3>4, <3>5, <3>6 DEF LeavesUnseen, LoadsContext
    <2> QED
      BY <1>29, <1>0, RanDoes, <2>1, <2>2, UnseenMoves
  <1>30. ASSUME NEW h \in Handlers, Checked(h) PROVE LostIsUnseen'
    <2>1. LosesNone(h)
      BY <1>30, CheckedDoes DEF LosesNone, New, Ended, Stays, WbTyped, TasksProper, Proper, WellFormed
    <2>2. ASSUME NEW d \in Names \ exempt'.astray, Lost(d), Unseen(d) PROVE LeavesUnseen(h, d)
      <3>1. d # selected /\ resultTab[d] = NoTab /\ (task[h].on = d /\ task[h].at \in ShowsResult => task[h].old)
        BY <2>2 DEF Unseen
      <3>2. d # selected'
        BY <3>1, <1>30, CheckedDoes
      <3>3. resultTab'[d] = NoTab
        BY <3>1, <1>30, CheckedDoes DEF ShowsResult, Checked, WbTypeOK, WbTyped
      <3>4. task'[h].at # "context" \/ ~Answered(h)'
        BY <1>30, CheckedDoes DEF New, Ended, Stays
      <3>5. contextOf' \in {contextOf, h, Nowhere}
        BY <1>30, CheckedDoes
      <3>6. task'[h].on = d /\ task'[h].at \in ShowsResult => task'[h].old
        BY <3>1, <1>30, CheckedDoes DEF ShowsResult, Stays, Ended, New, NoTab
      <3> QED
        BY <3>2, <3>3, <3>4, <3>5, <3>6 DEF LeavesUnseen, LoadsContext
    <2> QED
      BY <1>30, <1>0, CheckedDoes, <2>1, <2>2, UnseenMoves
  <1>31. ASSUME NEW h \in Handlers, RunStatements(h) PROVE LostIsUnseen'
    <2>1. LosesNone(h)
      BY <1>31, RunStatementsDoes DEF LosesNone, New, Ended, Stays, WbTyped, TasksProper, Proper, WellFormed
    <2>2. ASSUME NEW d \in Names \ exempt'.astray, Lost(d), Unseen(d) PROVE LeavesUnseen(h, d)
      BY <1>31, RunStatementsDoes, <2>2 DEF LeavesUnseen, Unseen, LoadsContext, ShowsResult, New, Ended, Stays,
         WbTyped, TasksProper, Proper, WellFormed
    <2> QED
      BY <1>31, <1>0, RunStatementsDoes, <2>1, <2>2, UnseenMoves
  <1>32. ASSUME NEW h \in Handlers, Applied(h) PROVE LostIsUnseen'
    <2>1. LosesNone(h)
      BY <1>32, AppliedDoes DEF LosesNone, New, Ended, Stays, WbTyped, TasksProper, Proper, WellFormed
    <2>2. ASSUME NEW d \in Names \ exempt'.astray, Lost(d), Unseen(d) PROVE LeavesUnseen(h, d)
      BY <1>32, AppliedDoes, <2>2 DEF LeavesUnseen, Unseen, LoadsContext, ShowsResult, New, Ended, Stays, WbTyped,
         TasksProper, Proper, WellFormed
    <2> QED
      BY <1>32, <1>0, AppliedDoes, <2>1, <2>2, UnseenMoves
  <1>33. ASSUME NEW h \in Handlers, BatchSaved(h) PROVE LostIsUnseen'
    <2>1. LosesNone(h)
      BY <1>33, BatchSavedDoes DEF LosesNone, New, Ended, Stays, WbTyped, TasksProper, Proper, WellFormed
    <2>2. ASSUME NEW d \in Names \ exempt'.astray, Lost(d), Unseen(d) PROVE LeavesUnseen(h, d)
      <3>1. d # selected /\ resultTab[d] = NoTab /\ (task[h].on = d /\ task[h].at \in ShowsResult => task[h].old)
        BY <2>2 DEF Unseen
      <3>2. d # selected'
        BY <3>1, <1>33, BatchSavedDoes
      <3>3. resultTab'[d] = NoTab
        BY <3>1, <1>33, BatchSavedDoes DEF ShowsResult, BatchSaved, Give, MayStart, WbTypeOK, WbTyped
      <3>4. task'[h].at # "context" \/ ~Answered(h)'
        BY <1>33, BatchSavedDoes DEF New, Ended, Stays
      <3>5. contextOf' \in {contextOf, h, Nowhere}
        BY <1>33, BatchSavedDoes
      <3>6. task'[h].on = d /\ task'[h].at \in ShowsResult => task'[h].old
        BY <3>1, <1>33, BatchSavedDoes DEF ShowsResult, Ended, New, MayStart
      <3> QED
        BY <3>2, <3>3, <3>4, <3>5, <3>6 DEF LeavesUnseen, LoadsContext
    <2> QED
      BY <1>33, <1>0, BatchSavedDoes, <2>1, <2>2, UnseenMoves
  <1>34. ASSUME NEW h \in Handlers, BatchRan(h) PROVE LostIsUnseen'
    <2>1. LosesNone(h)
      BY <1>34, BatchRanDoes DEF LosesNone, New, Ended, Stays, WbTyped, TasksProper, Proper, WellFormed
    <2>2. ASSUME NEW d \in Names \ exempt'.astray, Lost(d), Unseen(d) PROVE LeavesUnseen(h, d)
      <3>1. d # selected /\ resultTab[d] = NoTab /\ (task[h].on = d /\ task[h].at \in ShowsResult => task[h].old)
        BY <2>2 DEF Unseen
      <3>2. d # selected'
        BY <3>1, <1>34, BatchRanDoes
      <3>3. resultTab'[d] = NoTab
        BY <3>1, <1>34, BatchRanDoes DEF ShowsResult, BatchRan, WbTypeOK, WbTyped
      <3>4. task'[h].at # "context" \/ ~Answered(h)'
        BY <1>34, BatchRanDoes DEF New, Ended, Stays
      <3>5. contextOf' \in {contextOf, h, Nowhere}
        BY <1>34, BatchRanDoes
      <3>6. task'[h].on = d /\ task'[h].at \in ShowsResult => task'[h].old
        BY <3>1, <1>34, BatchRanDoes DEF ShowsResult, Stays, Ended, New
      <3> QED
        BY <3>2, <3>3, <3>4, <3>5, <3>6 DEF LeavesUnseen, LoadsContext
    <2> QED
      BY <1>34, <1>0, BatchRanDoes, <2>1, <2>2, UnseenMoves
  <1>35. ASSUME NEW h \in Handlers, AnswerPrompt(h) PROVE LostIsUnseen'
    <2>1. LosesNone(h)
      BY <1>35, AnswerPromptDoes DEF LosesNone, New, Ended, Stays, WbTyped, TasksProper, Proper, WellFormed
    <2>2. ASSUME NEW d \in Names \ exempt'.astray, Lost(d), Unseen(d) PROVE LeavesUnseen(h, d)
      BY <1>35, AnswerPromptDoes, <2>2 DEF LeavesUnseen, Unseen, LoadsContext, ShowsResult, New, Ended, Stays,
         WbTyped, TasksProper, Proper, WellFormed
    <2> QED
      BY <1>35, <1>0, AnswerPromptDoes, <2>1, <2>2, UnseenMoves
  <1>36. ASSUME NEW h \in Handlers, GiveUpReload(h) PROVE LostIsUnseen'
    <2>1. LosesNone(h)
      BY <1>36, GiveUpReloadDoes DEF LosesNone, New, Ended, Stays, WbTyped, TasksProper, Proper, WellFormed
    <2>2. ASSUME NEW d \in Names \ exempt'.astray, Lost(d), Unseen(d) PROVE LeavesUnseen(h, d)
      BY <1>36, GiveUpReloadDoes, <2>2 DEF LeavesUnseen, Unseen, LoadsContext, ShowsResult, New, Ended, Stays,
         WbTyped, TasksProper, Proper, WellFormed
    <2> QED
      BY <1>36, <1>0, GiveUpReloadDoes, <2>1, <2>2, UnseenMoves
  <1>37. ASSUME NEW h \in Handlers, ConnectionsLoaded(h) PROVE LostIsUnseen'
    <2>1. LosesNone(h)
      BY <1>37, ConnectionsLoadedDoes DEF LosesNone, New, Ended, Stays, WbTyped, TasksProper, Proper, WellFormed
    <2>2. ASSUME NEW d \in Names \ exempt'.astray, Lost(d), Unseen(d) PROVE LeavesUnseen(h, d)
      BY <1>37, ConnectionsLoadedDoes, <2>2 DEF LeavesUnseen, Unseen, LoadsContext, ShowsResult, New, Ended, Stays,
         WbTyped, TasksProper, Proper, WellFormed, ConnectionsLoaded, SelectConnection
    <2> QED
      BY <1>37, <1>0, ConnectionsLoadedDoes, <2>1, <2>2, UnseenMoves
  <1>38. ASSUME NEW h \in Handlers, SendReset(h) PROVE LostIsUnseen'
    BY <1>38, SendResetUnseen
  <1>39. ASSUME NEW h \in Handlers, ResetConnections(h) PROVE LostIsUnseen'
    BY <1>39, ResetConnectionsUnseen
  <1>40. ASSUME NEW h \in Handlers, ResetDone(h) PROVE LostIsUnseen'
    BY <1>40, ResetDoneUnseen
  <1>41. CASE Stay
    <2>1. \A d : Lost(d)' => Lost(d)
      BY <1>41, StayTyped DEF Lost
    <2>2. \A d : Unseen(d) => Unseen(d)'
      BY <1>41, StayTyped, WorkbenchAssumption DEF Unseen, LoadsContext, Answered, Stay, Acts, backendVars
    <2> QED
      BY <1>41, <2>1, <2>2 DEF LostIsUnseen, Stay, historyVars
  <1>42. CASE ToggleWritable
    BY <1>42, ToggleTyped DEF LostIsUnseen, Lost, Unseen, LoadsContext, Answered, ToggleWritable, Acts,
       backendVars, moveVars, historyVars
  <1>43. CASE UNCHANGED wbVars
    BY <1>43 DEF LostIsUnseen, Lost, Unseen, LoadsContext, Answered, wbVars, backendVars, moveVars, historyVars
  <1> QED
    BY <1>1, <1>2, <1>3, <1>4, <1>5, <1>6, <1>7, <1>8, <1>9, <1>10, <1>11, <1>12, <1>13, <1>14, <1>15, <1>16,
       <1>17, <1>18, <1>19, <1>20, <1>21, <1>22, <1>23, <1>24, <1>25, <1>26, <1>27, <1>28, <1>29, <1>30, <1>31,
       <1>32, <1>33, <1>34, <1>35, <1>36, <1>37, <1>38, <1>39, <1>40, <1>41, <1>42, <1>43 DEF WbNext

----------------------------------------------------------------------------
(* What a batch knows of its database                                      *)

Relies(h) ==
  /\ task[h].kind = "batch" /\ ~task[h].old /\ task[h].db # Nowhere /\ task[h].on \notin exempt.astray
  /\ \/ task[h].at \in {"next", "asking"} /\ ~task[h].stop
     \/ task[h].at = "running" /\ ~Answered(h) /\ ~task[h].overtaken
     \/ task[h].at \in {"running", "proving"} /\ Answered(h) /\ ~task[h].stop
BatchKnowsDatabase == \A h \in Handlers : Relies(h) => ActiveOf(task[h].on) = task[h].db

(* A batch that relies on its database has its connection to itself.       *)
LEMMA ReliesOnItsOwn ==
  ASSUME WbTyped, NEW k \in Handlers, Relies(k)
  PROVE  /\ task[k].on \in Names /\ Batch(task[k], task[k].on) /\ OccupiesConnection(task[k], task[k].on)
         /\ task[k].at \in ShowsResult /\ ~task[k].old
  <1>1. task[k].at \in {"next", "asking", "running", "proving"} /\ task[k].kind = "batch" /\ ~task[k].old
    BY DEF Relies
  <1>2. task[k].on \in Names
    BY <1>1 DEF WbTyped, TasksProper, Proper, WellFormed
  <1> QED
    BY <1>1, <1>2 DEF Batch, OccupiesConnection, ShowsResult

LEMMA KnowsMoves ==
  ASSUME WbTyped, BatchKnowsDatabase, exempt.astray \subseteq exempt'.astray,
         NEW h \in Handlers, OthersTold(h), OthersAnswered(h),
         Relies(h)' => ActiveOf(task[h].on)' = task'[h].db,
         \A k \in Handlers \ {h} :
           Relies(k) => override'[task[k].on] = override[task[k].on] \/ task[k].on \in exempt'.astray
  PROVE  BatchKnowsDatabase'
  <1> SUFFICES ASSUME NEW k \in Handlers, Relies(k)' PROVE ActiveOf(task[k].on)' = task'[k].db
    BY DEF BatchKnowsDatabase
  <1>1. CASE k = h
    BY <1>1
  <1>2. CASE k # h
    <2>1. Relies(k) /\ task'[k].on = task[k].on /\ task'[k].db = task[k].db /\ task'[k].on \notin exempt'.astray
      BY <1>2 DEF OthersTold, Told, OthersAnswered, Relies
    <2>2. override'[task[k].on] = override[task[k].on]
      BY <1>2, <2>1
    <2> QED
      BY <2>1, <2>2 DEF BatchKnowsDatabase, ActiveOf
  <1> QED
    BY <1>1, <1>2

(* Most steps change no override.                                          *)
LEMMA KnowsQuietly ==
  ASSUME WbTyped, BatchKnowsDatabase, exempt.astray \subseteq exempt'.astray,
         NEW h \in Handlers, OthersTold(h), OthersAnswered(h), UNCHANGED override,
         Relies(h)' => \/ Relies(h) /\ task'[h].on = task[h].on /\ task'[h].db = task[h].db
                       \/ task'[h].db = ActiveOf(task'[h].on)
  PROVE  BatchKnowsDatabase'
  <1>1. Relies(h)' => ActiveOf(task[h].on)' = task'[h].db
    BY DEF BatchKnowsDatabase, ActiveOf
  <1> QED
    BY <1>1, KnowsMoves

LEMMA SetActiveSchemaKnows ==
  ASSUME WbTyped, RunsApart, BatchKnowsDatabase, NEW h \in Handlers, SetActiveSchema(h),
         exempt.astray \subseteq exempt'.astray
  PROVE  BatchKnowsDatabase'
  <1>1. ~Relies(h)' /\ task[h].at = "switching" /\ OthersTold(h) /\ OthersAnswered(h)
    BY SetActiveSchemaDoes DEF Relies, Stays
  <1>2. ASSUME NEW k \in Handlers \ {h}, Relies(k) PROVE override'[task[k].on] = override[task[k].on]
    <2>1. task[h].on # task[k].on /\ task[k].on \in Names
      BY <1>1, <1>2, ReliesOnItsOwn DEF RunsApart, BatchMeetsNoSwitch
    <2> QED
      BY <2>1, SetActiveSchemaDoes DEF WbTyped, WbTypeOK
  <1> QED
    BY <1>1, <1>2, KnowsMoves
LEMMA TryDatabaseKnows ==
  ASSUME WbTyped, RunsApart, BatchKnowsDatabase, NEW h \in Handlers, TryDatabase(h),
         exempt.astray \subseteq exempt'.astray
  PROVE  BatchKnowsDatabase'
  <1>1. /\ ~Relies(h)' /\ task[h].at = "running" /\ OthersTold(h) /\ OthersAnswered(h)
        /\ task[h].kind \in Statements
    BY TryDatabaseDoes DEF Relies, Stays, WbTyped, TasksProper, Proper, WellFormed
  <1>2. ASSUME NEW k \in Handlers \ {h}, Relies(k)
        PROVE override'[task[k].on] = override[task[k].on] \/ task[k].on \in exempt'.astray
    <2>1. CASE task[h].on # task[k].on
      BY <1>2, <2>1, ReliesOnItsOwn DEF TryDatabase, WbTyped, WbTypeOK
    <2>2. CASE task[h].on = task[k].on
      <3>1. task[h].old
        BY <1>1, <1>2, <2>2, ReliesOnItsOwn DEF RunsApart, OneRunAtATime, OccupiesConnection, Statements
      <3> QED
        BY <2>2, <3>1 DEF TryDatabase, Astray, WbTyped, WbTypeOK
    <2> QED
      BY <2>1, <2>2
  <1> QED
    BY <1>1, <1>2, KnowsMoves
LEMMA NotProvedKnows ==
  ASSUME WbTyped, RunsApart, LostIsUnseen, BatchKnowsDatabase, NEW h \in Handlers, NotProved(h),
         exempt.astray \subseteq exempt'.astray
  PROVE  BatchKnowsDatabase'
  <1>1. /\ task[h].at = "proving" /\ OthersTold(h) /\ OthersAnswered(h) /\ task[h].kind \in Statements
        /\ task'[h].on = task[h].on /\ task'[h].db = ActiveAfter(task[h].on)
    BY NotProvedDoes DEF Stays, WbTyped, TasksProper, Proper, WellFormed
  <1>2. ActiveOf(task[h].on)' = task'[h].db
    BY <1>1 DEF ActiveAfter, ActiveOf
  <1>3. ASSUME NEW k \in Handlers \ {h}, Relies(k)
        PROVE override'[task[k].on] = override[task[k].on]
    <2>1. task[h].on # task[k].on
      <3>1. CASE task[h].old
        <4>1. task[k].on = task[h].on => Lost(task[k].on)
          BY <1>1, <3>1 DEF Lost
        <4>2. task[k].on \in Names \ exempt.astray
          BY <1>3, ReliesOnItsOwn DEF Relies
        <4> QED
          BY <1>3, <4>1, <4>2, ReliesOnItsOwn DEF LostIsUnseen, Unseen
      <3>2. CASE ~task[h].old
        BY <1>1, <1>3, <3>2, ReliesOnItsOwn DEF RunsApart, OneRunAtATime, OccupiesConnection, Statements
      <3> QED
        BY <3>1, <3>2
    <2> QED
      BY <1>3, <2>1, ReliesOnItsOwn DEF NotProved, WbTyped, WbTypeOK
  <1> QED
    BY <1>1, <1>2, <1>3, KnowsMoves

LEMMA SendResetKnows ==
  ASSUME WbTyped, BatchKnowsDatabase, NEW h \in Handlers, SendReset(h) PROVE BatchKnowsDatabase'
  <1>1. UNCHANGED <<override, exempt>>
    BY DEF SendReset, GoesOn, backendVars, historyVars
  <1>2. ASSUME NEW k \in Handlers, Relies(k)'
        PROVE  Relies(k) /\ task'[k].on = task[k].on /\ task'[k].db = task[k].db
    <2>1. k # h
      BY <1>2, SendResetDoes DEF Relies
    <2>2. Touched(task[k], task'[k]) /\ (task'[k].old <=> task[k].old) /\ (task'[k].overtaken <=> task[k].overtaken)
      BY <2>1, SendResetDoes
    <2> QED
      BY <1>1, <1>2, <2>2, SendResetDoes DEF Touched, Relies
  <1> QED
    BY <1>1, <1>2 DEF BatchKnowsDatabase, ActiveOf
LEMMA ResetConnectionsKnows ==
  ASSUME WbTyped, RunsApart, NEW h \in Handlers, ResetConnections(h) PROVE BatchKnowsDatabase'
  <1> SUFFICES ASSUME NEW k \in Handlers, Relies(k)' PROVE FALSE
    BY DEF BatchKnowsDatabase
  <1>1. task[h].at = "resetting" /\ task'[h].at = "resetting"
    BY ResetConnectionsDoes DEF Touched
  <1>2. k # h
    BY <1>1 DEF Relies
  <1>3. /\ Touched(task[k], task'[k]) /\ (task'[k].old <=> task[k].old) /\ (task'[k].stop <=> task[k].stop)
        /\ (task'[k].overtaken <=> task[k].overtaken \/ (task[k].at = "running" /\ ~Answered(k)))
        /\ (Answered(k)' <=> Answered(k))
    BY <1>2, ResetConnectionsDoes DEF OthersAnswered
  <1>4. task[k].kind = "batch" /\ ~task[k].old /\ ~task[k].stop /\
        task[k].at \in {"next", "asking", "running", "proving"}
    BY <1>3 DEF Relies, Touched
  <1>5. task[k].on \in Names /\ Batch(task[k], task[k].on)
    BY <1>4 DEF Batch, OccupiesConnection, WbTyped, TasksProper, Proper, WellFormed
  <1> QED
    BY <1>1, <1>4, <1>5 DEF RunsApart, ReloadStopsBatches
LEMMA ResetDoneKnows ==
  ASSUME WbTyped, NEW h \in Handlers, ResetDone(h) PROVE BatchKnowsDatabase'
  <1>1. \A k \in Handlers : ~Relies(k)'
    BY ResetDoneDoes DEF Relies, Touched, Discards
  <1> QED
    BY <1>1 DEF BatchKnowsDatabase

LEMMA KnowsStep ==
  ASSUME WbTyped, RunsApart, LostIsUnseen, BatchKnowsDatabase, [WbNext]_wbVars PROVE BatchKnowsDatabase'
  <1>0. exempt.astray \subseteq exempt'.astray
    BY ExemptGrows
  <1>1. ASSUME NEW h \in Handlers, NEW c \in Names, Click(h, c) PROVE BatchKnowsDatabase'
    <2>1. Relies(h)' => \/ Relies(h) /\ task'[h].on = task[h].on /\ task'[h].db = task[h].db
                        \/ task'[h].db = ActiveOf(task'[h].on)
      BY <1>1, <1>0, ClickDoes DEF Relies, New, Ended, Stays, WbTyped, TasksProper, Proper, WellFormed
    <2> QED
      BY <1>1, <1>0, ClickDoes, <2>1, KnowsQuietly
  <1>2. ASSUME NEW h \in Handlers, NEW c \in Names, SubmitCellEdits(h, c) PROVE BatchKnowsDatabase'
    <2>1. Relies(h)' => \/ Relies(h) /\ task'[h].on = task[h].on /\ task'[h].db = task[h].db
                        \/ task'[h].db = ActiveOf(task'[h].on)
      BY <1>2, <1>0, SubmitCellEditsDoes DEF Relies, New, Ended, Stays, WbTyped, TasksProper, Proper, WellFormed
    <2> QED
      BY <1>2, <1>0, SubmitCellEditsDoes, <2>1, KnowsQuietly
  <1>3. ASSUME NEW h \in Handlers, NEW c \in Names, NEW s \in Sendable, Rerun(h, c, s) PROVE BatchKnowsDatabase'
    <2>1. Relies(h)' => \/ Relies(h) /\ task'[h].on = task[h].on /\ task'[h].db = task[h].db
                        \/ task'[h].db = ActiveOf(task'[h].on)
      BY <1>3, <1>0, RerunDoes DEF Relies, New, Ended, Stays, WbTyped, TasksProper, Proper, WellFormed
    <2> QED
      BY <1>3, <1>0, RerunDoes, <2>1, KnowsQuietly
  <1>4. ASSUME NEW h \in Handlers, NEW e \in Editors, OpenFile(h, e) PROVE BatchKnowsDatabase'
    <2>1. Relies(h)' => \/ Relies(h) /\ task'[h].on = task[h].on /\ task'[h].db = task[h].db
                        \/ task'[h].db = ActiveOf(task'[h].on)
      BY <1>4, <1>0, OpenFileDoes DEF Relies, New, Ended, Stays, WbTyped, TasksProper, Proper, WellFormed
    <2> QED
      BY <1>4, <1>0, OpenFileDoes, <2>1, KnowsQuietly
  <1>5. ASSUME NEW h \in Handlers, NEW s \in Databases, ChangeSchema(h, s) PROVE BatchKnowsDatabase'
    <2>1. Relies(h)' => \/ Relies(h) /\ task'[h].on = task[h].on /\ task'[h].db = task[h].db
                        \/ task'[h].db = ActiveOf(task'[h].on)
      BY <1>5, <1>0, ChangeSchemaDoes DEF Relies, New, Ended, Stays, WbTyped, TasksProper, Proper, WellFormed
    <2> QED
      BY <1>5, <1>0, ChangeSchemaDoes, <2>1, KnowsQuietly
  <1>6. ASSUME NEW h \in Handlers, NEW s \in Sendable, Run(h, s) PROVE BatchKnowsDatabase'
    <2>1. Relies(h)' => \/ Relies(h) /\ task'[h].on = task[h].on /\ task'[h].db = task[h].db
                        \/ task'[h].db = ActiveOf(task'[h].on)
      BY <1>6, <1>0, RunDoes DEF Relies, New, Ended, Stays, WbTyped, TasksProper, Proper, WellFormed
    <2> QED
      BY <1>6, <1>0, RunDoes, <2>1, KnowsQuietly
  <1>7. ASSUME NEW h \in Handlers, Browse(h) PROVE BatchKnowsDatabase'
    <2>1. Relies(h)' => \/ Relies(h) /\ task'[h].on = task[h].on /\ task'[h].db = task[h].db
                        \/ task'[h].db = ActiveOf(task'[h].on)
      BY <1>7, <1>0, BrowseDoes DEF Relies, New, Ended, Stays, WbTyped, TasksProper, Proper, WellFormed
    <2> QED
      BY <1>7, <1>0, BrowseDoes, <2>1, KnowsQuietly
  <1>8. ASSUME NEW h \in Handlers, RunBatch(h) PROVE BatchKnowsDatabase'
    <2>1. Relies(h)' => \/ Relies(h) /\ task'[h].on = task[h].on /\ task'[h].db = task[h].db
                        \/ task'[h].db = ActiveOf(task'[h].on)
      BY <1>8, <1>0, RunBatchDoes DEF Relies, New, Ended, Stays, WbTyped, TasksProper, Proper, WellFormed
    <2> QED
      BY <1>8, <1>0, RunBatchDoes, <2>1, KnowsQuietly
  <1>9. ASSUME NEW h \in Handlers, Reload(h) PROVE BatchKnowsDatabase'
    <2>1. Relies(h)' => \/ Relies(h) /\ task'[h].on = task[h].on /\ task'[h].db = task[h].db
                        \/ task'[h].db = ActiveOf(task'[h].on)
      BY <1>9, <1>0, ReloadDoes DEF Relies, New, Ended, Stays, WbTyped, TasksProper, Proper, WellFormed
    <2> QED
      BY <1>9, <1>0, ReloadDoes, <2>1, KnowsQuietly
  <1>10. ASSUME NEW h \in Handlers, NEW e \in Editors, ClickTab(h, e) PROVE BatchKnowsDatabase'
    <2>1. Relies(h)' => \/ Relies(h) /\ task'[h].on = task[h].on /\ task'[h].db = task[h].db
                        \/ task'[h].db = ActiveOf(task'[h].on)
      BY <1>10, <1>0, ClickTabDoes DEF Relies, New, Ended, Stays, WbTyped, TasksProper, Proper, WellFormed
    <2> QED
      BY <1>10, <1>0, ClickTabDoes, <2>1, KnowsQuietly
  <1>11. ASSUME NEW h \in Handlers, NEW e \in Editors, CloseTab(h, e) PROVE BatchKnowsDatabase'
    <2>1. Relies(h)' => \/ Relies(h) /\ task'[h].on = task[h].on /\ task'[h].db = task[h].db
                        \/ task'[h].db = ActiveOf(task'[h].on)
      BY <1>11, <1>0, CloseTabDoes DEF Relies, New, Ended, Stays, WbTyped, TasksProper, Proper, WellFormed
    <2> QED
      BY <1>11, <1>0, CloseTabDoes, <2>1, KnowsQuietly
  <1>12. ASSUME NEW h \in Handlers, CancelBatch(h) PROVE BatchKnowsDatabase'
    <2>1. Relies(h)' => \/ Relies(h) /\ task'[h].on = task[h].on /\ task'[h].db = task[h].db
                        \/ task'[h].db = ActiveOf(task'[h].on)
      BY <1>12, <1>0, CancelBatchDoes DEF Relies, New, Ended, Stays, WbTyped, TasksProper, Proper, WellFormed,
         OccupiesConnection
    <2> QED
      BY <1>12, <1>0, CancelBatchDoes, <2>1, KnowsQuietly
  <1>13. ASSUME NEW h \in Handlers, SaveEnds(h) PROVE BatchKnowsDatabase'
    <2>1. Relies(h)' => \/ Relies(h) /\ task'[h].on = task[h].on /\ task'[h].db = task[h].db
                        \/ task'[h].db = ActiveOf(task'[h].on)
      BY <1>13, <1>0, SaveEndsDoes DEF Relies, New, Ended, Stays, WbTyped, TasksProper, Proper, WellFormed
    <2> QED
      BY <1>13, <1>0, SaveEndsDoes, <2>1, KnowsQuietly
  <1>14. ASSUME NEW h \in Handlers, NEW s \in Sendable, NextStatement(h, s) PROVE BatchKnowsDatabase'
    <2>1. Relies(h)' => \/ Relies(h) /\ task'[h].on = task[h].on /\ task'[h].db = task[h].db
                        \/ task'[h].db = ActiveOf(task'[h].on)
      BY <1>14, <1>0, NextStatementDoes DEF Relies, New, Ended, Stays, WbTyped, TasksProper, Proper, WellFormed,
         MayGoOn
    <2> QED
      BY <1>14, <1>0, NextStatementDoes, <2>1, KnowsQuietly
  <1>15. ASSUME NEW h \in Handlers, ReadActive(h) PROVE BatchKnowsDatabase'
    <2>1. Relies(h)' => \/ Relies(h) /\ task'[h].on = task[h].on /\ task'[h].db = task[h].db
                        \/ task'[h].db = ActiveOf(task'[h].on)
      BY <1>15, <1>0, ReadActiveDoes DEF Relies, New, Ended, Stays, WbTyped, TasksProper, Proper, WellFormed
    <2> QED
      BY <1>15, <1>0, ReadActiveDoes, <2>1, KnowsQuietly
  <1>16. ASSUME NEW h \in Handlers, Overtaken(h) PROVE BatchKnowsDatabase'
    <2>1. Relies(h)' => \/ Relies(h) /\ task'[h].on = task[h].on /\ task'[h].db = task[h].db
                        \/ task'[h].db = ActiveOf(task'[h].on)
      BY <1>16, <1>0, OvertakenDoes DEF Relies, New, Ended, Stays, WbTyped, TasksProper, Proper, WellFormed
    <2> QED
      BY <1>16, <1>0, OvertakenDoes, <2>1, KnowsQuietly
  <1>17. ASSUME NEW h \in Handlers, CommitContext(h) PROVE BatchKnowsDatabase'
    <2>1. Relies(h)' => \/ Relies(h) /\ task'[h].on = task[h].on /\ task'[h].db = task[h].db
                        \/ task'[h].db = ActiveOf(task'[h].on)
      BY <1>17, <1>0, CommitContextDoes DEF Relies, New, Ended, Stays, WbTyped, TasksProper, Proper, WellFormed
    <2> QED
      BY <1>17, <1>0, CommitContextDoes, <2>1, KnowsQuietly
  <1>18. ASSUME NEW h \in Handlers, FileRead(h) PROVE BatchKnowsDatabase'
    <2>1. Relies(h)' => \/ Relies(h) /\ task'[h].on = task[h].on /\ task'[h].db = task[h].db
                        \/ task'[h].db = ActiveOf(task'[h].on)
      BY <1>18, <1>0, FileReadDoes DEF Relies, New, Ended, Stays, WbTyped, TasksProper, Proper, WellFormed
    <2> QED
      BY <1>18, <1>0, FileReadDoes, <2>1, KnowsQuietly
  <1>19. ASSUME NEW h \in Handlers, ListSchemas(h) PROVE BatchKnowsDatabase'
    <2>1. Relies(h)' => \/ Relies(h) /\ task'[h].on = task[h].on /\ task'[h].db = task[h].db
                        \/ task'[h].db = ActiveOf(task'[h].on)
      BY <1>19, <1>0, ListSchemasDoes DEF Relies, New, Ended, Stays, WbTyped, TasksProper, Proper, WellFormed
    <2> QED
      BY <1>19, <1>0, ListSchemasDoes, <2>1, KnowsQuietly
  <1>20. ASSUME NEW h \in Handlers, SchemasListed(h) PROVE BatchKnowsDatabase'
    <2>1. Relies(h)' => \/ Relies(h) /\ task'[h].on = task[h].on /\ task'[h].db = task[h].db
                        \/ task'[h].db = ActiveOf(task'[h].on)
      BY <1>20, <1>0, SchemasListedDoes DEF Relies, New, Ended, Stays, WbTyped, TasksProper, Proper, WellFormed
    <2> QED
      BY <1>20, <1>0, SchemasListedDoes, <2>1, KnowsQuietly
  <1>21. ASSUME NEW h \in Handlers, SendChange(h) PROVE BatchKnowsDatabase'
    <2>1. Relies(h)' => \/ Relies(h) /\ task'[h].on = task[h].on /\ task'[h].db = task[h].db
                        \/ task'[h].db = ActiveOf(task'[h].on)
      BY <1>21, <1>0, SendChangeDoes DEF Relies, New, Ended, Stays, WbTyped, TasksProper, Proper, WellFormed
    <2> QED
      BY <1>21, <1>0, SendChangeDoes, <2>1, KnowsQuietly
  <1>22. ASSUME NEW h \in Handlers, SetActiveSchema(h) PROVE BatchKnowsDatabase'
    BY <1>22, <1>0, SetActiveSchemaKnows
  <1>23. ASSUME NEW h \in Handlers, ActiveSchemaSet(h) PROVE BatchKnowsDatabase'
    <2>1. Relies(h)' => \/ Relies(h) /\ task'[h].on = task[h].on /\ task'[h].db = task[h].db
                        \/ task'[h].db = ActiveOf(task'[h].on)
      BY <1>23, <1>0, ActiveSchemaSetDoes DEF Relies, New, Ended, Stays, WbTyped, TasksProper, Proper, WellFormed
    <2> QED
      BY <1>23, <1>0, ActiveSchemaSetDoes, <2>1, KnowsQuietly
  <1>24. ASSUME NEW h \in Handlers, RunStatement(h) PROVE BatchKnowsDatabase'
    <2>1. Relies(h)' => \/ Relies(h) /\ task'[h].on = task[h].on /\ task'[h].db = task[h].db
                        \/ task'[h].db = ActiveOf(task'[h].on)
      BY <1>24, <1>0, RunStatementDoes DEF Relies, New, Ended, Stays, WbTyped, TasksProper, Proper, WellFormed
    <2> QED
      BY <1>24, <1>0, RunStatementDoes, <2>1, KnowsQuietly
  <1>25. ASSUME NEW h \in Handlers, TryDatabase(h) PROVE BatchKnowsDatabase'
    BY <1>25, <1>0, TryDatabaseKnows
  <1>26. ASSUME NEW h \in Handlers, Proved(h) PROVE BatchKnowsDatabase'
    <2>1. Relies(h)' => \/ Relies(h) /\ task'[h].on = task[h].on /\ task'[h].db = task[h].db
                        \/ task'[h].db = ActiveOf(task'[h].on)
      BY <1>26, <1>0, ProvedDoes DEF Relies, New, Ended, Stays, WbTyped, TasksProper, Proper, WellFormed
    <2> QED
      BY <1>26, <1>0, ProvedDoes, <2>1, KnowsQuietly
  <1>27. ASSUME NEW h \in Handlers, NotProved(h) PROVE BatchKnowsDatabase'
    BY <1>27, <1>0, NotProvedKnows
  <1>28. ASSUME NEW h \in Handlers, Confirmed(h) PROVE BatchKnowsDatabase'
    <2>1. Relies(h)' => \/ Relies(h) /\ task'[h].on = task[h].on /\ task'[h].db = task[h].db
                        \/ task'[h].db = ActiveOf(task'[h].on)
      BY <1>28, <1>0, ConfirmedDoes DEF Relies, New, Ended, Stays, WbTyped, TasksProper, Proper, WellFormed
    <2> QED
      BY <1>28, <1>0, ConfirmedDoes, <2>1, KnowsQuietly
  <1>29. ASSUME NEW h \in Handlers, Ran(h) PROVE BatchKnowsDatabase'
    <2>1. Relies(h)' => \/ Relies(h) /\ task'[h].on = task[h].on /\ task'[h].db = task[h].db
                        \/ task'[h].db = ActiveOf(task'[h].on)
      BY <1>29, <1>0, RanDoes DEF Relies, New, Ended, Stays, WbTyped, TasksProper, Proper, WellFormed
    <2> QED
      BY <1>29, <1>0, RanDoes, <2>1, KnowsQuietly
  <1>30. ASSUME NEW h \in Handlers, Checked(h) PROVE BatchKnowsDatabase'
    <2>1. Relies(h)' => \/ Relies(h) /\ task'[h].on = task[h].on /\ task'[h].db = task[h].db
                        \/ task'[h].db = ActiveOf(task'[h].on)
      BY <1>30, <1>0, CheckedDoes DEF Relies, New, Ended, Stays, WbTyped, TasksProper, Proper, WellFormed
    <2> QED
      BY <1>30, <1>0, CheckedDoes, <2>1, KnowsQuietly
  <1>31. ASSUME NEW h \in Handlers, RunStatements(h) PROVE BatchKnowsDatabase'
    <2>1. Relies(h)' => \/ Relies(h) /\ task'[h].on = task[h].on /\ task'[h].db = task[h].db
                        \/ task'[h].db = ActiveOf(task'[h].on)
      BY <1>31, <1>0, RunStatementsDoes DEF Relies, New, Ended, Stays, WbTyped, TasksProper, Proper, WellFormed
    <2> QED
      BY <1>31, <1>0, RunStatementsDoes, <2>1, KnowsQuietly
  <1>32. ASSUME NEW h \in Handlers, Applied(h) PROVE BatchKnowsDatabase'
    <2>1. Relies(h)' => \/ Relies(h) /\ task'[h].on = task[h].on /\ task'[h].db = task[h].db
                        \/ task'[h].db = ActiveOf(task'[h].on)
      BY <1>32, <1>0, AppliedDoes DEF Relies, New, Ended, Stays, WbTyped, TasksProper, Proper, WellFormed
    <2> QED
      BY <1>32, <1>0, AppliedDoes, <2>1, KnowsQuietly
  <1>33. ASSUME NEW h \in Handlers, BatchSaved(h) PROVE BatchKnowsDatabase'
    <2>1. Relies(h)' => \/ Relies(h) /\ task'[h].on = task[h].on /\ task'[h].db = task[h].db
                        \/ task'[h].db = ActiveOf(task'[h].on)
      BY <1>33, <1>0, BatchSavedDoes DEF Relies, New, Ended, Stays, WbTyped, TasksProper, Proper, WellFormed
    <2> QED
      BY <1>33, <1>0, BatchSavedDoes, <2>1, KnowsQuietly
  <1>34. ASSUME NEW h \in Handlers, BatchRan(h) PROVE BatchKnowsDatabase'
    <2>1. Relies(h)' => \/ Relies(h) /\ task'[h].on = task[h].on /\ task'[h].db = task[h].db
                        \/ task'[h].db = ActiveOf(task'[h].on)
      BY <1>34, <1>0, BatchRanDoes DEF Relies, New, Ended, Stays, WbTyped, TasksProper, Proper, WellFormed
    <2> QED
      BY <1>34, <1>0, BatchRanDoes, <2>1, KnowsQuietly
  <1>35. ASSUME NEW h \in Handlers, AnswerPrompt(h) PROVE BatchKnowsDatabase'
    <2>1. Relies(h)' => \/ Relies(h) /\ task'[h].on = task[h].on /\ task'[h].db = task[h].db
                        \/ task'[h].db = ActiveOf(task'[h].on)
      BY <1>35, <1>0, AnswerPromptDoes DEF Relies, New, Ended, Stays, WbTyped, TasksProper, Proper, WellFormed
    <2> QED
      BY <1>35, <1>0, AnswerPromptDoes, <2>1, KnowsQuietly
  <1>36. ASSUME NEW h \in Handlers, GiveUpReload(h) PROVE BatchKnowsDatabase'
    <2>1. Relies(h)' => \/ Relies(h) /\ task'[h].on = task[h].on /\ task'[h].db = task[h].db
                        \/ task'[h].db = ActiveOf(task'[h].on)
      BY <1>36, <1>0, GiveUpReloadDoes DEF Relies, New, Ended, Stays, WbTyped, TasksProper, Proper, WellFormed
    <2> QED
      BY <1>36, <1>0, GiveUpReloadDoes, <2>1, KnowsQuietly
  <1>37. ASSUME NEW h \in Handlers, ConnectionsLoaded(h) PROVE BatchKnowsDatabase'
    <2>1. Relies(h)' => \/ Relies(h) /\ task'[h].on = task[h].on /\ task'[h].db = task[h].db
                        \/ task'[h].db = ActiveOf(task'[h].on)
      BY <1>37, <1>0, ConnectionsLoadedDoes DEF Relies, New, Ended, Stays, WbTyped, TasksProper, Proper, WellFormed
    <2> QED
      BY <1>37, <1>0, ConnectionsLoadedDoes, <2>1, KnowsQuietly
  <1>38. ASSUME NEW h \in Handlers, SendReset(h) PROVE BatchKnowsDatabase'
    BY <1>38, <1>0, SendResetKnows
  <1>39. ASSUME NEW h \in Handlers, ResetConnections(h) PROVE BatchKnowsDatabase'
    BY <1>39, <1>0, ResetConnectionsKnows
  <1>40. ASSUME NEW h \in Handlers, ResetDone(h) PROVE BatchKnowsDatabase'
    BY <1>40, <1>0, ResetDoneKnows
  <1>41. CASE Stay
    BY <1>41 DEF BatchKnowsDatabase, Relies, ActiveOf, Answered, Stay, Acts, backendVars, historyVars
  <1>42. CASE ToggleWritable
    BY <1>42 DEF BatchKnowsDatabase, Relies, ActiveOf, Answered, ToggleWritable, Acts, backendVars, historyVars
  <1>43. CASE UNCHANGED wbVars
    BY <1>43 DEF BatchKnowsDatabase, Relies, ActiveOf, Answered, wbVars, backendVars, historyVars
  <1> QED
    BY <1>1, <1>2, <1>3, <1>4, <1>5, <1>6, <1>7, <1>8, <1>9, <1>10, <1>11, <1>12, <1>13, <1>14, <1>15, <1>16,
       <1>17, <1>18, <1>19, <1>20, <1>21, <1>22, <1>23, <1>24, <1>25, <1>26, <1>27, <1>28, <1>29, <1>30, <1>31,
       <1>32, <1>33, <1>34, <1>35, <1>36, <1>37, <1>38, <1>39, <1>40, <1>41, <1>42, <1>43 DEF WbNext

----------------------------------------------------------------------------
(* Who needs a connection, and who will look at it again                   *)

Held(c) ==
  \/ c \in established
  \/ \E h \in Handlers : task[h].at = "listing" /\ task[h].kind = "ensure" /\ ~task[h].old /\ task[h].on = c
Justified(c) ==
  \/ c = selected \/ IsNeeded(c, task, openTabs) \/ c \in exempt.unclosed
  \/ \E h \in Handlers : task[h].then = c
ConnectedIsNeeded == \A c \in Names : Held(c) => Justified(c)
(* A click knows what it takes the place of.                               *)
CommitterKnowsSelected ==
  \A h \in Handlers :
    task[h].at = "context" /\ contextOf = h =>
      task[h].was = selected \/ selected \in exempt.unclosed \cup {Nowhere}

(* Of some connections, those nobody needs are closed.                     *)
Closes(names) ==
  /\ established' \subseteq established
  /\ \A c \in names \ {Nowhere} : IsNeeded(c, task', openTabs') \/ ~Held(c)'
LEMMA IdlesClose ==
  ASSUME WbTyped, NEW h \in Handlers, NEW t, Proper(t), NEW names, DisconnectIfIdle(names, SetTask(h, t))
  PROVE  Closes(names)
  BY OneIdles DEF WbTyped, Closes, Held
LEMMA EndingCloses ==
  ASSUME WbTyped, NEW h \in Handlers, NEW names, DisconnectIfIdle(names, SetTask(h, NoTask))
  PROVE  Closes(names)
  BY IdlesClose, NoTaskIsProper

(* Whom a step may make unneeded: the ones it looks at.                    *)
Drops(h, names) ==
  /\ \A c \in Names \ names : c = selected => c = selected' \/ c \in exempt'.unclosed
  /\ \A e \in openTabs : NameOf(e) \in names \/ e \in openTabs'
  /\ \A c \in Names \ names : OccupiesConnection(task[h], c) => OccupiesConnection(task'[h], c) \/
                              c \in exempt'.unclosed
  /\ \A c \in Names \ names : task[h].then = c => task'[h].then = c
(* It connects only what is selected.                                      *)
Connects(h) ==
  task'[h].at = "listing" /\ task'[h].kind = "ensure" /\ ~task'[h].old =>
    \/ task[h].at = "listing" /\ task[h].kind = "ensure" /\ ~task[h].old /\ task[h].on = task'[h].on
    \/ task'[h].on = selected'

LEMMA NeededMoves ==
  ASSUME WbTyped, ConnectedIsNeeded, exempt.unclosed \subseteq exempt'.unclosed,
         NEW h \in Handlers, OthersTold(h), Connects(h),
         NEW names, Drops(h, names), \A c \in names \ {Nowhere} : Justified(c)' \/ ~Held(c)',
         \A c \in Names : c \in established' => Held(c)
  PROVE  ConnectedIsNeeded'
  <1> SUFFICES ASSUME NEW c \in Names, Held(c)' PROVE Justified(c)'
    BY DEF ConnectedIsNeeded
  <1>0. c # Nowhere
    BY NowhereIsApart
  <1>1. CASE c \in names
    BY <1>0, <1>1 DEF Justified
  <1>2. CASE c \notin names
    <2>1. Held(c) \/ c = selected'
      <3>1. CASE c \in established'
        BY <3>1
      <3>2. CASE \E k \in Handlers : task'[k].at = "listing" /\ task'[k].kind = "ensure" /\ ~task'[k].old /\
                 task'[k].on = c
        BY <3>2 DEF Connects, OthersTold, Told, Held
      <3> QED
        BY <3>1, <3>2 DEF Held
    <2>2. CASE Justified(c)
      <3>1. CASE c = selected
        BY <1>2, <3>1 DEF Drops, Justified
      <3>2. CASE \E e \in openTabs : NameOf(e) = c
        BY <1>2, <3>2 DEF Drops, Justified, IsNeeded
      <3>3. CASE \E k \in Handlers : OccupiesConnection(task[k], c)
        <4>1. PICK k \in Handlers : OccupiesConnection(task[k], c)
          BY <3>3
        <4>2. CASE k = h
          BY <1>2, <4>1, <4>2 DEF Drops, Justified, IsNeeded
        <4>3. CASE k # h
          BY <4>1, <4>3 DEF OthersTold, Told, OccupiesConnection, Justified, IsNeeded
        <4> QED
          BY <4>2, <4>3
      <3>4. CASE c \in exempt.unclosed
        BY <3>4 DEF Justified
      <3>5. CASE \E k \in Handlers : task[k].then = c
        BY <1>2, <3>5 DEF Drops, OthersTold, Told, Justified
      <3> QED
        BY <2>2, <3>1, <3>2, <3>3, <3>4, <3>5 DEF Justified, IsNeeded
    <2>3. CASE c = selected'
      BY <2>3 DEF Justified
    <2> QED
      BY <2>1, <2>2, <2>3 DEF ConnectedIsNeeded
  <1> QED
    BY <1>1, <1>2

(* A step that closes nothing and makes nothing unneeded.                  *)
LEMMA NeededQuietly ==
  ASSUME WbTyped, ConnectedIsNeeded, exempt.unclosed \subseteq exempt'.unclosed,
         NEW h \in Handlers, OthersTold(h), Connects(h), UNCHANGED <<selected, established>>,
         openTabs \subseteq openTabs',
         \A c \in Names : OccupiesConnection(task[h], c) => OccupiesConnection(task'[h], c) \/
                          c \in exempt'.unclosed,
         task[h].then \in Names => task'[h].then = task[h].then
  PROVE  ConnectedIsNeeded'
  <1>1. Drops(h, {})
    BY DEF Drops
  <1>2. \A c \in Names : c \in established' => Held(c)
    BY DEF Held
  <1> QED
    BY <1>1, <1>2, NeededMoves

(* A step that closes what it makes unneeded.                              *)
LEMMA NeededClosing ==
  ASSUME WbTyped, ConnectedIsNeeded, exempt.unclosed \subseteq exempt'.unclosed,
         NEW h \in Handlers, OthersTold(h), Connects(h), NEW names, Drops(h, names), Closes(names)
  PROVE  ConnectedIsNeeded'
  <1>1. \A c \in Names : c \in established' => Held(c)
    BY DEF Closes, Held
  <1> QED
    BY <1>1, NeededMoves DEF Closes, Justified

(* What a step may make of the context it would commit.                    *)
TakesContext(h) ==
  contextOf' \in {contextOf, h, Nowhere} /\ (UNCHANGED selected \/ contextOf' \in {h, Nowhere})
CommitsKnown(h) ==
  task'[h].at = "context" /\ contextOf' = h =>
    \/ task[h].at = "context" /\ contextOf = h /\ task'[h].was = task[h].was /\ UNCHANGED selected
    \/ task'[h].was = selected' \/ selected' \in exempt'.unclosed \cup {Nowhere}
LEMMA CommitterMoves ==
  ASSUME CommitterKnowsSelected, exempt.unclosed \subseteq exempt'.unclosed,
         NEW h \in Handlers, OthersTold(h),
         TakesContext(h), CommitsKnown(h)
  PROVE  CommitterKnowsSelected'
  <1> SUFFICES ASSUME NEW k \in Handlers, task'[k].at = "context", contextOf' = k
               PROVE  task'[k].was = selected' \/ selected' \in exempt'.unclosed \cup {Nowhere}
    BY DEF CommitterKnowsSelected
  <1>0. Nowhere \notin Handlers
    BY WorkbenchAssumption
  <1>1. CASE k = h
    BY <1>1 DEF CommitsKnown, CommitterKnowsSelected
  <1>2. CASE k # h
    BY <1>0, <1>2 DEF TakesContext, OthersTold, Told, CommitterKnowsSelected
  <1> QED
    BY <1>1, <1>2

LEMMA RefetchIsProper ==
  ASSUME NEW c \in Names PROVE Proper([NoTask EXCEPT !.at = "listing", !.kind = "refetch", !.on = c])
  <1> DEFINE t == [NoTask EXCEPT !.at = "listing", !.kind = "refetch", !.on = c]
  <1>1. t \in TaskStates
    BY NoTaskTyped DEF TaskStates
  <1>2. t.at = "listing" /\ t.kind = "refetch" /\ t.on = c /\ t.then = Nowhere
    BY DEF NoTask
  <1> QED
    BY <1>1, <1>2 DEF Proper, WellFormed

(* A reload closes nothing before it is done.                              *)
LEMMA NeededTouched ==
  ASSUME WbTyped, ConnectedIsNeeded, UNCHANGED <<selected, established, openTabs>>, exempt'.unclosed = exempt.unclosed,
         \A k \in Handlers :
           /\ task'[k].at = "listing" => task[k].at = "listing" /\ task'[k].kind = task[k].kind
                                         /\ task'[k].on = task[k].on /\ (task'[k].old <=> task[k].old)
           /\ \A c \in Names : OccupiesConnection(task[k], c) => OccupiesConnection(task'[k], c)
           /\ \A c \in Names : task[k].then = c => task'[k].then = c
  PROVE  ConnectedIsNeeded'
  <1> SUFFICES ASSUME NEW c \in Names, Held(c)' PROVE Justified(c)'
    BY DEF ConnectedIsNeeded
  <1>1. Held(c)
    BY DEF Held
  <1>2. Justified(c)
    BY <1>1 DEF ConnectedIsNeeded
  <1> QED
    BY <1>2 DEF Justified, IsNeeded

LEMMA ClickTabNeeded ==
  ASSUME WbTyped, ConnectedIsNeeded, exempt.unclosed \subseteq exempt'.unclosed,
         NEW h \in Handlers, NEW e \in Editors, ClickTab(h, e)
  PROVE  ConnectedIsNeeded'
  <1>1. established' \subseteq established
    BY EstablishedShrinks DEF ClickTab, ActivateTab, ActivateHere, ActivateThere
  <1>2. Drops(h, {}) /\ Connects(h)
    BY ClickTabDoes, NowhereIsApart DEF Drops, Connects, OccupiesConnection, NoTask, New, Ended
  <1> QED
    BY <1>1, <1>2, ClickTabDoes, NeededClosing DEF Closes

LEMMA CloseTabNeeded ==
  ASSUME WbTyped, ConnectedIsNeeded, exempt.unclosed \subseteq exempt'.unclosed,
         NEW h \in Handlers, NEW e \in Editors, CloseTab(h, e)
  PROVE  ConnectedIsNeeded'
  <1>0. e \in openTabs /\ openTabs' = openTabs \ {e}
    BY DEF CloseTab
  <1>1. established' \subseteq established
    BY EstablishedShrinks DEF CloseTab, ActivateTab, ActivateHere, ActivateThere
  <1>2. Drops(h, {NameOf(e)}) /\ Connects(h)
    BY <1>0, CloseTabDoes, NowhereIsApart DEF Drops, Connects, OccupiesConnection, NoTask, New, Ended
  <1>3. task'[h].then = NameOf(e) \/ Closes({NameOf(e)})
    <2>1. CASE activeTab = e /\ openTabs' # {}
      <3>1. PICK n \in openTabs' : ActivateTab(h, ToTab(n, NameOf(e)), Nowhere)
        BY <2>1 DEF CloseTab
      <3>2. CASE ActivateHere(h, ToTab(n, NameOf(e)))
        <4>1. ToTab(n, NameOf(e)).then = NameOf(e)
          BY DEF ToTab, NoTask
        <4> QED
          BY <3>2, <4>1, EndingCloses DEF ActivateHere
      <3>3. CASE ~ActivateHere(h, ToTab(n, NameOf(e)))
        <4>1. task' = SetTask(h, SaveFirst(ToTab(n, NameOf(e))))
                \/ task' = SetTask(h, LoadContext([ToTab(n, NameOf(e)) EXCEPT !.was = selected]))
          BY <3>1, <3>3 DEF ActivateTab, ActivateThere
        <4> QED
          BY <4>1 DEF SetTask, SaveFirst, LoadContext, ToTab, NoTask, WbTyped, TasksProper
      <3> QED
        BY <3>2, <3>3
    <2>2. CASE ~(activeTab = e /\ openTabs' # {})
      <3>1. DisconnectIfIdle({NameOf(e)}, SetTask(h, NoTask))
        BY <2>2, CloseTabDoes, NoTaskSet DEF CloseTab, WbTyped
      <3> QED
        BY <3>1, EndingCloses
    <2> QED
      BY <2>1, <2>2
  <1>4. \A c \in {NameOf(e)} \ {Nowhere} : Justified(c)' \/ ~Held(c)'
    BY <1>3 DEF Closes, Justified
  <1>5. \A c \in Names : c \in established' => Held(c)
    BY <1>1 DEF Held
  <1> QED
    BY <1>2, <1>4, <1>5, CloseTabDoes, NeededMoves

LEMMA SaveEndsNeeded ==
  ASSUME WbTyped, ConnectedIsNeeded, exempt.unclosed \subseteq exempt'.unclosed,
         NEW h \in Handlers, SaveEnds(h)
  PROVE  ConnectedIsNeeded'
  <1>1. \A c \in Names : ~OccupiesConnection(task[h], c)
    BY SaveEndsDoes DEF OccupiesConnection
  <1>2. Connects(h)
    BY SaveEndsDoes DEF Connects, Ended, New
  <1>3. CASE task'[h].at = "context"
    <2>1. UNCHANGED established /\ task'[h].then = task[h].then
      <3>1. task'[h].then = task[h].then
        BY <1>3, SaveEndsDoes DEF Ended, New, Stays
      <3>2. CASE ActivateHere(h, task[h])
        <4>1. Ended(task'[h])
          <5>1. Moves(h, NoTask)
            BY <3>2, OneIdles, NoTaskIsProper DEF ActivateHere, WbTyped
          <5> QED
            BY <5>1, LikeIsTold, NoTaskIsProper, NoTaskEnded DEF Moves, NoTask
        <4> QED
          BY <1>3, <4>1 DEF Ended, New
      <3>3. CASE ~ActivateHere(h, task[h])
        <4>1. ActivateThere(h, task[h], activeTab) \/ UNCHANGED established
          BY <3>3 DEF SaveEnds
        <4> QED
          BY <3>1, <4>1 DEF ActivateThere
      <3> QED
        BY <3>1, <3>2, <3>3
    <2>2. Drops(h, {})
      BY <1>1, <2>1, SaveEndsDoes DEF Drops
    <2> QED
      BY <1>2, <2>1, <2>2, SaveEndsDoes, NeededClosing DEF Closes
  <1>4. CASE task'[h].at # "context"
    <2>1. ActivateHere(h, task[h])
      <3>1. task[h].kind = "activate" /\ (ActivateHere(h, task[h]) \/ ActivateThere(h, task[h], activeTab))
        BY <1>4, SaveEndsDoes DEF SaveEnds
      <3>2. ~ActivateThere(h, task[h], activeTab)
        BY <1>4 DEF ActivateThere, SetTask, LoadContext, WbTyped, TasksProper, TaskStates
      <3> QED
        BY <3>1, <3>2
    <2>2. Closes({task[h].then})
      BY <2>1, EndingCloses DEF ActivateHere
    <2>3. Drops(h, {task[h].then})
      BY <1>1, SaveEndsDoes DEF Drops
    <2> QED
      BY <1>2, <2>2, <2>3, SaveEndsDoes, NeededClosing
  <1> QED
    BY <1>3, <1>4

LEMMA OvertakenNeeded ==
  ASSUME WbTyped, ConnectedIsNeeded, exempt.unclosed \subseteq exempt'.unclosed,
         NEW h \in Handlers, Overtaken(h)
  PROVE  ConnectedIsNeeded'
  <1>1. Closes({task[h].then})
    BY EndingCloses DEF Overtaken
  <1>2. Drops(h, {task[h].then}) /\ Connects(h)
    BY OvertakenDoes DEF Drops, Connects, OccupiesConnection, Ended, New
  <1> QED
    BY <1>1, <1>2, OvertakenDoes, NeededClosing

LEMMA CommitContextNeeded ==
  ASSUME WbTyped, CommitterKnowsSelected, ConnectedIsNeeded, exempt.unclosed \subseteq exempt'.unclosed,
         NEW h \in Handlers, CommitContext(h)
  PROVE  ConnectedIsNeeded'
  <1> DEFINE names == {task[h].was, task[h].then}
             refetch == [NoTask EXCEPT !.at = "listing", !.kind = "refetch", !.on = task[h].on]
  <1>1. task[h].on \in Names
    BY CommitContextDoes DEF WbTyped, TasksProper, Proper, WellFormed
  <1>2. Closes(names)
    <2>1. DisconnectIfIdle(names, SetTask(h, refetch)) \/ DisconnectIfIdle(names, SetTask(h, NoTask))
      BY DEF CommitContext
    <2> HIDE DEF names
    <2> QED
      BY <1>1, <2>1, IdlesClose, EndingCloses, RefetchIsProper
  <1>3. task[h].was = selected \/ selected \in exempt.unclosed \cup {Nowhere}
    BY CommitContextDoes DEF CommitContext, CommitterKnowsSelected
  <1>4. Drops(h, names) /\ Connects(h)
    <2>1. \A c \in Names \ names : c = selected => c = selected' \/ c \in exempt'.unclosed
      BY <1>3, NowhereIsApart
    <2>2. \A c \in Names : ~OccupiesConnection(task[h], c)
      BY CommitContextDoes DEF OccupiesConnection
    <2> QED
      BY <2>1, <2>2, CommitContextDoes DEF Drops, Connects, Ended, New
  <1> HIDE DEF names
  <1> QED
    BY <1>2, <1>4, CommitContextDoes, NeededClosing

LEMMA SchemasListedNeeded ==
  ASSUME WbTyped, ConnectedIsNeeded, exempt.unclosed \subseteq exempt'.unclosed,
         NEW h \in Handlers, SchemasListed(h)
  PROVE  ConnectedIsNeeded'
  <1>1. Drops(h, {}) /\ Connects(h)
    BY SchemasListedDoes, NowhereIsApart DEF Drops, Connects, OccupiesConnection, Ended, New, WbTyped, TasksProper,
       Proper, WellFormed
  <1>2. \A c \in Names : c \in established' => Held(c)
    BY SchemasListedDoes, EstablishedShrinks DEF SchemasListed, StillConnected, Held
  <1> QED
    BY <1>1, <1>2, SchemasListedDoes, NeededMoves

(* A run or a batch that ends, and looks at its connection.                *)
LEMMA EndOfRunNeeded ==
  ASSUME WbTyped, ConnectedIsNeeded, exempt.unclosed \subseteq exempt'.unclosed,
         NEW h \in Handlers, task[h].at \in {"next", "running", "proving", "asking"},
         OthersTold(h), Ended(task'[h]), UNCHANGED <<selected, openTabs>>,
         established' \subseteq established, task[h].old \/ Closes({task[h].on})
  PROVE  ConnectedIsNeeded'
  <1>1. Connects(h) /\ \A c \in Names : task[h].then # c
    BY NowhereIsApart DEF Connects, Ended, New, WbTyped, TasksProper, Proper, WellFormed
  <1>2. \A c \in Names : OccupiesConnection(task[h], c) => ~task[h].old /\ c = task[h].on
    BY DEF OccupiesConnection
  <1>3. CASE task[h].old
    <2>1. Drops(h, {})
      BY <1>1, <1>2, <1>3 DEF Drops
    <2> QED
      BY <1>1, <2>1, NeededClosing DEF Closes
  <1>4. CASE ~task[h].old
    <2>1. Drops(h, {task[h].on})
      BY <1>1, <1>2 DEF Drops
    <2> QED
      BY <1>1, <1>4, <2>1, NeededClosing
  <1> QED
    BY <1>3, <1>4
LEMMA GoingOnNeeded ==
  ASSUME WbTyped, ConnectedIsNeeded, exempt.unclosed \subseteq exempt'.unclosed,
         NEW h \in Handlers, task[h].at \in {"next", "running", "proving", "asking"}, task[h].kind = "batch",
         OthersTold(h), Stays(task[h], task'[h]), task'[h].at \in {"next", "running", "proving", "asking"},
         UNCHANGED <<selected, openTabs, established>>
  PROVE  ConnectedIsNeeded'
  BY NeededQuietly DEF Stays, OccupiesConnection, Connects

LEMMA EndBatchCloses ==
  ASSUME WbTyped, NEW h \in Handlers, EndBatch(h)
  PROVE  established' \subseteq established /\ (task[h].old \/ Closes({task[h].on}))
  BY EndingCloses, EstablishedShrinks DEF EndBatch

LEMMA RanNeeded ==
  ASSUME WbTyped, ConnectedIsNeeded, exempt.unclosed \subseteq exempt'.unclosed, NEW h \in Handlers, Ran(h)
  PROVE  ConnectedIsNeeded'
  <1>1. established' \subseteq established /\ (task[h].old \/ Closes({task[h].on}))
    BY EndingCloses, EstablishedShrinks DEF Ran
  <1> QED
    BY <1>1, RanDoes, EndOfRunNeeded

LEMMA BatchEndsOrGoesOn ==
  ASSUME WbTyped, NEW h \in Handlers, TasksProper', task'[h].at # "idle",
         NEW names, DisconnectIfIdle(names, SetTask(h, NoTask))
  PROVE  FALSE
  <1>1. Moves(h, NoTask)
    BY OneIdles, NoTaskIsProper DEF WbTyped
  <1> QED
    BY <1>1, LikeIsTold, NoTaskIsProper DEF Moves, NoTask

LEMMA NextStatementNeeded ==
  ASSUME WbTyped, ConnectedIsNeeded, exempt.unclosed \subseteq exempt'.unclosed,
         NEW h \in Handlers, NEW s \in Sendable, NextStatement(h, s)
  PROVE  ConnectedIsNeeded'
  <1>1. CASE EndBatch(h)
    <2>1. Ended(task'[h])
      BY <1>1, NextStatementDoes, BatchEndsOrGoesOn DEF EndBatch, WbTyped
    <2> QED
      BY <1>1, <2>1, NextStatementDoes, EndBatchCloses, EndOfRunNeeded
  <1>2. CASE ~EndBatch(h)
    <2>0. UNCHANGED established
      BY <1>2 DEF NextStatement
    <2>1. UNCHANGED established /\ task'[h].at = "running"
      <3>1. PICK t : task' = SetTask(h, [task[h] EXCEPT !.at = "running", !.to = s, !.left = t])
        BY <1>2 DEF NextStatement
      <3> QED
        BY <2>0, <3>1 DEF SetTask, WbTyped, TasksProper, TaskStates
    <2>2. task[h].kind = "batch" /\ Stays(task[h], task'[h])
      BY <2>1, NextStatementDoes DEF Ended, New, WbTyped, TasksProper, Proper, WellFormed
    <2> QED
      BY <2>1, <2>2, NextStatementDoes, GoingOnNeeded
  <1> QED
    BY <1>1, <1>2

LEMMA BatchRanNeeded ==
  ASSUME WbTyped, ConnectedIsNeeded, exempt.unclosed \subseteq exempt'.unclosed, NEW h \in Handlers, BatchRan(h)
  PROVE  ConnectedIsNeeded'
  <1>1. CASE EndBatch(h)
    <2>1. Ended(task'[h])
      BY <1>1, BatchRanDoes, BatchEndsOrGoesOn DEF EndBatch, WbTyped
    <2> QED
      BY <1>1, <2>1, BatchRanDoes, EndBatchCloses, EndOfRunNeeded
  <1>2. CASE ~EndBatch(h)
    <2>1. UNCHANGED established /\ task'[h].at # "idle"
      BY <1>2 DEF BatchRan, SetTask, WbTyped, TasksProper, TaskStates
    <2>2. Stays(task[h], task'[h]) /\ task'[h].at \in {"next", "asking"}
      BY <2>1, BatchRanDoes DEF Ended, New
    <2> QED
      BY <2>1, <2>2, BatchRanDoes, GoingOnNeeded
  <1> QED
    BY <1>1, <1>2

LEMMA AnswerPromptNeeded ==
  ASSUME WbTyped, ConnectedIsNeeded, exempt.unclosed \subseteq exempt'.unclosed, NEW h \in Handlers, AnswerPrompt(h)
  PROVE  ConnectedIsNeeded'
  <1>1. CASE EndBatch(h)
    <2>1. Ended(task'[h])
      BY <1>1, AnswerPromptDoes, BatchEndsOrGoesOn DEF EndBatch, WbTyped
    <2> QED
      BY <1>1, <2>1, AnswerPromptDoes, EndBatchCloses, EndOfRunNeeded
  <1>2. CASE ~EndBatch(h)
    <2>1. UNCHANGED established /\ task'[h].at = "next"
      BY <1>2 DEF AnswerPrompt, SetTask, WbTyped, TasksProper, TaskStates
    <2>2. task[h].kind = "batch" /\ Stays(task[h], task'[h])
      BY <2>1, AnswerPromptDoes DEF Ended, New, WbTyped, TasksProper, Proper, WellFormed
    <2> QED
      BY <2>1, <2>2, AnswerPromptDoes, GoingOnNeeded
  <1> QED
    BY <1>1, <1>2

LEMMA ConnectedStep ==
  ASSUME WbTyped, CommitterKnowsSelected, ConnectedIsNeeded, [WbNext]_wbVars PROVE ConnectedIsNeeded'
  <1>0. exempt.unclosed \subseteq exempt'.unclosed
    BY ExemptGrows
  <1>1. ASSUME NEW h \in Handlers, NEW c \in Names, Click(h, c) PROVE ConnectedIsNeeded'
    <2>1. \A d \in Names : OccupiesConnection(task[h], d) => OccupiesConnection(task'[h], d)
      BY <1>1, ClickDoes DEF OccupiesConnection, NoTask, New, Ended, Stays, WbTyped, TasksProper, Proper, WellFormed
    <2>2. task[h].then \in Names => task'[h].then = task[h].then
      BY <1>1, ClickDoes, NowhereIsApart DEF NoTask, Stays, WbTyped, TasksProper, Proper, WellFormed
    <2>3. Connects(h)
      BY <1>1, ClickDoes DEF Connects, New, Ended, Stays, WbTyped, TasksProper, Proper, WellFormed
    <2> QED
      BY <1>1, <1>0, ClickDoes, <2>1, <2>2, <2>3, NeededQuietly
  <1>2. ASSUME NEW h \in Handlers, NEW c \in Names, SubmitCellEdits(h, c) PROVE ConnectedIsNeeded'
    <2>1. \A d \in Names : OccupiesConnection(task[h], d) => OccupiesConnection(task'[h], d)
      BY <1>2, SubmitCellEditsDoes DEF OccupiesConnection, NoTask, New, Ended, Stays, WbTyped, TasksProper, Proper,
         WellFormed
    <2>2. task[h].then \in Names => task'[h].then = task[h].then
      BY <1>2, SubmitCellEditsDoes, NowhereIsApart DEF NoTask, Stays, WbTyped, TasksProper, Proper, WellFormed
    <2>3. Connects(h)
      BY <1>2, SubmitCellEditsDoes DEF Connects, New, Ended, Stays, WbTyped, TasksProper, Proper, WellFormed
    <2> QED
      BY <1>2, <1>0, SubmitCellEditsDoes, <2>1, <2>2, <2>3, NeededQuietly
  <1>3. ASSUME NEW h \in Handlers, NEW c \in Names, NEW s \in Sendable, Rerun(h, c, s) PROVE ConnectedIsNeeded'
    <2>1. \A d \in Names : OccupiesConnection(task[h], d) => OccupiesConnection(task'[h], d)
      BY <1>3, RerunDoes DEF OccupiesConnection, NoTask, New, Ended, Stays, WbTyped, TasksProper, Proper, WellFormed
    <2>2. task[h].then \in Names => task'[h].then = task[h].then
      BY <1>3, RerunDoes, NowhereIsApart DEF NoTask, Stays, WbTyped, TasksProper, Proper, WellFormed
    <2>3. Connects(h)
      BY <1>3, RerunDoes DEF Connects, New, Ended, Stays, WbTyped, TasksProper, Proper, WellFormed
    <2> QED
      BY <1>3, <1>0, RerunDoes, <2>1, <2>2, <2>3, NeededQuietly
  <1>4. ASSUME NEW h \in Handlers, NEW e \in Editors, OpenFile(h, e) PROVE ConnectedIsNeeded'
    <2>1. \A d \in Names : OccupiesConnection(task[h], d) => OccupiesConnection(task'[h], d)
      BY <1>4, OpenFileDoes DEF OccupiesConnection, NoTask, New, Ended, Stays, WbTyped, TasksProper, Proper,
         WellFormed
    <2>2. task[h].then \in Names => task'[h].then = task[h].then
      BY <1>4, OpenFileDoes, NowhereIsApart DEF NoTask, Stays, WbTyped, TasksProper, Proper, WellFormed
    <2>3. Connects(h)
      BY <1>4, OpenFileDoes DEF Connects, New, Ended, Stays, WbTyped, TasksProper, Proper, WellFormed
    <2> QED
      BY <1>4, <1>0, OpenFileDoes, <2>1, <2>2, <2>3, NeededQuietly
  <1>5. ASSUME NEW h \in Handlers, NEW s \in Databases, ChangeSchema(h, s) PROVE ConnectedIsNeeded'
    <2>1. \A d \in Names : OccupiesConnection(task[h], d) => OccupiesConnection(task'[h], d)
      BY <1>5, ChangeSchemaDoes DEF OccupiesConnection, NoTask, New, Ended, Stays, WbTyped, TasksProper, Proper,
         WellFormed
    <2>2. task[h].then \in Names => task'[h].then = task[h].then
      BY <1>5, ChangeSchemaDoes, NowhereIsApart DEF NoTask, Stays, WbTyped, TasksProper, Proper, WellFormed
    <2>3. Connects(h)
      BY <1>5, ChangeSchemaDoes DEF Connects, New, Ended, Stays, WbTyped, TasksProper, Proper, WellFormed
    <2> QED
      BY <1>5, <1>0, ChangeSchemaDoes, <2>1, <2>2, <2>3, NeededQuietly
  <1>6. ASSUME NEW h \in Handlers, NEW s \in Sendable, Run(h, s) PROVE ConnectedIsNeeded'
    <2>1. \A d \in Names : OccupiesConnection(task[h], d) => OccupiesConnection(task'[h], d)
      BY <1>6, RunDoes DEF OccupiesConnection, NoTask, New, Ended, Stays, WbTyped, TasksProper, Proper, WellFormed
    <2>2. task[h].then \in Names => task'[h].then = task[h].then
      BY <1>6, RunDoes, NowhereIsApart DEF NoTask, Stays, WbTyped, TasksProper, Proper, WellFormed
    <2>3. Connects(h)
      BY <1>6, RunDoes DEF Connects, New, Ended, Stays, WbTyped, TasksProper, Proper, WellFormed
    <2> QED
      BY <1>6, <1>0, RunDoes, <2>1, <2>2, <2>3, NeededQuietly
  <1>7. ASSUME NEW h \in Handlers, Browse(h) PROVE ConnectedIsNeeded'
    <2>1. \A d \in Names : OccupiesConnection(task[h], d) => OccupiesConnection(task'[h], d)
      BY <1>7, BrowseDoes DEF OccupiesConnection, NoTask, New, Ended, Stays, WbTyped, TasksProper, Proper,
         WellFormed
    <2>2. task[h].then \in Names => task'[h].then = task[h].then
      BY <1>7, BrowseDoes, NowhereIsApart DEF NoTask, Stays, WbTyped, TasksProper, Proper, WellFormed
    <2>3. Connects(h)
      BY <1>7, BrowseDoes DEF Connects, New, Ended, Stays, WbTyped, TasksProper, Proper, WellFormed
    <2> QED
      BY <1>7, <1>0, BrowseDoes, <2>1, <2>2, <2>3, NeededQuietly
  <1>8. ASSUME NEW h \in Handlers, RunBatch(h) PROVE ConnectedIsNeeded'
    <2>1. \A d \in Names : OccupiesConnection(task[h], d) => OccupiesConnection(task'[h], d)
      BY <1>8, RunBatchDoes DEF OccupiesConnection, NoTask, New, Ended, Stays, WbTyped, TasksProper, Proper,
         WellFormed
    <2>2. task[h].then \in Names => task'[h].then = task[h].then
      BY <1>8, RunBatchDoes, NowhereIsApart DEF NoTask, Stays, WbTyped, TasksProper, Proper, WellFormed
    <2>3. Connects(h)
      BY <1>8, RunBatchDoes DEF Connects, New, Ended, Stays, WbTyped, TasksProper, Proper, WellFormed
    <2> QED
      BY <1>8, <1>0, RunBatchDoes, <2>1, <2>2, <2>3, NeededQuietly
  <1>9. ASSUME NEW h \in Handlers, Reload(h) PROVE ConnectedIsNeeded'
    <2>1. \A d \in Names : OccupiesConnection(task[h], d) => OccupiesConnection(task'[h], d)
      BY <1>9, ReloadDoes DEF OccupiesConnection, NoTask, New, Ended, Stays, WbTyped, TasksProper, Proper,
         WellFormed
    <2>2. task[h].then \in Names => task'[h].then = task[h].then
      BY <1>9, ReloadDoes, NowhereIsApart DEF NoTask, Stays, WbTyped, TasksProper, Proper, WellFormed
    <2>3. Connects(h)
      BY <1>9, ReloadDoes DEF Connects, New, Ended, Stays, WbTyped, TasksProper, Proper, WellFormed
    <2> QED
      BY <1>9, <1>0, ReloadDoes, <2>1, <2>2, <2>3, NeededQuietly
  <1>10. ASSUME NEW h \in Handlers, NEW e \in Editors, ClickTab(h, e) PROVE ConnectedIsNeeded'
    BY <1>10, <1>0, ClickTabNeeded
  <1>11. ASSUME NEW h \in Handlers, NEW e \in Editors, CloseTab(h, e) PROVE ConnectedIsNeeded'
    BY <1>11, <1>0, CloseTabNeeded
  <1>12. ASSUME NEW h \in Handlers, CancelBatch(h) PROVE ConnectedIsNeeded'
    <2>1. \A d \in Names : OccupiesConnection(task[h], d) => OccupiesConnection(task'[h], d)
      BY <1>12, CancelBatchDoes DEF OccupiesConnection, NoTask, New, Ended, Stays, WbTyped, TasksProper, Proper,
         WellFormed
    <2>2. task[h].then \in Names => task'[h].then = task[h].then
      BY <1>12, CancelBatchDoes, NowhereIsApart DEF NoTask, Stays, WbTyped, TasksProper, Proper, WellFormed
    <2>3. Connects(h)
      BY <1>12, CancelBatchDoes DEF Connects, New, Ended, Stays, WbTyped, TasksProper, Proper, WellFormed
    <2> QED
      BY <1>12, <1>0, CancelBatchDoes, <2>1, <2>2, <2>3, NeededQuietly
  <1>13. ASSUME NEW h \in Handlers, SaveEnds(h) PROVE ConnectedIsNeeded'
    BY <1>13, <1>0, SaveEndsNeeded
  <1>14. ASSUME NEW h \in Handlers, NEW s \in Sendable, NextStatement(h, s) PROVE ConnectedIsNeeded'
    BY <1>14, <1>0, NextStatementNeeded
  <1>15. ASSUME NEW h \in Handlers, ReadActive(h) PROVE ConnectedIsNeeded'
    <2>1. \A d \in Names : OccupiesConnection(task[h], d) => OccupiesConnection(task'[h], d)
      BY <1>15, ReadActiveDoes DEF OccupiesConnection, NoTask, New, Ended, Stays, WbTyped, TasksProper, Proper,
         WellFormed
    <2>2. task[h].then \in Names => task'[h].then = task[h].then
      BY <1>15, ReadActiveDoes, NowhereIsApart DEF NoTask, Stays, WbTyped, TasksProper, Proper, WellFormed
    <2>3. Connects(h)
      BY <1>15, ReadActiveDoes DEF Connects, New, Ended, Stays, WbTyped, TasksProper, Proper, WellFormed
    <2> QED
      BY <1>15, <1>0, ReadActiveDoes, <2>1, <2>2, <2>3, NeededQuietly
  <1>16. ASSUME NEW h \in Handlers, Overtaken(h) PROVE ConnectedIsNeeded'
    BY <1>16, <1>0, OvertakenNeeded
  <1>17. ASSUME NEW h \in Handlers, CommitContext(h) PROVE ConnectedIsNeeded'
    BY <1>17, <1>0, CommitContextNeeded
  <1>18. ASSUME NEW h \in Handlers, FileRead(h) PROVE ConnectedIsNeeded'
    <2>1. \A d \in Names : OccupiesConnection(task[h], d) => OccupiesConnection(task'[h], d)
      BY <1>18, FileReadDoes DEF OccupiesConnection, NoTask, New, Ended, Stays, WbTyped, TasksProper, Proper,
         WellFormed, FileRead, tabVars
    <2>2. task[h].then \in Names => task'[h].then = task[h].then
      BY <1>18, FileReadDoes, NowhereIsApart DEF NoTask, Stays, WbTyped, TasksProper, Proper, WellFormed
    <2>3. Connects(h)
      BY <1>18, FileReadDoes DEF Connects, New, Ended, Stays, WbTyped, TasksProper, Proper, WellFormed
    <2>4. openTabs \subseteq openTabs'
      BY <1>18 DEF FileRead, tabVars
    <2> QED
      BY <1>18, <1>0, FileReadDoes, <2>1, <2>2, <2>3, <2>4, NeededQuietly
  <1>19. ASSUME NEW h \in Handlers, ListSchemas(h) PROVE ConnectedIsNeeded'
    <2>1. \A d \in Names : OccupiesConnection(task[h], d) => OccupiesConnection(task'[h], d)
      BY <1>19, ListSchemasDoes DEF OccupiesConnection, NoTask, New, Ended, Stays, WbTyped, TasksProper, Proper,
         WellFormed
    <2>2. task[h].then \in Names => task'[h].then = task[h].then
      BY <1>19, ListSchemasDoes, NowhereIsApart DEF NoTask, Stays, WbTyped, TasksProper, Proper, WellFormed
    <2>3. Connects(h)
      BY <1>19, ListSchemasDoes DEF Connects, New, Ended, Stays, WbTyped, TasksProper, Proper, WellFormed
    <2> QED
      BY <1>19, <1>0, ListSchemasDoes, <2>1, <2>2, <2>3, NeededQuietly
  <1>20. ASSUME NEW h \in Handlers, SchemasListed(h) PROVE ConnectedIsNeeded'
    BY <1>20, <1>0, SchemasListedNeeded
  <1>21. ASSUME NEW h \in Handlers, SendChange(h) PROVE ConnectedIsNeeded'
    <2>1. \A d \in Names : OccupiesConnection(task[h], d) => OccupiesConnection(task'[h], d)
      BY <1>21, SendChangeDoes DEF OccupiesConnection, NoTask, New, Ended, Stays, WbTyped, TasksProper, Proper,
         WellFormed
    <2>2. task[h].then \in Names => task'[h].then = task[h].then
      BY <1>21, SendChangeDoes, NowhereIsApart DEF NoTask, Stays, WbTyped, TasksProper, Proper, WellFormed
    <2>3. Connects(h)
      BY <1>21, SendChangeDoes DEF Connects, New, Ended, Stays, WbTyped, TasksProper, Proper, WellFormed
    <2> QED
      BY <1>21, <1>0, SendChangeDoes, <2>1, <2>2, <2>3, NeededQuietly
  <1>22. ASSUME NEW h \in Handlers, SetActiveSchema(h) PROVE ConnectedIsNeeded'
    <2>1. \A d \in Names : OccupiesConnection(task[h], d) => OccupiesConnection(task'[h], d)
      BY <1>22, SetActiveSchemaDoes DEF OccupiesConnection, NoTask, New, Ended, Stays, WbTyped, TasksProper,
         Proper, WellFormed
    <2>2. task[h].then \in Names => task'[h].then = task[h].then
      BY <1>22, SetActiveSchemaDoes, NowhereIsApart DEF NoTask, Stays, WbTyped, TasksProper, Proper, WellFormed
    <2>3. Connects(h)
      BY <1>22, SetActiveSchemaDoes DEF Connects, New, Ended, Stays, WbTyped, TasksProper, Proper, WellFormed
    <2> QED
      BY <1>22, <1>0, SetActiveSchemaDoes, <2>1, <2>2, <2>3, NeededQuietly
  <1>23. ASSUME NEW h \in Handlers, ActiveSchemaSet(h) PROVE ConnectedIsNeeded'
    <2>1. \A d \in Names : OccupiesConnection(task[h], d) => OccupiesConnection(task'[h], d)
      BY <1>23, ActiveSchemaSetDoes DEF OccupiesConnection, NoTask, New, Ended, Stays, WbTyped, TasksProper,
         Proper, WellFormed
    <2>2. task[h].then \in Names => task'[h].then = task[h].then
      BY <1>23, ActiveSchemaSetDoes, NowhereIsApart DEF NoTask, Stays, WbTyped, TasksProper, Proper, WellFormed
    <2>3. Connects(h)
      BY <1>23, ActiveSchemaSetDoes DEF Connects, New, Ended, Stays, WbTyped, TasksProper, Proper, WellFormed
    <2> QED
      BY <1>23, <1>0, ActiveSchemaSetDoes, <2>1, <2>2, <2>3, NeededQuietly
  <1>24. ASSUME NEW h \in Handlers, RunStatement(h) PROVE ConnectedIsNeeded'
    <2>1. \A d \in Names : OccupiesConnection(task[h], d) => OccupiesConnection(task'[h], d)
      BY <1>24, RunStatementDoes DEF OccupiesConnection, NoTask, New, Ended, Stays, WbTyped, TasksProper, Proper,
         WellFormed
    <2>2. task[h].then \in Names => task'[h].then = task[h].then
      BY <1>24, RunStatementDoes, NowhereIsApart DEF NoTask, Stays, WbTyped, TasksProper, Proper, WellFormed
    <2>3. Connects(h)
      BY <1>24, RunStatementDoes DEF Connects, New, Ended, Stays, WbTyped, TasksProper, Proper, WellFormed
    <2> QED
      BY <1>24, <1>0, RunStatementDoes, <2>1, <2>2, <2>3, NeededQuietly
  <1>25. ASSUME NEW h \in Handlers, TryDatabase(h) PROVE ConnectedIsNeeded'
    <2>1. \A d \in Names : OccupiesConnection(task[h], d) => OccupiesConnection(task'[h], d)
      BY <1>25, TryDatabaseDoes DEF OccupiesConnection, NoTask, New, Ended, Stays, WbTyped, TasksProper, Proper,
         WellFormed
    <2>2. task[h].then \in Names => task'[h].then = task[h].then
      BY <1>25, TryDatabaseDoes, NowhereIsApart DEF NoTask, Stays, WbTyped, TasksProper, Proper, WellFormed
    <2>3. Connects(h)
      BY <1>25, TryDatabaseDoes DEF Connects, New, Ended, Stays, WbTyped, TasksProper, Proper, WellFormed
    <2> QED
      BY <1>25, <1>0, TryDatabaseDoes, <2>1, <2>2, <2>3, NeededQuietly
  <1>26. ASSUME NEW h \in Handlers, Proved(h) PROVE ConnectedIsNeeded'
    <2>1. \A d \in Names : OccupiesConnection(task[h], d) => OccupiesConnection(task'[h], d)
      BY <1>26, ProvedDoes DEF OccupiesConnection, NoTask, New, Ended, Stays, WbTyped, TasksProper, Proper,
         WellFormed
    <2>2. task[h].then \in Names => task'[h].then = task[h].then
      BY <1>26, ProvedDoes, NowhereIsApart DEF NoTask, Stays, WbTyped, TasksProper, Proper, WellFormed
    <2>3. Connects(h)
      BY <1>26, ProvedDoes DEF Connects, New, Ended, Stays, WbTyped, TasksProper, Proper, WellFormed
    <2> QED
      BY <1>26, <1>0, ProvedDoes, <2>1, <2>2, <2>3, NeededQuietly
  <1>27. ASSUME NEW h \in Handlers, NotProved(h) PROVE ConnectedIsNeeded'
    <2>1. \A d \in Names : OccupiesConnection(task[h], d) => OccupiesConnection(task'[h], d)
      BY <1>27, NotProvedDoes DEF OccupiesConnection, NoTask, New, Ended, Stays, WbTyped, TasksProper, Proper,
         WellFormed
    <2>2. task[h].then \in Names => task'[h].then = task[h].then
      BY <1>27, NotProvedDoes, NowhereIsApart DEF NoTask, Stays, WbTyped, TasksProper, Proper, WellFormed
    <2>3. Connects(h)
      BY <1>27, NotProvedDoes DEF Connects, New, Ended, Stays, WbTyped, TasksProper, Proper, WellFormed
    <2> QED
      BY <1>27, <1>0, NotProvedDoes, <2>1, <2>2, <2>3, NeededQuietly
  <1>28. ASSUME NEW h \in Handlers, Confirmed(h) PROVE ConnectedIsNeeded'
    <2>1. \A d \in Names : OccupiesConnection(task[h], d) => OccupiesConnection(task'[h], d)
      BY <1>28, ConfirmedDoes DEF OccupiesConnection, NoTask, New, Ended, Stays, WbTyped, TasksProper, Proper,
         WellFormed
    <2>2. task[h].then \in Names => task'[h].then = task[h].then
      BY <1>28, ConfirmedDoes, NowhereIsApart DEF NoTask, Stays, WbTyped, TasksProper, Proper, WellFormed
    <2>3. Connects(h)
      BY <1>28, ConfirmedDoes DEF Connects, New, Ended, Stays, WbTyped, TasksProper, Proper, WellFormed
    <2> QED
      BY <1>28, <1>0, ConfirmedDoes, <2>1, <2>2, <2>3, NeededQuietly
  <1>29. ASSUME NEW h \in Handlers, Ran(h) PROVE ConnectedIsNeeded'
    BY <1>29, <1>0, RanNeeded
  <1>30. ASSUME NEW h \in Handlers, Checked(h) PROVE ConnectedIsNeeded'
    <2>1. \A d \in Names : OccupiesConnection(task[h], d) => OccupiesConnection(task'[h], d)
      BY <1>30, CheckedDoes DEF OccupiesConnection, NoTask, New, Ended, Stays, WbTyped, TasksProper, Proper,
         WellFormed
    <2>2. task[h].then \in Names => task'[h].then = task[h].then
      BY <1>30, CheckedDoes, NowhereIsApart DEF NoTask, Stays, WbTyped, TasksProper, Proper, WellFormed
    <2>3. Connects(h)
      BY <1>30, CheckedDoes DEF Connects, New, Ended, Stays, WbTyped, TasksProper, Proper, WellFormed
    <2> QED
      BY <1>30, <1>0, CheckedDoes, <2>1, <2>2, <2>3, NeededQuietly
  <1>31. ASSUME NEW h \in Handlers, RunStatements(h) PROVE ConnectedIsNeeded'
    <2>1. \A d \in Names : OccupiesConnection(task[h], d) => OccupiesConnection(task'[h], d)
      BY <1>31, RunStatementsDoes DEF OccupiesConnection, NoTask, New, Ended, Stays, WbTyped, TasksProper, Proper,
         WellFormed
    <2>2. task[h].then \in Names => task'[h].then = task[h].then
      BY <1>31, RunStatementsDoes, NowhereIsApart DEF NoTask, Stays, WbTyped, TasksProper, Proper, WellFormed
    <2>3. Connects(h)
      BY <1>31, RunStatementsDoes DEF Connects, New, Ended, Stays, WbTyped, TasksProper, Proper, WellFormed
    <2> QED
      BY <1>31, <1>0, RunStatementsDoes, <2>1, <2>2, <2>3, NeededQuietly
  <1>32. ASSUME NEW h \in Handlers, Applied(h) PROVE ConnectedIsNeeded'
    <2>1. \A d \in Names :
            OccupiesConnection(task[h], d) => OccupiesConnection(task'[h], d) \/ d \in exempt'.unclosed
      BY <1>32, AppliedDoes DEF OccupiesConnection, NoTask, New, Ended, Stays, WbTyped, TasksProper, Proper,
         WellFormed, WbTypeOK, Applied
    <2>2. task[h].then \in Names => task'[h].then = task[h].then
      BY <1>32, AppliedDoes, NowhereIsApart DEF NoTask, Stays, WbTyped, TasksProper, Proper, WellFormed
    <2>3. Connects(h)
      BY <1>32, AppliedDoes DEF Connects, New, Ended, Stays, WbTyped, TasksProper, Proper, WellFormed
    <2> QED
      BY <1>32, <1>0, AppliedDoes, <2>1, <2>2, <2>3, NeededQuietly
  <1>33. ASSUME NEW h \in Handlers, BatchSaved(h) PROVE ConnectedIsNeeded'
    <2>1. \A d \in Names : OccupiesConnection(task[h], d) => OccupiesConnection(task'[h], d)
      BY <1>33, BatchSavedDoes DEF OccupiesConnection, NoTask, New, Ended, Stays, WbTyped, TasksProper, Proper,
         WellFormed
    <2>2. task[h].then \in Names => task'[h].then = task[h].then
      BY <1>33, BatchSavedDoes, NowhereIsApart DEF NoTask, Stays, WbTyped, TasksProper, Proper, WellFormed
    <2>3. Connects(h)
      BY <1>33, BatchSavedDoes DEF Connects, New, Ended, Stays, WbTyped, TasksProper, Proper, WellFormed
    <2> QED
      BY <1>33, <1>0, BatchSavedDoes, <2>1, <2>2, <2>3, NeededQuietly
  <1>34. ASSUME NEW h \in Handlers, BatchRan(h) PROVE ConnectedIsNeeded'
    BY <1>34, <1>0, BatchRanNeeded
  <1>35. ASSUME NEW h \in Handlers, AnswerPrompt(h) PROVE ConnectedIsNeeded'
    BY <1>35, <1>0, AnswerPromptNeeded
  <1>36. ASSUME NEW h \in Handlers, GiveUpReload(h) PROVE ConnectedIsNeeded'
    <2>1. \A d \in Names : OccupiesConnection(task[h], d) => OccupiesConnection(task'[h], d)
      BY <1>36, GiveUpReloadDoes DEF OccupiesConnection, NoTask, New, Ended, Stays, WbTyped, TasksProper, Proper,
         WellFormed
    <2>2. task[h].then \in Names => task'[h].then = task[h].then
      BY <1>36, GiveUpReloadDoes, NowhereIsApart DEF NoTask, Stays, WbTyped, TasksProper, Proper, WellFormed
    <2>3. Connects(h)
      BY <1>36, GiveUpReloadDoes DEF Connects, New, Ended, Stays, WbTyped, TasksProper, Proper, WellFormed
    <2> QED
      BY <1>36, <1>0, GiveUpReloadDoes, <2>1, <2>2, <2>3, NeededQuietly
  <1>37. ASSUME NEW h \in Handlers, ConnectionsLoaded(h) PROVE ConnectedIsNeeded'
    <2>1. \A d \in Names : OccupiesConnection(task[h], d) => OccupiesConnection(task'[h], d)
      BY <1>37, ConnectionsLoadedDoes DEF OccupiesConnection, NoTask, New, Ended, Stays, WbTyped, TasksProper,
         Proper, WellFormed
    <2>2. task[h].then \in Names => task'[h].then = task[h].then
      BY <1>37, ConnectionsLoadedDoes, NowhereIsApart DEF NoTask, Stays, WbTyped, TasksProper, Proper, WellFormed
    <2>3. Connects(h)
      BY <1>37, ConnectionsLoadedDoes DEF Connects, New, Ended, Stays, WbTyped, TasksProper, Proper, WellFormed
    <2> QED
      BY <1>37, <1>0, ConnectionsLoadedDoes, <2>1, <2>2, <2>3, NeededQuietly
  <1>38. ASSUME NEW h \in Handlers, SendReset(h) PROVE ConnectedIsNeeded'
    <2>1. \A k \in Handlers :
            /\ task'[k].at = "listing" => task[k].at = "listing" /\ task'[k].kind = task[k].kind
                                          /\ task'[k].on = task[k].on /\ (task'[k].old <=> task[k].old)
            /\ \A c \in Names : OccupiesConnection(task[k], c) => OccupiesConnection(task'[k], c)
            /\ \A c \in Names : task[k].then = c => task'[k].then = c
      BY <1>38, SendResetDoes, NowhereIsApart DEF Touched, OccupiesConnection, WbTyped, TasksProper, Proper,
         WellFormed
    <2> QED
      BY <1>38, <2>1, NeededTouched DEF SendReset, tabVars, historyVars
  <1>39. ASSUME NEW h \in Handlers, ResetConnections(h) PROVE ConnectedIsNeeded'
    <2>1. \A k \in Handlers :
            /\ task'[k].at = "listing" => task[k].at = "listing" /\ task'[k].kind = task[k].kind
                                          /\ task'[k].on = task[k].on /\ (task'[k].old <=> task[k].old)
            /\ \A c \in Names : OccupiesConnection(task[k], c) => OccupiesConnection(task'[k], c)
            /\ \A c \in Names : task[k].then = c => task'[k].then = c
      BY <1>39, ResetConnectionsDoes, NowhereIsApart DEF Touched, OccupiesConnection, WbTyped, TasksProper, Proper,
         WellFormed
    <2> QED
      BY <1>39, <2>1, NeededTouched, ResetConnectionsDoes DEF ResetConnections, PageUnchanged, tabVars
  <1>40. ASSUME NEW h \in Handlers, ResetDone(h) PROVE ConnectedIsNeeded'
    <2>1. established' = {}
      BY <1>40 DEF ResetDone
    <2>2. \A k \in Handlers : task'[k].at = "listing" => task'[k].old
      BY <1>40, ResetDoneDoes DEF Touched, Discards
    <2> QED
      BY <2>1, <2>2 DEF ConnectedIsNeeded, Held
  <1>41. CASE Stay
    BY <1>41, StayTyped DEF ConnectedIsNeeded, Held, Justified, IsNeeded, Stay, tabVars, historyVars
  <1>42. CASE ToggleWritable
    BY <1>42, ToggleTyped DEF ConnectedIsNeeded, Held, Justified, IsNeeded, ToggleWritable, tabVars, historyVars
  <1>43. CASE UNCHANGED wbVars
    BY <1>43 DEF ConnectedIsNeeded, Held, Justified, IsNeeded, wbVars, tabVars, historyVars
  <1> QED
    BY <1>1, <1>2, <1>3, <1>4, <1>5, <1>6, <1>7, <1>8, <1>9, <1>10, <1>11, <1>12, <1>13, <1>14, <1>15, <1>16,
       <1>17, <1>18, <1>19, <1>20, <1>21, <1>22, <1>23, <1>24, <1>25, <1>26, <1>27, <1>28, <1>29, <1>30, <1>31,
       <1>32, <1>33, <1>34, <1>35, <1>36, <1>37, <1>38, <1>39, <1>40, <1>41, <1>42, <1>43 DEF WbNext

LEMMA CommitterStep ==
  ASSUME WbTyped, CommitterKnowsSelected, [WbNext]_wbVars PROVE CommitterKnowsSelected'
  <1>0. exempt.unclosed \subseteq exempt'.unclosed
    BY ExemptGrows
  <1>1. ASSUME NEW h \in Handlers, NEW c \in Names, Click(h, c) PROVE CommitterKnowsSelected'
    <2>1. TakesContext(h)
      BY <1>1, ClickDoes DEF TakesContext, Click, SelectConnection
    <2>2. CommitsKnown(h)
      BY <1>1, ClickDoes DEF CommitsKnown, New, Ended, Stays, NoTask, WbTyped, TasksProper, Proper, WellFormed
    <2> QED
      BY <1>1, <1>0, ClickDoes, <2>1, <2>2, CommitterMoves
  <1>2. ASSUME NEW h \in Handlers, NEW c \in Names, SubmitCellEdits(h, c) PROVE CommitterKnowsSelected'
    <2>1. TakesContext(h)
      BY <1>2, SubmitCellEditsDoes DEF TakesContext, NoTask
    <2>2. CommitsKnown(h)
      BY <1>2, SubmitCellEditsDoes DEF CommitsKnown, New, Ended, Stays, NoTask, WbTyped, TasksProper, Proper,
         WellFormed
    <2> QED
      BY <1>2, <1>0, SubmitCellEditsDoes, <2>1, <2>2, CommitterMoves
  <1>3. ASSUME NEW h \in Handlers, NEW c \in Names, NEW s \in Sendable, Rerun(h, c, s) PROVE CommitterKnowsSelected'
    <2>1. TakesContext(h)
      BY <1>3, RerunDoes DEF TakesContext, NoTask
    <2>2. CommitsKnown(h)
      BY <1>3, RerunDoes DEF CommitsKnown, New, Ended, Stays, NoTask, WbTyped, TasksProper, Proper, WellFormed
    <2> QED
      BY <1>3, <1>0, RerunDoes, <2>1, <2>2, CommitterMoves
  <1>4. ASSUME NEW h \in Handlers, NEW e \in Editors, OpenFile(h, e) PROVE CommitterKnowsSelected'
    <2>1. TakesContext(h)
      BY <1>4, OpenFileDoes DEF TakesContext, NoTask
    <2>2. CommitsKnown(h)
      BY <1>4, OpenFileDoes DEF CommitsKnown, New, Ended, Stays, NoTask, WbTyped, TasksProper, Proper, WellFormed
    <2> QED
      BY <1>4, <1>0, OpenFileDoes, <2>1, <2>2, CommitterMoves
  <1>5. ASSUME NEW h \in Handlers, NEW s \in Databases, ChangeSchema(h, s) PROVE CommitterKnowsSelected'
    <2>1. TakesContext(h)
      BY <1>5, ChangeSchemaDoes DEF TakesContext, NoTask
    <2>2. CommitsKnown(h)
      BY <1>5, ChangeSchemaDoes DEF CommitsKnown, New, Ended, Stays, NoTask, WbTyped, TasksProper, Proper,
         WellFormed
    <2> QED
      BY <1>5, <1>0, ChangeSchemaDoes, <2>1, <2>2, CommitterMoves
  <1>6. ASSUME NEW h \in Handlers, NEW s \in Sendable, Run(h, s) PROVE CommitterKnowsSelected'
    <2>1. TakesContext(h)
      BY <1>6, RunDoes DEF TakesContext, NoTask
    <2>2. CommitsKnown(h)
      BY <1>6, RunDoes DEF CommitsKnown, New, Ended, Stays, NoTask, WbTyped, TasksProper, Proper, WellFormed
    <2> QED
      BY <1>6, <1>0, RunDoes, <2>1, <2>2, CommitterMoves
  <1>7. ASSUME NEW h \in Handlers, Browse(h) PROVE CommitterKnowsSelected'
    <2>1. TakesContext(h)
      BY <1>7, BrowseDoes DEF TakesContext, NoTask
    <2>2. CommitsKnown(h)
      BY <1>7, BrowseDoes DEF CommitsKnown, New, Ended, Stays, NoTask, WbTyped, TasksProper, Proper, WellFormed
    <2> QED
      BY <1>7, <1>0, BrowseDoes, <2>1, <2>2, CommitterMoves
  <1>8. ASSUME NEW h \in Handlers, RunBatch(h) PROVE CommitterKnowsSelected'
    <2>1. TakesContext(h)
      BY <1>8, RunBatchDoes DEF TakesContext, NoTask
    <2>2. CommitsKnown(h)
      BY <1>8, RunBatchDoes DEF CommitsKnown, New, Ended, Stays, NoTask, WbTyped, TasksProper, Proper, WellFormed
    <2> QED
      BY <1>8, <1>0, RunBatchDoes, <2>1, <2>2, CommitterMoves
  <1>9. ASSUME NEW h \in Handlers, Reload(h) PROVE CommitterKnowsSelected'
    <2>1. TakesContext(h)
      BY <1>9, ReloadDoes DEF TakesContext, NoTask
    <2>2. CommitsKnown(h)
      BY <1>9, ReloadDoes DEF CommitsKnown, New, Ended, Stays, NoTask, WbTyped, TasksProper, Proper, WellFormed
    <2> QED
      BY <1>9, <1>0, ReloadDoes, <2>1, <2>2, CommitterMoves
  <1>10. ASSUME NEW h \in Handlers, NEW e \in Editors, ClickTab(h, e) PROVE CommitterKnowsSelected'
    <2>1. TakesContext(h)
      BY <1>10, ClickTabDoes DEF TakesContext, ClickTab, ActivateTab, ActivateHere, ActivateThere
    <2>2. CommitsKnown(h)
      BY <1>10, ClickTabDoes DEF CommitsKnown, New, Ended, Stays, NoTask, WbTyped, TasksProper, Proper, WellFormed
    <2> QED
      BY <1>10, <1>0, ClickTabDoes, <2>1, <2>2, CommitterMoves
  <1>11. ASSUME NEW h \in Handlers, NEW e \in Editors, CloseTab(h, e) PROVE CommitterKnowsSelected'
    <2>1. TakesContext(h)
      BY <1>11, CloseTabDoes DEF TakesContext, CloseTab, ActivateTab, ActivateHere, ActivateThere, moveVars
    <2>2. CommitsKnown(h)
      BY <1>11, CloseTabDoes DEF CommitsKnown, New, Ended, Stays, NoTask, WbTyped, TasksProper, Proper, WellFormed
    <2> QED
      BY <1>11, <1>0, CloseTabDoes, <2>1, <2>2, CommitterMoves
  <1>12. ASSUME NEW h \in Handlers, CancelBatch(h) PROVE CommitterKnowsSelected'
    <2>1. TakesContext(h)
      BY <1>12, CancelBatchDoes DEF TakesContext, NoTask
    <2>2. CommitsKnown(h)
      BY <1>12, CancelBatchDoes DEF CommitsKnown, New, Ended, Stays, NoTask, WbTyped, TasksProper, Proper,
         WellFormed
    <2> QED
      BY <1>12, <1>0, CancelBatchDoes, <2>1, <2>2, CommitterMoves
  <1>13. ASSUME NEW h \in Handlers, SaveEnds(h) PROVE CommitterKnowsSelected'
    <2>0. task[h].kind # "activate" /\ task[h].was # selected => selected \in exempt'.unclosed \cup {Nowhere}
      BY <1>13 DEF SaveEnds, WbTyped, WbTypeOK
    <2>1. TakesContext(h)
      BY <1>13, SaveEndsDoes DEF TakesContext, SaveEnds, ActivateHere, ActivateThere, moveVars, WbTypeOK
    <2>2. CommitsKnown(h)
      BY <1>13, <2>0, SaveEndsDoes DEF CommitsKnown, New, Ended, Stays, NoTask, WbTyped, TasksProper, Proper,
         WellFormed
    <2> QED
      BY <1>13, <1>0, SaveEndsDoes, <2>1, <2>2, CommitterMoves
  <1>14. ASSUME NEW h \in Handlers, NEW s \in Sendable, NextStatement(h, s) PROVE CommitterKnowsSelected'
    <2>1. TakesContext(h)
      BY <1>14, NextStatementDoes DEF TakesContext, NoTask
    <2>2. CommitsKnown(h)
      BY <1>14, NextStatementDoes DEF CommitsKnown, New, Ended, Stays, NoTask, WbTyped, TasksProper, Proper,
         WellFormed
    <2> QED
      BY <1>14, <1>0, NextStatementDoes, <2>1, <2>2, CommitterMoves
  <1>15. ASSUME NEW h \in Handlers, ReadActive(h) PROVE CommitterKnowsSelected'
    <2>1. TakesContext(h)
      BY <1>15, ReadActiveDoes DEF TakesContext, NoTask
    <2>2. CommitsKnown(h)
      BY <1>15, ReadActiveDoes DEF CommitsKnown, New, Ended, Stays, NoTask, WbTyped, TasksProper, Proper, WellFormed
    <2> QED
      BY <1>15, <1>0, ReadActiveDoes, <2>1, <2>2, CommitterMoves
  <1>16. ASSUME NEW h \in Handlers, Overtaken(h) PROVE CommitterKnowsSelected'
    <2>1. TakesContext(h)
      BY <1>16, OvertakenDoes DEF TakesContext, NoTask
    <2>2. CommitsKnown(h)
      BY <1>16, OvertakenDoes DEF CommitsKnown, New, Ended, Stays, NoTask, WbTyped, TasksProper, Proper, WellFormed
    <2> QED
      BY <1>16, <1>0, OvertakenDoes, <2>1, <2>2, CommitterMoves
  <1>17. ASSUME NEW h \in Handlers, CommitContext(h) PROVE CommitterKnowsSelected'
    <2>1. TakesContext(h)
      BY <1>17, CommitContextDoes DEF TakesContext, CommitContext
    <2>2. CommitsKnown(h)
      BY <1>17, CommitContextDoes DEF CommitsKnown, New, Ended, Stays, NoTask, WbTyped, TasksProper, Proper,
         WellFormed
    <2> QED
      BY <1>17, <1>0, CommitContextDoes, <2>1, <2>2, CommitterMoves
  <1>18. ASSUME NEW h \in Handlers, FileRead(h) PROVE CommitterKnowsSelected'
    <2>1. TakesContext(h)
      BY <1>18, FileReadDoes DEF TakesContext, NoTask
    <2>2. CommitsKnown(h)
      BY <1>18, FileReadDoes DEF CommitsKnown, New, Ended, Stays, NoTask, WbTyped, TasksProper, Proper, WellFormed
    <2> QED
      BY <1>18, <1>0, FileReadDoes, <2>1, <2>2, CommitterMoves
  <1>19. ASSUME NEW h \in Handlers, ListSchemas(h) PROVE CommitterKnowsSelected'
    <2>1. TakesContext(h)
      BY <1>19, ListSchemasDoes DEF TakesContext, NoTask
    <2>2. CommitsKnown(h)
      BY <1>19, ListSchemasDoes DEF CommitsKnown, New, Ended, Stays, NoTask, WbTyped, TasksProper, Proper,
         WellFormed
    <2> QED
      BY <1>19, <1>0, ListSchemasDoes, <2>1, <2>2, CommitterMoves
  <1>20. ASSUME NEW h \in Handlers, SchemasListed(h) PROVE CommitterKnowsSelected'
    <2>1. TakesContext(h)
      BY <1>20, SchemasListedDoes DEF TakesContext, NoTask
    <2>2. CommitsKnown(h)
      BY <1>20, SchemasListedDoes DEF CommitsKnown, New, Ended, Stays, NoTask, WbTyped, TasksProper, Proper,
         WellFormed
    <2> QED
      BY <1>20, <1>0, SchemasListedDoes, <2>1, <2>2, CommitterMoves
  <1>21. ASSUME NEW h \in Handlers, SendChange(h) PROVE CommitterKnowsSelected'
    <2>1. TakesContext(h)
      BY <1>21, SendChangeDoes DEF TakesContext, NoTask
    <2>2. CommitsKnown(h)
      BY <1>21, SendChangeDoes DEF CommitsKnown, New, Ended, Stays, NoTask, WbTyped, TasksProper, Proper, WellFormed
    <2> QED
      BY <1>21, <1>0, SendChangeDoes, <2>1, <2>2, CommitterMoves
  <1>22. ASSUME NEW h \in Handlers, SetActiveSchema(h) PROVE CommitterKnowsSelected'
    <2>1. TakesContext(h)
      BY <1>22, SetActiveSchemaDoes DEF TakesContext, NoTask
    <2>2. CommitsKnown(h)
      BY <1>22, SetActiveSchemaDoes DEF CommitsKnown, New, Ended, Stays, NoTask, WbTyped, TasksProper, Proper,
         WellFormed
    <2> QED
      BY <1>22, <1>0, SetActiveSchemaDoes, <2>1, <2>2, CommitterMoves
  <1>23. ASSUME NEW h \in Handlers, ActiveSchemaSet(h) PROVE CommitterKnowsSelected'
    <2>1. TakesContext(h)
      BY <1>23, ActiveSchemaSetDoes DEF TakesContext, NoTask
    <2>2. CommitsKnown(h)
      BY <1>23, ActiveSchemaSetDoes DEF CommitsKnown, New, Ended, Stays, NoTask, WbTyped, TasksProper, Proper,
         WellFormed
    <2> QED
      BY <1>23, <1>0, ActiveSchemaSetDoes, <2>1, <2>2, CommitterMoves
  <1>24. ASSUME NEW h \in Handlers, RunStatement(h) PROVE CommitterKnowsSelected'
    <2>1. TakesContext(h)
      BY <1>24, RunStatementDoes DEF TakesContext, NoTask
    <2>2. CommitsKnown(h)
      BY <1>24, RunStatementDoes DEF CommitsKnown, New, Ended, Stays, NoTask, WbTyped, TasksProper, Proper,
         WellFormed
    <2> QED
      BY <1>24, <1>0, RunStatementDoes, <2>1, <2>2, CommitterMoves
  <1>25. ASSUME NEW h \in Handlers, TryDatabase(h) PROVE CommitterKnowsSelected'
    <2>1. TakesContext(h)
      BY <1>25, TryDatabaseDoes DEF TakesContext, NoTask
    <2>2. CommitsKnown(h)
      BY <1>25, TryDatabaseDoes DEF CommitsKnown, New, Ended, Stays, NoTask, WbTyped, TasksProper, Proper,
         WellFormed
    <2> QED
      BY <1>25, <1>0, TryDatabaseDoes, <2>1, <2>2, CommitterMoves
  <1>26. ASSUME NEW h \in Handlers, Proved(h) PROVE CommitterKnowsSelected'
    <2>1. TakesContext(h)
      BY <1>26, ProvedDoes DEF TakesContext, NoTask
    <2>2. CommitsKnown(h)
      BY <1>26, ProvedDoes DEF CommitsKnown, New, Ended, Stays, NoTask, WbTyped, TasksProper, Proper, WellFormed
    <2> QED
      BY <1>26, <1>0, ProvedDoes, <2>1, <2>2, CommitterMoves
  <1>27. ASSUME NEW h \in Handlers, NotProved(h) PROVE CommitterKnowsSelected'
    <2>1. TakesContext(h)
      BY <1>27, NotProvedDoes DEF TakesContext, NoTask
    <2>2. CommitsKnown(h)
      BY <1>27, NotProvedDoes DEF CommitsKnown, New, Ended, Stays, NoTask, WbTyped, TasksProper, Proper, WellFormed
    <2> QED
      BY <1>27, <1>0, NotProvedDoes, <2>1, <2>2, CommitterMoves
  <1>28. ASSUME NEW h \in Handlers, Confirmed(h) PROVE CommitterKnowsSelected'
    <2>1. TakesContext(h)
      BY <1>28, ConfirmedDoes DEF TakesContext, NoTask
    <2>2. CommitsKnown(h)
      BY <1>28, ConfirmedDoes DEF CommitsKnown, New, Ended, Stays, NoTask, WbTyped, TasksProper, Proper, WellFormed
    <2> QED
      BY <1>28, <1>0, ConfirmedDoes, <2>1, <2>2, CommitterMoves
  <1>29. ASSUME NEW h \in Handlers, Ran(h) PROVE CommitterKnowsSelected'
    <2>1. TakesContext(h)
      BY <1>29, RanDoes DEF TakesContext, NoTask
    <2>2. CommitsKnown(h)
      BY <1>29, RanDoes DEF CommitsKnown, New, Ended, Stays, NoTask, WbTyped, TasksProper, Proper, WellFormed
    <2> QED
      BY <1>29, <1>0, RanDoes, <2>1, <2>2, CommitterMoves
  <1>30. ASSUME NEW h \in Handlers, Checked(h) PROVE CommitterKnowsSelected'
    <2>1. TakesContext(h)
      BY <1>30, CheckedDoes DEF TakesContext, NoTask
    <2>2. CommitsKnown(h)
      BY <1>30, CheckedDoes DEF CommitsKnown, New, Ended, Stays, NoTask, WbTyped, TasksProper, Proper, WellFormed
    <2> QED
      BY <1>30, <1>0, CheckedDoes, <2>1, <2>2, CommitterMoves
  <1>31. ASSUME NEW h \in Handlers, RunStatements(h) PROVE CommitterKnowsSelected'
    <2>1. TakesContext(h)
      BY <1>31, RunStatementsDoes DEF TakesContext, NoTask
    <2>2. CommitsKnown(h)
      BY <1>31, RunStatementsDoes DEF CommitsKnown, New, Ended, Stays, NoTask, WbTyped, TasksProper, Proper,
         WellFormed
    <2> QED
      BY <1>31, <1>0, RunStatementsDoes, <2>1, <2>2, CommitterMoves
  <1>32. ASSUME NEW h \in Handlers, Applied(h) PROVE CommitterKnowsSelected'
    <2>1. TakesContext(h)
      BY <1>32, AppliedDoes DEF TakesContext, NoTask
    <2>2. CommitsKnown(h)
      BY <1>32, AppliedDoes DEF CommitsKnown, New, Ended, Stays, NoTask, WbTyped, TasksProper, Proper, WellFormed
    <2> QED
      BY <1>32, <1>0, AppliedDoes, <2>1, <2>2, CommitterMoves
  <1>33. ASSUME NEW h \in Handlers, BatchSaved(h) PROVE CommitterKnowsSelected'
    <2>1. TakesContext(h)
      BY <1>33, BatchSavedDoes DEF TakesContext, NoTask
    <2>2. CommitsKnown(h)
      BY <1>33, BatchSavedDoes DEF CommitsKnown, New, Ended, Stays, NoTask, WbTyped, TasksProper, Proper, WellFormed
    <2> QED
      BY <1>33, <1>0, BatchSavedDoes, <2>1, <2>2, CommitterMoves
  <1>34. ASSUME NEW h \in Handlers, BatchRan(h) PROVE CommitterKnowsSelected'
    <2>1. TakesContext(h)
      BY <1>34, BatchRanDoes DEF TakesContext, NoTask
    <2>2. CommitsKnown(h)
      BY <1>34, BatchRanDoes DEF CommitsKnown, New, Ended, Stays, NoTask, WbTyped, TasksProper, Proper, WellFormed
    <2> QED
      BY <1>34, <1>0, BatchRanDoes, <2>1, <2>2, CommitterMoves
  <1>35. ASSUME NEW h \in Handlers, AnswerPrompt(h) PROVE CommitterKnowsSelected'
    <2>1. TakesContext(h)
      BY <1>35, AnswerPromptDoes DEF TakesContext, NoTask
    <2>2. CommitsKnown(h)
      BY <1>35, AnswerPromptDoes DEF CommitsKnown, New, Ended, Stays, NoTask, WbTyped, TasksProper, Proper,
         WellFormed
    <2> QED
      BY <1>35, <1>0, AnswerPromptDoes, <2>1, <2>2, CommitterMoves
  <1>36. ASSUME NEW h \in Handlers, GiveUpReload(h) PROVE CommitterKnowsSelected'
    <2>1. TakesContext(h)
      BY <1>36, GiveUpReloadDoes DEF TakesContext, NoTask
    <2>2. CommitsKnown(h)
      BY <1>36, GiveUpReloadDoes DEF CommitsKnown, New, Ended, Stays, NoTask, WbTyped, TasksProper, Proper,
         WellFormed
    <2> QED
      BY <1>36, <1>0, GiveUpReloadDoes, <2>1, <2>2, CommitterMoves
  <1>37. ASSUME NEW h \in Handlers, ConnectionsLoaded(h) PROVE CommitterKnowsSelected'
    <2>1. TakesContext(h)
      BY <1>37, ConnectionsLoadedDoes DEF TakesContext, ConnectionsLoaded, SelectConnection
    <2>2. CommitsKnown(h)
      BY <1>37, ConnectionsLoadedDoes DEF CommitsKnown, New, Ended, Stays, NoTask, WbTyped, TasksProper, Proper,
         WellFormed
    <2> QED
      BY <1>37, <1>0, ConnectionsLoadedDoes, <2>1, <2>2, CommitterMoves
  <1>38. ASSUME NEW h \in Handlers, SendReset(h) PROVE CommitterKnowsSelected'
    BY <1>38, SendResetDoes DEF CommitterKnowsSelected, Touched, SendReset, moveVars, historyVars
  <1>39. ASSUME NEW h \in Handlers, ResetConnections(h) PROVE CommitterKnowsSelected'
    <2>1. selected' = selected /\ contextOf' = contextOf
      BY <1>39 DEF ResetConnections, PageUnchanged, moveVars
    <2>2. /\ exempt'.unclosed = exempt.unclosed
          /\ \A k \in Handlers : task'[k].at = task[k].at /\ task'[k].was = task[k].was
      BY <1>39, ResetConnectionsDoes DEF Touched
    <2> QED
      BY <2>1, <2>2 DEF CommitterKnowsSelected
  <1>40. ASSUME NEW h \in Handlers, ResetDone(h) PROVE CommitterKnowsSelected'
    BY <1>40, WorkbenchAssumption DEF CommitterKnowsSelected, ResetDone
  <1>41. CASE Stay
    BY <1>41, StayTyped, WorkbenchAssumption DEF CommitterKnowsSelected, Stay, moveVars, historyVars
  <1>42. CASE ToggleWritable
    BY <1>42, ToggleTyped, WorkbenchAssumption DEF CommitterKnowsSelected, ToggleWritable, moveVars, historyVars
  <1>43. CASE UNCHANGED wbVars
    BY <1>43 DEF CommitterKnowsSelected, wbVars, moveVars, historyVars
  <1> QED
    BY <1>1, <1>2, <1>3, <1>4, <1>5, <1>6, <1>7, <1>8, <1>9, <1>10, <1>11, <1>12, <1>13, <1>14, <1>15, <1>16,
       <1>17, <1>18, <1>19, <1>20, <1>21, <1>22, <1>23, <1>24, <1>25, <1>26, <1>27, <1>28, <1>29, <1>30, <1>31,
       <1>32, <1>33, <1>34, <1>35, <1>36, <1>37, <1>38, <1>39, <1>40, <1>41, <1>42, <1>43 DEF WbNext

----------------------------------------------------------------------------
(* The database shown is the one of the answers on their way               *)

(* A change that was not sent, or not executed, has not failed.            *)
Pending(h) == task[h].at = "stopping" \/ (task[h].at = "switching" /\ ~Answered(h))
PendingIsOk == \A h \in Handlers : Pending(h) => task[h].ok

(* The answer of h makes the page show its database for c.                 *)
Carries(h, c) ==
  /\ task[h].on = c
  /\ \/ task[h].at = "switching" /\ task[h].ok
     \/ task[h].at = "proving" /\ ~task[h].old /\ task[h].to # Nowhere
(* h tries its database, and may put the one before back.                  *)
Tries(h, c) == task[h].at = "proving" /\ ~Answered(h) /\ task[h].on = c /\ override[c] = task[h].to
Before(h) == IF task[h].was # Nowhere THEN task[h].was ELSE Configured
(* What c settles on if what is tried is refused.                          *)
Settles(c, d) ==
  /\ \A h \in Handlers : Tries(h, c) => d = Before(h)
  /\ (\A h \in Handlers : ~Tries(h, c)) => d = ActiveOf(c)
Keeps(c) == \A d : Settles(c, d) => Settles(c, d)'

(* What the answer of h makes the page show, and what c has settled on if  *)
(* no database is being tried.                                             *)
Brings(h) == IF task[h].at = "context" THEN task[h].db ELSE task[h].to
Settled(c, d) == d = ActiveOf(c) /\ \A h \in Handlers : ~Tries(h, c)
Holds(c) == \A d : Settled(c, d) => Settled(c, d)'
(* No answer on its way changes what is shown of the selected connection.  *)
Silent(c) == \A h \in Handlers : ~(Answered(h) /\ Carries(h, c))
(* Every answer on its way brings the database its connection has settled  *)
(* on, in whatever order they arrive: what changes the database while one  *)
(* is on its way leads the connection astray.  Without one, what is shown  *)
(* is what the connection settles on.  A reload makes all but the answers  *)
(* of changes void.                                                        *)
Counts(h) == ResetDoneSoon => task[h].at = "switching"
ShownWillBeActive ==
  \A c \in Names \ exempt.astray :
    /\ \A h \in Handlers : Shows(h, c) /\ Counts(h) => Settled(c, Brings(h))
    /\ ~ResetDoneSoon /\ c = selected /\ Silent(c) => Settles(c, schemaShown)

LEMMA ShowsIs ==
  ASSUME NEW h \in Handlers, NEW c PROVE Shows(h, c) <=> LoadsContext(h, c) \/ (Answered(h) /\ Carries(h, c))
  BY DEF Shows, LoadsContext, Carries, Answered

----------------------------------------------------------------------------
(* Steps that change, or read, no database                                 *)

Same(t, u) ==
  /\ u.at = t.at /\ u.on = t.on /\ u.to = t.to /\ u.was = t.was /\ u.db = t.db /\ (u.ok <=> t.ok)
  /\ t.at # "listing" => (u.old <=> t.old)
OthersSame(h) == \A k \in Handlers \ {h} : Same(task[k], task'[k])

LEMMA ToldIsSame ==
  ASSUME NEW h, OthersTold(h) PROVE OthersSame(h)
  BY DEF OthersTold, OthersSame, Told, Same

(* The selected connection, and one a running statement still shows the    *)
(* result of, has lost nothing to a reload.                                *)
LEMMA ShownIsNotLost ==
  ASSUME WbTyped, LostIsUnseen, NEW c \in Names \ exempt.astray,
         \/ c = selected
         \/ \E h \in Handlers : task[h].on = c /\ task[h].at = "proving" /\ ~task[h].old
  PROVE  ~Lost(c)
  BY DEF LostIsUnseen, Unseen, ShowsResult

LEMMA OneProves ==
  ASSUME WbTyped, RunsApart, NEW c \in Names, ~Lost(c),
         NEW h \in Handlers, task[h].at = "proving", task[h].on = c,
         NEW k \in Handlers, task[k].at = "proving", task[k].on = c
  PROVE  h = k
  <1>1. OccupiesConnection(task[h], c) /\ OccupiesConnection(task[k], c)
    BY DEF Lost, OccupiesConnection, WbTyped, TasksProper, Proper, WellFormed, Statements
  <1> QED
    BY <1>1 DEF RunsApart, OneRunAtATime

LEMMA SameTries ==
  ASSUME NEW c \in Names, override'[c] = override[c], NEW h, OthersSame(h),
         \A k \in Handlers \ {h} : Answered(k)' <=> Answered(k), NEW k \in Handlers \ {h}
  PROVE  (Tries(k, c)' <=> Tries(k, c)) /\ (Tries(k, c) => Before(k)' = Before(k))
  BY DEF OthersSame, Same, Tries, Before

LEMMA SameSettles ==
  ASSUME NEW c \in Names, override'[c] = override[c], NEW h, OthersSame(h),
         \A k \in Handlers \ {h} : Answered(k)' <=> Answered(k),
         h \in Handlers => \/ Same(task[h], task'[h]) /\ (Answered(h)' <=> Answered(h))
                           \/ ~Tries(h, c) /\ ~Tries(h, c)'
  PROVE  Keeps(c) /\ Holds(c)
  <1>1. ASSUME NEW k \in Handlers
        PROVE  (Tries(k, c)' <=> Tries(k, c)) /\ (Tries(k, c) => Before(k)' = Before(k))
    <2>1. CASE k = h
      BY <2>1 DEF Same, Tries, Before
    <2>2. CASE k # h
      BY <2>2, SameTries
    <2> QED
      BY <2>1, <2>2
  <1> QED
    BY <1>1 DEF Keeps, Settles, Holds, Settled, ActiveOf

LEMMA SettledSettles ==
  ASSUME NEW c, NEW d, Settled(c, d) PROVE Settles(c, d)
  BY DEF Settled, Settles

(* What one step must leave so.                                            *)
LEMMA ShownMoves ==
  ASSUME ShownWillBeActive, exempt.astray \subseteq exempt'.astray,
         NEW h, OthersSame(h), \A k \in Handlers \ {h} : Answered(k)' <=> Answered(k),
         contextOf' \in {contextOf, h, Nowhere}, ResetDoneSoon => ResetDoneSoon',
         \A c \in Names \ exempt'.astray :
           /\ \A k \in Handlers \ {h} : Shows(k, c) => Holds(c)
           /\ h \in Handlers /\ Shows(h, c)' /\ Counts(h)' => Settled(c, Brings(h))'
           /\ ~ResetDoneSoon' /\ c = selected' /\ Silent(c)' => Settles(c, schemaShown)'
  PROVE  ShownWillBeActive'
  <1> SUFFICES ASSUME NEW c \in Names \ exempt'.astray, NEW k \in Handlers, Shows(k, c)',
                      Counts(k)'
               PROVE  Settled(c, Brings(k))'
    BY DEF ShownWillBeActive
  <1>1. CASE k = h
    BY <1>1
  <1>2. CASE k # h
    <2>1. Same(task[k], task'[k]) /\ (k \in replies' <=> k \in replies)
      BY <1>2 DEF OthersSame, Answered
    <2>2. Nowhere \notin Handlers
      BY WorkbenchAssumption
    <2>3. Shows(k, c) /\ task'[k].at = task[k].at
      BY <1>2, <2>1, <2>2 DEF Shows, Same
    <2>4. Settled(c, Brings(k)) /\ Holds(c)
      BY <1>2, <2>3 DEF ShownWillBeActive, Counts
    <2>5. Brings(k)' = Brings(k)
      BY <2>1 DEF Brings, Same
    <2>6. PICK d : d = Brings(k)
      OBVIOUS
    <2>7. Settled(c, d)' /\ d = Brings(k)'
      BY <2>4, <2>5, <2>6 DEF Holds
    <2> QED
      BY <2>7 DEF Settled
  <1> QED
    BY <1>1, <1>2

(* A step that takes no answer and gives none.                             *)
LEMMA ShownKept ==
  ASSUME WbTyped, LostIsUnseen, ShownWillBeActive, exempt.astray \subseteq exempt'.astray,
         NEW h, OthersSame(h), UNCHANGED <<replies, selected, schemaShown>>, contextOf' \in {contextOf, h, Nowhere},
         h \in Handlers /\ Answered(h) => Same(task[h], task'[h]) /\ contextOf' \in {contextOf, Nowhere},
         \A c \in Names \ exempt'.astray :
           (~Lost(c) => Keeps(c)) /\ ((\E k \in Handlers : Shows(k, c)) => Holds(c))
  PROVE  ShownWillBeActive'
  <1>1. \A k \in Handlers : Answered(k)' <=> Answered(k)
    BY DEF Answered
  <1>2. \A k \in Handlers : Answered(k) => Same(task[k], task'[k])
    BY DEF OthersSame
  <1>3. ResetDoneSoon' <=> ResetDoneSoon
    BY <1>1, <1>2 DEF ResetDoneSoon, Same
  <1>4. ASSUME NEW c \in Names \ exempt'.astray, h \in Handlers, Shows(h, c)', Counts(h)'
        PROVE  Settled(c, Brings(h))'
    <2>1. Answered(h) /\ Same(task[h], task'[h]) /\ contextOf' \in {contextOf, Nowhere} /\ Nowhere \notin Handlers
      BY <1>4, WorkbenchAssumption DEF Shows, Answered
    <2>2. Shows(h, c) /\ Counts(h)
      BY <1>3, <1>4, <2>1 DEF Shows, Same, Counts
    <2>3. PICK d : d = Brings(h)
      OBVIOUS
    <2>4. Settled(c, d) /\ Holds(c)
      BY <1>4, <2>2, <2>3 DEF ShownWillBeActive
    <2>5. Settled(c, d)' /\ d = Brings(h)'
      BY <2>1, <2>3, <2>4 DEF Holds, Brings, Same
    <2> QED
      BY <2>5 DEF Settled
  <1>5. ASSUME NEW c \in Names \ exempt'.astray, ~ResetDoneSoon', c = selected', Silent(c)'
        PROVE  Settles(c, schemaShown)'
    <2>1. Silent(c)
      BY <1>1, <1>2, <1>5 DEF Silent, Carries, Same
    <2>2. PICK d : d = schemaShown
      OBVIOUS
    <2>3. Settles(c, d) /\ ~Lost(c)
      BY <1>3, <1>5, <2>1, <2>2, ShownIsNotLost DEF ShownWillBeActive
    <2>4. Settles(c, d)' /\ d = schemaShown'
      BY <1>5, <2>2, <2>3 DEF Keeps
    <2> QED
      BY <2>4 DEF Settles
  <1> QED
    BY <1>1, <1>3, <1>4, <1>5, ShownMoves

LEMMA ShownQuietly ==
  ASSUME WbTyped, LostIsUnseen, ShownWillBeActive, exempt.astray \subseteq exempt'.astray,
         NEW h, OthersSame(h), UNCHANGED <<replies, selected, schemaShown, override>>,
         contextOf' \in {contextOf, h, Nowhere},
         h \in Handlers => \/ Same(task[h], task'[h]) /\ contextOf' \in {contextOf, Nowhere}
                           \/ ~Answered(h) /\ task[h].at # "proving" /\ task'[h].at # "proving"
  PROVE  ShownWillBeActive'
  <1>1. ASSUME NEW c \in Names PROVE Keeps(c) /\ Holds(c)
    <2>1. \A k : Answered(k)' <=> Answered(k)
      BY DEF Answered
    <2>2. h \in Handlers => \/ Same(task[h], task'[h]) /\ (Answered(h)' <=> Answered(h))
                            \/ ~Tries(h, c) /\ ~Tries(h, c)'
      BY <2>1 DEF Tries
    <2> QED
      BY <2>1, <2>2, SameSettles
  <1> QED
    BY <1>1, ShownKept

(* A step that gives an answer.                                            *)
LEMMA ShownQueued ==
  ASSUME WbTyped, LostIsUnseen, ShownWillBeActive, exempt.astray \subseteq exempt'.astray,
         NEW h \in Handlers, ~Answered(h), Answered(h)', OthersSame(h),
         \A k \in Handlers \ {h} : Answered(k)' <=> Answered(k),
         task'[h].at = task[h].at, UNCHANGED <<selected, schemaShown, contextOf>>,
         \A c \in Names \ exempt'.astray :
           /\ \/ Carries(h, c)' /\ Settled(c, task[h].to)'
              \/ ~Carries(h, c)' /\ (~Lost(c) => Keeps(c))
           /\ (\E k \in Handlers \ {h} : Shows(k, c)) => Holds(c)
           /\ task'[h].at = "context" /\ task'[h].on = c => Settled(c, task[h].db)'
  PROVE  ShownWillBeActive'
  <1>1. ResetDoneSoon => ResetDoneSoon'
    BY DEF ResetDoneSoon, OthersSame, Same
  <1>2. ASSUME NEW c \in Names \ exempt'.astray, Shows(h, c)' PROVE Settled(c, Brings(h))'
    <2>1. CASE task'[h].at = "context"
      BY <1>2, <2>1 DEF Shows, Brings, Settled
    <2>2. CASE task'[h].at # "context"
      BY <1>2, <2>2 DEF Shows, Brings, Settled, Carries
    <2> QED
      BY <2>1, <2>2
  <1>3. ASSUME NEW c \in Names \ exempt'.astray, ~ResetDoneSoon', c = selected', Silent(c)'
        PROVE  Settles(c, schemaShown)'
    <2>1. ~Carries(h, c)' /\ Silent(c)
      BY <1>3 DEF Silent, OthersSame, Same, Carries
    <2>2. PICK d : d = schemaShown
      OBVIOUS
    <2>3. Settles(c, d) /\ ~Lost(c)
      BY <1>1, <1>3, <2>1, <2>2, ShownIsNotLost DEF ShownWillBeActive
    <2>4. Settles(c, d)' /\ d = schemaShown'
      BY <1>3, <2>1, <2>2, <2>3 DEF Keeps
    <2> QED
      BY <2>4 DEF Settles
  <1> QED
    BY <1>1, <1>2, <1>3, ShownMoves

(* A step that takes an answer.                                            *)
LEMMA ShownTaken ==
  ASSUME WbTyped, LostIsUnseen, ShownWillBeActive, exempt.astray \subseteq exempt'.astray,
         NEW h \in Handlers, h \in replies, replies' = replies \ {h}, OthersSame(h),
         UNCHANGED <<override, contextOf>>, task[h].at # "resetting", task'[h].at # "proving",
         \/ LoadsContext(h, selected') /\ schemaShown' = task[h].db
         \/ /\ selected' = selected
            /\ schemaShown' = IF Carries(h, selected) THEN task[h].to ELSE schemaShown
  PROVE  ShownWillBeActive'
  <1>1. Answered(h) /\ ~Answered(h)' /\ \A k \in Handlers \ {h} : Answered(k)' <=> Answered(k)
    BY DEF Answered
  <1>2. ResetDoneSoon' <=> ResetDoneSoon
    BY <1>1 DEF ResetDoneSoon, OthersSame, Same
  <1>3. \A c \in Names : Keeps(c) /\ Holds(c)
    <2>1. \A c : ~Tries(h, c) /\ ~Tries(h, c)'
      BY <1>1 DEF Tries
    <2> QED
      BY <1>1, <2>1, SameSettles
  <1>4. \A c : ~Shows(h, c)'
    BY <1>1 DEF Shows, Answered
  <1>5. ASSUME NEW c \in Names \ exempt'.astray, ~ResetDoneSoon', c = selected', Silent(c)'
        PROVE  Settles(c, schemaShown)'
    <2>1. PICK d : d = schemaShown'
      OBVIOUS
    <2>2. Settles(c, d)
      <3>1. CASE LoadsContext(h, c) /\ d = task[h].db
        <4>1. Shows(h, c) /\ Counts(h) /\ d = Brings(h)
          BY <1>2, <1>5, <3>1, ShowsIs DEF LoadsContext, Brings, Counts
        <4> QED
          BY <4>1, SettledSettles DEF ShownWillBeActive
      <3>2. CASE c = selected /\ Carries(h, c) /\ d = task[h].to
        <4>1. Shows(h, c) /\ Counts(h) /\ d = Brings(h)
          BY <1>1, <1>2, <1>5, <3>2, ShowsIs DEF Carries, Brings, Counts
        <4> QED
          BY <4>1, SettledSettles DEF ShownWillBeActive
      <3>3. CASE c = selected /\ ~Carries(h, c) /\ d = schemaShown
        <4>1. Silent(c)
          BY <1>1, <1>5, <3>3 DEF Silent, OthersSame, Same, Carries
        <4> QED
          BY <1>2, <1>5, <3>3, <4>1 DEF ShownWillBeActive
      <3> QED
        BY <1>5, <2>1, <3>1, <3>2, <3>3
    <2>3. Settles(c, d)' /\ d = schemaShown'
      BY <1>3, <2>1, <2>2 DEF Keeps
    <2> QED
      BY <2>3 DEF Settles
  <1> QED
    BY <1>1, <1>2, <1>3, <1>4, <1>5, ShownMoves

----------------------------------------------------------------------------
(* The steps that change, or read, the database of a connection            *)

LEMMA ReadActiveShown ==
  ASSUME WbTyped, LostIsUnseen, ShownWillBeActive, exempt.astray \subseteq exempt'.astray,
         NEW h \in Handlers, ReadActive(h)
  PROVE  ShownWillBeActive'
  <1>1. OthersSame(h) /\ \A k \in Handlers \ {h} : Answered(k)' <=> Answered(k)
    BY ReadActiveDoes, ToldIsSame DEF OthersAnswered
  <1>2. ASSUME NEW c \in Names PROVE ~Carries(h, c)' /\ Keeps(c) /\ Holds(c)
    <2>1. ~Carries(h, c)' /\ ~Tries(h, c) /\ ~Tries(h, c)'
      BY ReadActiveDoes DEF Carries, Tries
    <2> QED
      BY <1>1, <2>1, ReadActiveDoes, SameSettles
  <1>3. ASSUME NEW c \in Names \ exempt'.astray, task'[h].on = c
        PROVE  Settled(c, task[h].db)'
    <2>1. task[h].on = c /\ task'[h].db = ActiveOf(c)
      BY <1>3, ReadActiveDoes DEF Stays
    <2>2. ~ \E k \in Handlers : task[k].at = "proving" /\ task[k].on = c
      BY <1>3, <2>1 DEF ReadActive, Astray, WbTyped, WbTypeOK
    <2>3. \A k \in Handlers : ~Tries(k, c)'
      BY <2>2, <1>1, ReadActiveDoes DEF Tries, OthersSame, Same
    <2> QED
      BY <2>1, <2>3, ReadActiveDoes DEF Settled, ActiveOf
  <1> QED
    BY <1>1, <1>2, <1>3, ReadActiveDoes, ShownQueued

LEMMA QuietAnswerShown ==
  ASSUME WbTyped, LostIsUnseen, ShownWillBeActive, exempt.astray \subseteq exempt'.astray,
         NEW h \in Handlers, ~Answered(h), Answered(h)', OthersTold(h), OthersAnswered(h),
         UNCHANGED <<selected, schemaShown, contextOf, override>>, task'[h].at = task[h].at,
         task[h].at \in {"listing", "running", "applying"}
  PROVE  ShownWillBeActive'
  <1>1. OthersSame(h) /\ \A k \in Handlers \ {h} : Answered(k)' <=> Answered(k)
    BY ToldIsSame DEF OthersAnswered
  <1>2. ASSUME NEW c \in Names PROVE ~Carries(h, c)' /\ Keeps(c) /\ Holds(c)
    <2>1. ~Carries(h, c)' /\ ~Tries(h, c) /\ ~Tries(h, c)'
      BY DEF Carries, Tries
    <2> QED
      BY <1>1, <2>1, SameSettles
  <1> QED
    BY <1>1, <1>2, ShownQueued

LEMMA SetActiveSchemaShown ==
  ASSUME WbTyped, LostIsUnseen, PendingIsOk, ShownWillBeActive, exempt.astray \subseteq exempt'.astray,
         NEW h \in Handlers, SetActiveSchema(h)
  PROVE  ShownWillBeActive'
  <1>1. OthersSame(h) /\ \A k \in Handlers \ {h} : Answered(k)' <=> Answered(k)
    BY SetActiveSchemaDoes, ToldIsSame DEF OthersAnswered
  <1>2. task[h].on \in Names /\ task[h].to \in Databases /\ task[h].ok
    BY SetActiveSchemaDoes DEF WbTyped, TasksProper, Proper, WellFormed, PendingIsOk, Pending
  <1>3. \A c : ~Tries(h, c) /\ ~Tries(h, c)'
    BY SetActiveSchemaDoes DEF Tries
  <1>4. ASSUME NEW c \in Names, override'[c] = override[c] PROVE Keeps(c) /\ Holds(c)
    BY <1>1, <1>3, <1>4, SameSettles
  <1>5. CASE override' = [override EXCEPT ![task[h].on] = task[h].to] /\ task'[h].ok
    <2>1. ASSUME NEW c \in Names \ exempt'.astray
          PROVE  /\ \/ Carries(h, c)' /\ Settled(c, task[h].to)'
                    \/ ~Carries(h, c)' /\ Keeps(c)
                 /\ (\E k \in Handlers \ {h} : Shows(k, c)) => Holds(c)
      <3>1. CASE c = task[h].on
        <4>1. override'[c] = task[h].to /\ task'[h].to = task[h].to /\ ActiveAfter(c) = task[h].to
          BY <1>2, <1>5, <3>1, SetActiveSchemaDoes, NowhereIsApart DEF ActiveAfter, WbTyped, WbTypeOK
        <4>2. Carries(h, c)'
          BY <1>5, <3>1, SetActiveSchemaDoes DEF Carries, Stays
        <4>3. \A k \in Handlers : /\ ~(task[k].at = "proving" /\ task[k].on = c /\ task[k].to = task[h].to)
                                  /\ ~Shows(k, c)
          BY <2>1, <3>1 DEF SetActiveSchema, Astray, WbTyped, WbTypeOK
        <4>4. \A k \in Handlers : ~Tries(k, c)'
          BY <1>1, <1>3, <4>1, <4>3 DEF Tries, OthersSame, Same
        <4> QED
          BY <4>1, <4>2, <4>3, <4>4 DEF Settled, ActiveOf, ActiveAfter
      <3>2. CASE c # task[h].on
        <4>1. override'[c] = override[c] /\ ~Carries(h, c)'
          BY <1>2, <1>5, <3>2, SetActiveSchemaDoes DEF Carries, Stays, WbTyped, WbTypeOK
        <4> QED
          BY <1>4, <4>1
      <3> QED
        BY <3>1, <3>2
    <2> QED
      BY <1>1, <2>1, SetActiveSchemaDoes, ShownQueued
  <1>6. CASE UNCHANGED override /\ ~task'[h].ok
    <2>1. ASSUME NEW c \in Names PROVE ~Carries(h, c)' /\ Keeps(c) /\ Holds(c)
      BY <1>4, <1>6, SetActiveSchemaDoes DEF Carries
    <2> QED
      BY <1>1, <2>1, SetActiveSchemaDoes, ShownQueued
  <1> QED
    BY <1>2, <1>5, <1>6, SetActiveSchemaDoes

LEMMA TryDatabaseShown ==
  ASSUME WbTyped, RunsApart, LostIsUnseen, ShownWillBeActive, exempt.astray \subseteq exempt'.astray,
         NEW h \in Handlers, TryDatabase(h)
  PROVE  ShownWillBeActive'
  <1>1. OthersSame(h) /\ \A k \in Handlers : Answered(k)' <=> Answered(k)
    BY TryDatabaseDoes, ToldIsSame DEF OthersAnswered
  <1>2. /\ task[h].on \in Names /\ task[h].to \in Databases /\ task[h].kind \in Statements
        /\ override' = [override EXCEPT ![task[h].on] = task[h].to]
    <2>1. override' = [override EXCEPT ![task[h].on] = task[h].to]
      BY DEF TryDatabase
    <2>2. WellFormed(task[h])
      BY DEF WbTyped, TasksProper, Proper
    <2> QED
      BY <2>1, <2>2, TryDatabaseDoes DEF WellFormed, Sendable
  <1>3. ASSUME NEW c \in Names \ exempt'.astray, ~Lost(c) PROVE Keeps(c)
    <2>1. CASE c = task[h].on
      <3>1. ~task[h].old
        BY <1>3, <2>1 DEF TryDatabase, Astray, WbTyped, WbTypeOK
      <3>2. OccupiesConnection(task[h], c)
        BY <1>2, <2>1, <3>1, TryDatabaseDoes DEF OccupiesConnection, Statements
      <3>3. ASSUME NEW k \in Handlers, task[k].at = "proving", task[k].on = c PROVE FALSE
        <4>1. OccupiesConnection(task[k], c)
          BY <1>3, <3>3 DEF Lost, OccupiesConnection, WbTyped, TasksProper, Proper, WellFormed, Statements
        <4> QED
          BY <3>2, <3>3, <4>1, TryDatabaseDoes DEF RunsApart, OneRunAtATime
      <3>4. \A k \in Handlers : ~Tries(k, c)
        BY <3>3 DEF Tries
      <3>5. \A k \in Handlers : Tries(k, c)' => k = h
        BY <1>1, <3>3 DEF Tries, OthersSame, Same
      <3>6. Tries(h, c)'
        BY <1>2, <2>1, TryDatabaseDoes DEF Tries, Stays, WbTyped, WbTypeOK
      <3>7. task'[h].was = override[c]
        BY <2>1, TryDatabaseDoes
      <3>8. ASSUME NEW d, Settles(c, d) PROVE Settles(c, d)'
        <4>1. d = ActiveOf(c)
          BY <3>4, <3>8 DEF Settles
        <4>2. Before(h)' = ActiveOf(c)
          BY <3>7 DEF Before, ActiveOf
        <4> QED
          BY <3>5, <3>6, <4>1, <4>2 DEF Settles
      <3> QED
        BY <3>8 DEF Keeps
    <2>2. CASE c # task[h].on
      <3>1. override'[c] = override[c] /\ ~Tries(h, c) /\ ~Tries(h, c)'
        BY <1>2, <2>2, TryDatabaseDoes DEF Tries, Stays, WbTyped, WbTypeOK
      <3> QED
        BY <1>1, <3>1, SameSettles
    <2> QED
      BY <2>1, <2>2
  <1>4. ASSUME NEW c \in Names \ exempt'.astray, \E k \in Handlers : Shows(k, c) PROVE Holds(c)
    <2>1. c # task[h].on
      BY <1>4 DEF TryDatabase, Astray, WbTyped, WbTypeOK
    <2>2. override'[c] = override[c] /\ ~Tries(h, c) /\ ~Tries(h, c)'
      BY <1>2, <2>1, TryDatabaseDoes DEF Tries, Stays, WbTyped, WbTypeOK
    <2> QED
      BY <1>1, <2>2, SameSettles
  <1> QED
    BY <1>1, <1>3, <1>4, TryDatabaseDoes, ShownKept

LEMMA ProvedShown ==
  ASSUME WbTyped, RunsApart, LostIsUnseen, ShownWillBeActive, exempt.astray \subseteq exempt'.astray,
         NEW h \in Handlers, Proved(h)
  PROVE  ShownWillBeActive'
  <1>1. OthersSame(h) /\ \A k \in Handlers \ {h} : Answered(k)' <=> Answered(k)
    BY ProvedDoes, ToldIsSame DEF OthersAnswered
  <1>2. task[h].on \in Names /\ task[h].to # Nowhere /\ task'[h].on = task[h].on
    BY ProvedDoes DEF WbTyped, TasksProper, Proper, WellFormed, CallsAreAnswered, Stays
  <1>3. ASSUME NEW c \in Names \ exempt'.astray, Carries(h, c)' PROVE Settled(c, task[h].to)'
    <2>1. c = task[h].on /\ override[c] = task[h].to /\ task'[h].to = task[h].to /\ ~task[h].old
      BY <1>2, <1>3, ProvedDoes DEF Carries, Reported, Stays
    <2>2. ~Lost(c)
      BY <2>1, ProvedDoes, ShownIsNotLost
    <2>3. \A k \in Handlers : ~Tries(k, c)'
      BY <1>1, <2>1, <2>2, OneProves, ProvedDoes DEF Tries, OthersSame, Same
    <2>4. ActiveAfter(c) = task[h].to
      BY <1>2, <2>1, ProvedDoes DEF ActiveAfter
    <2> QED
      BY <2>1, <2>3, <2>4 DEF Settled, ActiveOf, ActiveAfter
  <1>4. ASSUME NEW c \in Names \ exempt'.astray, ~Carries(h, c)', ~Lost(c) PROVE Keeps(c)
    <2>1. ~Tries(h, c)
      <3>1. SUFFICES ASSUME Tries(h, c) PROVE FALSE
        OBVIOUS
      <3>2. c = task[h].on /\ task'[h].to = task[h].to /\ ~task[h].old
        BY <1>4, <3>1, ProvedDoes DEF Tries, Reported, Lost
      <3> QED
        BY <1>2, <1>4, <3>2, ProvedDoes DEF Carries, Stays
    <2>2. ~Tries(h, c)'
      BY ProvedDoes DEF Tries
    <2> QED
      BY <1>1, <2>1, <2>2, ProvedDoes, SameSettles
  <1>5. ASSUME NEW c \in Names PROVE Holds(c)
    <2>1. ~Tries(h, c)'
      BY ProvedDoes DEF Tries
    <2>2. override'[c] = override[c]
      BY ProvedDoes
    <2>3. \A k \in Handlers \ {h} : Tries(k, c)' <=> Tries(k, c)
      BY <1>1, <2>2, SameTries
    <2> QED
      BY <2>1, <2>2, <2>3 DEF Holds, Settled, ActiveOf
  <1> QED
    BY <1>1, <1>3, <1>4, <1>5, ProvedDoes, ShownQueued

LEMMA NotProvedShown ==
  ASSUME WbTyped, RunsApart, LostIsUnseen, ShownWillBeActive, exempt.astray \subseteq exempt'.astray,
         NEW h \in Handlers, NotProved(h)
  PROVE  ShownWillBeActive'
  <1>1. OthersSame(h) /\ \A k \in Handlers \ {h} : Answered(k)' <=> Answered(k)
    BY NotProvedDoes, ToldIsSame DEF OthersAnswered
  <1>2. /\ task[h].on \in Names
        /\ override' = [override EXCEPT ![task[h].on] = IF @ = task[h].to THEN task[h].was ELSE @]
    <2>1. override' = [override EXCEPT ![task[h].on] = IF @ = task[h].to THEN task[h].was ELSE @]
      BY DEF NotProved
    <2>2. WellFormed(task[h])
      BY DEF WbTyped, TasksProper, Proper
    <2> QED
      BY <2>1, <2>2, NotProvedDoes DEF WellFormed
  <1>3. \A c : ~Carries(h, c)'
    BY NotProvedDoes DEF Carries
  <1>4. ASSUME NEW c \in Names, ~Lost(c) PROVE Keeps(c)
    <2>1. CASE Tries(h, c)
      <3>1. override'[c] = task[h].was
        BY <1>2, <2>1 DEF Tries, WbTyped, WbTypeOK
      <3>2. \A k \in Handlers : ~Tries(k, c)'
        BY <1>1, <1>4, <2>1, OneProves, NotProvedDoes DEF Tries, OthersSame, Same
      <3>3. ASSUME NEW d, Settles(c, d) PROVE Settles(c, d)'
        <4>1. d = Before(h)
          BY <2>1, <3>3 DEF Settles
        <4>2. ActiveAfter(c) = Before(h)
          BY <3>1 DEF ActiveAfter, Before
        <4> QED
          BY <3>2, <4>1, <4>2 DEF Settles, ActiveOf, ActiveAfter
      <3> QED
        BY <3>3 DEF Keeps
    <2>2. CASE ~Tries(h, c)
      <3>1. override'[c] = override[c]
        BY <1>2, <2>2, NotProvedDoes DEF Tries, WbTyped, WbTypeOK
      <3>2. ~Tries(h, c)'
        BY NotProvedDoes DEF Tries
      <3> QED
        BY <1>1, <2>2, <3>1, <3>2, SameSettles
    <2> QED
      BY <2>1, <2>2
  <1>5. ASSUME NEW c \in Names PROVE Holds(c)
    <2>1. ~Tries(h, c)'
      BY NotProvedDoes DEF Tries
    <2>2. ASSUME NEW d, Settled(c, d) PROVE Settled(c, d)'
      <3>1. override'[c] = override[c]
        BY <1>2, <2>2, NotProvedDoes DEF Settled, Tries, WbTyped, WbTypeOK
      <3>2. \A k \in Handlers \ {h} : Tries(k, c)' <=> Tries(k, c)
        BY <1>1, <3>1, SameTries
      <3> QED
        BY <2>1, <2>2, <3>1, <3>2 DEF Settled, ActiveOf
    <2> QED
      BY <2>2 DEF Holds
  <1> QED
    BY <1>1, <1>3, <1>4, <1>5, NotProvedDoes, ShownQueued

LEMMA SendResetShown ==
  ASSUME WbTyped, LostIsUnseen, ShownWillBeActive, exempt.astray \subseteq exempt'.astray,
         NEW h \in Handlers, SendReset(h)
  PROVE  ShownWillBeActive'
  <1>1. UNCHANGED <<selected, schemaShown, contextOf, override, replies>>
    BY DEF SendReset, GoesOn, backendVars, moveVars
  <1>2. OthersSame(h)
    BY SendResetDoes DEF OthersSame, Same, Touched
  <1>3. ~Answered(h)
    BY SendResetDoes DEF WbTyped, CallsAreAnswered, Answerable
  <1> QED
    BY <1>1, <1>2, <1>3, SendResetDoes, ShownQuietly
LEMMA ResetConnectionsShown ==
  ASSUME WbTyped, NEW h \in Handlers, ResetConnections(h)
  PROVE  ShownWillBeActive'
  <1>1. ResetDoneSoon'
    BY ResetConnectionsDoes DEF ResetDoneSoon, Touched
  <1>2. ASSUME NEW c \in Names \ exempt'.astray, NEW k \in Handlers, Shows(k, c)', task'[k].at = "switching"
        PROVE  FALSE
    <2>1. Touched(task[k], task'[k]) /\ k # h
      BY <1>2, ResetConnectionsDoes DEF Touched
    <2>2. k \in replies
      BY <1>2, <2>1, ResetConnectionsDoes DEF Shows, OthersAnswered, Answered
    <2>3. Shows(k, c) /\ task[k].at = "switching"
      BY <1>2, <2>1, <2>2 DEF Shows, Touched
    <2> QED
      BY <1>2, <2>3 DEF ResetConnections, WbTyped, WbTypeOK
  <1> QED
    BY <1>1, <1>2 DEF ShownWillBeActive, Counts

LEMMA ResetDoneShown ==
  ASSUME WbTyped, ShownWillBeActive, NEW h \in Handlers, ResetDone(h)
  PROVE  ShownWillBeActive'
  <1>1. selected' = Nowhere /\ contextOf' = Nowhere /\ UNCHANGED <<override, exempt>>
    BY DEF ResetDone, Receives, historyVars
  <1>2. Nowhere \notin Handlers /\ Nowhere \notin Names
    BY WorkbenchAssumption
  <1>3. \A k \in Handlers \ {h} : Touched(task[k], task'[k]) /\ (Answered(k)' <=> Answered(k))
    BY ResetDoneDoes DEF OthersAnswered
  <1>4. ASSUME NEW c \in Names \ exempt.astray, NEW k \in Handlers, Shows(k, c)' PROVE Settled(c, Brings(k))'
    <2>1. k # h /\ task'[k].at = "switching"
      BY <1>1, <1>2, <1>3, <1>4, ResetDoneDoes DEF Shows, Discards, Answered, Touched
    <2>2. Shows(k, c) /\ Counts(k)
      BY <1>3, <1>4, <2>1 DEF Shows, Touched, Counts, Answered
    <2>3. Settled(c, Brings(k))
      BY <2>2 DEF ShownWillBeActive
    <2>4. \A l \in Handlers : Tries(l, c)' => Tries(l, c)
      BY <1>1, <1>3, ResetDoneDoes DEF Tries, Touched
    <2>5. Brings(k)' = Brings(k)
      BY <1>3, <2>1 DEF Brings, Touched
    <2> QED
      BY <1>1, <2>3, <2>4, <2>5 DEF Settled, ActiveOf
  <1> QED
    BY <1>1, <1>2, <1>4 DEF ShownWillBeActive

LEMMA PendingMoves ==
  ASSUME PendingIsOk, NEW h \in Handlers, OthersTold(h), OthersAnswered(h), Pending(h)' => task'[h].ok
  PROVE  PendingIsOk'
  <1> SUFFICES ASSUME NEW k \in Handlers, Pending(k)' PROVE task'[k].ok
    BY DEF PendingIsOk
  <1>1. CASE k = h
    BY <1>1
  <1>2. CASE k # h
    BY <1>2 DEF OthersTold, Told, OthersAnswered, Pending, PendingIsOk
  <1> QED
    BY <1>1, <1>2

LEMMA PendingStep ==
  ASSUME WbTyped, PendingIsOk, [WbNext]_wbVars PROVE PendingIsOk'
  <1>1. ASSUME NEW h \in Handlers, NEW c \in Names, Click(h, c) PROVE PendingIsOk'
    <2>1. Pending(h)' => task'[h].ok
      BY <1>1, ClickDoes DEF PendingIsOk, Pending, New, Ended, Stays
    <2> QED
      BY <1>1, ClickDoes, <2>1, PendingMoves
  <1>2. ASSUME NEW h \in Handlers, NEW c \in Names, SubmitCellEdits(h, c) PROVE PendingIsOk'
    <2>1. Pending(h)' => task'[h].ok
      BY <1>2, SubmitCellEditsDoes DEF PendingIsOk, Pending, New, Ended, Stays
    <2> QED
      BY <1>2, SubmitCellEditsDoes, <2>1, PendingMoves
  <1>3. ASSUME NEW h \in Handlers, NEW c \in Names, NEW s \in Sendable, Rerun(h, c, s) PROVE PendingIsOk'
    <2>1. Pending(h)' => task'[h].ok
      BY <1>3, RerunDoes DEF PendingIsOk, Pending, New, Ended, Stays
    <2> QED
      BY <1>3, RerunDoes, <2>1, PendingMoves
  <1>4. ASSUME NEW h \in Handlers, NEW e \in Editors, OpenFile(h, e) PROVE PendingIsOk'
    <2>1. Pending(h)' => task'[h].ok
      BY <1>4, OpenFileDoes DEF PendingIsOk, Pending, New, Ended, Stays
    <2> QED
      BY <1>4, OpenFileDoes, <2>1, PendingMoves
  <1>5. ASSUME NEW h \in Handlers, NEW s \in Databases, ChangeSchema(h, s) PROVE PendingIsOk'
    <2>1. Pending(h)' => task'[h].ok
      BY <1>5, ChangeSchemaDoes DEF PendingIsOk, Pending, New, Ended, Stays
    <2> QED
      BY <1>5, ChangeSchemaDoes, <2>1, PendingMoves
  <1>6. ASSUME NEW h \in Handlers, NEW s \in Sendable, Run(h, s) PROVE PendingIsOk'
    <2>1. Pending(h)' => task'[h].ok
      BY <1>6, RunDoes DEF PendingIsOk, Pending, New, Ended, Stays
    <2> QED
      BY <1>6, RunDoes, <2>1, PendingMoves
  <1>7. ASSUME NEW h \in Handlers, Browse(h) PROVE PendingIsOk'
    <2>1. Pending(h)' => task'[h].ok
      BY <1>7, BrowseDoes DEF PendingIsOk, Pending, New, Ended, Stays
    <2> QED
      BY <1>7, BrowseDoes, <2>1, PendingMoves
  <1>8. ASSUME NEW h \in Handlers, RunBatch(h) PROVE PendingIsOk'
    <2>1. Pending(h)' => task'[h].ok
      BY <1>8, RunBatchDoes DEF PendingIsOk, Pending, New, Ended, Stays
    <2> QED
      BY <1>8, RunBatchDoes, <2>1, PendingMoves
  <1>9. ASSUME NEW h \in Handlers, Reload(h) PROVE PendingIsOk'
    <2>1. Pending(h)' => task'[h].ok
      BY <1>9, ReloadDoes DEF PendingIsOk, Pending, New, Ended, Stays
    <2> QED
      BY <1>9, ReloadDoes, <2>1, PendingMoves
  <1>10. ASSUME NEW h \in Handlers, NEW e \in Editors, ClickTab(h, e) PROVE PendingIsOk'
    <2>1. Pending(h)' => task'[h].ok
      BY <1>10, ClickTabDoes DEF PendingIsOk, Pending, New, Ended, Stays
    <2> QED
      BY <1>10, ClickTabDoes, <2>1, PendingMoves
  <1>11. ASSUME NEW h \in Handlers, NEW e \in Editors, CloseTab(h, e) PROVE PendingIsOk'
    <2>1. Pending(h)' => task'[h].ok
      BY <1>11, CloseTabDoes DEF PendingIsOk, Pending, New, Ended, Stays
    <2> QED
      BY <1>11, CloseTabDoes, <2>1, PendingMoves
  <1>12. ASSUME NEW h \in Handlers, CancelBatch(h) PROVE PendingIsOk'
    <2>1. Pending(h)' => task'[h].ok
      BY <1>12, CancelBatchDoes DEF PendingIsOk, Pending, New, Ended, Stays
    <2> QED
      BY <1>12, CancelBatchDoes, <2>1, PendingMoves
  <1>13. ASSUME NEW h \in Handlers, SaveEnds(h) PROVE PendingIsOk'
    <2>1. Pending(h)' => task'[h].ok
      BY <1>13, SaveEndsDoes DEF PendingIsOk, Pending, New, Ended, Stays
    <2> QED
      BY <1>13, SaveEndsDoes, <2>1, PendingMoves
  <1>14. ASSUME NEW h \in Handlers, NEW s \in Sendable, NextStatement(h, s) PROVE PendingIsOk'
    <2>1. Pending(h)' => task'[h].ok
      BY <1>14, NextStatementDoes DEF PendingIsOk, Pending, New, Ended, Stays
    <2> QED
      BY <1>14, NextStatementDoes, <2>1, PendingMoves
  <1>15. ASSUME NEW h \in Handlers, ReadActive(h) PROVE PendingIsOk'
    <2>1. Pending(h)' => task'[h].ok
      BY <1>15, ReadActiveDoes DEF PendingIsOk, Pending, New, Ended, Stays
    <2> QED
      BY <1>15, ReadActiveDoes, <2>1, PendingMoves
  <1>16. ASSUME NEW h \in Handlers, Overtaken(h) PROVE PendingIsOk'
    <2>1. Pending(h)' => task'[h].ok
      BY <1>16, OvertakenDoes DEF PendingIsOk, Pending, New, Ended, Stays
    <2> QED
      BY <1>16, OvertakenDoes, <2>1, PendingMoves
  <1>17. ASSUME NEW h \in Handlers, CommitContext(h) PROVE PendingIsOk'
    <2>1. Pending(h)' => task'[h].ok
      BY <1>17, CommitContextDoes DEF PendingIsOk, Pending, New, Ended, Stays
    <2> QED
      BY <1>17, CommitContextDoes, <2>1, PendingMoves
  <1>18. ASSUME NEW h \in Handlers, FileRead(h) PROVE PendingIsOk'
    <2>1. Pending(h)' => task'[h].ok
      BY <1>18, FileReadDoes DEF PendingIsOk, Pending, New, Ended, Stays
    <2> QED
      BY <1>18, FileReadDoes, <2>1, PendingMoves
  <1>19. ASSUME NEW h \in Handlers, ListSchemas(h) PROVE PendingIsOk'
    <2>1. Pending(h)' => task'[h].ok
      BY <1>19, ListSchemasDoes DEF PendingIsOk, Pending, New, Ended, Stays
    <2> QED
      BY <1>19, ListSchemasDoes, <2>1, PendingMoves
  <1>20. ASSUME NEW h \in Handlers, SchemasListed(h) PROVE PendingIsOk'
    <2>1. Pending(h)' => task'[h].ok
      BY <1>20, SchemasListedDoes DEF PendingIsOk, Pending, New, Ended, Stays
    <2> QED
      BY <1>20, SchemasListedDoes, <2>1, PendingMoves
  <1>21. ASSUME NEW h \in Handlers, SendChange(h) PROVE PendingIsOk'
    <2>1. Pending(h)' => task'[h].ok
      BY <1>21, SendChangeDoes DEF PendingIsOk, Pending, New, Ended, Stays
    <2> QED
      BY <1>21, SendChangeDoes, <2>1, PendingMoves
  <1>22. ASSUME NEW h \in Handlers, SetActiveSchema(h) PROVE PendingIsOk'
    <2>1. Pending(h)' => task'[h].ok
      BY <1>22, SetActiveSchemaDoes DEF PendingIsOk, Pending, New, Ended, Stays
    <2> QED
      BY <1>22, SetActiveSchemaDoes, <2>1, PendingMoves
  <1>23. ASSUME NEW h \in Handlers, ActiveSchemaSet(h) PROVE PendingIsOk'
    <2>1. Pending(h)' => task'[h].ok
      BY <1>23, ActiveSchemaSetDoes DEF PendingIsOk, Pending, New, Ended, Stays
    <2> QED
      BY <1>23, ActiveSchemaSetDoes, <2>1, PendingMoves
  <1>24. ASSUME NEW h \in Handlers, RunStatement(h) PROVE PendingIsOk'
    <2>1. Pending(h)' => task'[h].ok
      BY <1>24, RunStatementDoes DEF PendingIsOk, Pending, New, Ended, Stays
    <2> QED
      BY <1>24, RunStatementDoes, <2>1, PendingMoves
  <1>25. ASSUME NEW h \in Handlers, TryDatabase(h) PROVE PendingIsOk'
    <2>1. Pending(h)' => task'[h].ok
      BY <1>25, TryDatabaseDoes DEF PendingIsOk, Pending, New, Ended, Stays
    <2> QED
      BY <1>25, TryDatabaseDoes, <2>1, PendingMoves
  <1>26. ASSUME NEW h \in Handlers, Proved(h) PROVE PendingIsOk'
    <2>1. Pending(h)' => task'[h].ok
      BY <1>26, ProvedDoes DEF PendingIsOk, Pending, New, Ended, Stays
    <2> QED
      BY <1>26, ProvedDoes, <2>1, PendingMoves
  <1>27. ASSUME NEW h \in Handlers, NotProved(h) PROVE PendingIsOk'
    <2>1. Pending(h)' => task'[h].ok
      BY <1>27, NotProvedDoes DEF PendingIsOk, Pending, New, Ended, Stays
    <2> QED
      BY <1>27, NotProvedDoes, <2>1, PendingMoves
  <1>28. ASSUME NEW h \in Handlers, Confirmed(h) PROVE PendingIsOk'
    <2>1. Pending(h)' => task'[h].ok
      BY <1>28, ConfirmedDoes DEF PendingIsOk, Pending, New, Ended, Stays
    <2> QED
      BY <1>28, ConfirmedDoes, <2>1, PendingMoves
  <1>29. ASSUME NEW h \in Handlers, Ran(h) PROVE PendingIsOk'
    <2>1. Pending(h)' => task'[h].ok
      BY <1>29, RanDoes DEF PendingIsOk, Pending, New, Ended, Stays
    <2> QED
      BY <1>29, RanDoes, <2>1, PendingMoves
  <1>30. ASSUME NEW h \in Handlers, Checked(h) PROVE PendingIsOk'
    <2>1. Pending(h)' => task'[h].ok
      BY <1>30, CheckedDoes DEF PendingIsOk, Pending, New, Ended, Stays
    <2> QED
      BY <1>30, CheckedDoes, <2>1, PendingMoves
  <1>31. ASSUME NEW h \in Handlers, RunStatements(h) PROVE PendingIsOk'
    <2>1. Pending(h)' => task'[h].ok
      BY <1>31, RunStatementsDoes DEF PendingIsOk, Pending, New, Ended, Stays
    <2> QED
      BY <1>31, RunStatementsDoes, <2>1, PendingMoves
  <1>32. ASSUME NEW h \in Handlers, Applied(h) PROVE PendingIsOk'
    <2>1. Pending(h)' => task'[h].ok
      BY <1>32, AppliedDoes DEF PendingIsOk, Pending, New, Ended, Stays
    <2> QED
      BY <1>32, AppliedDoes, <2>1, PendingMoves
  <1>33. ASSUME NEW h \in Handlers, BatchSaved(h) PROVE PendingIsOk'
    <2>1. Pending(h)' => task'[h].ok
      BY <1>33, BatchSavedDoes DEF PendingIsOk, Pending, New, Ended, Stays
    <2> QED
      BY <1>33, BatchSavedDoes, <2>1, PendingMoves
  <1>34. ASSUME NEW h \in Handlers, BatchRan(h) PROVE PendingIsOk'
    <2>1. Pending(h)' => task'[h].ok
      BY <1>34, BatchRanDoes DEF PendingIsOk, Pending, New, Ended, Stays
    <2> QED
      BY <1>34, BatchRanDoes, <2>1, PendingMoves
  <1>35. ASSUME NEW h \in Handlers, AnswerPrompt(h) PROVE PendingIsOk'
    <2>1. Pending(h)' => task'[h].ok
      BY <1>35, AnswerPromptDoes DEF PendingIsOk, Pending, New, Ended, Stays
    <2> QED
      BY <1>35, AnswerPromptDoes, <2>1, PendingMoves
  <1>36. ASSUME NEW h \in Handlers, GiveUpReload(h) PROVE PendingIsOk'
    <2>1. Pending(h)' => task'[h].ok
      BY <1>36, GiveUpReloadDoes DEF PendingIsOk, Pending, New, Ended, Stays
    <2> QED
      BY <1>36, GiveUpReloadDoes, <2>1, PendingMoves
  <1>37. ASSUME NEW h \in Handlers, ConnectionsLoaded(h) PROVE PendingIsOk'
    <2>1. Pending(h)' => task'[h].ok
      BY <1>37, ConnectionsLoadedDoes DEF PendingIsOk, Pending, New, Ended, Stays
    <2> QED
      BY <1>37, ConnectionsLoadedDoes, <2>1, PendingMoves
  <1>38. ASSUME NEW h \in Handlers, SendReset(h) PROVE PendingIsOk'
    BY <1>38, SendResetDoes DEF PendingIsOk, Pending, Touched, OthersAnswered
  <1>39. ASSUME NEW h \in Handlers, ResetConnections(h) PROVE PendingIsOk'
    BY <1>39, ResetConnectionsDoes DEF PendingIsOk, Pending, Touched, OthersAnswered
  <1>40. ASSUME NEW h \in Handlers, ResetDone(h) PROVE PendingIsOk'
    BY <1>40, ResetDoneDoes DEF PendingIsOk, Pending, Touched, OthersAnswered
  <1>41. CASE Stay
    BY <1>41, StayTyped DEF PendingIsOk, Pending, Answered, Stay, Acts, backendVars
  <1>42. CASE ToggleWritable
    BY <1>42, ToggleTyped DEF PendingIsOk, Pending, Answered, ToggleWritable, Acts, backendVars
  <1>43. CASE UNCHANGED wbVars
    BY <1>43 DEF PendingIsOk, Pending, Answered, wbVars, backendVars
  <1> QED
    BY <1>1, <1>2, <1>3, <1>4, <1>5, <1>6, <1>7, <1>8, <1>9, <1>10, <1>11, <1>12, <1>13, <1>14, <1>15, <1>16,
       <1>17, <1>18, <1>19, <1>20, <1>21, <1>22, <1>23, <1>24, <1>25, <1>26, <1>27, <1>28, <1>29, <1>30, <1>31,
       <1>32, <1>33, <1>34, <1>35, <1>36, <1>37, <1>38, <1>39, <1>40, <1>41, <1>42, <1>43 DEF WbNext

LEMMA ShownStep ==
  ASSUME WbTyped, RunsApart, LostIsUnseen, PendingIsOk, ShownWillBeActive, [WbNext]_wbVars PROVE ShownWillBeActive'
  <1>0. exempt.astray \subseteq exempt'.astray
    BY ExemptGrows
  <1>1. ASSUME NEW h \in Handlers, NEW c \in Names, Click(h, c) PROVE ShownWillBeActive'
    <2>1. contextOf' \in {contextOf, h, Nowhere}
      BY <1>1, ClickDoes DEF Click, SelectConnection
    <2>2. \/ Same(task[h], task'[h]) /\ contextOf' \in {contextOf, Nowhere}
          \/ ~Answered(h) /\ task[h].at # "proving" /\ task'[h].at # "proving"
      BY <1>1, ClickDoes DEF New, Ended, Stays, Same, NoTask
    <2> QED
      BY <1>1, <1>0, <2>1, <2>2, ClickDoes, ToldIsSame, ShownQuietly
  <1>2. ASSUME NEW h \in Handlers, NEW c \in Names, SubmitCellEdits(h, c) PROVE ShownWillBeActive'
    <2>1. contextOf' \in {contextOf, h, Nowhere}
      BY <1>2, SubmitCellEditsDoes
    <2>2. \/ Same(task[h], task'[h]) /\ contextOf' \in {contextOf, Nowhere}
          \/ ~Answered(h) /\ task[h].at # "proving" /\ task'[h].at # "proving"
      BY <1>2, SubmitCellEditsDoes DEF New, Ended, Stays, Same, NoTask
    <2> QED
      BY <1>2, <1>0, <2>1, <2>2, SubmitCellEditsDoes, ToldIsSame, ShownQuietly
  <1>3. ASSUME NEW h \in Handlers, NEW c \in Names, NEW s \in Sendable, Rerun(h, c, s) PROVE ShownWillBeActive'
    <2>1. contextOf' \in {contextOf, h, Nowhere}
      BY <1>3, RerunDoes
    <2>2. \/ Same(task[h], task'[h]) /\ contextOf' \in {contextOf, Nowhere}
          \/ ~Answered(h) /\ task[h].at # "proving" /\ task'[h].at # "proving"
      BY <1>3, RerunDoes DEF New, Ended, Stays, Same, NoTask
    <2> QED
      BY <1>3, <1>0, <2>1, <2>2, RerunDoes, ToldIsSame, ShownQuietly
  <1>4. ASSUME NEW h \in Handlers, NEW e \in Editors, OpenFile(h, e) PROVE ShownWillBeActive'
    <2>1. contextOf' \in {contextOf, h, Nowhere}
      BY <1>4, OpenFileDoes
    <2>2. \/ Same(task[h], task'[h]) /\ contextOf' \in {contextOf, Nowhere}
          \/ ~Answered(h) /\ task[h].at # "proving" /\ task'[h].at # "proving"
      BY <1>4, OpenFileDoes DEF New, Ended, Stays, Same, NoTask
    <2> QED
      BY <1>4, <1>0, <2>1, <2>2, OpenFileDoes, ToldIsSame, ShownQuietly
  <1>5. ASSUME NEW h \in Handlers, NEW s \in Databases, ChangeSchema(h, s) PROVE ShownWillBeActive'
    <2>1. contextOf' \in {contextOf, h, Nowhere}
      BY <1>5, ChangeSchemaDoes
    <2>2. \/ Same(task[h], task'[h]) /\ contextOf' \in {contextOf, Nowhere}
          \/ ~Answered(h) /\ task[h].at # "proving" /\ task'[h].at # "proving"
      BY <1>5, ChangeSchemaDoes DEF New, Ended, Stays, Same, NoTask
    <2> QED
      BY <1>5, <1>0, <2>1, <2>2, ChangeSchemaDoes, ToldIsSame, ShownQuietly
  <1>6. ASSUME NEW h \in Handlers, NEW s \in Sendable, Run(h, s) PROVE ShownWillBeActive'
    <2>1. contextOf' \in {contextOf, h, Nowhere}
      BY <1>6, RunDoes
    <2>2. \/ Same(task[h], task'[h]) /\ contextOf' \in {contextOf, Nowhere}
          \/ ~Answered(h) /\ task[h].at # "proving" /\ task'[h].at # "proving"
      BY <1>6, RunDoes DEF New, Ended, Stays, Same, NoTask
    <2> QED
      BY <1>6, <1>0, <2>1, <2>2, RunDoes, ToldIsSame, ShownQuietly
  <1>7. ASSUME NEW h \in Handlers, Browse(h) PROVE ShownWillBeActive'
    <2>1. contextOf' \in {contextOf, h, Nowhere}
      BY <1>7, BrowseDoes
    <2>2. \/ Same(task[h], task'[h]) /\ contextOf' \in {contextOf, Nowhere}
          \/ ~Answered(h) /\ task[h].at # "proving" /\ task'[h].at # "proving"
      BY <1>7, BrowseDoes DEF New, Ended, Stays, Same, NoTask
    <2> QED
      BY <1>7, <1>0, <2>1, <2>2, BrowseDoes, ToldIsSame, ShownQuietly
  <1>8. ASSUME NEW h \in Handlers, RunBatch(h) PROVE ShownWillBeActive'
    <2>1. contextOf' \in {contextOf, h, Nowhere}
      BY <1>8, RunBatchDoes
    <2>2. \/ Same(task[h], task'[h]) /\ contextOf' \in {contextOf, Nowhere}
          \/ ~Answered(h) /\ task[h].at # "proving" /\ task'[h].at # "proving"
      BY <1>8, RunBatchDoes DEF New, Ended, Stays, Same, NoTask
    <2> QED
      BY <1>8, <1>0, <2>1, <2>2, RunBatchDoes, ToldIsSame, ShownQuietly
  <1>9. ASSUME NEW h \in Handlers, Reload(h) PROVE ShownWillBeActive'
    <2>1. contextOf' \in {contextOf, h, Nowhere}
      BY <1>9, ReloadDoes
    <2>2. \/ Same(task[h], task'[h]) /\ contextOf' \in {contextOf, Nowhere}
          \/ ~Answered(h) /\ task[h].at # "proving" /\ task'[h].at # "proving"
      BY <1>9, ReloadDoes DEF New, Ended, Stays, Same, NoTask
    <2> QED
      BY <1>9, <1>0, <2>1, <2>2, ReloadDoes, ToldIsSame, ShownQuietly
  <1>10. ASSUME NEW h \in Handlers, NEW e \in Editors, ClickTab(h, e) PROVE ShownWillBeActive'
    <2>1. contextOf' \in {contextOf, h, Nowhere}
      BY <1>10, ClickTabDoes DEF ClickTab, ActivateTab, ActivateHere, ActivateThere
    <2>2. \/ Same(task[h], task'[h]) /\ contextOf' \in {contextOf, Nowhere}
          \/ ~Answered(h) /\ task[h].at # "proving" /\ task'[h].at # "proving"
      BY <1>10, ClickTabDoes DEF New, Ended, Stays, Same, NoTask
    <2> QED
      BY <1>10, <1>0, <2>1, <2>2, ClickTabDoes, ToldIsSame, ShownQuietly
  <1>11. ASSUME NEW h \in Handlers, NEW e \in Editors, CloseTab(h, e) PROVE ShownWillBeActive'
    <2>1. contextOf' \in {contextOf, h, Nowhere}
      BY <1>11, CloseTabDoes DEF CloseTab, ActivateTab, ActivateHere, ActivateThere, moveVars
    <2>2. \/ Same(task[h], task'[h]) /\ contextOf' \in {contextOf, Nowhere}
          \/ ~Answered(h) /\ task[h].at # "proving" /\ task'[h].at # "proving"
      BY <1>11, CloseTabDoes DEF New, Ended, Stays, Same, NoTask
    <2> QED
      BY <1>11, <1>0, <2>1, <2>2, CloseTabDoes, ToldIsSame, ShownQuietly
  <1>12. ASSUME NEW h \in Handlers, CancelBatch(h) PROVE ShownWillBeActive'
    <2>1. contextOf' \in {contextOf, h, Nowhere}
      BY <1>12, CancelBatchDoes
    <2>2. \/ Same(task[h], task'[h]) /\ contextOf' \in {contextOf, Nowhere}
          \/ ~Answered(h) /\ task[h].at # "proving" /\ task'[h].at # "proving"
      BY <1>12, CancelBatchDoes DEF New, Ended, Stays, Same, NoTask
    <2> QED
      BY <1>12, <1>0, <2>1, <2>2, CancelBatchDoes, ToldIsSame, ShownQuietly
  <1>13. ASSUME NEW h \in Handlers, SaveEnds(h) PROVE ShownWillBeActive'
    <2>1. contextOf' \in {contextOf, h, Nowhere}
      BY <1>13, SaveEndsDoes DEF SaveEnds, ActivateHere, ActivateThere, moveVars
    <2>2. \/ Same(task[h], task'[h]) /\ contextOf' \in {contextOf, Nowhere}
          \/ ~Answered(h) /\ task[h].at # "proving" /\ task'[h].at # "proving"
      BY <1>13, SaveEndsDoes DEF New, Ended, Stays, Same, NoTask
    <2> QED
      BY <1>13, <1>0, <2>1, <2>2, SaveEndsDoes, ToldIsSame, ShownQuietly
  <1>14. ASSUME NEW h \in Handlers, NEW s \in Sendable, NextStatement(h, s) PROVE ShownWillBeActive'
    <2>1. contextOf' \in {contextOf, h, Nowhere}
      BY <1>14, NextStatementDoes
    <2>2. \/ Same(task[h], task'[h]) /\ contextOf' \in {contextOf, Nowhere}
          \/ ~Answered(h) /\ task[h].at # "proving" /\ task'[h].at # "proving"
      BY <1>14, NextStatementDoes DEF New, Ended, Stays, Same, NoTask
    <2> QED
      BY <1>14, <1>0, <2>1, <2>2, NextStatementDoes, ToldIsSame, ShownQuietly
  <1>15. ASSUME NEW h \in Handlers, ReadActive(h) PROVE ShownWillBeActive'
    BY <1>15, <1>0, ReadActiveShown
  <1>16. ASSUME NEW h \in Handlers, Overtaken(h) PROVE ShownWillBeActive'
    <2>1. selected' = selected /\ schemaShown' = IF Carries(h, selected) THEN task[h].to ELSE schemaShown
      BY <1>16, OvertakenDoes DEF Carries
    <2>2. h \in replies /\ replies' = replies \ {h} /\ task[h].at # "resetting"
      BY <1>16, OvertakenDoes DEF Overtaken, Receives
    <2>3. OthersSame(h) /\ task'[h].at # "proving"
      BY <1>16, OvertakenDoes, ToldIsSame DEF New, Ended
    <2> QED
      BY <1>16, <1>0, <2>1, <2>2, <2>3, OvertakenDoes, ShownTaken
  <1>17. ASSUME NEW h \in Handlers, CommitContext(h) PROVE ShownWillBeActive'
    <2>1. LoadsContext(h, selected') /\ schemaShown' = task[h].db
      BY <1>17, CommitContextDoes DEF CommitContext, LoadsContext
    <2>2. h \in replies /\ replies' = replies \ {h} /\ task[h].at # "resetting"
      BY <1>17, CommitContextDoes DEF CommitContext, Receives
    <2>3. OthersSame(h) /\ task'[h].at # "proving"
      BY <1>17, CommitContextDoes, ToldIsSame DEF New, Ended
    <2> QED
      BY <1>17, <1>0, <2>1, <2>2, <2>3, CommitContextDoes, ShownTaken
  <1>18. ASSUME NEW h \in Handlers, FileRead(h) PROVE ShownWillBeActive'
    <2>1. contextOf' \in {contextOf, h, Nowhere}
      BY <1>18, FileReadDoes
    <2>2. \/ Same(task[h], task'[h]) /\ contextOf' \in {contextOf, Nowhere}
          \/ ~Answered(h) /\ task[h].at # "proving" /\ task'[h].at # "proving"
      BY <1>18, FileReadDoes DEF New, Ended, Stays, Same, NoTask
    <2> QED
      BY <1>18, <1>0, <2>1, <2>2, FileReadDoes, ToldIsSame, ShownQuietly
  <1>19. ASSUME NEW h \in Handlers, ListSchemas(h) PROVE ShownWillBeActive'
    BY <1>19, <1>0, ListSchemasDoes, QuietAnswerShown
  <1>20. ASSUME NEW h \in Handlers, SchemasListed(h) PROVE ShownWillBeActive'
    <2>1. selected' = selected /\ schemaShown' = IF Carries(h, selected) THEN task[h].to ELSE schemaShown
      BY <1>20, SchemasListedDoes DEF Carries
    <2>2. h \in replies /\ replies' = replies \ {h} /\ task[h].at # "resetting"
      BY <1>20, SchemasListedDoes DEF SchemasListed, Receives
    <2>3. OthersSame(h) /\ task'[h].at # "proving"
      BY <1>20, SchemasListedDoes, ToldIsSame DEF New, Ended
    <2> QED
      BY <1>20, <1>0, <2>1, <2>2, <2>3, SchemasListedDoes, ShownTaken
  <1>21. ASSUME NEW h \in Handlers, SendChange(h) PROVE ShownWillBeActive'
    <2>1. contextOf' \in {contextOf, h, Nowhere}
      BY <1>21, SendChangeDoes
    <2>2. \/ Same(task[h], task'[h]) /\ contextOf' \in {contextOf, Nowhere}
          \/ ~Answered(h) /\ task[h].at # "proving" /\ task'[h].at # "proving"
      BY <1>21, SendChangeDoes DEF New, Ended, Stays, Same, NoTask
    <2> QED
      BY <1>21, <1>0, <2>1, <2>2, SendChangeDoes, ToldIsSame, ShownQuietly
  <1>22. ASSUME NEW h \in Handlers, SetActiveSchema(h) PROVE ShownWillBeActive'
    BY <1>22, <1>0, SetActiveSchemaShown
  <1>23. ASSUME NEW h \in Handlers, ActiveSchemaSet(h) PROVE ShownWillBeActive'
    <2>1. selected' = selected /\ schemaShown' = IF Carries(h, selected) THEN task[h].to ELSE schemaShown
      BY <1>23, ActiveSchemaSetDoes, NowhereIsApart DEF Carries, Show, ActiveSchemaSet, WbTyped, TasksProper,
         Proper, WellFormed, CallsAreAnswered
    <2>2. h \in replies /\ replies' = replies \ {h} /\ task[h].at # "resetting"
      BY <1>23, ActiveSchemaSetDoes DEF ActiveSchemaSet, Receives
    <2>3. OthersSame(h) /\ task'[h].at # "proving"
      BY <1>23, ActiveSchemaSetDoes, ToldIsSame DEF New, Ended
    <2> QED
      BY <1>23, <1>0, <2>1, <2>2, <2>3, ActiveSchemaSetDoes, ShownTaken
  <1>24. ASSUME NEW h \in Handlers, RunStatement(h) PROVE ShownWillBeActive'
    BY <1>24, <1>0, RunStatementDoes, QuietAnswerShown
  <1>25. ASSUME NEW h \in Handlers, TryDatabase(h) PROVE ShownWillBeActive'
    BY <1>25, <1>0, TryDatabaseShown
  <1>26. ASSUME NEW h \in Handlers, Proved(h) PROVE ShownWillBeActive'
    BY <1>26, <1>0, ProvedShown
  <1>27. ASSUME NEW h \in Handlers, NotProved(h) PROVE ShownWillBeActive'
    BY <1>27, <1>0, NotProvedShown
  <1>28. ASSUME NEW h \in Handlers, Confirmed(h) PROVE ShownWillBeActive'
    <2>1. contextOf' \in {contextOf, h, Nowhere}
      BY <1>28, ConfirmedDoes
    <2>2. \/ Same(task[h], task'[h]) /\ contextOf' \in {contextOf, Nowhere}
          \/ ~Answered(h) /\ task[h].at # "proving" /\ task'[h].at # "proving"
      BY <1>28, ConfirmedDoes DEF New, Ended, Stays, Same, NoTask
    <2> QED
      BY <1>28, <1>0, <2>1, <2>2, ConfirmedDoes, ToldIsSame, ShownQuietly
  <1>29. ASSUME NEW h \in Handlers, Ran(h) PROVE ShownWillBeActive'
    <2>1. selected' = selected /\ schemaShown' = IF Carries(h, selected) THEN task[h].to ELSE schemaShown
      BY <1>29, RanDoes, NowhereIsApart DEF Carries, Show, Ran, WbTyped, TasksProper, Proper, WellFormed,
         CallsAreAnswered
    <2>2. h \in replies /\ replies' = replies \ {h} /\ task[h].at # "resetting"
      BY <1>29, RanDoes DEF Ran, Receives
    <2>3. OthersSame(h) /\ task'[h].at # "proving"
      BY <1>29, RanDoes, ToldIsSame DEF New, Ended
    <2> QED
      BY <1>29, <1>0, <2>1, <2>2, <2>3, RanDoes, ShownTaken
  <1>30. ASSUME NEW h \in Handlers, Checked(h) PROVE ShownWillBeActive'
    <2>1. selected' = selected /\ schemaShown' = IF Carries(h, selected) THEN task[h].to ELSE schemaShown
      BY <1>30, CheckedDoes DEF Carries
    <2>2. h \in replies /\ replies' = replies \ {h} /\ task[h].at # "resetting"
      BY <1>30, CheckedDoes DEF Checked, Receives
    <2>3. OthersSame(h) /\ task'[h].at # "proving"
      BY <1>30, CheckedDoes, ToldIsSame DEF New, Ended
    <2> QED
      BY <1>30, <1>0, <2>1, <2>2, <2>3, CheckedDoes, ShownTaken
  <1>31. ASSUME NEW h \in Handlers, RunStatements(h) PROVE ShownWillBeActive'
    BY <1>31, <1>0, RunStatementsDoes, QuietAnswerShown
  <1>32. ASSUME NEW h \in Handlers, Applied(h) PROVE ShownWillBeActive'
    <2>1. selected' = selected /\ schemaShown' = IF Carries(h, selected) THEN task[h].to ELSE schemaShown
      BY <1>32, AppliedDoes DEF Carries
    <2>2. h \in replies /\ replies' = replies \ {h} /\ task[h].at # "resetting"
      BY <1>32, AppliedDoes DEF Applied, Receives
    <2>3. OthersSame(h) /\ task'[h].at # "proving"
      BY <1>32, AppliedDoes, ToldIsSame DEF New, Ended
    <2> QED
      BY <1>32, <1>0, <2>1, <2>2, <2>3, AppliedDoes, ShownTaken
  <1>33. ASSUME NEW h \in Handlers, BatchSaved(h) PROVE ShownWillBeActive'
    <2>1. contextOf' \in {contextOf, h, Nowhere}
      BY <1>33, BatchSavedDoes
    <2>2. \/ Same(task[h], task'[h]) /\ contextOf' \in {contextOf, Nowhere}
          \/ ~Answered(h) /\ task[h].at # "proving" /\ task'[h].at # "proving"
      BY <1>33, BatchSavedDoes DEF New, Ended, Stays, Same, NoTask
    <2> QED
      BY <1>33, <1>0, <2>1, <2>2, BatchSavedDoes, ToldIsSame, ShownQuietly
  <1>34. ASSUME NEW h \in Handlers, BatchRan(h) PROVE ShownWillBeActive'
    <2>1. selected' = selected /\ schemaShown' = IF Carries(h, selected) THEN task[h].to ELSE schemaShown
      BY <1>34, BatchRanDoes, NowhereIsApart DEF Carries, Show, BatchRan, WbTyped, TasksProper, Proper, WellFormed,
         CallsAreAnswered
    <2>2. h \in replies /\ replies' = replies \ {h} /\ task[h].at # "resetting"
      BY <1>34, BatchRanDoes DEF BatchRan, Receives
    <2>3. OthersSame(h) /\ task'[h].at # "proving"
      BY <1>34, BatchRanDoes, ToldIsSame DEF New, Ended
    <2> QED
      BY <1>34, <1>0, <2>1, <2>2, <2>3, BatchRanDoes, ShownTaken
  <1>35. ASSUME NEW h \in Handlers, AnswerPrompt(h) PROVE ShownWillBeActive'
    <2>1. contextOf' \in {contextOf, h, Nowhere}
      BY <1>35, AnswerPromptDoes
    <2>2. \/ Same(task[h], task'[h]) /\ contextOf' \in {contextOf, Nowhere}
          \/ ~Answered(h) /\ task[h].at # "proving" /\ task'[h].at # "proving"
      BY <1>35, AnswerPromptDoes DEF New, Ended, Stays, Same, NoTask
    <2> QED
      BY <1>35, <1>0, <2>1, <2>2, AnswerPromptDoes, ToldIsSame, ShownQuietly
  <1>36. ASSUME NEW h \in Handlers, GiveUpReload(h) PROVE ShownWillBeActive'
    <2>1. contextOf' \in {contextOf, h, Nowhere}
      BY <1>36, GiveUpReloadDoes
    <2>2. \/ Same(task[h], task'[h]) /\ contextOf' \in {contextOf, Nowhere}
          \/ ~Answered(h) /\ task[h].at # "proving" /\ task'[h].at # "proving"
      BY <1>36, GiveUpReloadDoes DEF New, Ended, Stays, Same, NoTask
    <2> QED
      BY <1>36, <1>0, <2>1, <2>2, GiveUpReloadDoes, ToldIsSame, ShownQuietly
  <1>37. ASSUME NEW h \in Handlers, ConnectionsLoaded(h) PROVE ShownWillBeActive'
    <2>1. contextOf' \in {contextOf, h, Nowhere}
      BY <1>37, ConnectionsLoadedDoes DEF ConnectionsLoaded, SelectConnection
    <2>2. \/ Same(task[h], task'[h]) /\ contextOf' \in {contextOf, Nowhere}
          \/ ~Answered(h) /\ task[h].at # "proving" /\ task'[h].at # "proving"
      BY <1>37, ConnectionsLoadedDoes DEF New, Ended, Stays, Same, NoTask
    <2> QED
      BY <1>37, <1>0, <2>1, <2>2, ConnectionsLoadedDoes, ToldIsSame, ShownQuietly
  <1>38. ASSUME NEW h \in Handlers, SendReset(h) PROVE ShownWillBeActive'
    BY <1>38, <1>0, SendResetShown
  <1>39. ASSUME NEW h \in Handlers, ResetConnections(h) PROVE ShownWillBeActive'
    BY <1>39, <1>0, ResetConnectionsShown
  <1>40. ASSUME NEW h \in Handlers, ResetDone(h) PROVE ShownWillBeActive'
    BY <1>40, <1>0, ResetDoneShown
  <1>41. CASE Stay
    <2>1. task' = task /\ UNCHANGED <<replies, selected, schemaShown, override>> /\
          contextOf' \in {contextOf, Nowhere}
      BY <1>41 DEF Stay, Acts, backendVars, historyVars
    <2>2. OthersSame(Nowhere) /\ Nowhere \notin Handlers
      BY <2>1, WorkbenchAssumption DEF OthersSame, Same
    <2> QED
      BY <1>0, <2>1, <2>2, ShownQuietly
  <1>42. CASE ToggleWritable
    <2>1. task' = task /\ UNCHANGED <<replies, selected, schemaShown, override>> /\
          contextOf' \in {contextOf, Nowhere}
      BY <1>42 DEF ToggleWritable, Acts, backendVars, moveVars
    <2>2. OthersSame(Nowhere) /\ Nowhere \notin Handlers
      BY <2>1, WorkbenchAssumption DEF OthersSame, Same
    <2> QED
      BY <1>0, <2>1, <2>2, ShownQuietly
  <1>43. CASE UNCHANGED wbVars
    <2>1. task' = task /\ UNCHANGED <<replies, selected, schemaShown, override>> /\
          contextOf' \in {contextOf, Nowhere}
      BY <1>43 DEF wbVars, backendVars, moveVars, historyVars
    <2>2. OthersSame(Nowhere) /\ Nowhere \notin Handlers
      BY <2>1, WorkbenchAssumption DEF OthersSame, Same
    <2> QED
      BY <1>0, <2>1, <2>2, ShownQuietly
  <1> QED
    BY <1>1, <1>2, <1>3, <1>4, <1>5, <1>6, <1>7, <1>8, <1>9, <1>10, <1>11, <1>12, <1>13, <1>14, <1>15, <1>16,
       <1>17, <1>18, <1>19, <1>20, <1>21, <1>22, <1>23, <1>24, <1>25, <1>26, <1>27, <1>28, <1>29, <1>30, <1>31,
       <1>32, <1>33, <1>34, <1>35, <1>36, <1>37, <1>38, <1>39, <1>40, <1>41, <1>42, <1>43 DEF WbNext

----------------------------------------------------------------------------
(* The invariant, and what it says                                         *)

WbInv ==
  /\ WbTyped /\ WritableOnlyWhereTurnedOn
  /\ RunsApart /\ SentBeforeReset /\ LostIsUnseen /\ BatchKnowsDatabase
  /\ ConnectedIsNeeded /\ CommitterKnowsSelected
  /\ PendingIsOk /\ ShownWillBeActive

LEMMA WbInvInit == WbInit => WbInv
  <1> SUFFICES ASSUME WbInit PROVE WbInv
    OBVIOUS
  <1>1. WbTyped
    BY InitTyped
  <1>2. \A h \in Handlers : task[h].at = "idle" /\ task[h].kind = "none" /\ task[h].ok
    BY DEF WbInit, NoTask
  <1>3. selected = Nowhere /\ established = {} /\ contextOf = Nowhere /\ writable = FALSE
    BY DEF WbInit
  <1>4. /\ WritableOnlyWhereTurnedOn /\ RunsApart /\ SentBeforeReset /\ LostIsUnseen /\ BatchKnowsDatabase
        /\ PendingIsOk
    BY <1>2, <1>3 DEF WritableOnlyWhereTurnedOn, RunsApart, OneRunAtATime, BatchMeetsNoSwitch, ReloadStopsBatches,
                      Batch, OccupiesConnection, SentBeforeReset, LostIsUnseen, Lost, BatchKnowsDatabase, Relies,
                      PendingIsOk, Pending
  <1>5. ConnectedIsNeeded /\ CommitterKnowsSelected
    BY <1>2, <1>3 DEF ConnectedIsNeeded, Held, CommitterKnowsSelected
  <1>6. ShownWillBeActive
    <2>1. \A h \in Handlers : \A c : ~Shows(h, c)
      BY DEF WbInit, Shows
    <2> QED
      BY <1>3, <2>1, NowhereIsApart DEF ShownWillBeActive
  <1> QED
    BY <1>1, <1>4, <1>5, <1>6 DEF WbInv

LEMMA WbInvStep == WbInv /\ [WbNext]_wbVars => WbInv'
  BY TypedStep, WritableStep, ApartStep, SentStep, UnseenStep, KnowsStep, ConnectedStep, CommitterStep,
     PendingStep, ShownStep
  DEF WbInv

LEMMA WbInvariance == WbSpec => []WbInv
  BY WbInvInit, WbInvStep, PTL DEF WbSpec

(* The context of the store has its types, and the locals of an operation  *)
(* are those it has set by then.                                           *)
THEOREM WorkbenchTypeCorrect == WbSpec => []WbTypeOK
  <1>1. WbInv => WbTypeOK
    BY DEF WbInv, WbTyped
  <1> QED
    BY <1>1, WbInvariance, PTL

(* A connection executes one thing at a time, whatever was started while   *)
(* another was being confirmed (isConnectionRunning).                      *)
THEOREM OneRunPerConnection == WbSpec => []OneRunAtATime
  <1>1. WbInv => OneRunAtATime
    BY DEF WbInv, RunsApart
  <1> QED
    BY <1>1, WbInvariance, PTL

(* Writes stay allowed only on the connection they were allowed on         *)
(* (applyConnectionContext, reloadConnections).                            *)
THEOREM WritesStayWhereAllowed == WbSpec => []WritableOnlyWhereTurnedOn
  <1>1. WbInv => WritableOnlyWhereTurnedOn
    BY DEF WbInv
  <1> QED
    BY <1>1, WbInvariance, PTL

(* Nothing but its own `\c` changes the database under a batch             *)
(* (batchStartBlocker, changeActiveSchema, reloadConnections).             *)
THEOREM BatchKeepsItsDatabase == WbSpec => []BatchStaysOnItsDatabase
  <1>1. WbInv => BatchStaysOnItsDatabase
    <2> SUFFICES ASSUME WbInv, NEW h \in Handlers,
                        task[h].kind = "batch", task[h].at = "running", h \notin replies, task[h].db # Nowhere,
                        ~task[h].overtaken, task[h].on \notin exempt.astray
                 PROVE  ActiveOf(task[h].on) = task[h].db
      BY DEF BatchStaysOnItsDatabase
    <2>1. ~task[h].old
      BY DEF WbInv, SentBeforeReset, Answered
    <2>2. Relies(h)
      BY <2>1 DEF Relies, Answered
    <2> QED
      BY <2>2 DEF WbInv, BatchKnowsDatabase
  <1> QED
    BY <1>1, WbInvariance, PTL

(* A connection nobody needs is closed, or will be looked at               *)
(* (maybeDisconnectIfIdle, loadConnectionSchemaResources).                 *)
THEOREM IdleConnectionsClose == WbSpec => []EstablishedIsNeeded
  <1>1. WbInv => EstablishedIsNeeded
    <2> SUFFICES ASSUME WbInv, NEW c \in established
                 PROVE  \/ c = selected \/ IsNeeded(c, task, openTabs) \/ c \in exempt.unclosed
                        \/ \E h \in Handlers : task[h].then = c
      BY DEF EstablishedIsNeeded
    <2>1. c \in Names /\ Held(c)
      BY DEF WbInv, WbTyped, WbTypeOK, Held
    <2>2. Justified(c)
      BY <2>1 DEF WbInv, ConnectedIsNeeded
    <2> QED
      BY <2>2 DEF Justified
  <1> QED
    BY <1>1, WbInvariance, PTL

(* The database shown is the one statements run on once no change of it is *)
(* under way (applyConnectionContext, changeActiveSchema, adoptSchema).    *)
THEOREM ShownDatabaseIsActive == WbSpec => []ShownIsActive
  <1>1. WbInv => ShownIsActive
    <2> SUFFICES ASSUME WbInv, selected # Nowhere, selected \notin exempt.astray,
                        \A h \in Handlers : task[h].on \in {selected, Nowhere} => ~ChangesDatabase(task[h])
                 PROVE  schemaShown = ActiveOf(selected)
      BY DEF ShownIsActive
    <2>1. WbTyped /\ selected \in Names
      BY DEF WbInv, WbTyped, WbTypeOK
    <2>2. ~ResetDoneSoon
      BY <2>1 DEF ResetDoneSoon, ChangesDatabase, WbTyped, TasksProper, Proper, WellFormed
    <2>3. Silent(selected)
      BY DEF Silent, Carries, ChangesDatabase
    <2>4. Settles(selected, schemaShown)
      BY <2>1, <2>2, <2>3 DEF WbInv, ShownWillBeActive
    <2>5. \A h \in Handlers : ~Tries(h, selected)
      BY <2>1 DEF Tries, ChangesDatabase, WbTyped, CallsAreAnswered
    <2> QED
      BY <2>4, <2>5 DEF Settles
  <1> QED
    BY <1>1, WbInvariance, PTL

(* The context of the store keeps its whole promise.                       *)
THEOREM WorkbenchKeepsPromise == WbSpec => []WorkbenchHolds
  BY WorkbenchTypeCorrect, OneRunPerConnection, WritesStayWhereAllowed, BatchKeepsItsDatabase,
     IdleConnectionsClose, ShownDatabaseIsActive, PTL
  DEF WorkbenchHolds, WorkbenchPromise

=============================================================================
