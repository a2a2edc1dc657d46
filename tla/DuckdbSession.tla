--------------------------- MODULE DuckdbSession ---------------------------
(***************************************************************************)
(* The DuckDB engine (engines/duckdb.rs): one connection in the process,   *)
(* its statements executed on blocking threads that no abort can stop.     *)
(* `exec` serializes executions, the connection's mutex what really runs,  *)
(* and a cancel interrupts whatever the connection is executing.           *)
(***************************************************************************)
EXTENDS Naturals

CONSTANTS
  TableRuns,    \* statements of the user; an abort may drop their futures
  GuardedRuns,  \* statements of the chat agent
  Lookups,      \* catalog queries (query_rows)
  Free          \* nobody

ASSUME DuckdbAssumption ==
  /\ Free \notin TableRuns \cup GuardedRuns \cup Lookups
  /\ TableRuns \cap GuardedRuns = {} /\ (TableRuns \cup GuardedRuns) \cap Lookups = {}

DkRuns == TableRuns \cup GuardedRuns
Executions == DkRuns \cup Lookups

VARIABLES
  dkAt,         \* where the future of each execution is
  task,         \* where its blocking thread is
  exec,         \* who holds the async lock
  conn,         \* whose thread holds the connection
  opens,        \* executions of the user that open a transaction
  openedBy,     \* who opened the connection's transaction: a user, an agent, Free
  regs,         \* runs in CancelRegistry (one entry under each key)
  asked,        \* runs whose `cancelled` flag is set
  aimed,        \* runs at which an interrupt is on its way
  early         \* history: runs flagged before their thread had the connection

dkVars == <<dkAt, task, exec, conn, opens, openedBy, regs, asked, aimed, early>>

DkTypeOK ==
  /\ dkAt \in [Executions -> {"new", "awaiting", "finished", "cancelled", "dropped"}]
  /\ task \in [Executions -> {"none", "queued", "holds", "readOnly", "statement", "executes", "done", "failed", "refused"}]
  /\ exec \in Executions \cup {Free} /\ conn \in Executions \cup {Free}
  /\ opens \subseteq TableRuns /\ openedBy \in DkRuns \cup {Free}
  /\ regs \subseteq DkRuns /\ asked \subseteq DkRuns /\ aimed \subseteq DkRuns
  /\ early \subseteq asked

DkInit ==
  /\ dkAt = [e \in Executions |-> "new"] /\ task = [e \in Executions |-> "none"]
  /\ exec = Free /\ conn = Free
  /\ opens \in SUBSET TableRuns /\ openedBy = Free
  /\ regs = {} /\ asked = {} /\ aimed = {} /\ early = {}

TaskTo(e, at) == task' = [task EXCEPT ![e] = at]

----------------------------------------------------------------------------
(* The future: take exec, register, spawn the blocking thread and wait.    *)

NeedsExecOfRuns(e) == e \in DkRuns  \* fault: catalog queries take the connection only
NeedsExec(e) == TRUE
BeginExecution(e) ==
  /\ dkAt[e] = "new" /\ (NeedsExec(e) => exec = Free)
  /\ exec' = IF NeedsExec(e) THEN e ELSE exec
  /\ regs' = regs \cup ({e} \cap DkRuns)
  /\ dkAt' = [dkAt EXCEPT ![e] = "awaiting"]
  /\ TaskTo(e, "queued")
  /\ UNCHANGED <<conn, opens, openedBy, asked, aimed, early>>

(* The thread has ended: the registration and the lock are released.       *)
CancelledWins(e) == IF e \in asked THEN "cancelled" ELSE "finished"  \* fault: a result that came anyway is dropped
Outcome(e) == IF e \in asked /\ task[e] # "done" THEN "cancelled" ELSE "finished"
FinishExecution(e) ==
  /\ dkAt[e] = "awaiting" /\ task[e] \in {"done", "failed", "refused"}
  /\ dkAt' = [dkAt EXCEPT ![e] = Outcome(e)]
  /\ regs' = regs \ {e}
  /\ exec' = IF exec = e THEN Free ELSE exec
  /\ UNCHANGED <<task, conn, opens, openedBy, asked, aimed, early>>

(* An abort drops the future; the thread goes on.                          *)
DropFuture(e) ==
  /\ e \in TableRuns /\ dkAt[e] \in {"new", "awaiting"}
  /\ dkAt' = [dkAt EXCEPT ![e] = "dropped"]
  /\ regs' = regs \ {e}
  /\ exec' = IF exec = e THEN Free ELSE exec
  /\ UNCHANGED <<task, conn, opens, openedBy, asked, aimed, early>>

----------------------------------------------------------------------------
(* execute_blocking and execute_statement_blocking *)

LockConnection(e) ==
  /\ task[e] = "queued" /\ conn = Free
  /\ conn' = e
  /\ TaskTo(e, "holds")
  /\ UNCHANGED <<dkAt, exec, opens, openedBy, regs, asked, aimed, early>>

NotLookedAt(e) == FALSE  \* fault: the flag is left to the interrupt
FlagSeen(e) == e \in asked
CheckFlag(e) ==
  /\ task[e] = "holds"
  /\ IF FlagSeen(e) THEN TaskTo(e, "refused") /\ conn' = Free
     ELSE TaskTo(e, IF e \in GuardedRuns THEN "readOnly" ELSE "statement") /\ UNCHANGED conn
  /\ UNCHANGED <<dkAt, exec, opens, openedBy, regs, asked, aimed, early>>

(* BEGIN TRANSACTION READ ONLY: an error inside a transaction the user has *)
(* left open.                                                              *)
RollbackAnyway(e) == openedBy' = Free  \* fault: ROLLBACK whatever BEGIN said
LeaveTransaction(e) == UNCHANGED openedBy
BeginReadOnly(e) ==
  /\ task[e] = "readOnly"
  /\ IF openedBy = Free THEN openedBy' = e /\ TaskTo(e, "statement") /\ UNCHANGED conn
     ELSE LeaveTransaction(e) /\ TaskTo(e, "failed") /\ conn' = Free
  /\ UNCHANGED <<dkAt, exec, opens, regs, asked, aimed, early>>

StartStatement(e) ==
  /\ task[e] = "statement"
  /\ TaskTo(e, "executes")
  /\ UNCHANGED <<dkAt, exec, conn, opens, openedBy, regs, asked, aimed, early>>

(* ROLLBACK belongs to the same call of execute_blocking: an interrupt     *)
(* ends the statement, not the function.                                   *)
EndStatement(e, how) ==
  /\ TaskTo(e, how)
  /\ conn' = Free
  /\ openedBy' = IF e \in GuardedRuns THEN Free
                 ELSE IF e \in opens /\ how = "done" /\ openedBy = Free THEN e ELSE openedBy

StatementReturns(e) ==
  /\ task[e] = "executes"
  /\ \E how \in {"done", "failed"} : EndStatement(e, how)
  /\ UNCHANGED <<dkAt, exec, opens, regs, asked, aimed, early>>

----------------------------------------------------------------------------
(* CancelRegistry::cancel_matching: the flag under the registry's lock,    *)
(* the interrupt after it is released.                                     *)

SetFlag(e) ==
  /\ e \in regs /\ e \notin asked
  /\ asked' = asked \cup {e}
  /\ aimed' = aimed \cup {e}
  /\ early' = IF task[e] = "queued" THEN early \cup {e} ELSE early
  /\ UNCHANGED <<dkAt, task, exec, conn, opens, openedBy, regs>>

Interrupt(e) ==
  /\ e \in aimed
  /\ aimed' = aimed \ {e}
  /\ IF conn # Free /\ task[conn] = "executes"
       THEN EndStatement(conn, "failed") ELSE UNCHANGED <<task, conn, openedBy>>
  /\ UNCHANGED <<dkAt, exec, opens, regs, asked, early>>

(* The user ends the transaction by a statement of its own.                *)
EndOwnTransaction ==
  /\ conn = Free /\ exec = Free /\ openedBy \in TableRuns
  /\ openedBy' = Free
  /\ UNCHANGED <<dkAt, task, exec, conn, opens, regs, asked, aimed, early>>

DkNext ==
  \/ \E e \in Executions :
       \/ BeginExecution(e) \/ FinishExecution(e)
       \/ LockConnection(e) \/ CheckFlag(e) \/ StartStatement(e) \/ StatementReturns(e)
  \/ \E e \in GuardedRuns : BeginReadOnly(e)
  \/ \E e \in TableRuns : DropFuture(e)
  \/ \E e \in DkRuns : SetFlag(e) \/ Interrupt(e)
  \/ EndOwnTransaction
DkSpec == DkInit /\ [][DkNext]_dkVars

----------------------------------------------------------------------------
(* Properties *)

(* "Serializing execution with this lock guarantees the registration       *)
(* always matches the statement that is actually running": while the run   *)
(* that is cancelled is registered, its cancel ends that run's statement   *)
(* or one whose future was dropped, never that of another execution.       *)
InterruptsMatch ==
  [][\A e \in (aimed \ aimed') \cap regs : task' # task => conn = e \/ dkAt[conn] = "dropped"]_dkVars

(* "a cancel that arrived before execution started is caught here": a run  *)
(* flagged while its thread was waiting for the connection never executes. *)
CancelledInTimeNeverRuns == \A e \in early : task[e] # "executes"

(* An agent's statement executes in its own read-only transaction, which   *)
(* is over when the connection is free again.                              *)
AgentsOnlyRead ==
  /\ \A e \in GuardedRuns : task[e] \in {"statement", "executes"} => openedBy = e
  /\ conn = Free => openedBy \notin GuardedRuns

(* A transaction the user opened stays open, unusable at worst, until the  *)
(* user ends it: neither a cancel, nor an abort, nor the agent's ROLLBACK  *)
(* does.                                                                   *)
UserEndsTransactions ==
  [][openedBy' # openedBy /\ openedBy \in TableRuns => EndOwnTransaction]_dkVars

(* "the successful result wins": a statement that completed is never       *)
(* reported as cancelled, and one that is was cancelled.                   *)
ReportsWhatHappened ==
  \A e \in DkRuns : dkAt[e] = "cancelled" => e \in asked /\ task[e] # "done"

DuckdbPromise ==
  /\ [](CancelledInTimeNeverRuns /\ AgentsOnlyRead /\ ReportsWhatHappened)
  /\ InterruptsMatch /\ UserEndsTransactions
=============================================================================
