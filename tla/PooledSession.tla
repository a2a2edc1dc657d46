--------------------------- MODULE PooledSession ---------------------------
(***************************************************************************)
(* What a statement finds on the pooled session it gets, and what it       *)
(* leaves there (db.rs): run_query_cancellable with its read-only modes,   *)
(* the cell edits of run_statements, and the catalog reads, on an engine   *)
(* that sqlx drives.  On SQLite the read-only mode is PRAGMA query_only    *)
(* and the cancel hook a progress handler, both settings of the session;   *)
(* on Postgres and MySQL it is a read-only transaction.                    *)
(*                                                                         *)
(* A displayed run whose cancel flag is set is only ever dropped after its *)
(* pool (QueryCancel), so here it is dropped unflagged or not at all; an   *)
(* agent's run is dropped when the chat is stopped.  BEGIN and COMMIT      *)
(* among the user's own statements are not modelled.                       *)
(***************************************************************************)
EXTENDS Naturals, FiniteSets

CONSTANTS
  UserRuns,    \* run_query_cancellable with writes allowed (ReadonlyGuard::Off)
  AgentRuns,   \* run_query_cancellable of the chat agent (ReadonlyGuard::Agent)
  CellEdits,   \* run_statements
  Catalogs,    \* catalog reads (list_tables, get_primary_keys, ...)
  PoolSessions, \* the sessions of the pool
  EditSize,    \* bound: the statements of a cell edit
  NoOne

QueryRuns == UserRuns \cup AgentRuns
Work == QueryRuns \cup CellEdits \cup Catalogs

ASSUME WorkAssumption ==
  /\ UserRuns \cap AgentRuns = {} /\ QueryRuns \cap CellEdits = {}
  /\ Catalogs \cap (QueryRuns \cup CellEdits) = {}
  /\ NoOne \notin PoolSessions \cup Work \cup {"readonly"} /\ "readonly" \notin CellEdits
ASSUME EditSizeAssumption == EditSize \in Nat \ {0}

VARIABLES
  sqlite,      \* which kind of engine; does not change
  workStep,    \* where a piece of work is
  conn,        \* the session it holds, or NoOne
  queryOnly,   \* sessions with PRAGMA query_only = 1
  tx,          \* the open transaction of a session: NoOne, "readonly" or the edit's
  handler,     \* the run whose flag a session's progress handler watches
  cancelFlag,  \* runs whose cancel flag is set
  applied,     \* statements of an edit executed in its transaction ...
  committed,   \* ... and made permanent
  ending       \* how a piece of work ended

psVars == <<sqlite, workStep, conn, queryOnly, tx, handler, cancelFlag, applied, committed, ending>>

PsTypeOK ==
  /\ sqlite \in BOOLEAN
  /\ workStep \in [Work -> {"new", "acquired", "hooked", "running", "rollback", "done"}]
  /\ conn \in [Work -> PoolSessions \cup {NoOne}]
  /\ queryOnly \subseteq PoolSessions
  /\ tx \in [PoolSessions -> {NoOne, "readonly"} \cup CellEdits]
  /\ handler \in [PoolSessions -> QueryRuns \cup {NoOne}]
  /\ cancelFlag \subseteq QueryRuns
  /\ applied \in [CellEdits -> 0 .. EditSize]
  /\ committed \in [CellEdits -> 0 .. EditSize]
  /\ ending \in [Work -> {NoOne, "ok", "error", "refused", "interrupted", "dropped"}]

PsInit ==
  /\ sqlite \in BOOLEAN
  /\ workStep = [w \in Work |-> "new"]
  /\ conn = [w \in Work |-> NoOne]
  /\ queryOnly = {} /\ cancelFlag = {}
  /\ tx = [c \in PoolSessions |-> NoOne]
  /\ handler = [c \in PoolSessions |-> NoOne]
  /\ applied = [e \in CellEdits |-> 0] /\ committed = [e \in CellEdits |-> 0]
  /\ ending = [w \in Work |-> NoOne]

Advance(w, s) == workStep' = [workStep EXCEPT ![w] = s]

(* The work is over and its session is back in the pool.                   *)
Release(w, how) ==
  /\ Advance(w, "done")
  /\ conn' = [conn EXCEPT ![w] = NoOne]
  /\ ending' = [ending EXCEPT ![w] = how]

AcquireConnection(w) ==
  /\ workStep[w] = "new"
  /\ \E c \in PoolSessions :
       /\ \A o \in Work : conn[o] # c
       /\ conn' = [conn EXCEPT ![w] = c]
  /\ Advance(w, "acquired")
  /\ UNCHANGED <<sqlite, queryOnly, tx, handler, cancelFlag, applied, committed, ending>>

(* A set flag on the session makes its handler interrupt the statement.    *)
Interrupts(c) == sqlite /\ handler[c] \in cancelFlag
ReadOnlySession(c) == c \in queryOnly \/ tx[c] = "readonly"

----------------------------------------------------------------------------
(* run_query_cancellable *)

(* Note the cancel target: a session id, or SQLite's progress handler; and *)
(* register it.  Asking for the session id may fail.                       *)
HookCancel(r) ==
  /\ workStep[r] = "acquired"
  /\ \/ /\ Advance(r, "hooked")
        /\ handler' = IF sqlite THEN [handler EXCEPT ![conn[r]] = r] ELSE handler
        /\ UNCHANGED <<conn, ending>>
     \/ ~sqlite /\ Release(r, "error") /\ UNCHANGED handler
  /\ UNCHANGED <<sqlite, queryOnly, tx, cancelFlag, applied, committed>>

OnlyForAgents(c, r) == IF r \in AgentRuns THEN queryOnly \cup {c} ELSE queryOnly  \* fault: left to a cleanup
(* "The setting is finalized by the calling code making it explicit every  *)
(* time", because a dropped run cleans nothing up.                         *)
QueryOnlyFor(c, r) == IF r \in AgentRuns THEN queryOnly \cup {c} ELSE queryOnly \ {c}
NoTransaction(c, r) == tx  \* fault: the statement check alone
(* run_query_readonly: on Postgres and MySQL, inside a transaction.        *)
TransactionFor(c, r) == IF r \in AgentRuns THEN [tx EXCEPT ![c] = "readonly"] ELSE tx
(* run_query_on: the guards let the statement through.                     *)
EnterReadMode(r) ==
  /\ workStep[r] = "hooked"
  /\ LET c == conn[r] IN
     IF sqlite THEN queryOnly' = QueryOnlyFor(c, r) /\ UNCHANGED tx
               ELSE tx' = TransactionFor(c, r) /\ UNCHANGED queryOnly
  /\ Advance(r, "running")
  /\ UNCHANGED <<sqlite, conn, handler, cancelFlag, applied, committed, ending>>

(* The end of run_query_cancellable: the rollback, whatever the result,    *)
(* and the progress handler removed.                                       *)
LeaveSession(r, how) ==
  LET c == conn[r] IN
  /\ tx' = IF tx[c] = "readonly" THEN [tx EXCEPT ![c] = NoOne] ELSE tx
  /\ handler' = [handler EXCEPT ![c] = NoOne]
  /\ Release(r, how)
  /\ UNCHANGED <<sqlite, queryOnly, cancelFlag, applied, committed>>

GuardRefuses(r) == workStep[r] = "hooked" /\ LeaveSession(r, "error")

(* The statement ends: a read succeeds, a write does if the session lets   *)
(* it, either may be interrupted or fail by itself.                        *)
StatementEndsOn(r) ==
  /\ workStep[r] = "running"
  /\ \/ LeaveSession(r, "ok")
     \/ LeaveSession(r, "error")
     \/ ReadOnlySession(conn[r]) /\ LeaveSession(r, "refused")
     \/ Interrupts(conn[r]) /\ LeaveSession(r, IF handler[conn[r]] = r THEN "error" ELSE "interrupted")

(* cancel_registration: only while the run is registered.                  *)
SetCancelFlag(r) ==
  /\ workStep[r] \in {"hooked", "running"}
  /\ cancelFlag' = cancelFlag \cup {r}
  /\ UNCHANGED <<sqlite, workStep, conn, queryOnly, tx, handler, applied, committed, ending>>

(* The run's future is dropped: sqlx rolls its Transaction back before the *)
(* session is used again; nothing else is cleaned up.                      *)
DropRun(r) ==
  /\ workStep[r] \in {"acquired", "hooked", "running"}
  /\ r \in AgentRuns \/ r \notin cancelFlag
  /\ tx' = IF tx[conn[r]] = "readonly" THEN [tx EXCEPT ![conn[r]] = NoOne] ELSE tx
  /\ Release(r, "dropped")
  /\ UNCHANGED <<sqlite, queryOnly, handler, cancelFlag, applied, committed>>

----------------------------------------------------------------------------
(* A catalog read takes the session as it is. *)
ReadCatalog(w) ==
  /\ workStep[w] = "acquired"
  /\ Release(w, IF Interrupts(conn[w]) THEN "interrupted" ELSE "ok")
  /\ UNCHANGED <<sqlite, queryOnly, tx, handler, cancelFlag, applied, committed>>

----------------------------------------------------------------------------
(* run_statements *)

(* Validation refuses before anything is written, as may BEGIN.            *)
EditRefused(e) ==
  /\ workStep[e] = "acquired"
  /\ Release(e, "error")
  /\ UNCHANGED <<sqlite, queryOnly, tx, handler, cancelFlag, applied, committed>>

AsFound(c) == queryOnly  \* fault: the agent's query_only is not cleared
Writable(c) == queryOnly \ {c}
BeginEdit(e) ==
  /\ workStep[e] = "acquired"
  /\ queryOnly' = IF sqlite THEN Writable(conn[e]) ELSE queryOnly
  /\ tx' = [tx EXCEPT ![conn[e]] = e]
  /\ Advance(e, "running")
  /\ UNCHANGED <<sqlite, conn, handler, cancelFlag, applied, committed, ending>>

(* One UPDATE: executed, or it fails and the transaction is rolled back.   *)
ApplyEdit(e) ==
  /\ workStep[e] = "running"
  /\ applied[e] < EditSize
  /\ LET c == conn[e] IN
     \/ ~ReadOnlySession(c) /\ applied' = [applied EXCEPT ![e] = @ + 1]
          /\ UNCHANGED <<workStep, ending>>
     \/ /\ Advance(e, "rollback")
        /\ ending' = [ending EXCEPT ![e] =
             IF Interrupts(c) THEN "interrupted" ELSE IF ReadOnlySession(c) THEN "refused" ELSE "error"]
        /\ UNCHANGED applied
  /\ UNCHANGED <<sqlite, conn, queryOnly, tx, handler, cancelFlag, committed>>

(* COMMIT makes what was applied permanent, or fails and leaves the        *)
(* transaction open (a deferred constraint, a busy database).              *)
ReturnOnly(e) == Release(e, "error")  \* fault: no rollback after a failed COMMIT
CommitFails(e) ==
  /\ Advance(e, "rollback")
  /\ ending' = [ending EXCEPT ![e] = "error"]
  /\ UNCHANGED conn
AfterSome(e) == applied[e] > 0  \* fault: commits when a statement failed
AllApplied(e) == applied[e] = EditSize
CommitEdit(e) ==
  /\ workStep[e] = "running"
  /\ AllApplied(e)
  /\ \/ /\ committed' = [committed EXCEPT ![e] = applied[e]]
        /\ tx' = [tx EXCEPT ![conn[e]] = NoOne]
        /\ Release(e, "ok")
     \/ CommitFails(e) /\ UNCHANGED <<committed, tx>>
  /\ UNCHANGED <<sqlite, queryOnly, handler, cancelFlag, applied>>

RollbackEdit(e) ==
  /\ workStep[e] = "rollback"
  /\ tx' = [tx EXCEPT ![conn[e]] = NoOne]
  /\ Release(e, ending[e])
  /\ UNCHANGED <<sqlite, queryOnly, handler, cancelFlag, applied, committed>>

----------------------------------------------------------------------------
PsNext ==
  \/ \E w \in Work : AcquireConnection(w)
  \/ \E r \in QueryRuns : HookCancel(r) \/ EnterReadMode(r) \/ GuardRefuses(r) \/ StatementEndsOn(r)
                            \/ SetCancelFlag(r) \/ DropRun(r)
  \/ \E w \in Catalogs : ReadCatalog(w)
  \/ \E e \in CellEdits : EditRefused(e) \/ BeginEdit(e) \/ ApplyEdit(e) \/ CommitEdit(e)
                            \/ RollbackEdit(e)
PsSpec == PsInit /\ [][PsNext]_psVars

----------------------------------------------------------------------------
(* Properties *)

(* The agent only reads, whatever its statement calls: while it executes,  *)
(* the database itself refuses writes on that session.                     *)
AgentIsReadOnly ==
  \A r \in AgentRuns : workStep[r] = "running" => ReadOnlySession(conn[r])

(* The user's writes do not meet what an agent's dropped run left behind:  *)
(* no user run and no cell edit executes on a read-only session.           *)
UserMayWrite ==
  \A w \in UserRuns \cup CellEdits : workStep[w] = "running" => ~ReadOnlySession(conn[w])

(* A session goes back to the pool without an open transaction, so nothing *)
(* is executed, or lost, in the transaction of an edit that failed.        *)
NoForeignTransaction ==
  \A c \in PoolSessions : tx[c] # NoOne =>
    \E w \in Work : conn[w] = c /\ (tx[c] = w \/ (tx[c] = "readonly" /\ w \in AgentRuns))

(* Cell edits are applied all or not at all, and reported accordingly.     *)
EditsAllOrNothing ==
  \A e \in CellEdits :
    /\ committed[e] \in {0, EditSize}
    /\ workStep[e] = "done" => (ending[e] = "ok" <=> committed[e] = EditSize)

(* "If it is left behind, a handler with its flag set remains and the next *)
(* query on this connection is aborted immediately": no statement is       *)
(* interrupted by the cancel of another run.                               *)
OnlyOwnCancelInterrupts == \A w \in Work : ending[w] # "interrupted"

(* Whoever gets a session of the pool finds it in the mode its work needs, *)
(* without a transaction, and leaves it so.                                *)
SessionsAreClean == AgentIsReadOnly /\ UserMayWrite /\ NoForeignTransaction
=============================================================================
