---------------------------- MODULE QueryCancel ----------------------------
(***************************************************************************)
(* Running and cancelling queries on one connection: run_query_in_mode and *)
(* cancel_query (lib.rs) over QueryRuns and CancelRegistry (db.rs).        *)
(*                                                                         *)
(* A displayed run is in QueryRuns from its first moment and in            *)
(* CancelRegistry once it has a pooled session and knows its server-side   *)
(* id.  The frontend starts no displayed run while another is running on   *)
(* the connection; Copy / Export fetches run beside it, unregistered.      *)
(* Cancel asks the server to stop the registered statement, and falls back *)
(* to aborting the run on the client, with or without dropping the pool    *)
(* and the tunnel.  The server may answer late or never.  After a success  *)
(* the run may still wait: for the description of an empty result, and on  *)
(* SQLite for the handle whose progress handler it takes off.              *)
(***************************************************************************)
EXTENDS Naturals, FiniteSets

CONSTANTS
  Displayed,  \* the run_query calls whose result the table shows
  Fetches,    \* Copy / Export fetches (QueryMode::FullFetch)
  Cancels,    \* cancel_query calls
  Slots,      \* the sessions a pool may open
  None

Runs == Displayed \cup Fetches

ASSUME RunsAssumption == Displayed \cap Fetches = {} /\ None \notin Runs
ASSUME CancelsAssumption == IsFiniteSet(Cancels)
ASSUME NoneAssumption ==
  None \notin {"ok", "empty", "error", "cancelled"} \cup ((0 .. Cardinality(Cancels)) \X Slots)

VARIABLES
  stage,      \* where a run is
  sqlite,     \* whether the connection's engine is SQLite
  inFlight,   \* QueryRuns: the ids of the runs in flight ...
  claimed,    \* ... those an abort has claimed (`aborting`) ...
  token,      \* ... and those whose cancellation token is cancelled
  registry,   \* CancelRegistry under the connection's key: a run, or None
  flagged,    \* runs whose `cancelled` flag is set
  pool,       \* the connection's current pool; a disconnect makes the next one
  session,    \* the pooled session a run holds, or None
  onServer,   \* the statement a session is executing on the server
  outcome,    \* what the server answered to a run's statement
  result,     \* what the run will return, or has returned
  phase,      \* where a cancel_query is
  runs,       \* its snapshot of the runs in flight
  target,     \* its snapshot of the registration
  kill        \* the session its KILL QUERY / pg_cancel_backend is on its way to

queryRuns == <<inFlight, claimed, token>>
server == <<sqlite, pool, session, onServer, outcome>>
cancels == <<phase, runs, target, kill>>
vars == <<stage, sqlite, inFlight, claimed, token, registry, flagged, pool, session, onServer, outcome,
          result, phase, runs, target, kill>>

Sessions == (0 .. Cardinality(Cancels)) \X Slots
Running == {"pool", "session", "registered", "sent", "describing", "clearing"}
Stages == {"new", "ended", "claimedWait", "returned"} \cup Running
Successes == {"ok", "empty"}  \* "empty": a result set without a row
Phases == {"idle", "asked", "killing", "grace", "plain", "stuck", "disconnect", "wake", "done"}

TypeOK ==
  /\ stage \in [Runs -> Stages]
  /\ sqlite \in BOOLEAN
  /\ inFlight \subseteq Displayed
  /\ claimed \subseteq Displayed
  /\ token \subseteq Displayed
  /\ registry \in Displayed \cup {None}
  /\ flagged \subseteq Displayed
  /\ pool \in 0 .. Cardinality(Cancels)
  /\ session \in [Runs -> Sessions \cup {None}]
  /\ onServer \in [Sessions -> Runs \cup {None}]
  /\ outcome \in [Runs -> Successes \cup {None, "error"}]
  /\ result \in [Runs -> {None, "ok", "error", "cancelled"}]
  /\ phase \in [Cancels -> Phases]
  /\ runs \in [Cancels -> SUBSET Displayed]
  /\ target \in [Cancels -> Displayed \cup {None}]
  /\ kill \in [Cancels -> Sessions \cup {None}]

Init ==
  /\ stage = [r \in Runs |-> "new"]
  /\ sqlite \in BOOLEAN
  /\ inFlight = {} /\ claimed = {} /\ token = {} /\ flagged = {}
  /\ registry = None
  /\ pool = 0
  /\ session = [r \in Runs |-> None]
  /\ onServer = [s \in Sessions |-> None]
  /\ outcome = [r \in Runs |-> None]
  /\ result = [r \in Runs |-> None]
  /\ phase = [k \in Cancels |-> "idle"]
  /\ runs = [k \in Cancels |-> {}]
  /\ target = [k \in Cancels |-> None]
  /\ kill = [k \in Cancels |-> None]

Go(r, s) == stage' = [stage EXCEPT ![r] = s]
----------------------------------------------------------------------------
(* A run *)

Start(r) ==
  /\ stage[r] = "new"
  /\ r \in Displayed => \A d \in Displayed : stage[d] \in {"new", "returned"}
  /\ Go(r, "pool")
  /\ inFlight' = inFlight \cup ({r} \cap Displayed)
  /\ UNCHANGED <<claimed, token, registry, flagged, server, result, cancels>>

(* get_pool and acquire: a session of the current pool that no run holds   *)
(* and, since a dropped one is only handed out again after its pending     *)
(* statement, that is idle.                                                *)
Acquire(r) ==
  /\ stage[r] = "pool"
  /\ \E slot \in Slots :
       LET s == <<pool, slot>> IN
       /\ onServer[s] = None
       /\ \A o \in Runs : session[o] # s
       /\ session' = [session EXCEPT ![r] = s]
  /\ Go(r, "session")
  /\ UNCHANGED <<queryRuns, sqlite, registry, flagged, pool, onServer, outcome, result, cancels>>

(* The run failed before its statement was sent: no pool, no session id.   *)
FailEarly(r) ==
  /\ stage[r] \in {"pool", "session"}
  /\ session' = [session EXCEPT ![r] = None]
  /\ result' = [result EXCEPT ![r] = "error"]
  /\ Go(r, "ended")
  /\ UNCHANGED <<queryRuns, sqlite, registry, flagged, pool, onServer, outcome, cancels>>

RegisterOnePerConnection(r) ==  \* fault: a fetch takes the connection's key
  /\ stage[r] = "session"
  /\ registry' = r
  /\ Go(r, "registered")
  /\ UNCHANGED <<queryRuns, flagged, server, result, cancels>>
(* A fetch registers under a key of its own, which no cancel asks for.     *)
Register(r) ==
  /\ stage[r] = "session"
  /\ registry' = IF r \in Displayed THEN r ELSE registry
  /\ Go(r, "registered")
  /\ UNCHANGED <<queryRuns, flagged, server, result, cancels>>

Send(r) ==
  /\ stage[r] = "registered"
  /\ onServer' = [onServer EXCEPT ![session[r]] = r]
  /\ Go(r, "sent")
  /\ UNCHANGED <<queryRuns, sqlite, registry, flagged, pool, session, outcome, result, cancels>>

(* A result set without a row: its columns are asked for, on the session   *)
(* and still registered, before the run goes on.                           *)
Describe(r) ==
  /\ stage[r] = "sent"
  /\ outcome[r] = "empty"
  /\ onServer' = [onServer EXCEPT ![session[r]] = r]
  /\ Go(r, "describing")
  /\ UNCHANGED <<queryRuns, sqlite, registry, flagged, pool, session, outcome, result, cancels>>

(* Everything the server was asked for is there; whether the columns could *)
(* be described makes no difference.                                       *)
AllThere(r) ==
  \/ stage[r] = "sent" /\ outcome[r] \in {"ok", "error"}
  \/ stage[r] = "describing" /\ onServer[session[r]] # r

LeaveRegistered(r) ==  \* fault: the registration outlives the execution
  UNCHANGED registry
(* RunningQueryGuard::drop.                                                *)
Unregister(r) ==
  registry' = IF registry = r THEN None ELSE registry

(* The run ends, and its session goes back to the pool.                    *)
EndRun(r, how) ==
  /\ session' = [session EXCEPT ![r] = None]
  /\ result' = [result EXCEPT ![r] = how]
  /\ Go(r, "ended")

(* An error after a cancellation request is returned as cancelled.         *)
Returned(r) ==
  IF outcome[r] # "error" THEN "ok"
  ELSE IF r \in flagged THEN "cancelled" ELSE "error"

(* The answer reached the run.                                             *)
Answered(r) ==
  /\ AllThere(r)
  /\ Unregister(r)
  /\ IF sqlite THEN Go(r, "clearing") /\ UNCHANGED <<session, result>>
               ELSE EndRun(r, Returned(r))
  /\ UNCHANGED <<queryRuns, sqlite, flagged, pool, onServer, outcome, cancels>>

(* SQLite: the run has the handle and takes the progress handler off.      *)
ClearHandler(r) ==
  /\ stage[r] = "clearing"
  /\ EndRun(r, Returned(r))
  /\ UNCHANGED <<queryRuns, sqlite, registry, flagged, pool, onServer, outcome, cancels>>

(* QueryRunGuard::run: the token drops the work wherever it is waiting,    *)
(* also after its success; an answer that is there is taken first.         *)
NoResultYet(r) == FALSE  \* fault: the select is not biased
ResultThere(r) == AllThere(r) \/ (stage[r] = "sent" /\ outcome[r] = "empty")
Dropped(r) ==
  /\ r \in token
  /\ stage[r] \in Running
  /\ ~ResultThere(r)
  /\ Unregister(r)
  /\ EndRun(r, "cancelled")
  /\ UNCHANGED <<queryRuns, sqlite, flagged, pool, onServer, outcome, cancels>>

FinishAtOnce(r) ==  \* fault: does not wait for the abort that claimed the run
  /\ stage[r] = "ended"
  /\ Go(r, "returned") /\ inFlight' = inFlight \ {r}
  /\ UNCHANGED <<claimed, token, registry, flagged, server, result, cancels>>
(* finish_run: under the lock of QueryRuns, either unregister or find that *)
(* an abort has claimed the run.                                           *)
Finish(r) ==
  /\ stage[r] = "ended"
  /\ IF r \in claimed
       THEN Go(r, "claimedWait") /\ UNCHANGED inFlight
       ELSE Go(r, "returned") /\ inFlight' = inFlight \ {r}
  /\ UNCHANGED <<claimed, token, registry, flagged, server, result, cancels>>

(* A claimed run returns only after the abort's disconnect.                *)
FinishClaimed(r) ==
  /\ stage[r] = "claimedWait"
  /\ r \in token
  /\ inFlight' = inFlight \ {r}
  /\ result' = [result EXCEPT ![r] = IF @ = "ok" THEN "ok" ELSE "cancelled"]
  /\ Go(r, "returned")
  /\ UNCHANGED <<claimed, token, registry, flagged, server, cancels>>

----------------------------------------------------------------------------
(* The server *)

(* A statement ends, or the description of an empty result, by itself or   *)
(* interrupted; its run may have dropped it.                               *)
StatementEnds(s, how) ==
  LET r == onServer[s] IN
  /\ r # None
  /\ onServer' = [onServer EXCEPT ![s] = None]
  /\ outcome' = IF stage[r] = "sent" /\ session[r] = s
                  THEN [outcome EXCEPT ![r] = how] ELSE outcome

ServerAnswers(s) ==
  /\ \E how \in Successes \cup {"error"} : StatementEnds(s, how)
  /\ UNCHANGED <<stage, queryRuns, sqlite, registry, flagged, pool, session, result, cancels>>

(* The kill arrives: it interrupts whatever the session is executing, and  *)
(* does nothing to an idle session.                                        *)
KillArrives(k) ==
  /\ kill[k] # None
  /\ kill' = [kill EXCEPT ![k] = None]
  /\ IF onServer[kill[k]] # None
       THEN StatementEnds(kill[k], "error")
       ELSE UNCHANGED <<onServer, outcome>>
  /\ UNCHANGED <<stage, queryRuns, sqlite, registry, flagged, pool, session, result, phase, runs, target>>

----------------------------------------------------------------------------
(* cancel_query *)

GoCancel(k, p) == phase' = [phase EXCEPT ![k] = p]

(* The user presses Cancel on a running tab.  Nothing is awaited between   *)
(* the snapshot of the runs and that of the registration.                  *)
Press(k) ==
  /\ phase[k] = "idle"
  /\ inFlight # {}
  /\ runs' = [runs EXCEPT ![k] = inFlight]
  /\ target' = [target EXCEPT ![k] = registry]
  /\ GoCancel(k, "asked")
  /\ UNCHANGED <<stage, queryRuns, registry, flagged, server, result, kill>>

(* cancel_registration: only while the same registration is running; sets  *)
(* the flag and, after releasing the lock, sends the kill.                 *)
WhateverIsRegistered(k) == registry  \* fault: `cancel` instead of the pinned one
ToStop(k) == IF registry = target[k] THEN target[k] ELSE None
AskServer(k) ==
  /\ phase[k] = "asked"
  /\ IF ToStop(k) # None
       THEN /\ flagged' = flagged \cup {ToStop(k)}
            /\ kill' = [kill EXCEPT ![k] = session[ToStop(k)]]
            /\ GoCancel(k, "killing")
       ELSE GoCancel(k, "plain") /\ UNCHANGED <<flagged, kill>>
  /\ UNCHANGED <<stage, queryRuns, registry, server, result, runs, target>>

(* The server confirmed the kill: Ok(true).                                *)
KillConfirmed(k) ==
  /\ phase[k] = "killing"
  /\ kill[k] = None
  /\ GoCancel(k, "grace")
  /\ UNCHANGED <<stage, queryRuns, registry, flagged, server, result, runs, target, kill>>

(* SERVER_CANCEL_TIMEOUT, or the cancel failed; the kill may still arrive. *)
ServerSilent(k) ==
  /\ (phase[k] = "asked" /\ target[k] # None) \/ phase[k] = "killing"
  /\ GoCancel(k, "stuck")
  /\ UNCHANGED <<stage, queryRuns, registry, flagged, server, result, runs, target, kill>>

(* abort_runs, first step: claim those of its runs still in flight.  After *)
(* a confirmed kill only once STUCK_RUN_GRACE is over.                     *)
ClaimableRegistered(k) == (runs[k] \cap {registry}) \ claimed  \* fault: not the ones still connecting
Claimable(k) == (runs[k] \cap inFlight) \ claimed
ClaimAbort(k) ==
  /\ phase[k] \in {"grace", "plain", "stuck"}
  /\ claimed' = claimed \cup Claimable(k)
  /\ GoCancel(k, IF Claimable(k) = {} THEN "done"
                 ELSE IF phase[k] = "plain" THEN "wake" ELSE "disconnect")
  /\ UNCHANGED <<stage, inFlight, token, registry, flagged, server, result, runs, target, kill>>

(* Drop the pool and the tunnel.                                           *)
Disconnect(k) ==
  /\ phase[k] = "disconnect"
  /\ pool' = pool + 1
  /\ GoCancel(k, "wake")
  /\ UNCHANGED <<stage, queryRuns, sqlite, registry, flagged, session, onServer, outcome, result, runs,
                 target, kill>>

Wake(k) ==
  /\ phase[k] = "wake"
  /\ token' = token \cup (runs[k] \cap inFlight)
  /\ GoCancel(k, "done")
  /\ UNCHANGED <<stage, inFlight, claimed, registry, flagged, server, result, runs, target, kill>>

----------------------------------------------------------------------------
RunStep(r) ==
  \/ Start(r) \/ Acquire(r) \/ FailEarly(r) \/ Register(r) \/ Send(r) \/ Describe(r)
  \/ Answered(r) \/ ClearHandler(r) \/ Dropped(r) \/ Finish(r) \/ FinishClaimed(r)
CancelStep(k) ==
  \/ AskServer(k) \/ KillConfirmed(k) \/ ServerSilent(k)
  \/ ClaimAbort(k) \/ Disconnect(k) \/ Wake(k)

Next ==
  \/ \E r \in Runs : RunStep(r)
  \/ \E s \in Sessions : ServerAnswers(s)
  \/ \E k \in Cancels : Press(k) \/ CancelStep(k) \/ KillArrives(k)

Spec == Init /\ [][Next]_vars

(* Timeouts end every wait of cancel_query and the runtime polls a woken   *)
(* run; of the server, the pool and the network nothing is assumed.        *)
FairSpec ==
  /\ Spec
  /\ \A r \in Runs : WF_vars(Describe(r) \/ Answered(r) \/ Dropped(r) \/ Finish(r) \/ FinishClaimed(r))
  /\ \A k \in Cancels : WF_vars(CancelStep(k))

----------------------------------------------------------------------------
(* Properties *)

Pressed(r) == \E k \in Cancels : r \in runs[k]

(* "A disconnect after that would cut the new query's pool": when an abort *)
(* drops the pool, every displayed run in flight is one it has claimed and *)
(* that waits for it, never one that started since.                        *)
AbortSparesNextQuery ==
  [][pool' # pool =>
       \A d \in Displayed : stage[d] \in Running \cup {"ended", "claimedWait"} => d \in claimed]_vars

(* "A write that went through must not be reported as cancelled": once the *)
(* server has answered with success, no cancel that raced it, not even one *)
(* that claimed the run, changes what the run returns - unless the run was *)
(* still waiting for something else, for the description of an empty       *)
(* result or for SQLite's handle: there the abort does hide the success,   *)
(* but never the request that only asked the server to stop.               *)
SuccessIsReported ==
  \A r \in Runs : stage[r] = "returned" /\ outcome[r] \in Successes =>
    \/ result[r] = "ok"
    \/ r \in token /\ (sqlite \/ outcome[r] = "empty")

(* Only a run that was in flight when the user pressed Cancel is reported  *)
(* as cancelled: neither a retried cancel nor a late abort reaches a later *)
(* one, and a Copy / Export fetch is never cancelled.                      *)
CancelledWasPressed ==
  \A r \in Runs : result[r] = "cancelled" => Pressed(r)

(* What a Cancel would reach is really running: the registration is of a   *)
(* run that holds a session, and no run that returned is still in flight   *)
(* (a stale entry would have the next Cancel tear down a healthy pool).    *)
RegistrationsAreLive ==
  /\ registry # None => stage[registry] \in {"registered", "sent", "describing"} /\ session[registry] # None
  /\ \A d \in Displayed : d \in inFlight <=> stage[d] \notin {"new", "returned"}

(* A run the user cancelled comes to an end although its server, pool or   *)
(* tunnel never answers again: the client-side abort is always left.       *)
CancelEndsRun ==
  \A r \in Displayed : (Pressed(r) /\ stage[r] # "returned") ~> (stage[r] = "returned")

(* "Even if the query had just finished, pg_cancel_backend / KILL QUERY    *)
(* are no-ops against an idle session, so this is safe": the kill of a     *)
(* cancel stops no statement but the one it was sent for.                  *)
KillHitsItsQuery ==
  [][\A k \in Cancels :
       kill[k] # None /\ kill'[k] = None => onServer[kill[k]] \in {None, target[k]}]_vars

(* "A Cancel must not abort it or drop the tunnel it uses": no abort drops *)
(* the pool and tunnel while a Copy / Export fetch is using them.          *)
CancelSparesFetches ==
  [][pool' # pool =>
       \A f \in Fetches : session[f] # None => session[f][1] # pool]_vars
=============================================================================
