-------------------------- MODULE PasswordRefresh --------------------------
(***************************************************************************)
(* DbManager::run_with_password_refresh (db.rs): operations on the pools   *)
(* of one connection whose password comes from a helper command.  A pool   *)
(* opens new sessions with its connect options; when the server refuses    *)
(* them, one operation runs the helper and the others that were refused    *)
(* with the same options just try again.                                   *)
(***************************************************************************)
EXTENDS Naturals

CONSTANTS
  Reads,       \* operations that may run twice (PasswordRetry::Idempotent)
  Statements,  \* operations that run user SQL (PasswordRetry::BeforeStatement)
  MaxResets,   \* bound: config reloads
  Nobody

Operations == Reads \cup Statements

ASSUME OperationsAssumption == Reads \cap Statements = {} /\ Nobody \notin Operations
ASSUME MaxResetsAssumption == MaxResets \in Nat

VARIABLES
  opStep,    \* where an operation is
  poolOf,    \* the pool it holds
  seen,      \* RefreshState it took before its first attempt
  sent,      \* how many times its statement reached the server
  options,   \* connect options of a pool: the version of its password
  failures,  \* password_refresh_failures of a pool's current options
  holder,    \* who holds the connection's connect lock
  resets,    \* config reloads so far: the number of the current pool
  attempts,  \* history: runs of the helper for a pool that ended
  since      \* history: attempts and resets when an operation took `seen`

pwVars == <<opStep, poolOf, seen, sent, options, failures, holder, resets, attempts, since>>

Pools == 0 .. MaxResets
RefreshState(p) == [options |-> options[p], failures |-> failures[p]]
RefreshStates == [options : Nat, failures : Nat]

PwTypeOK ==
  /\ opStep \in [Operations ->
       {"new", "first", "firstSent", "waiting", "helper", "second", "secondSent", "done"}]
  /\ poolOf \in [Operations -> Pools]
  /\ seen \in [Operations -> RefreshStates]
  /\ sent \in [Operations -> Nat]
  /\ options \in [Pools -> Nat] /\ failures \in [Pools -> Nat] /\ attempts \in [Pools -> Nat]
  /\ holder \in Operations \cup {Nobody}
  /\ resets \in Pools
  /\ since \in [Operations -> [attempts : Nat, resets : Nat]]

PwInit ==
  /\ opStep = [o \in Operations |-> "new"]
  /\ poolOf = [o \in Operations |-> 0]
  /\ seen = [o \in Operations |-> [options |-> 0, failures |-> 0]]
  /\ sent = [o \in Operations |-> 0]
  /\ options = [p \in Pools |-> 0] /\ failures = [p \in Pools |-> 0]
  /\ attempts = [p \in Pools |-> 0]
  /\ holder = Nobody
  /\ resets = 0
  /\ since = [o \in Operations |-> [attempts |-> 0, resets |-> 0]]

To(o, s) == opStep' = [opStep EXCEPT ![o] = s]

(* with_pool: the connection's current pool, which a reload may drop while *)
(* the operation still uses it.                                            *)
Begin(o) ==
  /\ opStep[o] = "new"
  /\ poolOf' = [poolOf EXCEPT ![o] = resets]
  /\ seen' = [seen EXCEPT ![o] = RefreshState(resets)]
  /\ since' = [since EXCEPT ![o] = [attempts |-> attempts[resets], resets |-> resets]]
  /\ To(o, "first")
  /\ UNCHANGED <<sent, options, failures, holder, resets, attempts>>

(* AppError::ConnectAuth: the login was refused and nothing was sent.  The *)
(* second time it is the operation's result.                               *)
ConnectRefused(o) ==
  /\ opStep[o] \in {"first", "second"}
  /\ To(o, IF opStep[o] = "first" THEN "waiting" ELSE "done")
  /\ UNCHANGED <<poolOf, seen, sent, options, failures, holder, resets, attempts, since>>

SendStatement(o) ==
  /\ opStep[o] \in {"first", "second"}
  /\ sent' = [sent EXCEPT ![o] = @ + 1]
  /\ To(o, IF opStep[o] = "first" THEN "firstSent" ELSE "secondSent")
  /\ UNCHANGED <<poolOf, seen, options, failures, holder, resets, attempts, since>>

AnyAuthFailure(o) == TRUE  \* fault: the error code alone decides
(* should_refresh_password for an error the statement itself raised.       *)
MayRunTwice(o) == o \in Reads
(* The statement returns; its error may carry the code of a refused login. *)
StatementReturns(o) ==
  /\ \/ opStep[o] \in {"firstSent", "secondSent"} /\ To(o, "done")
     \/ opStep[o] = "firstSent" /\ MayRunTwice(o) /\ To(o, "waiting")
  /\ UNCHANGED <<poolOf, seen, sent, options, failures, holder, resets, attempts, since>>

----------------------------------------------------------------------------
(* refresh_password *)

SamePassword(o) == options[poolOf[o]] = seen[o].options  \* fault: failures are not compared
AlwaysRefresh(o) == TRUE  \* fault: every waiter runs the helper
NothingHappened(o) == RefreshState(poolOf[o]) = seen[o]
(* The connect lock is granted: run the helper unless the pool was         *)
(* refreshed, or a refresh of it failed, since this operation started.     *)
TakeConnectLock(o) ==
  /\ opStep[o] = "waiting"
  /\ holder = Nobody
  /\ IF NothingHappened(o)
       THEN To(o, "helper") /\ holder' = o
       ELSE To(o, "second") /\ UNCHANGED holder
  /\ UNCHANGED <<poolOf, seen, sent, options, failures, resets, attempts, since>>

(* set_pool_password: the new options start with no recorded failure.      *)
HelperAnswers(o) ==
  /\ opStep[o] = "helper"
  /\ options' = [options EXCEPT ![poolOf[o]] = @ + 1]
  /\ failures' = [failures EXCEPT ![poolOf[o]] = 0]
  /\ attempts' = [attempts EXCEPT ![poolOf[o]] = @ + 1]
  /\ holder' = Nobody
  /\ To(o, "second")
  /\ UNCHANGED <<poolOf, seen, sent, resets, since>>

HelperFails(o) ==
  /\ opStep[o] = "helper"
  /\ failures' = [failures EXCEPT ![poolOf[o]] = @ + 1]
  /\ attempts' = [attempts EXCEPT ![poolOf[o]] = @ + 1]
  /\ holder' = Nobody
  /\ To(o, "done")
  /\ UNCHANGED <<poolOf, seen, sent, options, resets, since>>

(* The operation's future is dropped by a cancel, wherever it is; a lock   *)
(* it holds is released and a helper it was running counts for nothing.    *)
Abandon(o) ==
  /\ opStep[o] \notin {"new", "done"}
  /\ holder' = IF holder = o THEN Nobody ELSE holder
  /\ To(o, "done")
  /\ UNCHANGED <<poolOf, seen, sent, options, failures, resets, attempts, since>>

(* DbManager::reset: the next operation gets a new pool, the counters go.  *)
ResetFailures ==
  /\ resets < MaxResets
  /\ resets' = resets + 1
  /\ failures' = [p \in Pools |-> 0]
  /\ UNCHANGED <<opStep, poolOf, seen, sent, options, holder, attempts, since>>

----------------------------------------------------------------------------
PwStep(o) ==
  \/ Begin(o) \/ ConnectRefused(o) \/ SendStatement(o) \/ StatementReturns(o)
  \/ TakeConnectLock(o) \/ HelperAnswers(o) \/ HelperFails(o) \/ Abandon(o)
PwNext == ResetFailures \/ \E o \in Operations : PwStep(o)
PwSpec == PwInit /\ [][PwNext]_pwVars

(* The lock is fair and run_password_command gives up after its timeout.   *)
RefreshStep(o) == TakeConnectLock(o) \/ HelperAnswers(o) \/ HelperFails(o)

----------------------------------------------------------------------------
(* Properties *)

UndisturbedSince(o) == attempts[poolOf[o]] = since[o].attempts
ReloadedSince(o) == resets # since[o].resets

(* "A helper that prompts (SSO, Touch ID) prompts once", also when it      *)
(* fails: nobody runs it when a run for its pool ended since the operation *)
(* started.  (A config reload forgets the failures and allows one more.)   *)
HelperRunsOnce ==
  [][\A o \in Operations :
       opStep[o] = "waiting" /\ opStep'[o] = "helper" => UndisturbedSince(o) \/ ReloadedSince(o)]_pwVars

(* The other way round: an operation that tries again without running the  *)
(* helper does so because somebody's run of it ended meanwhile.            *)
RetryHasReason ==
  [][\A o \in Operations :
       opStep[o] = "waiting" /\ opStep'[o] = "second" => ~UndisturbedSince(o) \/ ReloadedSince(o)]_pwVars

(* User SQL is never sent twice: a statement that raised the code of a     *)
(* refused login after its side effects must not run again.                *)
UserSqlIsSentOnce == \A o \in Statements : sent[o] <= 1

(* Whoever waits for somebody else's helper gets its turn.                 *)
RefreshEnds == \A o \in Operations : opStep[o] = "waiting" ~> opStep[o] # "waiting"

(* What with_pool promises: the helper runs once for one refused password, *)
(* everybody else profits from that run, and no user SQL runs twice.       *)
RefreshPromise == []UserSqlIsSentOnce /\ HelperRunsOnce /\ RetryHasReason
=============================================================================
