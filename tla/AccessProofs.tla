---------------------------- MODULE AccessProofs ----------------------------
(***************************************************************************)
(* Theorems about what stands between a statement and its server: the      *)
(* password of a connection, the sessions of its pool, its schema cache    *)
(* and its SSH tunnel.  They hold for any numbers of operations, sessions, *)
(* tunnels and hosts, and any sizes of buffers and windows.                *)
(***************************************************************************)
EXTENDS PasswordRefresh, PooledSession, SchemaCache, TunnelSetup, TunnelRelay, SequenceTheorems, TLAPS

----------------------------------------------------------------------------
(***************************************************************************)
(* PasswordRefresh                                                         *)
(***************************************************************************)

USE OperationsAssumption, MaxResetsAssumption
USE DEF Operations, To

(* Only an operation that may run twice goes round after its statement was *)
(* sent.                                                                   *)
NothingSentYet ==
  \A o \in Statements :
    /\ opStep[o] \in {"new", "first", "waiting", "helper", "second"} => sent[o] = 0
    /\ sent[o] <= 1

(* What an operation took for comparison tells whether a run of the helper *)
(* for its pool ended since: options count the runs that succeeded, and    *)
(* for the same options the failures count the others.                     *)
Unchanged(o) ==
  /\ options[poolOf[o]] = seen[o].options
  /\ failures[poolOf[o]] >= seen[o].failures
  /\ failures[poolOf[o]] - seen[o].failures = attempts[poolOf[o]] - since[o].attempts
Refreshed(o) ==
  /\ options[poolOf[o]] > seen[o].options
  /\ attempts[poolOf[o]] > since[o].attempts

SeenTells ==
  \A o \in Operations : opStep[o] # "new" =>
    /\ since[o].resets <= resets
    /\ since[o].resets = resets => Unchanged(o) \/ Refreshed(o)

PwInv == PwTypeOK /\ NothingSentYet /\ SeenTells

----------------------------------------------------------------------------
(* The invariant is inductive: one step per action. *)

LEMMA PwInitially == PwInit => PwInv
  BY DEF PwInit, PwInv, PwTypeOK, NothingSentYet, SeenTells, Unchanged, RefreshStates, Pools

LEMMA PwTypeStep == PwTypeOK /\ [PwNext]_pwVars => PwTypeOK'
  <1> SUFFICES ASSUME PwTypeOK, [PwNext]_pwVars PROVE PwTypeOK'
    OBVIOUS
  <1> USE DEF PwTypeOK, RefreshStates
  <1>1. ASSUME NEW o \in Operations, PwStep(o) PROVE PwTypeOK'
    <2>1. CASE Begin(o)
      <3>1. resets \in Pools /\ resets \in Nat
        BY DEF Pools
      <3>2. RefreshState(resets) \in RefreshStates
        BY <3>1 DEF RefreshState
      <3>3. [attempts |-> attempts[resets], resets |-> resets] \in [attempts : Nat, resets : Nat]
        BY <3>1
      <3> QED
        BY <2>1, <3>1, <3>2, <3>3 DEF Begin
    <2>2. CASE ConnectRefused(o)
      BY <2>2 DEF ConnectRefused
    <2>3. CASE SendStatement(o)
      BY <2>3 DEF SendStatement
    <2>4. CASE StatementReturns(o)
      BY <2>4 DEF StatementReturns
    <2>5. CASE TakeConnectLock(o)
      BY <2>5 DEF TakeConnectLock
    <2>6. CASE HelperAnswers(o)
      BY <2>6 DEF HelperAnswers
    <2>7. CASE HelperFails(o)
      BY <2>7 DEF HelperFails
    <2>8. CASE Abandon(o)
      BY <2>8 DEF Abandon
    <2> QED
      BY <1>1, <2>1, <2>2, <2>3, <2>4, <2>5, <2>6, <2>7, <2>8 DEF PwStep
  <1>2. CASE ResetFailures
    <2>1. resets' \in Pools
      BY <1>2 DEF ResetFailures, Pools
    <2>2. failures' \in [Pools -> Nat]
      BY <1>2 DEF ResetFailures
    <2> QED
      BY <1>2, <2>1, <2>2 DEF ResetFailures
  <1>3. CASE UNCHANGED pwVars
    BY <1>3 DEF pwVars
  <1> QED
    BY <1>1, <1>2, <1>3 DEF PwNext

LEMMA NothingSentStep == PwTypeOK /\ NothingSentYet /\ [PwNext]_pwVars => NothingSentYet'
  <1> SUFFICES ASSUME PwTypeOK, NothingSentYet, [PwNext]_pwVars PROVE NothingSentYet'
    OBVIOUS
  <1> USE DEF PwTypeOK, NothingSentYet
  <1>1. ASSUME NEW o \in Operations, PwStep(o) PROVE NothingSentYet'
    <2>1. CASE Begin(o)
      BY <2>1 DEF Begin
    <2>2. CASE ConnectRefused(o)
      BY <2>2 DEF ConnectRefused
    <2>3. CASE SendStatement(o)
      BY <2>3 DEF SendStatement
    <2>4. CASE StatementReturns(o)
      BY <2>4 DEF StatementReturns, MayRunTwice
    <2>5. CASE TakeConnectLock(o)
      BY <2>5 DEF TakeConnectLock
    <2>6. CASE HelperAnswers(o)
      BY <2>6 DEF HelperAnswers
    <2>7. CASE HelperFails(o)
      BY <2>7 DEF HelperFails
    <2>8. CASE Abandon(o)
      BY <2>8 DEF Abandon
    <2> QED
      BY <1>1, <2>1, <2>2, <2>3, <2>4, <2>5, <2>6, <2>7, <2>8 DEF PwStep
  <1>2. CASE ResetFailures
    BY <1>2 DEF ResetFailures
  <1>3. CASE UNCHANGED pwVars
    BY <1>3 DEF pwVars
  <1> QED
    BY <1>1, <1>2, <1>3 DEF PwNext

LEMMA SeenTellsStep == PwTypeOK /\ SeenTells /\ [PwNext]_pwVars => SeenTells'
  <1> SUFFICES ASSUME PwTypeOK, SeenTells, [PwNext]_pwVars PROVE SeenTells'
    OBVIOUS
  <1> USE DEF PwTypeOK, SeenTells, Unchanged, Refreshed, RefreshStates
  <1>1. ASSUME NEW o \in Operations, PwStep(o) PROVE SeenTells'
    <2>1. CASE Begin(o)
      <3>1. resets \in Pools /\ resets \in Nat
        BY DEF Pools
      <3>2. Unchanged(o)' /\ since'[o].resets = resets'
        BY <2>1, <3>1 DEF Begin, RefreshState
      <3>3. \A q \in Operations \ {o} :
              /\ opStep'[q] = opStep[q] /\ since'[q] = since[q]
              /\ Unchanged(q)' <=> Unchanged(q)
              /\ Refreshed(q)' <=> Refreshed(q)
        BY <2>1 DEF Begin
      <3> QED
        BY <2>1, <3>1, <3>2, <3>3 DEF Begin
    <2>2. CASE ConnectRefused(o)
      BY <2>2 DEF ConnectRefused
    <2>3. CASE SendStatement(o)
      BY <2>3 DEF SendStatement
    <2>4. CASE StatementReturns(o)
      BY <2>4 DEF StatementReturns
    <2>5. CASE TakeConnectLock(o)
      BY <2>5 DEF TakeConnectLock
    <2>6. CASE HelperAnswers(o)
      BY <2>6 DEF HelperAnswers
    <2>7. CASE HelperFails(o)
      BY <2>7 DEF HelperFails
    <2>8. CASE Abandon(o)
      BY <2>8 DEF Abandon
    <2> QED
      BY <1>1, <2>1, <2>2, <2>3, <2>4, <2>5, <2>6, <2>7, <2>8 DEF PwStep
  <1>2. CASE ResetFailures
    <2>1. resets \in Nat /\ \A o \in Operations : since[o].resets \in Nat
      BY DEF Pools
    <2> QED
      BY <1>2, <2>1 DEF ResetFailures
  <1>3. CASE UNCHANGED pwVars
    BY <1>3 DEF pwVars
  <1> QED
    BY <1>1, <1>2, <1>3 DEF PwNext

LEMMA PwInvariance == PwSpec => []PwInv
  <1>1. PwInv /\ [PwNext]_pwVars => PwInv'
    BY PwTypeStep, NothingSentStep, SeenTellsStep DEF PwInv
  <1> QED
    BY PwInitially, <1>1, PTL DEF PwSpec

(* What an operation compares is right: nothing happened to its pool       *)
(* exactly when no run of the helper for it ended, unless a reload has     *)
(* forgotten the failures.                                                 *)
LEMMA ComparisonIsRight ==
  ASSUME PwInv, NEW o \in Operations, opStep[o] # "new", ~ReloadedSince(o)
  PROVE  NothingHappened(o) <=> UndisturbedSince(o)
  <1>1. since[o].resets = resets
    BY DEF ReloadedSince
  <1>2. Unchanged(o) \/ Refreshed(o)
    BY <1>1 DEF PwInv, SeenTells
  <1>3. /\ options[poolOf[o]] \in Nat /\ failures[poolOf[o]] \in Nat /\ attempts[poolOf[o]] \in Nat
        /\ seen[o].options \in Nat /\ seen[o].failures \in Nat /\ since[o].attempts \in Nat
        /\ seen[o] = [options |-> seen[o].options, failures |-> seen[o].failures]
    BY DEF PwInv, PwTypeOK, RefreshStates
  <1> QED
    BY <1>2, <1>3 DEF Unchanged, Refreshed, NothingHappened, RefreshState, UndisturbedSince

----------------------------------------------------------------------------
(* The password refresh keeps what it promises: user SQL is sent once, the *)
(* helper runs once for one refused password and everybody else profits    *)
(* from that run.                                                          *)
THEOREM RefreshKeepsPromise == PwSpec => RefreshPromise
  <1> DEFINE Once ==
        \A o \in Operations :
          opStep[o] = "waiting" /\ opStep'[o] = "helper" => UndisturbedSince(o) \/ ReloadedSince(o)
  <1> DEFINE Reason ==
        \A o \in Operations :
          opStep[o] = "waiting" /\ opStep'[o] = "second" => ~UndisturbedSince(o) \/ ReloadedSince(o)
  <1>1. PwInv => UserSqlIsSentOnce
    BY DEF PwInv, NothingSentYet, UserSqlIsSentOnce
  <1>2. PwInv /\ [PwNext]_pwVars => [Once /\ Reason]_pwVars
    <2> SUFFICES ASSUME PwInv, PwNext, NEW o \in Operations, opStep[o] = "waiting",
                        opStep'[o] \in {"helper", "second"}
                 PROVE  /\ opStep'[o] = "helper" => UndisturbedSince(o) \/ ReloadedSince(o)
                        /\ opStep'[o] = "second" => ~UndisturbedSince(o) \/ ReloadedSince(o)
      BY DEF pwVars
    <2>1. TakeConnectLock(o)
      <3>1. PICK q \in Operations : PwStep(q)
        BY DEF PwNext, ResetFailures
      <3> QED
        BY <3>1 DEF PwInv, PwTypeOK, PwStep, Begin, ConnectRefused, SendStatement, StatementReturns,
                    TakeConnectLock, HelperAnswers, HelperFails, Abandon
    <2>2. (opStep'[o] = "helper" => NothingHappened(o)) /\ (opStep'[o] = "second" => ~NothingHappened(o))
      BY <2>1 DEF TakeConnectLock, PwInv, PwTypeOK
    <2> QED
      BY <2>2, ComparisonIsRight
  <1>3. PwSpec => [][Once /\ Reason]_pwVars
    BY <1>2, PwInvariance, PTL DEF PwSpec
  <1>4. [Once /\ Reason]_pwVars => [Once]_pwVars /\ [Reason]_pwVars
    OBVIOUS
  <1> QED
    BY <1>1, <1>3, <1>4, PwInvariance, PTL DEF RefreshPromise, HelperRunsOnce, RetryHasReason

HIDE DEF Operations, To
HIDE MaxResetsAssumption
HIDE OperationsAssumption

----------------------------------------------------------------------------
(***************************************************************************)
(* PooledSession                                                           *)
(***************************************************************************)

USE WorkAssumption, EditSizeAssumption

----------------------------------------------------------------------------
(* The parts of the inductive invariant. *)

(* A session is held by one piece of work, from its acquisition to its end.*)
HeldAlone ==
  /\ \A w \in Work : workStep[w] \notin {"new", "done"} <=> conn[w] # NoOne
  /\ \A v, w \in Work : conn[v] = conn[w] /\ conn[v] # NoOne => v = w

(* Who a session's settings and transaction belong to.                     *)
SettingsOwned ==
  /\ ~sqlite => queryOnly = {}
  /\ \A c \in PoolSessions : tx[c] = "readonly" =>
       ~sqlite /\ \E r \in AgentRuns : conn[r] = c /\ workStep[r] = "running"
  /\ \A c \in PoolSessions, e \in CellEdits : tx[c] = e =>
       conn[e] = c /\ workStep[e] \in {"running", "rollback"}
  /\ \A e \in CellEdits : workStep[e] = "running" => tx[conn[e]] = e /\ conn[e] \notin queryOnly
  /\ \A r \in UserRuns : workStep[r] = "running" => conn[r] \notin queryOnly
  /\ \A r \in AgentRuns : workStep[r] = "running" =>
       IF sqlite THEN conn[r] \in queryOnly ELSE tx[conn[r]] = "readonly"

(* What an edit has made permanent, and how it will end.                   *)
EditsInOrder ==
  /\ \A e \in CellEdits : workStep[e] # "done" => committed[e] = 0
  /\ \A e \in CellEdits : workStep[e] = "rollback" => ending[e] # "ok"
  /\ EditsAllOrNothing

(* The state of pieces of work and sessions keeps its types.               *)
LEMMA PsTypeStep == PsTypeOK /\ HeldAlone /\ [PsNext]_psVars => PsTypeOK'
  <1> SUFFICES ASSUME PsTypeOK /\ HeldAlone, [PsNext]_psVars PROVE PsTypeOK'
    OBVIOUS
  <1> USE DEF PsTypeOK, HeldAlone, Work, QueryRuns
  <1>1. ASSUME NEW w \in Work, AcquireConnection(w) \/ (w \in Catalogs /\ ReadCatalog(w)) PROVE PsTypeOK'
    <2>1. CASE AcquireConnection(w)
      BY <2>1 DEF AcquireConnection, Advance
    <2>2. CASE ReadCatalog(w) /\ w \in Catalogs
      BY <2>2 DEF ReadCatalog, Release, Advance
    <2> QED
      BY <1>1, <2>1, <2>2
  <1>2. ASSUME NEW r \in QueryRuns,
              HookCancel(r) \/ EnterReadMode(r) \/ GuardRefuses(r)
                \/ StatementEndsOn(r) \/ SetCancelFlag(r) \/ DropRun(r)
      PROVE  PsTypeOK'
    <2>1. CASE HookCancel(r)
      BY <2>1 DEF HookCancel, Release, Advance
    <2>2. CASE EnterReadMode(r)
      BY <2>2 DEF EnterReadMode, QueryOnlyFor, TransactionFor, Advance
    <2>3. CASE GuardRefuses(r)
      BY <2>3 DEF GuardRefuses, LeaveSession, Release, Advance
    <2>4. CASE StatementEndsOn(r)
      <3>1. PICK how \in {"ok", "error", "refused", "interrupted"} : LeaveSession(r, how)
        BY <2>4 DEF StatementEndsOn
      <3> QED
        BY <3>1 DEF LeaveSession, Release, Advance
    <2>5. CASE SetCancelFlag(r)
      BY <2>5 DEF SetCancelFlag
    <2>6. CASE DropRun(r)
      BY <2>6 DEF DropRun, Release, Advance
    <2> QED
      BY <1>2, <2>1, <2>2, <2>3, <2>4, <2>5, <2>6
  <1>3. ASSUME NEW e \in CellEdits,
              EditRefused(e) \/ BeginEdit(e) \/ ApplyEdit(e)
                \/ CommitEdit(e) \/ RollbackEdit(e)
      PROVE  PsTypeOK'
    <2>1. CASE EditRefused(e)
      BY <2>1 DEF EditRefused, Release, Advance
    <2>2. CASE BeginEdit(e)
      BY <2>2 DEF BeginEdit, Writable, Advance
    <2>3. CASE ApplyEdit(e)
      BY <2>3 DEF ApplyEdit, Advance
    <2>4. CASE CommitEdit(e)
      BY <2>4 DEF CommitEdit, AllApplied, CommitFails, Release, Advance
    <2>5. CASE RollbackEdit(e)
      BY <2>5 DEF RollbackEdit, Release, Advance
    <2> QED
      BY <1>3, <2>1, <2>2, <2>3, <2>4, <2>5
  <1>4. CASE UNCHANGED psVars
    BY <1>4 DEF psVars
  <1> QED
    BY <1>1, <1>2, <1>3, <1>4 DEF PsNext, Work

(* A session is taken when nobody holds it, and let go at the end.         *)
LEMMA HeldAloneStep == PsTypeOK /\ HeldAlone /\ [PsNext]_psVars => HeldAlone'
  <1> SUFFICES ASSUME PsTypeOK /\ HeldAlone, [PsNext]_psVars PROVE HeldAlone'
    OBVIOUS
  <1> USE DEF PsTypeOK, HeldAlone, Work, QueryRuns
  <1>1. ASSUME NEW w \in Work, AcquireConnection(w) \/ (w \in Catalogs /\ ReadCatalog(w)) PROVE HeldAlone'
    <2>1. CASE AcquireConnection(w)
      BY <2>1 DEF AcquireConnection, Advance
    <2>2. CASE ReadCatalog(w) /\ w \in Catalogs
      BY <2>2 DEF ReadCatalog, Release, Advance
    <2> QED
      BY <1>1, <2>1, <2>2
  <1>2. ASSUME NEW r \in QueryRuns,
              HookCancel(r) \/ EnterReadMode(r) \/ GuardRefuses(r)
                \/ StatementEndsOn(r) \/ SetCancelFlag(r) \/ DropRun(r)
      PROVE  HeldAlone'
    <2>1. CASE HookCancel(r)
      BY <2>1 DEF HookCancel, Release, Advance
    <2>2. CASE EnterReadMode(r)
      BY <2>2 DEF EnterReadMode, QueryOnlyFor, TransactionFor, Advance
    <2>3. CASE GuardRefuses(r)
      BY <2>3 DEF GuardRefuses, LeaveSession, Release, Advance
    <2>4. CASE StatementEndsOn(r)
      BY <2>4 DEF StatementEndsOn, LeaveSession, Release, Advance
    <2>5. CASE SetCancelFlag(r)
      BY <2>5 DEF SetCancelFlag
    <2>6. CASE DropRun(r)
      BY <2>6 DEF DropRun, Release, Advance
    <2> QED
      BY <1>2, <2>1, <2>2, <2>3, <2>4, <2>5, <2>6
  <1>3. ASSUME NEW e \in CellEdits,
              EditRefused(e) \/ BeginEdit(e) \/ ApplyEdit(e)
                \/ CommitEdit(e) \/ RollbackEdit(e)
      PROVE  HeldAlone'
    <2>1. CASE EditRefused(e)
      BY <2>1 DEF EditRefused, Release, Advance
    <2>2. CASE BeginEdit(e)
      BY <2>2 DEF BeginEdit, Writable, Advance
    <2>3. CASE ApplyEdit(e)
      BY <2>3 DEF ApplyEdit, Advance
    <2>4. CASE CommitEdit(e)
      BY <2>4 DEF CommitEdit, AllApplied, CommitFails, Release, Advance
    <2>5. CASE RollbackEdit(e)
      BY <2>5 DEF RollbackEdit, Release, Advance
    <2> QED
      BY <1>3, <2>1, <2>2, <2>3, <2>4, <2>5
  <1>4. CASE UNCHANGED psVars
    BY <1>4 DEF psVars
  <1> QED
    BY <1>1, <1>2, <1>3, <1>4 DEF PsNext, Work

(* A piece of work changes the settings of the session it holds alone.     *)
LEMMA SettingsOwnedStep ==
  PsTypeOK /\ HeldAlone /\ SettingsOwned /\ [PsNext]_psVars => SettingsOwned'
  <1> SUFFICES ASSUME PsTypeOK /\ HeldAlone /\ SettingsOwned, [PsNext]_psVars PROVE SettingsOwned'
    OBVIOUS
  <1> USE DEF PsTypeOK, HeldAlone, SettingsOwned, Work, QueryRuns
  <1>1. ASSUME NEW w \in Work, AcquireConnection(w) \/ (w \in Catalogs /\ ReadCatalog(w)) PROVE SettingsOwned'
    <2>1. CASE AcquireConnection(w)
      BY <2>1 DEF AcquireConnection, Advance
    <2>2. CASE ReadCatalog(w) /\ w \in Catalogs
      BY <2>2 DEF ReadCatalog, Release, Advance
    <2> QED
      BY <1>1, <2>1, <2>2
  <1>2. ASSUME NEW r \in QueryRuns,
              HookCancel(r) \/ EnterReadMode(r) \/ GuardRefuses(r)
                \/ StatementEndsOn(r) \/ SetCancelFlag(r) \/ DropRun(r)
      PROVE  SettingsOwned'
    <2>1. CASE HookCancel(r)
      BY <2>1 DEF HookCancel, Release, Advance
    <2>2. CASE EnterReadMode(r)
      BY <2>2 DEF EnterReadMode, QueryOnlyFor, TransactionFor, Advance
    <2>3. CASE GuardRefuses(r)
      BY <2>3 DEF GuardRefuses, LeaveSession, Release, Advance
    <2>4. CASE StatementEndsOn(r)
      BY <2>4 DEF StatementEndsOn, LeaveSession, Release, Advance
    <2>5. CASE SetCancelFlag(r)
      BY <2>5 DEF SetCancelFlag
    <2>6. CASE DropRun(r)
      BY <2>6 DEF DropRun, Release, Advance
    <2> QED
      BY <1>2, <2>1, <2>2, <2>3, <2>4, <2>5, <2>6
  <1>3. ASSUME NEW e \in CellEdits,
              EditRefused(e) \/ BeginEdit(e) \/ ApplyEdit(e)
                \/ CommitEdit(e) \/ RollbackEdit(e)
      PROVE  SettingsOwned'
    <2>1. CASE EditRefused(e)
      BY <2>1 DEF EditRefused, Release, Advance
    <2>2. CASE BeginEdit(e)
      BY <2>2 DEF BeginEdit, Writable, Advance
    <2>3. CASE ApplyEdit(e)
      BY <2>3 DEF ApplyEdit, Advance
    <2>4. CASE CommitEdit(e)
      BY <2>4 DEF CommitEdit, AllApplied, CommitFails, Release, Advance
    <2>5. CASE RollbackEdit(e)
      BY <2>5 DEF RollbackEdit, Release, Advance
    <2> QED
      BY <1>3, <2>1, <2>2, <2>3, <2>4, <2>5
  <1>4. CASE UNCHANGED psVars
    BY <1>4 DEF psVars
  <1> QED
    BY <1>1, <1>2, <1>3, <1>4 DEF PsNext, Work

(* An edit commits what it has applied in full, and nothing before.        *)
LEMMA EditsInOrderStep == PsTypeOK /\ EditsInOrder /\ [PsNext]_psVars => EditsInOrder'
  <1> SUFFICES ASSUME PsTypeOK /\ EditsInOrder, [PsNext]_psVars PROVE EditsInOrder'
    OBVIOUS
  <1> USE DEF PsTypeOK, EditsInOrder, EditsAllOrNothing, Work, QueryRuns
  <1>1. ASSUME NEW w \in Work, AcquireConnection(w) \/ (w \in Catalogs /\ ReadCatalog(w)) PROVE EditsInOrder'
    <2>1. CASE AcquireConnection(w)
      BY <2>1 DEF AcquireConnection, Advance
    <2>2. CASE ReadCatalog(w) /\ w \in Catalogs
      BY <2>2 DEF ReadCatalog, Release, Advance
    <2> QED
      BY <1>1, <2>1, <2>2
  <1>2. ASSUME NEW r \in QueryRuns,
              HookCancel(r) \/ EnterReadMode(r) \/ GuardRefuses(r)
                \/ StatementEndsOn(r) \/ SetCancelFlag(r) \/ DropRun(r)
      PROVE  EditsInOrder'
    <2>1. CASE HookCancel(r)
      BY <2>1 DEF HookCancel, Release, Advance
    <2>2. CASE EnterReadMode(r)
      BY <2>2 DEF EnterReadMode, QueryOnlyFor, TransactionFor, Advance
    <2>3. CASE GuardRefuses(r)
      BY <2>3 DEF GuardRefuses, LeaveSession, Release, Advance
    <2>4. CASE StatementEndsOn(r)
      BY <2>4 DEF StatementEndsOn, LeaveSession, Release, Advance
    <2>5. CASE SetCancelFlag(r)
      BY <2>5 DEF SetCancelFlag
    <2>6. CASE DropRun(r)
      BY <2>6 DEF DropRun, Release, Advance
    <2> QED
      BY <1>2, <2>1, <2>2, <2>3, <2>4, <2>5, <2>6
  <1>3. ASSUME NEW e \in CellEdits,
              EditRefused(e) \/ BeginEdit(e) \/ ApplyEdit(e)
                \/ CommitEdit(e) \/ RollbackEdit(e)
      PROVE  EditsInOrder'
    <2>1. CASE EditRefused(e)
      BY <2>1 DEF EditRefused, Release, Advance
    <2>2. CASE BeginEdit(e)
      BY <2>2 DEF BeginEdit, Writable, Advance
    <2>3. CASE ApplyEdit(e)
      BY <2>3 DEF ApplyEdit, Advance
    <2>4. CASE CommitEdit(e)
      BY <2>4 DEF CommitEdit, AllApplied, CommitFails, Release, Advance
    <2>5. CASE RollbackEdit(e)
      BY <2>5 DEF RollbackEdit, Release, Advance
    <2> QED
      BY <1>3, <2>1, <2>2, <2>3, <2>4, <2>5
  <1>4. CASE UNCHANGED psVars
    BY <1>4 DEF psVars
  <1> QED
    BY <1>1, <1>2, <1>3, <1>4 DEF PsNext, Work

----------------------------------------------------------------------------
PsInv == PsTypeOK /\ HeldAlone /\ SettingsOwned /\ EditsInOrder

LEMMA PsInvariance == PsSpec => []PsInv
  <1>1. PsInit => PsInv
    BY DEF PsInit, PsInv, PsTypeOK, HeldAlone, SettingsOwned, EditsInOrder, EditsAllOrNothing, Work, QueryRuns
  <1>2. PsInv /\ [PsNext]_psVars => PsInv'
    BY PsTypeStep, HeldAloneStep, SettingsOwnedStep, EditsInOrderStep DEF PsInv
  <1> QED
    BY <1>1, <1>2, PTL DEF PsSpec

(* Whoever gets a session of the pool finds it in the mode its work needs  *)
(* and without a transaction, whatever was dropped, refused or interrupted *)
(* on it before.                                                           *)
THEOREM SessionsStayClean == PsSpec => []SessionsAreClean
  <1> SUFFICES ASSUME PsInv PROVE SessionsAreClean
    BY PsInvariance, PTL
  <1> USE DEF PsInv, PsTypeOK, HeldAlone, SettingsOwned, Work, QueryRuns, ReadOnlySession
  <1>1. AgentIsReadOnly
    BY DEF AgentIsReadOnly
  <1>2. UserMayWrite
    BY DEF UserMayWrite
  <1>3. NoForeignTransaction
    BY DEF NoForeignTransaction
  <1> QED
    BY <1>1, <1>2, <1>3 DEF SessionsAreClean

(* The statements of a cell edit are made permanent together or not at     *)
(* all, and reported accordingly.                                          *)
THEOREM EditsAreAtomic == PsSpec => []EditsAllOrNothing
  BY PsInvariance, PTL DEF PsInv, EditsInOrder

HIDE EditSizeAssumption
HIDE WorkAssumption

----------------------------------------------------------------------------
(***************************************************************************)
(* SchemaCache                                                             *)
(***************************************************************************)

USE SchemasAssumption, TablesAssumption, MaxSwitchesAssumption

----------------------------------------------------------------------------
(* The parts of the inductive invariant. *)

(* Until the first switch everything is about the default schema.          *)
UnswitchedIsDefault ==
  switches = 0 =>
    /\ activeSchema = DefaultSchema
    /\ \A s \in Schemas \ {DefaultSchema} : CachedIsOf(s)
    /\ \A l \in Listings : listing[l].key = DefaultSchema

(* Up to the first switch, a call whose key is the active schema reads it: *)
(* its key was taken after the switch, its pool after its key.             *)
KeyIsRead ==
  switches <= 1 =>
    \A l \in Listings :
      listing[l].key = activeSchema /\ listing[l].step = "fetching" => listing[l].pool = activeSchema

ScInv == ScTypeOK /\ CacheIsWhole /\ UnswitchedIsDefault /\ KeyIsRead

----------------------------------------------------------------------------
LEMMA ForgetTyped ==
  ASSUME ScTypeOK, NEW schemas, Forget(schemas)
  PROVE  /\ cachedTables' \in [Schemas -> Sources]
         /\ cachedColumns' \in [Schemas -> [Tables -> Sources]]
         /\ complete' \in [Schemas -> BOOLEAN]
  <1>1. Uncached \in Sources
    BY DEF Sources
  <1> QED
    BY <1>1 DEF ScTypeOK, Forget

LEMMA IdleTyped == Idle \in [kind : {"none", "select", "command"}, schema : Schemas, previous : Schemas]
  BY DEF Idle

(* The cache, the calls and the switch keep their types.                   *)
LEMMA ScTypeStep == ScTypeOK /\ [ScNext]_scVars => ScTypeOK'
  <1> SUFFICES ASSUME ScTypeOK, [ScNext]_scVars PROVE ScTypeOK'
    OBVIOUS
  <1> USE DEF ScTypeOK
  <1>1. ASSUME NEW l \in Listings, ScStep(l) PROVE ScTypeOK'
    <2>1. CASE ReadKey(l)
      <3>1. PICK k \in Kinds, t \in Tables :
              listing' = [listing EXCEPT ![l] =
                [@ EXCEPT !.step = "keyed", !.kind = k, !.table = t, !.key = ActiveSchemaKey]]
        BY <2>1 DEF ReadKey
      <3>2. [listing[l] EXCEPT !.step = "keyed", !.kind = k, !.table = t, !.key = ActiveSchemaKey]
              \in ListingStates
        BY DEF ListingStates, ActiveSchemaKey
      <3> QED
        BY <2>1, <3>1, <3>2 DEF ReadKey
    <2>2. CASE LookUp(l)
      <3>1. Cached(l) \subseteq Sources
        <4>1. listing[l].kind \in Kinds /\ listing[l].key \in Schemas /\ listing[l].table \in Tables
          BY DEF ListingStates
        <4> QED
          BY <4>1 DEF Cached, Sources, Kinds
      <3>2. [listing[l] EXCEPT !.step = "done", !.answer = Cached(l)] \in ListingStates
        BY <3>1 DEF ListingStates
      <3>3. [listing[l] EXCEPT !.step = "missed"] \in ListingStates
        BY DEF ListingStates
      <3>4. listing' \in [Listings -> ListingStates]
        BY <2>2, <3>2, <3>3 DEF LookUp
      <3> QED
        BY <2>2, <3>4, ForgetTyped DEF LookUp
    <2>3. CASE TakePool(l)
      <3>1. [listing[l] EXCEPT !.step = "fetching", !.pool = activeSchema] \in ListingStates
        BY DEF ListingStates
      <3> QED
        BY <2>3, <3>1 DEF TakePool
    <2>4. CASE StoreAnswer(l)
      <3>1. listing[l].key \in Schemas /\ listing[l].pool \in Schemas
        BY DEF ListingStates
      <3>2. listing[l].pool \in Sources /\ CompleteWith(l) \in BOOLEAN
        BY <3>1 DEF Sources, CompleteWith
      <3>3. [listing[l] EXCEPT !.step = "done", !.answer = {listing[l].pool}] \in ListingStates
        BY <3>2 DEF ListingStates
      <3>4. listing' \in [Listings -> ListingStates]
        BY <2>4, <3>3 DEF StoreAnswer
      <3>5. cachedTables' \in [Schemas -> Sources]
        BY <2>4, <3>1, <3>2 DEF StoreAnswer
      <3>6. cachedColumns' \in [Schemas -> [Tables -> Sources]]
        <4>1. [t \in Tables |-> IF listing[l].kind = "map" \/ t = listing[l].table
                                 THEN listing[l].pool ELSE cachedColumns[listing[l].key][t]]
                \in [Tables -> Sources]
          BY <3>1, <3>2
        <4>2. CASE listing[l].kind \in {"tables", "refresh"}
          BY <2>4, <4>2 DEF StoreAnswer
        <4>3. CASE listing[l].kind \notin {"tables", "refresh"}
          BY <2>4, <4>1, <4>3 DEF StoreAnswer
        <4> QED
          BY <4>2, <4>3
      <3>7. complete' \in [Schemas -> BOOLEAN]
        BY <2>4, <3>1, <3>2 DEF StoreAnswer
      <3> QED
        BY <2>4, <3>4, <3>5, <3>6, <3>7 DEF StoreAnswer
    <2>5. CASE ListingFails(l)
      <3>1. [listing[l] EXCEPT !.step = "done"] \in ListingStates
        BY DEF ListingStates
      <3> QED
        BY <2>5, <3>1 DEF ListingFails
    <2> QED
      BY <1>1, <2>1, <2>2, <2>3, <2>4, <2>5 DEF ScStep
  <1>2. CASE BeginSwitch
    BY <1>2 DEF BeginSwitch
  <1>3. CASE EndSwitch
    BY <1>3, ForgetTyped, IdleTyped DEF EndSwitch
  <1>4. CASE RollBackSwitch
    BY <1>4, IdleTyped DEF RollBackSwitch
  <1>5. CASE ReloadConfig
    BY <1>5, ForgetTyped DEF ReloadConfig
  <1>6. CASE UNCHANGED scVars
    BY <1>6 DEF scVars
  <1> QED
    BY <1>1, <1>2, <1>3, <1>4, <1>5, <1>6 DEF ScNext

LEMMA ForgetKeepsMap ==
  ASSUME ScTypeOK, MapIsComplete, NEW schemas, Forget(schemas)
  PROVE  MapIsComplete'
  <1> SUFFICES ASSUME NEW s \in Schemas, complete'[s], NEW t \in Tables
               PROVE  cachedColumns'[s][t] # Uncached
    BY DEF MapIsComplete
  <1>1. complete[s] /\ s \notin schemas
    BY DEF Forget
  <1>2. cachedColumns'[s] = cachedColumns[s]
    BY <1>1 DEF Forget
  <1> QED
    BY <1>1, <1>2 DEF MapIsComplete

(* Only a whole map makes a schema's columns complete.                     *)
LEMMA MapIsCompleteStep == ScTypeOK /\ MapIsComplete /\ [ScNext]_scVars => MapIsComplete'
  <1> SUFFICES ASSUME ScTypeOK /\ MapIsComplete, [ScNext]_scVars PROVE MapIsComplete'
    OBVIOUS
  <1> USE DEF ScTypeOK, ListingStates, MapIsComplete, Sources
  <1>1. ASSUME NEW l \in Listings, ScStep(l) PROVE MapIsComplete'
    <2>1. CASE ReadKey(l)
      BY <2>1 DEF ReadKey, ActiveSchemaKey
    <2>2. CASE LookUp(l)
      <3>1. CASE listing[l].kind = "refresh"
        BY <2>2, <3>1, ForgetKeepsMap DEF LookUp
      <3>2. CASE listing[l].kind # "refresh"
        BY <2>2, <3>2 DEF LookUp
      <3> QED
        BY <3>1, <3>2
    <2>3. CASE TakePool(l)
      BY <2>3 DEF TakePool
    <2>4. CASE StoreAnswer(l)
      <3>1. listing[l].key \in Schemas /\ listing[l].pool \in Schemas
        OBVIOUS
      <3>2. CASE listing[l].kind \in {"tables", "refresh"}
        BY <2>4, <3>2 DEF StoreAnswer
      <3>3. CASE listing[l].kind \notin {"tables", "refresh"}
        <4>1. SUFFICES ASSUME NEW s \in Schemas, complete'[s], NEW t \in Tables
                       PROVE  cachedColumns'[s][t] # Uncached
          OBVIOUS
        <4>2. CASE s # listing[l].key
          <5>1. complete'[s] = complete[s] /\ cachedColumns'[s] = cachedColumns[s]
            BY <2>4, <3>3, <4>2 DEF StoreAnswer
          <5> QED
            BY <5>1, <4>1
        <4>3. CASE s = listing[l].key
          <5>1. cachedColumns'[s][t] = IF listing[l].kind = "map" \/ t = listing[l].table
                                         THEN listing[l].pool ELSE cachedColumns[s][t]
            BY <2>4, <3>1, <3>3, <4>3 DEF StoreAnswer
          <5>2. complete[s] \/ listing[l].kind = "map"
            BY <2>4, <3>1, <3>3, <4>1, <4>3 DEF StoreAnswer, CompleteWith
          <5> QED
            BY <3>1, <5>1, <5>2
        <4> QED
          BY <4>2, <4>3
      <3> QED
        BY <3>2, <3>3
    <2>5. CASE ListingFails(l)
      BY <2>5 DEF ListingFails
    <2> QED
      BY <1>1, <2>1, <2>2, <2>3, <2>4, <2>5 DEF ScStep
  <1>2. CASE BeginSwitch
    BY <1>2 DEF BeginSwitch
  <1>3. CASE EndSwitch
    BY <1>3, ForgetKeepsMap DEF EndSwitch
  <1>4. CASE RollBackSwitch
    BY <1>4 DEF RollBackSwitch
  <1>5. CASE ReloadConfig
    BY <1>5, ForgetKeepsMap DEF ReloadConfig
  <1>6. CASE UNCHANGED scVars
    BY <1>6 DEF scVars
  <1> QED
    BY <1>1, <1>2, <1>3, <1>4, <1>5, <1>6 DEF ScNext

(* A call answers what is cached in full or what it has read.              *)
LEMMA AnswerIsWholeStep ==
  ScTypeOK /\ MapIsComplete /\ AnswerIsWhole /\ [ScNext]_scVars => AnswerIsWhole'
  <1> SUFFICES ASSUME ScTypeOK /\ MapIsComplete /\ AnswerIsWhole, [ScNext]_scVars PROVE AnswerIsWhole'
    OBVIOUS
  <1> USE DEF ScTypeOK, ListingStates, MapIsComplete, AnswerIsWhole, Sources
  <1>1. ASSUME NEW l \in Listings, ScStep(l) PROVE AnswerIsWhole'
    <2>1. CASE ReadKey(l)
      BY <2>1 DEF ReadKey, ActiveSchemaKey
    <2>2. CASE LookUp(l)
      <3>1. Cached(l) # {Uncached} => Uncached \notin Cached(l)
        BY DEF Cached, CompleteOnly
      <3>2. \A m \in Listings : Uncached \notin listing'[m].answer
        BY <2>2, <3>1 DEF LookUp
      <3> QED
        BY <3>2
    <2>3. CASE TakePool(l)
      BY <2>3 DEF TakePool
    <2>4. CASE StoreAnswer(l)
      BY <2>4 DEF StoreAnswer, CompleteWith
    <2>5. CASE ListingFails(l)
      BY <2>5 DEF ListingFails
    <2> QED
      BY <1>1, <2>1, <2>2, <2>3, <2>4, <2>5 DEF ScStep
  <1>2. CASE BeginSwitch
    BY <1>2 DEF BeginSwitch
  <1>3. CASE EndSwitch
    BY <1>3 DEF EndSwitch, Forget
  <1>4. CASE RollBackSwitch
    BY <1>4 DEF RollBackSwitch
  <1>5. CASE ReloadConfig
    BY <1>5 DEF ReloadConfig, Forget
  <1>6. CASE UNCHANGED scVars
    BY <1>6 DEF scVars
  <1> QED
    BY <1>1, <1>2, <1>3, <1>4, <1>5, <1>6 DEF ScNext

(* The first switch leaves what is under way with the key of the old schema. *)
LEMMA OneSwitchStep ==
  ScTypeOK /\ OneSwitchIsSafe /\ UnswitchedIsDefault /\ KeyIsRead /\ [ScNext]_scVars => (OneSwitchIsSafe /\ UnswitchedIsDefault /\ KeyIsRead)'
  <1> SUFFICES ASSUME ScTypeOK /\ OneSwitchIsSafe /\ UnswitchedIsDefault /\ KeyIsRead, [ScNext]_scVars PROVE (OneSwitchIsSafe /\ UnswitchedIsDefault /\ KeyIsRead)'
    OBVIOUS
  <1> USE DEF ScTypeOK, OneSwitchIsSafe, UnswitchedIsDefault, KeyIsRead, CachedIsOf, ListingStates, Sources
  <1>1. ASSUME NEW l \in Listings, ScStep(l) PROVE (OneSwitchIsSafe /\ UnswitchedIsDefault /\ KeyIsRead)'
    <2>1. CASE ReadKey(l)
      BY <2>1 DEF ReadKey, ActiveSchemaKey
    <2>2. CASE LookUp(l)
      BY <2>2 DEF LookUp, Forget, Cached, CompleteOnly
    <2>3. CASE TakePool(l)
      BY <2>3 DEF TakePool
    <2>4. CASE StoreAnswer(l)
      BY <2>4 DEF StoreAnswer, CompleteWith
    <2>5. CASE ListingFails(l)
      BY <2>5 DEF ListingFails
    <2> QED
      BY <1>1, <2>1, <2>2, <2>3, <2>4, <2>5 DEF ScStep
  <1>2. CASE BeginSwitch
    BY <1>2 DEF BeginSwitch
  <1>3. CASE EndSwitch
    BY <1>3 DEF EndSwitch, Forget
  <1>4. CASE RollBackSwitch
    BY <1>4 DEF RollBackSwitch
  <1>5. CASE ReloadConfig
    BY <1>5 DEF ReloadConfig, Forget
  <1>6. CASE UNCHANGED scVars
    BY <1>6 DEF scVars
  <1> QED
    BY <1>1, <1>2, <1>3, <1>4, <1>5, <1>6 DEF ScNext

----------------------------------------------------------------------------
LEMMA ScInvariance == ScSpec => []ScInv
  <1>1. ScInit => ScInv
    BY DEF ScInit, ScInv, ScTypeOK, CacheIsWhole, MapIsComplete, AnswerIsWhole, OneSwitchIsSafe, CachedIsOf,
           UnswitchedIsDefault, KeyIsRead, Idle, ListingStates, Sources, Kinds
  <1>2. ScInv /\ [ScNext]_scVars => ScInv'
    BY ScTypeStep, MapIsCompleteStep, AnswerIsWholeStep, OneSwitchStep DEF ScInv, CacheIsWhole
  <1> QED
    BY <1>1, <1>2, PTL DEF ScSpec

(* Whatever order loads, refreshes and switches come in: a map that is     *)
(* complete lacks no table, no answer has a hole, and one change of the    *)
(* active schema shows nobody the old schema under the new one's name.     *)
THEOREM CacheStaysWhole == ScSpec => []CacheIsWhole
  BY ScInvariance, PTL DEF ScInv

HIDE MaxSwitchesAssumption
HIDE TablesAssumption
HIDE SchemasAssumption

----------------------------------------------------------------------------
(***************************************************************************)
(* TunnelSetup                                                             *)
(***************************************************************************)

(* What a session read of known_hosts has every entry the file had to      *)
(* begin with, so an entry is only added for a host it had none for.       *)
ReadKnowsTrusted ==
  \A t \in Tunnels : setup[t] \in {"read", "add"} =>
    \A h \in SshHosts : trusted[h] # NoKey => readHosts[t][h] = trusted[h]
OnlyUnknownIsAdded ==
  \A t \in Tunnels : setup[t] = "add" => trusted[SshHostOf[t]] = NoKey

TsInv ==
  /\ TsTypeOK
  /\ ReadKnowsTrusted /\ OnlyUnknownIsAdded
  /\ ChangedKeyIsRefused /\ TrustedStays /\ NoOrphanSsh

USE SetupAssumption

LEMMA TsInitially == TsInit => TsInv
  BY DEF TsInit, TsInv, TsTypeOK, KnownFiles, NothingKnown, ReadKnowsTrusted, OnlyUnknownIsAdded,
         ChangedKeyIsRefused, TrustedStays, NoOrphanSsh

(* A step that moves a tunnel and leaves the keys as they are.             *)
LEMMA MoveKeeps ==
  ASSUME TsInv, NEW t \in Tunnels, NEW s, Move(t, s),
         s \in {"login", "polling", "up", "failed", "dropped"},
         sshChild' \subseteq SystemSsh,
         sshChild' \subseteq (IF s \in {"polling", "up"} THEN sshChild \cup {t} ELSE sshChild \ {t}),
         UNCHANGED <<hostKey, knownHosts, readHosts, accepted, trusted>>
  PROVE  TsInv'
  <1>1. TsTypeOK'
    BY DEF TsInv, TsTypeOK, Move
  <1>2. ReadKnowsTrusted' /\ OnlyUnknownIsAdded'
    BY DEF TsInv, TsTypeOK, Move, ReadKnowsTrusted, OnlyUnknownIsAdded
  <1>3. ChangedKeyIsRefused' /\ TrustedStays'
    BY DEF TsInv, ChangedKeyIsRefused, TrustedStays
  <1>4. NoOrphanSsh'
    BY DEF TsInv, TsTypeOK, Move, NoOrphanSsh
  <1> QED
    BY <1>1, <1>2, <1>3, <1>4 DEF TsInv

LEMMA ReadKeeps ==
  ASSUME TsInv, NEW t \in Tunnels, ReadKnownHosts(t)
  PROVE  TsInv'
  <1> USE DEF TsInv, ReadKnownHosts
  <1>1. CASE Move(t, "failed") /\ UNCHANGED readHosts
    <2>1. t \notin sshChild
      BY DEF NoOrphanSsh
    <2> QED
      BY <1>1, <2>1, MoveKeeps DEF TsTypeOK
  <1>2. CASE Move(t, "read") /\ readHosts' = [readHosts EXCEPT ![t] = knownHosts]
    <2>1. TsTypeOK'
      BY <1>2 DEF TsTypeOK, Move
    <2>2. ReadKnowsTrusted' /\ OnlyUnknownIsAdded'
      BY <1>2 DEF TsTypeOK, Move, ReadKnowsTrusted, OnlyUnknownIsAdded, TrustedStays
    <2>3. ChangedKeyIsRefused' /\ TrustedStays'
      BY DEF ChangedKeyIsRefused, TrustedStays
    <2>4. NoOrphanSsh'
      BY <1>2 DEF TsTypeOK, Move, NoOrphanSsh
    <2> QED
      BY <2>1, <2>2, <2>3, <2>4
  <1> QED
    BY <1>1, <1>2

(* The session's answer is by what it read: a host the file had a key for  *)
(* is accepted with that key or not at all.                                *)
LEMMA VerifyKeeps ==
  ASSUME TsInv, NEW t \in Tunnels, VerifyHostKey(t)
  PROVE  TsInv'
  <1> DEFINE h == SshHostOf[t]
  <1> DEFINE key == hostKey[h]
  <1>1. /\ setup[t] = "read" /\ DecideOnKey(t, key)
        /\ accepted' = IF setup'[t] = "failed" THEN accepted ELSE [accepted EXCEPT ![t] = key]
        /\ UNCHANGED <<hostKey, knownHosts, readHosts, sshChild, trusted>>
    BY DEF VerifyHostKey
  <1>2. h \in SshHosts /\ key \in HostKeys
    BY DEF TsInv, TsTypeOK
  <1>3. PICK s \in {"login", "add", "failed"} :
          /\ Move(t, s)
          /\ s = "login" => readHosts[t][h] = key
          /\ s = "add" => readHosts[t][h] = NoKey
    BY <1>1 DEF DecideOnKey
  <1>4. setup' = [setup EXCEPT ![t] = s] /\ setup'[t] = s /\ setup' \in [Tunnels -> {"new", "read",
          "add", "login", "polling", "up", "failed", "dropped"}]
    BY <1>3 DEF TsInv, TsTypeOK, Move
  <1>5. trusted[h] # NoKey => readHosts[t][h] = trusted[h]
    BY <1>1, <1>2 DEF TsInv, ReadKnowsTrusted
  <1> HIDE DEF key
  <1>6. TsTypeOK'
    BY <1>1, <1>2, <1>4 DEF TsInv, TsTypeOK
  <1>7. ReadKnowsTrusted'
    BY <1>1, <1>4 DEF TsInv, TsTypeOK, ReadKnowsTrusted
  <1>8. OnlyUnknownIsAdded'
    BY <1>1, <1>3, <1>4, <1>5 DEF TsInv, TsTypeOK, OnlyUnknownIsAdded
  <1>9. ChangedKeyIsRefused'
    <2> SUFFICES ASSUME NEW q \in Tunnels, accepted'[q] # NoKey
                 PROVE  trusted[SshHostOf[q]] \in {NoKey, accepted'[q]}
      BY <1>1 DEF ChangedKeyIsRefused
    <2>1. CASE q # t \/ s = "failed"
      BY <1>1, <1>4, <2>1 DEF TsInv, TsTypeOK, ChangedKeyIsRefused
    <2>2. CASE q = t /\ s # "failed"
      <3>1. accepted'[q] = key
        BY <1>1, <1>4, <2>2 DEF TsInv, TsTypeOK
      <3> QED
        BY <1>3, <1>5, <2>2, <3>1
    <2> QED
      BY <2>1, <2>2
  <1>10. TrustedStays' /\ NoOrphanSsh'
    BY <1>1, <1>4 DEF TsInv, TsTypeOK, TrustedStays, NoOrphanSsh
  <1> QED
    BY <1>6, <1>7, <1>8, <1>9, <1>10 DEF TsInv

(* The written file has what was read: all that was trusted.               *)
LEMMA AddKeeps ==
  ASSUME TsInv, NEW t \in Tunnels, AddHostKey(t)
  PROVE  TsInv'
  <1>1. setup[t] = "add" /\ UNCHANGED <<hostKey, readHosts, sshChild, accepted, trusted>>
    BY DEF AddHostKey
  <1>2. t \notin sshChild
    BY <1>1 DEF TsInv, NoOrphanSsh
  <1>3. CASE Move(t, "failed") /\ UNCHANGED knownHosts
    BY <1>1, <1>2, <1>3, MoveKeeps DEF TsInv, TsTypeOK
  <1>4. CASE Move(t, "login") /\ knownHosts' = WithEntry(t)
    <2>1. TsTypeOK'
      BY <1>1, <1>4 DEF TsInv, TsTypeOK, KnownFiles, Move, WithEntry
    <2>2. ReadKnowsTrusted' /\ OnlyUnknownIsAdded'
      BY <1>1, <1>4 DEF TsInv, TsTypeOK, Move, ReadKnowsTrusted, OnlyUnknownIsAdded
    <2>3. ChangedKeyIsRefused'
      BY <1>1 DEF TsInv, ChangedKeyIsRefused
    <2>4. TrustedStays'
      <3>1. trusted[SshHostOf[t]] = NoKey
        BY <1>1 DEF TsInv, OnlyUnknownIsAdded
      <3>2. \A h \in SshHosts : trusted[h] # NoKey => readHosts[t][h] = trusted[h]
        BY <1>1 DEF TsInv, ReadKnowsTrusted
      <3> QED
        BY <1>1, <1>4, <3>1, <3>2 DEF TsInv, TsTypeOK, KnownFiles, TrustedStays, WithEntry
    <2>5. NoOrphanSsh'
      BY <1>1, <1>2, <1>4 DEF TsInv, TsTypeOK, Move, NoOrphanSsh
    <2> QED
      BY <2>1, <2>2, <2>3, <2>4, <2>5 DEF TsInv
  <1> QED
    BY <1>3, <1>4 DEF AddHostKey

LEMMA TsInductive == TsInv /\ [TsNext]_tsVars => TsInv'
  <1> SUFFICES ASSUME TsInv, [TsNext]_tsVars PROVE TsInv'
    OBVIOUS
  <1> USE DEF TsInv
  <1>1. ASSUME NEW t \in Tunnels, Authenticate(t) PROVE TsInv'
    <2>1. t \notin sshChild
      BY <1>1 DEF Authenticate, NoOrphanSsh
    <2> QED
      BY <1>1, <2>1, MoveKeeps DEF Authenticate, TsTypeOK
  <1>2. ASSUME NEW t \in Tunnels, SpawnSsh(t) PROVE TsInv'
    <2>1. t \notin sshChild
      BY <1>2 DEF SpawnSsh, NoOrphanSsh
    <2> QED
      BY <1>2, <2>1, MoveKeeps DEF SpawnSsh, TsTypeOK
  <1>3. ASSUME NEW t \in Tunnels, PollSsh(t) PROVE TsInv'
    BY <1>3, MoveKeeps DEF PollSsh, KillChild, TsTypeOK
  <1>4. ASSUME NEW t \in Tunnels, CloseTunnel(t) PROVE TsInv'
    BY <1>4, MoveKeeps DEF CloseTunnel, TsTypeOK
  <1>5. ASSUME NEW t \in Tunnels, SshExits(t) PROVE TsInv'
    BY <1>5 DEF SshExits, TsTypeOK, ReadKnowsTrusted, OnlyUnknownIsAdded, ChangedKeyIsRefused,
                TrustedStays, NoOrphanSsh
  <1>6. ASSUME NEW h \in SshHosts, ReplaceHostKey(h) PROVE TsInv'
    BY <1>6 DEF ReplaceHostKey, TsTypeOK, ReadKnowsTrusted, OnlyUnknownIsAdded, ChangedKeyIsRefused,
                TrustedStays, NoOrphanSsh
  <1>7. CASE UNCHANGED tsVars
    BY <1>7 DEF tsVars, TsTypeOK, ReadKnowsTrusted, OnlyUnknownIsAdded, ChangedKeyIsRefused,
                TrustedStays, NoOrphanSsh
  <1> QED
    BY <1>1, <1>2, <1>3, <1>4, <1>5, <1>6, <1>7, ReadKeeps, VerifyKeeps, AddKeeps DEF TsNext

----------------------------------------------------------------------------
(* However many tunnels are set up at the same time: a host known to begin *)
(* with is only accepted with its key, which stays in known_hosts, and no  *)
(* ssh client outlives its tunnel.                                         *)
THEOREM TunnelsAreVerified == TsSpec => []HostsAreVerified
  <1>1. TsInv => HostsAreVerified
    BY DEF TsInv, HostsAreVerified
  <1> QED
    BY <1>1, TsInitially, TsInductive, PTL DEF TsSpec

HIDE SetupAssumption

----------------------------------------------------------------------------
(***************************************************************************)
(* TunnelRelay                                                             *)
(***************************************************************************)

(* A run of consecutive chunks, the first of which is the one after n.     *)
Run(s, n) == s \in Seq(Nat) /\ n \in Nat /\ \A i \in 1 .. Len(s) : s[i] = n + i

(* One direction: what arrived, what waits to be read, what the relay      *)
(* holds, what waits for the relay, one after the other up to the last one *)
(* sent.                                                                   *)
Stream(got, near, held, far, last) ==
  /\ Run(got, 0)
  /\ Run(near, Len(got))
  /\ Run(held, Len(got) + Len(near))
  /\ Run(far, Len(got) + Len(near) + Len(held))
  /\ last = Len(got) + Len(near) + Len(held) + Len(far)

HeldUp == IF relay = "writeChannel" THEN buf ELSE <<>>
HeldDown == IF relay = "writeTcp" THEN buf ELSE <<>>

BothStreams ==
  /\ Stream(server.got, channelUp, HeldUp, socketUp, driver.sent)
  /\ Stream(driver.got, socketDown, HeldDown, channelDown, server.sent)
  /\ buf # <<>> <=> relay \in {"writeChannel", "writeTcp"}

(* A relay that was not dropped ends when the server has closed and every  *)
(* chunk of it was read.                                                   *)
EndsAfterServer == relay = "ended" /\ ~shutdown => server.closed /\ channelDown = <<>>

TrInv == TrTypeOK /\ BothStreams /\ EndsAfterServer

----------------------------------------------------------------------------
(* Runs stay runs. *)
LEMMA RunIsSeq == ASSUME NEW s, NEW n, Run(s, n) PROVE s \in Seq(Nat) /\ Len(s) \in Nat /\ n \in Nat
  BY LenProperties DEF Run

LEMMA RunGrows ==
  ASSUME NEW s, NEW n, Run(s, n)
  PROVE  /\ Run(Append(s, n + Len(s) + 1), n)
         /\ Len(Append(s, n + Len(s) + 1)) = Len(s) + 1
  <1>1. s \in Seq(Nat) /\ Len(s) \in Nat /\ n \in Nat /\ n + Len(s) + 1 \in Nat
    BY RunIsSeq
  <1> DEFINE x == n + Len(s) + 1  t == Append(s, x)
  <1>2. x \in Nat
    BY <1>1
  <1>3. x = n + (Len(s) + 1)
    BY <1>1
  <1> HIDE DEF x
  <1>4. /\ t \in Seq(Nat) /\ Len(t) = Len(s) + 1
        /\ \A i \in 1 .. Len(s) : t[i] = s[i]
        /\ t[Len(s) + 1] = x
    BY <1>1, <1>2, AppendProperties
  <1> HIDE DEF t
  <1>5. \A i \in 1 .. Len(t) : t[i] = n + i
    <2> SUFFICES ASSUME NEW i \in 1 .. Len(t) PROVE t[i] = n + i
      OBVIOUS
    <2>1. CASE i = Len(s) + 1
      BY <1>1, <1>3, <1>4, <2>1
    <2>2. CASE i \in 1 .. Len(s)
      BY <1>1, <1>4, <2>2 DEF Run
    <2> QED
      BY <1>1, <1>4, <2>1, <2>2
  <1> QED
    BY <1>1, <1>4, <1>5 DEF Run, t, x

LEMMA RunHeadTail ==
  ASSUME NEW s, NEW n, Run(s, n), s # <<>>
  PROVE  Head(s) = n + 1 /\ Run(Tail(s), n + 1) /\ Len(s) >= 1 /\ Len(Tail(s)) = Len(s) - 1
  <1>1. s \in Seq(Nat) /\ Len(s) \in Nat /\ n \in Nat /\ \A i \in 1 .. Len(s) : s[i] = n + i
    BY RunIsSeq DEF Run
  <1>2. /\ Head(s) = s[1] /\ Tail(s) \in Seq(Nat) /\ Len(Tail(s)) = Len(s) - 1
        /\ \A i \in 1 .. Len(Tail(s)) : Tail(s)[i] = s[i + 1]
    BY <1>1, HeadTailProperties
  <1>3. Len(s) >= 1
    BY <1>1, EmptySeq
  <1>4. \A i \in 1 .. Len(Tail(s)) : Tail(s)[i] = (n + 1) + i
    <2>1. \A i \in 1 .. Len(Tail(s)) : i + 1 \in 1 .. Len(s) /\ n + (i + 1) = (n + 1) + i
      BY <1>1, <1>2, <1>3
    <2> QED
      BY <1>1, <1>2, <2>1
  <1> QED
    BY <1>1, <1>2, <1>3, <1>4 DEF Run

LEMMA RunParts ==
  ASSUME NEW s, NEW n, Run(s, n)
  PROVE  /\ Run(Taken(s), n) /\ Run(Rest(s), n + Len(Taken(s)))
         /\ Len(Taken(s)) + Len(Rest(s)) = Len(s)
         /\ Len(Taken(s)) <= BufferSize
         /\ s # <<>> => Taken(s) # <<>>
  <1>1. s \in Seq(Nat) /\ Len(s) \in Nat /\ n \in Nat /\ \A i \in 1 .. Len(s) : s[i] = n + i /\ s[i] \in Nat
    BY RunIsSeq, ElementOfSeq DEF Run
  <1>2. BufferSize \in Nat /\ BufferSize >= 1
    BY RelayAssumption
  <1> DEFINE k == IF Len(s) <= BufferSize THEN Len(s) ELSE BufferSize
  <1>3. k \in Nat /\ k <= Len(s) /\ k <= BufferSize /\ (Len(s) # 0 => k # 0)
    BY <1>1, <1>2
  <1>4. Taken(s) \in Seq(Nat) /\ Len(Taken(s)) = k /\ \A i \in 1 .. k : Taken(s)[i] = s[i]
    <2>1. CASE Len(s) <= BufferSize
      BY <1>1, <2>1 DEF Taken
    <2>2. CASE ~(Len(s) <= BufferSize)
      <3>1. Taken(s) = SubSeq(s, 1, BufferSize) /\ k = BufferSize
        BY <2>2 DEF Taken
      <3>2. \A i \in 1 .. BufferSize : s[i] \in Nat
        BY <1>1, <1>2, <2>2
      <3>3. /\ SubSeq(s, 1, BufferSize) \in Seq(Nat) /\ Len(SubSeq(s, 1, BufferSize)) = BufferSize
            /\ \A i \in 1 .. BufferSize : SubSeq(s, 1, BufferSize)[i] = s[i]
        BY <1>2, <3>2, SubSeqProperties
      <3> QED
        BY <3>1, <3>3
    <2> QED
      BY <2>1, <2>2
  <1> HIDE DEF k
  <1> DEFINE m == k + 1
  <1>5. Rest(s) = SubSeq(s, m, Len(s)) /\ m \in Nat /\ m >= 1
    BY <1>3, <1>4 DEF Rest
  <1>6. Rest(s) \in Seq(Nat) /\ Len(Rest(s)) = Len(s) - k /\ \A i \in 1 .. Len(s) - k : Rest(s)[i] = s[k + i]
    <2>1. \A i \in m .. Len(s) : s[i] \in Nat
      BY <1>1, <1>3
    <2>2. Len(s) - m + 1 = Len(s) - k /\ (m <= Len(s) <=> Len(s) - k # 0) /\ \A i \in 1 .. Len(s) - k : m + i - 1 = k + i
      BY <1>1, <1>3
    <2> HIDE DEF m
    <2>3. /\ SubSeq(s, m, Len(s)) \in Seq(Nat)
          /\ Len(SubSeq(s, m, Len(s))) = IF m <= Len(s) THEN Len(s) - m + 1 ELSE 0
          /\ \A i \in 1 .. Len(s) - m + 1 : SubSeq(s, m, Len(s))[i] = s[m + i - 1]
      BY <1>1, <1>5, <2>1, SubSeqProperties
    <2>4. Len(Rest(s)) = Len(s) - k
      BY <1>1, <1>3, <1>5, <2>2, <2>3
    <2> QED
      BY <1>5, <2>2, <2>3, <2>4
  <1>7. \A i \in 1 .. k : i \in 1 .. Len(s)
    BY <1>1, <1>3
  <1>8. \A i \in 1 .. Len(s) - k : k + i \in 1 .. Len(s) /\ n + (k + i) = (n + k) + i
    BY <1>1, <1>3
  <1>9. Run(Taken(s), n) /\ Run(Rest(s), n + k)
    <2>1. \A i \in 1 .. k : Taken(s)[i] = n + i
      BY <1>1, <1>4, <1>7
    <2>2. \A i \in 1 .. Len(s) - k : Rest(s)[i] = (n + k) + i
      BY <1>1, <1>6, <1>8
    <2> QED
      BY <1>1, <1>3, <1>4, <1>6, <2>1, <2>2 DEF Run
  <1>10. s # <<>> => Taken(s) # <<>>
    BY <1>1, <1>3, <1>4, EmptySeq
  <1>11. k + (Len(s) - k) = Len(s)
    BY <1>1, <1>3
  <1> QED
    BY <1>3, <1>4, <1>6, <1>9, <1>10, <1>11

LEMMA PartsFit ==
  ASSUME NEW s, NEW n, Run(s, n)
  PROVE  Len(Taken(s)) <= BufferSize /\ Len(Rest(s)) <= Len(s) /\ Len(Rest(s)) \in Nat
  <1>1. /\ Run(Taken(s), n) /\ Run(Rest(s), n + Len(Taken(s)))
        /\ Len(Taken(s)) + Len(Rest(s)) = Len(s) /\ Len(Taken(s)) <= BufferSize
    BY RunParts
  <1>2. Len(Taken(s)) \in Nat /\ Len(Rest(s)) \in Nat /\ Len(s) \in Nat
    BY <1>1, RunIsSeq
  <1> QED
    BY <1>1, <1>2

----------------------------------------------------------------------------
(* What a send, a receipt, a write and a read of the relay do to a stream. *)
LEMMA StreamLengths ==
  ASSUME NEW g, NEW n, NEW h, NEW f, NEW s, Stream(g, n, h, f, s)
  PROVE  /\ g \in Seq(Nat) /\ n \in Seq(Nat) /\ h \in Seq(Nat) /\ f \in Seq(Nat) /\ s \in Nat
         /\ Len(g) \in Nat /\ Len(n) \in Nat /\ Len(h) \in Nat /\ Len(f) \in Nat
  BY RunIsSeq DEF Stream

LEMMA StreamSends ==
  ASSUME NEW g, NEW n, NEW h, NEW f, NEW s, Stream(g, n, h, f, s)
  PROVE  Stream(g, n, h, Append(f, s + 1), s + 1) /\ Len(Append(f, s + 1)) = Len(f) + 1
  <1> DEFINE b == Len(g) + Len(n) + Len(h)
  <1>1. s + 1 = b + Len(f) + 1 /\ Run(f, b)
    BY DEF Stream
  <1>2. Run(Append(f, s + 1), b) /\ Len(Append(f, s + 1)) = Len(f) + 1
    BY <1>1, RunGrows
  <1>3. s + 1 = b + (Len(f) + 1)
    BY <1>1, StreamLengths
  <1> QED
    BY <1>2, <1>3 DEF Stream

LEMMA StreamReceives ==
  ASSUME NEW g, NEW n, NEW h, NEW f, NEW s, Stream(g, n, h, f, s), n # <<>>
  PROVE  /\ Stream(Append(g, Head(n)), Tail(n), h, f, s)
         /\ Len(Append(g, Head(n))) = Len(g) + 1 /\ Len(Tail(n)) = Len(n) - 1
  <1>1. Head(n) = Len(g) + 1 /\ Run(Tail(n), Len(g) + 1) /\ Len(n) >= 1 /\ Len(Tail(n)) = Len(n) - 1
    BY RunHeadTail DEF Stream
  <1>2. Len(g) \in Nat /\ Len(n) \in Nat /\ Len(h) \in Nat /\ Len(f) \in Nat
    BY StreamLengths
  <1>3. 0 + Len(g) + 1 = Head(n)
    BY <1>1, <1>2
  <1>4. Run(Append(g, Head(n)), 0) /\ Len(Append(g, Head(n))) = Len(g) + 1
    BY <1>3, RunGrows DEF Stream
  <1>5. (Len(g) + 1) + (Len(n) - 1) = Len(g) + Len(n)
    BY <1>2
  <1> QED
    BY <1>1, <1>4, <1>5 DEF Stream

LEMMA StreamWrites ==
  ASSUME NEW g, NEW n, NEW h, NEW f, NEW s, Stream(g, n, h, f, s), h # <<>>
  PROVE  /\ Stream(g, Append(n, Head(h)), Tail(h), f, s)
         /\ Len(Append(n, Head(h))) = Len(n) + 1 /\ Len(Tail(h)) = Len(h) - 1
  <1>1. /\ Head(h) = Len(g) + Len(n) + 1 /\ Run(Tail(h), Len(g) + Len(n) + 1)
        /\ Len(h) >= 1 /\ Len(Tail(h)) = Len(h) - 1
    BY RunHeadTail DEF Stream
  <1>2. Len(g) \in Nat /\ Len(n) \in Nat /\ Len(h) \in Nat /\ Len(f) \in Nat
    BY StreamLengths
  <1>3. Run(Append(n, Head(h)), Len(g)) /\ Len(Append(n, Head(h))) = Len(n) + 1
    BY <1>1, RunGrows DEF Stream
  <1>4. /\ Len(g) + (Len(n) + 1) = Len(g) + Len(n) + 1
        /\ Len(g) + (Len(n) + 1) + (Len(h) - 1) = Len(g) + Len(n) + Len(h)
    BY <1>2
  <1> QED
    BY <1>1, <1>3, <1>4 DEF Stream

LEMMA StreamReads ==
  ASSUME NEW g, NEW n, NEW f, NEW s, Stream(g, n, <<>>, f, s)
  PROVE  Stream(g, n, Taken(f), Rest(f), s)
  <1>1. Len(g) \in Nat /\ Len(n) \in Nat /\ Len(f) \in Nat /\ Len(<<>>) = 0
    BY StreamLengths, EmptySeq
  <1> DEFINE b == Len(g) + Len(n)
  <1>2. b + Len(<<>>) = b /\ b \in Nat
    BY <1>1
  <1>3. Run(f, b) /\ s = b + Len(f)
    BY <1>2 DEF Stream
  <1>4. /\ Run(Taken(f), b) /\ Run(Rest(f), b + Len(Taken(f)))
        /\ Len(Taken(f)) + Len(Rest(f)) = Len(f)
    BY <1>3, RunParts
  <1>5. Len(Taken(f)) \in Nat /\ Len(Rest(f)) \in Nat
    BY <1>4, RunIsSeq
  <1>6. s = b + Len(Taken(f)) + Len(Rest(f))
    BY <1>2, <1>3, <1>4, <1>5
  <1> QED
    BY <1>4, <1>6 DEF Stream

----------------------------------------------------------------------------
(* Every step moves chunks along the two streams, or leaves them. *)
LEMMA StreamsStep == TrInv /\ [TrNext]_trVars => BothStreams'
  <1> SUFFICES ASSUME TrInv, [TrNext]_trVars PROVE BothStreams'
    OBVIOUS
  <1>0. /\ Stream(server.got, channelUp, HeldUp, socketUp, driver.sent)
        /\ Stream(driver.got, socketDown, HeldDown, channelDown, server.sent)
        /\ buf # <<>> <=> relay \in {"writeChannel", "writeTcp"}
        /\ DOMAIN driver = {"sent", "got", "closed", "gone"} /\ DOMAIN server = {"got", "sent", "eof", "closed"}
        /\ driver = [sent |-> driver.sent, got |-> driver.got, closed |-> driver.closed, gone |-> driver.gone]
        /\ server = [got |-> server.got, sent |-> server.sent, eof |-> server.eof, closed |-> server.closed]
    BY DEF TrInv, TrTypeOK, BothStreams
  <1>1. CASE DriverSends
    BY <1>0, <1>1, StreamSends DEF DriverSends, thread, buffers, BothStreams, HeldUp, HeldDown
  <1>2. CASE DriverReads
    BY <1>0, <1>2, StreamReceives DEF DriverReads, thread, buffers, BothStreams, HeldUp, HeldDown
  <1>3. CASE DriverCloses
    BY <1>0, <1>3 DEF DriverCloses, thread, buffers, BothStreams, HeldUp, HeldDown
  <1>4. CASE ServerReads
    BY <1>0, <1>4, StreamReceives DEF ServerReads, thread, buffers, BothStreams, HeldUp, HeldDown
  <1>5. CASE ServerAnswers
    BY <1>0, <1>5, StreamSends DEF ServerAnswers, thread, buffers, BothStreams, HeldUp, HeldDown
  <1>6. CASE ServerCloses \/ DriverGoes \/ SessionBreaks \/ (\E end \in {"driver", "server"} : StopsReading(end))
    BY <1>0, <1>6
    DEF ServerCloses, DriverGoes, SessionBreaks, StopsReading, thread, buffers, ends, BothStreams, HeldUp, HeldDown
  <1>7. CASE ReadTcp
    <2>1. /\ HeldUp = <<>> /\ HeldDown = <<>> /\ HeldDown' = <<>> /\ buf = <<>>
          /\ UNCHANGED <<socketDown, channelUp, channelDown, driver, server>>
      BY <1>0, <1>7 DEF ReadTcp, At, PassEofOn, ends, HeldUp, HeldDown
    <2>2. CASE socketUp # <<>> /\ buf' = Taken(socketUp) /\ socketUp' = Rest(socketUp) /\ relay' = "writeChannel"
      <3>1. Taken(socketUp) # <<>>
        BY <1>0, <2>2, RunParts DEF Stream
      <3>2. HeldUp' = Taken(socketUp)
        BY <2>2 DEF HeldUp
      <3>3. Stream(server.got, channelUp, Taken(socketUp), Rest(socketUp), driver.sent)
        BY <1>0, <2>1, StreamReads
      <3> QED
        BY <1>0, <2>1, <2>2, <3>1, <3>2, <3>3 DEF BothStreams
    <2>3. CASE socketUp' = socketUp /\ buf' = buf /\ relay' \in {"ended", "sendEof", "readChannel"}
      <3>1. HeldUp' = <<>>
        BY <2>3 DEF HeldUp
      <3> QED
        BY <1>0, <2>1, <2>3, <3>1 DEF BothStreams
    <2> QED
      BY <1>7, <2>2, <2>3 DEF ReadTcp, PassEofOn
  <1>8. CASE WriteChannel
    <2>1. /\ HeldUp = buf /\ buf # <<>> /\ HeldDown = <<>>
          /\ channelUp' = Append(channelUp, Head(buf)) /\ buf' = Tail(buf)
          /\ relay' = IF buf' = <<>> THEN "readChannel" ELSE "writeChannel"
          /\ UNCHANGED <<socketUp, socketDown, channelDown, driver, server>>
      BY <1>0, <1>8 DEF WriteChannel, At, Written, HeldUp, HeldDown, ends
    <2>2. HeldUp' = Tail(buf) /\ HeldDown' = <<>> /\ (buf' # <<>> <=> relay' \in {"writeChannel", "writeTcp"})
      BY <2>1 DEF HeldUp, HeldDown
    <2>3. Stream(server.got, Append(channelUp, Head(buf)), Tail(buf), socketUp, driver.sent)
      BY <1>0, <2>1, StreamWrites
    <2> QED
      BY <1>0, <2>1, <2>2, <2>3 DEF BothStreams
  <1>9. CASE ReadChannel
    <2>1. /\ HeldUp = <<>> /\ HeldDown = <<>> /\ HeldUp' = <<>> /\ buf = <<>>
          /\ UNCHANGED <<socketUp, socketDown, channelUp, driver, server>>
      BY <1>0, <1>9 DEF ReadChannel, At, HeldUp, HeldDown, ends
    <2>2. CASE channelDown # <<>> /\ buf' = Taken(channelDown) /\ channelDown' = Rest(channelDown) /\ relay' = "writeTcp"
      <3>1. Taken(channelDown) # <<>>
        BY <1>0, <2>2, RunParts DEF Stream
      <3>2. HeldDown' = Taken(channelDown)
        BY <2>2 DEF HeldDown
      <3>3. Stream(driver.got, socketDown, Taken(channelDown), Rest(channelDown), server.sent)
        BY <1>0, <2>1, StreamReads
      <3> QED
        BY <1>0, <2>1, <2>2, <3>1, <3>2, <3>3 DEF BothStreams
    <2>3. CASE channelDown' = channelDown /\ buf' = buf /\ relay' \in {"ended", "readTcp"}
      <3>1. HeldDown' = <<>>
        BY <2>3 DEF HeldDown
      <3> QED
        BY <1>0, <2>1, <2>3, <3>1 DEF BothStreams
    <2> QED
      BY <1>9, <2>2, <2>3 DEF ReadChannel
  <1>10. CASE WriteTcp
    <2>1. /\ HeldDown = buf /\ buf # <<>> /\ HeldUp = <<>>
          /\ socketDown' = Append(socketDown, Head(buf)) /\ buf' = Tail(buf)
          /\ relay' = IF buf' = <<>> THEN "readTcp" ELSE "writeTcp"
          /\ UNCHANGED <<socketUp, channelUp, channelDown, driver, server>>
      BY <1>0, <1>10 DEF WriteTcp, At, Written, HeldUp, HeldDown, ends
    <2>2. HeldDown' = Tail(buf) /\ HeldUp' = <<>> /\ (buf' # <<>> <=> relay' \in {"writeChannel", "writeTcp"})
      BY <2>1 DEF HeldUp, HeldDown
    <2>3. Stream(driver.got, Append(socketDown, Head(buf)), Tail(buf), channelDown, server.sent)
      BY <1>0, <2>1, StreamWrites
    <2> QED
      BY <1>0, <2>1, <2>2, <2>3 DEF BothStreams
  <1>11. CASE SendEof \/ Fail \/ DropTunnel
    BY <1>0, <1>11 DEF SendEof, Fail, DropTunnel, At, buffers, BothStreams, HeldUp, HeldDown, ends
  <1>12. CASE UNCHANGED trVars
    BY <1>0, <1>12 DEF trVars, BothStreams, HeldUp, HeldDown
  <1> QED
    BY <1>1, <1>2, <1>3, <1>4, <1>5, <1>6, <1>7, <1>8, <1>9, <1>10, <1>11, <1>12
    DEF TrNext, RelayStep, EndsStep, Trouble

(* Every step keeps the types; no buffer is ever larger than it may be. *)
LEMMA TrTypeStep == TrInv /\ BothStreams' /\ [TrNext]_trVars => TrTypeOK'
  <1> SUFFICES ASSUME TrInv, BothStreams', [TrNext]_trVars PROVE TrTypeOK'
    OBVIOUS
  <1>0. /\ TrTypeOK /\ BothStreams
        /\ Window \in Nat /\ Window >= 1 /\ BufferSize \in Nat /\ BufferSize >= 1
        /\ Len(<<>>) = 0
    BY RelayAssumption, EmptySeq DEF TrInv
  <1>a. /\ socketUp \in Seq(Nat) /\ socketDown \in Seq(Nat) /\ channelUp \in Seq(Nat) /\ channelDown \in Seq(Nat)
        /\ Len(socketUp) \in Nat /\ Len(socketDown) \in Nat /\ Len(channelUp) \in Nat /\ Len(channelDown) \in Nat
        /\ buf \in Seq(Nat) /\ Len(buf) \in Nat
    BY <1>0, LenProperties DEF TrTypeOK
  <1>b. /\ socketUp' \in Seq(Nat) /\ socketDown' \in Seq(Nat) /\ channelUp' \in Seq(Nat) /\ channelDown' \in Seq(Nat)
        /\ server'.got \in Seq(Nat) /\ driver'.got \in Seq(Nat) /\ server'.sent \in Nat /\ driver'.sent \in Nat
        /\ HeldUp' \in Seq(Nat) /\ HeldDown' \in Seq(Nat)
    BY StreamLengths DEF BothStreams
  <1>c. buf' \in Seq(Nat)
    BY <1>b, EmptySeq DEF HeldUp, HeldDown, BothStreams
  <1>d. /\ driver' \in [sent : Nat, got : Seq(Nat), closed : BOOLEAN, gone : BOOLEAN]
        /\ server' \in [got : Seq(Nat), sent : Nat, eof : BOOLEAN, closed : BOOLEAN]
        /\ stuck' \subseteq {"driver", "server"} /\ lost' \in BOOLEAN /\ relay' \in RelayPlaces
        /\ tcpEof' \in BOOLEAN /\ failed' \in BOOLEAN /\ shutdown' \in BOOLEAN
    <2>1. /\ driver \in [sent : Nat, got : Seq(Nat), closed : BOOLEAN, gone : BOOLEAN]
          /\ server \in [got : Seq(Nat), sent : Nat, eof : BOOLEAN, closed : BOOLEAN]
          /\ stuck \subseteq {"driver", "server"} /\ lost \in BOOLEAN /\ relay \in RelayPlaces
          /\ tcpEof \in BOOLEAN /\ failed \in BOOLEAN /\ shutdown \in BOOLEAN
      BY <1>0 DEF TrTypeOK
    <2>2. CASE EndsStep \/ Trouble
      <3>1. /\ relay' = relay /\ tcpEof' = tcpEof /\ failed' = failed /\ shutdown' = shutdown
            /\ stuck' \in {stuck, stuck \cup {"driver"}, stuck \cup {"server"}} /\ lost' \in {lost, TRUE}
            /\ \/ driver' = driver
               \/ \E v : driver' = [driver EXCEPT !.sent = v]
               \/ \E v : driver' = [driver EXCEPT !.got = v]
               \/ driver' = [driver EXCEPT !.closed = TRUE]
               \/ driver' = [driver EXCEPT !.closed = TRUE, !.gone = TRUE]
            /\ \/ server' = server
               \/ \E v : server' = [server EXCEPT !.got = v]
               \/ \E v : server' = [server EXCEPT !.sent = v]
               \/ server' = [server EXCEPT !.closed = TRUE]
        BY <2>2
        DEF EndsStep, Trouble, DriverSends, DriverReads, DriverCloses, DriverGoes, ServerReads, ServerAnswers,
            ServerCloses, StopsReading, SessionBreaks, ends, thread
      <3> QED
        BY <1>b, <2>1, <3>1
    <2>3. CASE RelayStep \/ DropTunnel \/ UNCHANGED trVars
      <3>1. /\ driver' = driver /\ (server' = server \/ server' = [server EXCEPT !.eof = TRUE])
            /\ relay' \in {relay} \cup RelayPlaces /\ stuck' = stuck /\ lost' = lost
            /\ tcpEof' \in {tcpEof, TRUE} /\ failed' \in {failed, TRUE} /\ shutdown' \in {shutdown, TRUE}
        BY <2>3
        DEF RelayStep, ReadTcp, PassEofOn, WriteChannel, SendEof, ReadChannel, WriteTcp, Fail, DropTunnel, At,
            RelayPlaces, trVars, ends
      <3> QED
        BY <2>1, <3>1 DEF RelayPlaces
    <2> QED
      BY <2>2, <2>3 DEF TrNext
  <1>e. /\ Len(socketUp') <= Window /\ Len(socketDown') <= Window
        /\ Len(channelUp') <= Window /\ Len(channelDown') <= Window /\ Len(buf') <= BufferSize
    <2>0. /\ Len(socketUp) <= Window /\ Len(socketDown) <= Window
          /\ Len(channelUp) <= Window /\ Len(channelDown) <= Window /\ Len(buf) <= BufferSize
      BY <1>0 DEF TrTypeOK
    <2>a. /\ Stream(server.got, channelUp, HeldUp, socketUp, driver.sent)
          /\ Stream(driver.got, socketDown, HeldDown, channelDown, server.sent)
      BY <1>0 DEF BothStreams
    <2>1. CASE DriverSends
      BY <1>a, <1>0, <2>0, <2>a, <2>1, StreamSends DEF DriverSends, thread
    <2>2. CASE DriverReads
      BY <1>a, <1>0, <2>0, <2>a, <2>2, StreamReceives DEF DriverReads, thread
    <2>3. CASE ServerReads
      BY <1>a, <1>0, <2>0, <2>a, <2>3, StreamReceives DEF ServerReads, thread
    <2>4. CASE ServerAnswers
      BY <1>a, <1>0, <2>0, <2>a, <2>4, StreamSends DEF ServerAnswers, thread
    <2>5. CASE ServerCloses \/ Trouble \/ SendEof \/ Fail \/ DropTunnel \/ UNCHANGED trVars
      BY <2>0, <2>5
      DEF ServerCloses, Trouble, DriverCloses, DriverGoes, StopsReading, SessionBreaks, SendEof, Fail, DropTunnel,
          buffers, thread, trVars
    <2>6. CASE ReadTcp
      <3>1. /\ Len(Taken(socketUp)) <= BufferSize /\ Len(Rest(socketUp)) <= Len(socketUp)
            /\ Len(Rest(socketUp)) \in Nat
        BY <1>a, <2>a, PartsFit DEF Stream
      <3>2. /\ UNCHANGED <<socketDown, channelUp, channelDown>>
            /\ \/ buf' = Taken(socketUp) /\ socketUp' = Rest(socketUp)
               \/ buf' = buf /\ socketUp' = socketUp
        BY <2>6 DEF ReadTcp, PassEofOn, At
      <3> QED
        BY <1>a, <1>0, <2>0, <3>1, <3>2
    <2>7. CASE ReadChannel
      <3>1. /\ Len(Taken(channelDown)) <= BufferSize /\ Len(Rest(channelDown)) <= Len(channelDown)
            /\ Len(Rest(channelDown)) \in Nat
        BY <1>a, <2>a, PartsFit DEF Stream
      <3>2. /\ UNCHANGED <<socketUp, socketDown, channelUp>>
            /\ \/ buf' = Taken(channelDown) /\ channelDown' = Rest(channelDown)
               \/ buf' = buf /\ channelDown' = channelDown
        BY <2>7 DEF ReadChannel, At
      <3> QED
        BY <1>a, <1>0, <2>0, <3>1, <3>2
    <2>8. CASE WriteChannel
      <3>1. HeldUp = buf /\ buf # <<>> /\ channelUp' = Append(channelUp, Head(buf)) /\ buf' = Tail(buf)
        BY <1>0, <2>8 DEF WriteChannel, At, Written, HeldUp, BothStreams
      <3>2. Len(channelUp') = Len(channelUp) + 1 /\ Len(buf') = Len(buf) - 1
        BY <2>a, <3>1, StreamWrites
      <3> QED
        BY <1>a, <1>0, <2>0, <2>8, <3>2 DEF WriteChannel
    <2>9. CASE WriteTcp
      <3>1. HeldDown = buf /\ buf # <<>> /\ socketDown' = Append(socketDown, Head(buf)) /\ buf' = Tail(buf)
        BY <1>0, <2>9 DEF WriteTcp, At, Written, HeldDown, BothStreams
      <3>2. Len(socketDown') = Len(socketDown) + 1 /\ Len(buf') = Len(buf) - 1
        BY <2>a, <3>1, StreamWrites
      <3> QED
        BY <1>a, <1>0, <2>0, <2>9, <3>2 DEF WriteTcp
    <2> QED
      BY <2>1, <2>2, <2>3, <2>4, <2>5, <2>6, <2>7, <2>8, <2>9
      DEF TrNext, RelayStep, EndsStep
  <1> QED
    BY <1>b, <1>c, <1>d, <1>e DEF TrTypeOK

LEMMA EndsStepKeeps == TrInv /\ [TrNext]_trVars => EndsAfterServer'
  <1> SUFFICES ASSUME TrInv, [TrNext]_trVars PROVE EndsAfterServer'
    OBVIOUS
  <1> USE DEF TrInv, EndsAfterServer, TrTypeOK
  <1>1. CASE RelayStep
    BY <1>1
    DEF RelayStep, ReadTcp, PassEofOn, WriteChannel, SendEof, ReadChannel, WriteTcp, Fail, At, buffers, ends
  <1>2. CASE EndsStep
    BY <1>2
    DEF EndsStep, DriverSends, DriverReads, ServerReads, ServerAnswers, ServerCloses, thread, buffers
  <1>3. CASE Trouble \/ DropTunnel
    BY <1>3
    DEF Trouble, DriverCloses, DriverGoes, StopsReading, SessionBreaks, DropTunnel, thread, buffers, ends
  <1>4. CASE UNCHANGED trVars
    BY <1>4 DEF trVars
  <1> QED
    BY <1>1, <1>2, <1>3, <1>4 DEF TrNext

(* Whatever the sizes of requests, answers, windows and buffers. *)
THEOREM TrInvariance == TrSpec => []TrInv
  <1>1. TrInit => TrInv
    <2> SUFFICES ASSUME TrInit PROVE TrInv
      OBVIOUS
    <2>1. <<>> \in Seq(Nat) /\ Len(<<>>) = 0 /\ \A n \in Nat : Run(<<>>, n)
      BY EmptySeq DEF Run
    <2>2. Stream(<<>>, <<>>, <<>>, <<>>, 0)
      BY <2>1 DEF Stream
    <2>3. BothStreams
      BY <2>2 DEF TrInit, BothStreams, HeldUp, HeldDown
    <2>4. TrTypeOK
      <3>1. 0 <= Window /\ 0 <= BufferSize
        BY RelayAssumption
      <3>2. \A s \in {socketUp, socketDown, channelUp, channelDown} : s = <<>>
        BY DEF TrInit
      <3> QED
        BY <2>1, <3>1, <3>2 DEF TrInit, TrTypeOK, RelayPlaces
    <2> QED
      BY <2>3, <2>4 DEF TrInv, EndsAfterServer, TrInit
  <1>2. TrInv /\ [TrNext]_trVars => TrInv'
    BY StreamsStep, TrTypeStep, EndsStepKeeps DEF TrInv
  <1> QED
    BY <1>1, <1>2, PTL DEF TrSpec

THEOREM TrTypeCorrect == TrSpec => []TrTypeOK
  BY TrInvariance, PTL DEF TrInv

LEMMA RunIsNumbered == ASSUME NEW s, Run(s, 0) PROVE s = Numbered(Len(s))
  <1>1. s \in Seq(Nat) /\ Len(s) \in Nat /\ \A i \in 1 .. Len(s) : s[i] = i
    BY RunIsSeq DEF Run
  <1>2. s = [i \in 1 .. Len(s) |-> s[i]]
    BY <1>1, LenProperties
  <1> QED
    BY <1>1, <1>2 DEF Numbered

(* The relay loses, repeats and reorders nothing, whatever fails, and ends *)
(* without an error only when all the server sent was handed over, whoever *)
(* closes first, for every size of the buffers.                            *)
THEOREM RelayTransparent == TrSpec => []RelayIsTransparent
  <1>1. TrInv => RelayKeepsOrder
    <2> SUFFICES ASSUME TrInv PROVE RelayKeepsOrder
      OBVIOUS
    <2>1. /\ Stream(server.got, channelUp, HeldUp, socketUp, driver.sent)
          /\ Stream(driver.got, socketDown, HeldDown, channelDown, server.sent)
      BY DEF TrInv, BothStreams
    <2>2. server.got = Numbered(Len(server.got)) /\ driver.got = Numbered(Len(driver.got))
      BY <2>1, RunIsNumbered DEF Stream
    <2>3. Len(server.got) <= driver.sent /\ Len(driver.got) <= server.sent
      BY <2>1, StreamLengths DEF Stream
    <2> QED
      BY <2>2, <2>3 DEF RelayKeepsOrder
  <1>2. TrInv => NothingCutOff
    <2> SUFFICES ASSUME TrInv, relay = "ended", ~shutdown
                 PROVE  Len(driver.got) + Len(socketDown) = server.sent
      BY DEF NothingCutOff
    <2>1. channelDown = <<>> /\ HeldDown = <<>> /\ Len(<<>>) = 0
      BY EmptySeq DEF TrInv, EndsAfterServer, HeldDown
    <2>2. Stream(driver.got, socketDown, HeldDown, channelDown, server.sent)
      BY DEF TrInv, BothStreams
    <2>3. Len(driver.got) \in Nat /\ Len(socketDown) \in Nat
      BY <2>2, StreamLengths
    <2> QED
      BY <2>1, <2>2, <2>3 DEF Stream
  <1> QED
    BY <1>1, <1>2, TrInvariance, PTL DEF RelayIsTransparent

=============================================================================
