-------------------------- MODULE DbManagerProofs --------------------------
(***************************************************************************)
(* Theorems about DbManager for every set of connections, tasks and        *)
(* schemas and every bound, checked by TLAPS.                              *)
(***************************************************************************)
EXTENDS DbManager, TLAPS

USE DEF appState, inner, locals, Go, Event, Bump, EntryOutdated

(* The value of get_pool reaches the caller: the types of what ReturnPool  *)
(* touches (every exit of get_pool goes through it).                       *)
LEMMA ReturnPoolType ==
  ASSUME NEW t \in Tasks, NEW ok \in BOOLEAN, TypeOK, ReturnPool(t, ok)
  PROVE  /\ config' \in Nat
         /\ resetPending' \in BOOLEAN
         /\ lock' \in [Connections -> Tasks \cup {None}]
         /\ pc' \in [Tasks -> Places]
         /\ conn' \in [Tasks -> Connections \cup {None}]
         /\ version' \in [Tasks -> Nat]
         /\ entryEpoch' \in [Tasks -> Nat]
         /\ fetched' \in [Tasks -> BOOLEAN]
         /\ snap' \in [Tasks -> Snapshot]
         /\ switch' \in [Tasks -> Switch \cup {NoSwitch}]
         /\ events' \in Nat
  <1>1. NoSnapshot \in Snapshot
    BY DEF NoSnapshot, Snapshot, OptionalSchema, TunnelIds
  <1>2. /\ UNCHANGED <<config, resetPending, events>>
        /\ lock' \in [Connections -> Tasks \cup {None}]
        /\ entryEpoch' \in [Tasks -> Nat]
        /\ fetched' \in [Tasks -> BOOLEAN]
        /\ snap' \in [Tasks -> Snapshot]
    BY <1>1 DEF TypeOK, ReturnPool
  <1>3. CASE IsSwitch(t)
    BY <1>2, <1>3 DEF TypeOK, ReturnPool, Places
  <1>4. CASE ~IsSwitch(t)
    BY <1>2, <1>4 DEF TypeOK, ReturnPool, Places
  <1>5. QED  BY <1>3, <1>4


(* No step leaves a busy task without its connection or a switch without   *)
(* its locals (UNCHANGED for all tasks but the one that moves).            *)
Typed == TypeOK /\ BusyTasksNamed

LEMMA ReturnPoolTyped ==
  ASSUME NEW t \in Tasks, NEW ok \in BOOLEAN, Typed, ReturnPool(t, ok),
         pc[t] \in InGetPool \cup {"found"}
  PROVE  BusyTasksNamed'
  <1>1. /\ conn[t] \in Connections
        /\ IsSwitch(t) => switch[t] \in Switch
    BY DEF Typed, TypeOK, BusyTasksNamed, InGetPool, Connecting, IsSwitch
  <1>2. CASE IsSwitch(t)
    BY <1>1, <1>2 DEF Typed, TypeOK, BusyTasksNamed, ReturnPool
  <1>3. CASE ~IsSwitch(t)
    BY <1>1, <1>3 DEF Typed, TypeOK, BusyTasksNamed, ReturnPool
  <1>4. QED  BY <1>2, <1>3

(* Every step keeps every variable in its type: one step per action.       *)
LEMMA TypeStep == Typed /\ [Next]_vars => Typed'
  <1> SUFFICES ASSUME Typed, [Next]_vars PROVE Typed'
    OBVIOUS
  <1> USE ConnectionsAssumption DEF Typed
  <1>s. /\ NoSnapshot \in Snapshot
        /\ \A c \in Connections : Generation(c) \in TunnelIds
        /\ \A c \in Connections : Generation(c) \in Nat \X Nat
    BY DEF TypeOK, NoSnapshot, Snapshot, OptionalSchema, TunnelIds, Generation
  <1>r. ASSUME NEW t \in Tasks, NEW ok \in BOOLEAN, ReturnPool(t, ok), UNCHANGED inner,
               pc[t] \in InGetPool \cup {"found"}
        PROVE  Typed'
    <2>1. TypeOK'
      BY <1>r, ReturnPoolType DEF TypeOK
    <2>2. QED  BY <1>r, <2>1, ReturnPoolTyped
  <1>y. ASSUME NEW t \in Tasks, pc[t] \in Connecting, Retry(t), UNCHANGED inner PROVE Typed'
    BY <1>s, <1>y DEF TypeOK, Retry, Places, InGetPool, Connecting, BusyTasksNamed
  <1>o. ASSUME NEW c \in Connections, NEW schema \in OptionalSchema, ReplaceOverride(c, schema)
        PROVE  /\ pools' \in [Connections -> Pool \cup {None}]
               /\ tunnels' \in [Connections -> TunnelIds \cup {None}]
               /\ overrides' \in [Connections -> OptionalSchema]
               /\ resetEpoch' \in Nat
               /\ generations' \in [Connections -> Nat]
    BY <1>o DEF TypeOK, ReplaceOverride
  <1>1. ASSUME NEW t \in Tasks, GetPoolStep(t) PROVE Typed'
    <2>1. CASE Enter(t)
      BY <2>1, <1>r DEF Enter, TypeOK, Places, InGetPool, BusyTasksNamed
    <2>2. CASE Lock(t)
      BY <2>2 DEF Lock, TypeOK, Places, InGetPool, Connecting, BusyTasksNamed
    <2>3. CASE TakeSnapshot(t)
      <3>1. CASE ReturnPool(t, TRUE) \/ ReturnPool(t, FALSE)
        BY <2>3, <3>1, <1>r DEF TakeSnapshot, InGetPool, Connecting
      <3>2. CASE ~(ReturnPool(t, TRUE) \/ ReturnPool(t, FALSE))
        <4>1. conn[t] \in Connections
          BY <2>3 DEF TakeSnapshot, BusyTasksNamed
        <4>2. [schema |-> overrides[conn[t]], tunnel |-> tunnels[conn[t]],
               generation |-> Generation(conn[t])] \in Snapshot
          BY <4>1, <1>s DEF TypeOK, Snapshot
        <4>3. AfterSnapshot(t, tunnels[conn[t]]) \in {"password", "tunnel", "connect"}
          BY DEF AfterSnapshot, AfterPassword
        <4>4. QED
          BY <2>3, <3>2, <4>1, <4>2, <4>3
          DEF TakeSnapshot, TypeOK, Places, InGetPool, Connecting, BusyTasksNamed
      <3>3. QED  BY <3>1, <3>2
    <2>4. CASE FetchPassword(t)
      BY <2>4, <1>r
      DEF FetchPassword, TypeOK, Places, InGetPool, Connecting, AfterPassword, BusyTasksNamed
    <2>5. CASE CacheTunnel(t)
      <3>1. conn[t] \in Connections
        BY <2>5 DEF CacheTunnel, BusyTasksNamed
      <3>2. snap[t].generation \in TunnelIds /\ snap[t] \in Snapshot
        BY DEF TypeOK, Snapshot, TunnelIds
      <3>3. CASE UNCHANGED inner /\ (ReturnPool(t, FALSE) \/ Retry(t))
        BY <2>5, <3>3, <1>r, <1>y DEF CacheTunnel, InGetPool, Connecting
      <3>4. CASE ~(UNCHANGED inner /\ (ReturnPool(t, FALSE) \/ Retry(t)))
        <4>1. /\ tunnels' = [tunnels EXCEPT ![conn[t]] = snap[t].generation]
              /\ snap' = [snap EXCEPT ![t].tunnel = snap[t].generation]
              /\ pc' = [pc EXCEPT ![t] = "connect"]
              /\ UNCHANGED <<config, resetPending, pools, overrides, resetEpoch, generations,
                            lock, conn, version, entryEpoch, fetched, switch, events>>
              /\ pc[t] = "tunnel"
          BY <2>5, <3>4 DEF CacheTunnel
        <4>2. [snap[t] EXCEPT !.tunnel = snap[t].generation] \in Snapshot
          BY <3>2 DEF Snapshot
        <4>3. /\ tunnels' \in [Connections -> TunnelIds \cup {None}]
              /\ snap' \in [Tasks -> Snapshot]
              /\ pc' \in [Tasks -> Places]
          BY <3>1, <3>2, <4>1, <4>2 DEF TypeOK, Places, InGetPool, Connecting
        <4>4. QED  BY <4>1, <4>3, <3>1 DEF TypeOK, BusyTasksNamed
      <3>5. QED  BY <3>3, <3>4
    <2>6. CASE TunnelFailed(t)
      BY <2>6, <1>r DEF TunnelFailed, InGetPool, Connecting
    <2>7. CASE CachePool(t)
      <3>1. CASE UNCHANGED inner
        BY <2>7, <3>1, <1>r, <1>y DEF CachePool, InGetPool, Connecting
      <3>2. CASE ~UNCHANGED inner
        <4>1. [schema |-> snap[t].schema, tunnel |-> snap[t].tunnel,
               version |-> version[t], epoch |-> entryEpoch[t]] \in Pool
          BY DEF TypeOK, Snapshot, Pool
        <4>2. /\ ReturnPool(t, TRUE)
              /\ pools' \in [Connections -> Pool \cup {None}]
              /\ UNCHANGED <<tunnels, overrides, resetEpoch, generations>>
              /\ pc[t] \in InGetPool
          BY <2>7, <3>2, <4>1 DEF CachePool, TypeOK, InGetPool, Connecting
        <4>3. BusyTasksNamed'
          BY <4>2, ReturnPoolTyped
        <4>4. QED  BY <4>2, <4>3, ReturnPoolType DEF TypeOK
      <3>3. QED  BY <3>1, <3>2
    <2>8. CASE ConnectFailed(t)
      BY <2>8, <1>r, <1>y DEF ConnectFailed, InGetPool, Connecting
    <2>9. QED  BY <1>1, <2>1, <2>2, <2>3, <2>4, <2>5, <2>6, <2>7, <2>8 DEF GetPoolStep
  <1>2. ASSUME NEW t \in Tasks, SwitchStep(t) PROVE Typed'
    <2>1. CASE SetOverride(t)
      <3>1. conn[t] \in Connections /\ switch[t].target \in OptionalSchema
        BY <2>1 DEF SetOverride, BusyTasksNamed, Switch, OptionalSchema
      <3>2. switch'[t] \in Switch /\ \A u \in Tasks : u # t => switch'[u] = switch[u]
        BY <2>1 DEF SetOverride, BusyTasksNamed, Switch, TypeOK
      <3>3. switch' \in [Tasks -> Switch \cup {NoSwitch}]
        BY <2>1, <3>2 DEF SetOverride, TypeOK
      <3>4. QED
        BY <2>1, <3>1, <3>2, <3>3, <1>o DEF SetOverride, TypeOK, Places, InGetPool, BusyTasksNamed
    <2>2. CASE ConfirmSwitch(t)
      BY <2>2 DEF ConfirmSwitch, EndSwitch, TypeOK, Places, BusyTasksNamed
    <2>3. CASE ConfirmFailed(t)
      BY <2>3 DEF ConfirmFailed, TypeOK, Places, BusyTasksNamed
    <2>4. CASE Rollback(t)
      <3>1. conn[t] \in Connections /\ switch[t].previous \in OptionalSchema
        BY <2>4 DEF Rollback, BusyTasksNamed, Switch, OptionalSchema
      <3>2. /\ pools' \in [Connections -> Pool \cup {None}]
            /\ tunnels' \in [Connections -> TunnelIds \cup {None}]
            /\ overrides' \in [Connections -> OptionalSchema]
            /\ resetEpoch' \in Nat
            /\ generations' \in [Connections -> Nat]
        BY <2>4, <3>1, <1>o DEF Rollback, TypeOK
      <3>3. QED
        BY <2>4, <3>2 DEF Rollback, EndSwitch, TypeOK, Places, BusyTasksNamed
    <2>5. QED  BY <1>2, <2>1, <2>2, <2>3, <2>4 DEF SwitchStep
  <1>3. ASSUME NEW t \in Tasks, Abort(t) PROVE Typed'
    BY <1>3, <1>r DEF Abort
  <1>4. ASSUME NEW t \in Tasks, NEW c \in Connections, FindServer(t, c) PROVE Typed'
    BY <1>4 DEF FindServer, TypeOK, Places, BusyTasksNamed
  <1>5. ASSUME NEW t \in Tasks, NEW schema \in Schemas, BeginSwitch(t, schema) PROVE Typed'
    <2>1. [target |-> schema, previous |-> overrides[conn[t]], chosen |-> None, tried |-> resetEpoch] \in Switch
      BY <1>5 DEF BeginSwitch, BusyTasksNamed, TypeOK, Switch, OptionalSchema
    <2>2. QED  BY <1>5, <2>1 DEF BeginSwitch, TypeOK, Places, BusyTasksNamed
  <1>6. ASSUME NEW c \in Connections, Disconnect(c) PROVE Typed'
    BY <1>6 DEF Disconnect, TypeOK, BusyTasksNamed
  <1>7. ASSUME NEW c \in Connections, NEW schema \in Schemas, SelectSchema(c, schema)
        PROVE  Typed'
    <2>1. \A t \in Tasks : IsSwitch(t) => [switch[t] EXCEPT !.chosen = schema] \in Switch
      BY DEF TypeOK, IsSwitch, Switch, OptionalSchema
    <2>2. /\ switch' \in [Tasks -> Switch \cup {NoSwitch}]
          /\ \A t \in Tasks : switch[t] \in Switch => switch'[t] \in Switch
      BY <1>7, <2>1 DEF SelectSchema, TypeOK
    <2>3. QED  BY <1>7, <2>2, <1>o DEF SelectSchema, TypeOK, OptionalSchema, BusyTasksNamed
  <1>8. CASE ReloadConfig
    BY <1>8 DEF ReloadConfig, TypeOK, BusyTasksNamed
  <1>9. CASE Reset
    <2>1. UNCHANGED <<config, generations, lock, pc, conn, version, entryEpoch, fetched, snap,
                      switch, events>>
      BY <1>9 DEF Reset
    <2>2. /\ resetPending' \in BOOLEAN
          /\ pools' \in [Connections -> Pool \cup {None}]
          /\ tunnels' \in [Connections -> TunnelIds \cup {None}]
          /\ overrides' \in [Connections -> OptionalSchema]
      BY <1>9 DEF Reset, OptionalSchema
    <2>4. resetEpoch' \in Nat
      BY <1>9 DEF Reset, TypeOK
    <2>3. QED  BY <2>1, <2>2, <2>4 DEF TypeOK, BusyTasksNamed
  <1>10. CASE UNCHANGED vars
    BY <1>10 DEF vars, TypeOK, BusyTasksNamed
  <1>11. QED
    BY <1>1, <1>2, <1>3, <1>4, <1>5, <1>6, <1>7, <1>8, <1>9, <1>10 DEF Next

----------------------------------------------------------------------------
(* The connect lock *)

(* Whoever is between the snapshot and the cached pool holds the lock of   *)
(* its connection: Lock takes it only when it is free, and every way out   *)
(* of get_pool releases no lock but its own.                               *)
LEMMA LockStep ==
  ASSUME Typed, ConnectingHoldsLock, [Next]_vars
  PROVE  ConnectingHoldsLock'
  <1> USE ConnectionsAssumption, NoneAssumption DEF Typed, Connecting
  <1>r. ASSUME NEW t \in Tasks, NEW ok \in BOOLEAN, ReturnPool(t, ok)
        PROVE  ConnectingHoldsLock'
    <2>1. pc'[t] \notin Connecting
      BY <1>r DEF ReturnPool, TypeOK
    <2>2. \A u \in Tasks : u # t => pc'[u] = pc[u] /\ conn'[u] = conn[u]
      BY <1>r DEF ReturnPool, TypeOK
    <2>3. \A u \in Tasks, c \in Connections : u # t /\ lock[c] = u => lock'[c] = u
      BY <1>r DEF ReturnPool
    <2>4. \A u \in Tasks : pc[u] # "idle" => conn[u] \in Connections
      BY DEF BusyTasksNamed
    <2>5. QED  BY <2>1, <2>2, <2>3, <2>4 DEF ConnectingHoldsLock
  <1>y. ASSUME NEW t \in Tasks, pc[t] \in Connecting, Retry(t) PROVE ConnectingHoldsLock'
    BY <1>y DEF Retry, TypeOK, ConnectingHoldsLock
  <1>1. ASSUME NEW t \in Tasks, GetPoolStep(t) PROVE ConnectingHoldsLock'
    <2>1. CASE Enter(t)
      BY <2>1, <1>r DEF Enter, TypeOK, ConnectingHoldsLock
    <2>2. CASE Lock(t)
      BY <2>2 DEF Lock, LockFree, TypeOK, ConnectingHoldsLock, BusyTasksNamed
    <2>3. CASE TakeSnapshot(t)
      BY <2>3, <1>r
      DEF TakeSnapshot, AfterSnapshot, AfterPassword, TypeOK, ConnectingHoldsLock
    <2>4. CASE FetchPassword(t)
      BY <2>4, <1>r DEF FetchPassword, AfterPassword, TypeOK, ConnectingHoldsLock
    <2>5. CASE CacheTunnel(t)
      BY <2>5, <1>r, <1>y DEF CacheTunnel, TypeOK, ConnectingHoldsLock
    <2>6. CASE TunnelFailed(t) \/ CachePool(t) \/ ConnectFailed(t)
      BY <2>6, <1>r, <1>y DEF TunnelFailed, CachePool, ConnectFailed
    <2>7. QED  BY <1>1, <2>1, <2>2, <2>3, <2>4, <2>5, <2>6 DEF GetPoolStep
  <1>2. ASSUME NEW t \in Tasks, SwitchStep(t) PROVE ConnectingHoldsLock'
    BY <1>2 DEF SwitchStep, SetOverride, ConfirmSwitch, ConfirmFailed, Rollback, EndSwitch,
                TypeOK, ConnectingHoldsLock
  <1>3. ASSUME NEW t \in Tasks, Abort(t) PROVE ConnectingHoldsLock'
    BY <1>3, <1>r DEF Abort
  <1>4. ASSUME NEW t \in Tasks, NEW c \in Connections, FindServer(t, c)
        PROVE  ConnectingHoldsLock'
    BY <1>4 DEF FindServer, TypeOK, ConnectingHoldsLock
  <1>5. ASSUME NEW t \in Tasks, NEW schema \in Schemas, BeginSwitch(t, schema)
        PROVE  ConnectingHoldsLock'
    BY <1>5 DEF BeginSwitch, TypeOK, ConnectingHoldsLock
  <1>6. ASSUME UNCHANGED <<lock, pc, conn>> PROVE ConnectingHoldsLock'
    BY <1>6 DEF ConnectingHoldsLock
  <1>7. CASE ReloadConfig \/ Reset \/ UNCHANGED vars
    BY <1>6, <1>7 DEF ReloadConfig, Reset, vars
  <1>8. ASSUME NEW c \in Connections,
               Disconnect(c) \/ \E schema \in Schemas : SelectSchema(c, schema)
        PROVE  ConnectingHoldsLock'
    BY <1>6, <1>8 DEF Disconnect, SelectSchema
  <1>9. QED  BY <1>1, <1>2, <1>3, <1>4, <1>5, <1>7, <1>8 DEF Next

----------------------------------------------------------------------------
(* Snapshots *)

(* What a task read stays true, for as long as the generation it read      *)
(* stays current, across a step of somebody else: whatever changes the     *)
(* override, tunnel or pool of a connection moves its generation.          *)
LEMMA SnapshotFrame ==
  ASSUME Typed, NEW u \in Tasks, pc[u] \in HoldsSnapshot, SnapshotTrue(u),
         pc'[u] = pc[u], snap'[u] = snap[u], conn'[u] = conn[u], entryEpoch'[u] = entryEpoch[u],
         resetEpoch' \in Nat, generations' \in [Connections -> Nat],
         resetEpoch' >= resetEpoch, generations'[conn[u]] >= generations[conn[u]],
         Generation(conn[u])' = Generation(conn[u]) =>
           /\ overrides'[conn[u]] = overrides[conn[u]]
           /\ tunnels'[conn[u]] = tunnels[conn[u]]
           /\ pools'[conn[u]] = pools[conn[u]]
  PROVE  SnapshotTrue(u)'
  <1>1. /\ conn[u] \in Connections
        /\ snap[u].generation \in Nat \X Nat
        /\ resetEpoch \in Nat /\ generations[conn[u]] \in Nat
        /\ generations'[conn[u]] \in Nat
    BY DEF Typed, TypeOK, BusyTasksNamed, HoldsSnapshot, Snapshot
  <1>2. StillCurrent(u)' <=> <<resetEpoch', generations'[conn[u]]>> = snap[u].generation
    BY DEF StillCurrent, Generation
  <1>3. ASSUME StillCurrent(u)'
        PROVE  /\ StillCurrent(u)
               /\ <<resetEpoch', generations'[conn[u]]>> = <<resetEpoch, generations[conn[u]]>>
    <2>1. resetEpoch' = snap[u].generation[1] /\ generations'[conn[u]] = snap[u].generation[2]
      BY <1>2, <1>3
    <2>2. resetEpoch' = resetEpoch /\ generations'[conn[u]] = generations[conn[u]]
      BY <1>1, <2>1 DEF SnapshotTrue
    <2>3. QED  BY <1>2, <1>3, <2>2 DEF StillCurrent, Generation
  <1>4. Generation(conn[u])' = <<resetEpoch', generations'[conn[u]]>>
    BY DEF Generation
  <1>5. QED  BY <1>1, <1>3, <1>4 DEF SnapshotTrue, Generation

LEMMA SnapshotStep ==
  ASSUME Typed, ConnectingHoldsLock, SnapshotsTrue, [Next]_vars
  PROVE  SnapshotsTrue'
  <1> USE ConnectionsAssumption, NoneAssumption
  <1>1. TypeOK /\ BusyTasksNamed /\ TypeOK'
    BY TypeStep DEF Typed
  \* A step that changes the locals of no task but t, and nothing of inner.
  <1>2. ASSUME NEW t \in Tasks, UNCHANGED inner,
               \A u \in Tasks \ {t} : /\ pc'[u] = pc[u] /\ snap'[u] = snap[u]
                                      /\ conn'[u] = conn[u] /\ entryEpoch'[u] = entryEpoch[u],
               pc'[t] \in HoldsSnapshot => SnapshotTrue(t)'
        PROVE  SnapshotsTrue'
    <2>1. ASSUME NEW u \in Tasks, pc'[u] \in HoldsSnapshot PROVE SnapshotTrue(u)'
      <3>1. CASE u = t
        BY <1>2, <2>1, <3>1
      <3>2. CASE u # t
        <4>1. /\ pc[u] \in HoldsSnapshot /\ SnapshotTrue(u) /\ conn[u] \in Connections
              /\ resetEpoch \in Nat /\ generations[conn[u]] \in Nat
          BY <1>1, <1>2, <2>1, <3>2 DEF SnapshotsTrue, TypeOK, BusyTasksNamed, HoldsSnapshot
        <4>2. QED  BY <1>1, <1>2, <3>2, <4>1, SnapshotFrame DEF TypeOK
      <3>3. QED  BY <3>1, <3>2
    <2>2. QED  BY <2>1 DEF SnapshotsTrue
  <1>r. ASSUME NEW t \in Tasks, NEW ok \in BOOLEAN, ReturnPool(t, ok), UNCHANGED inner
        PROVE  SnapshotsTrue'
    BY <1>1, <1>2, <1>r DEF ReturnPool, TypeOK, HoldsSnapshot
  <1>y. ASSUME NEW t \in Tasks, Retry(t), UNCHANGED inner PROVE SnapshotsTrue'
    BY <1>1, <1>2, <1>y DEF Retry, TypeOK, HoldsSnapshot
  \* A step that moves the generation of the one connection it changes.
  <1>3. ASSUME NEW c \in Connections, UNCHANGED <<snap, entryEpoch, resetEpoch>>,
               \A d \in Connections \ {c} : /\ overrides'[d] = overrides[d]
                                            /\ tunnels'[d] = tunnels[d]
                                            /\ pools'[d] = pools[d]
                                            /\ generations'[d] = generations[d],
               generations'[c] = generations[c] + 1,
               \A u \in Tasks : pc'[u] \in HoldsSnapshot => pc'[u] = pc[u] /\ conn'[u] = conn[u]
        PROVE  SnapshotsTrue'
    <2>1. ASSUME NEW u \in Tasks, pc'[u] \in HoldsSnapshot PROVE SnapshotTrue(u)'
      <3>1. /\ pc[u] \in HoldsSnapshot /\ SnapshotTrue(u) /\ conn[u] \in Connections
            /\ resetEpoch \in Nat /\ \A d \in Connections : generations[d] \in Nat
        BY <1>1, <1>3, <2>1 DEF SnapshotsTrue, TypeOK, BusyTasksNamed, HoldsSnapshot
      <3>2. /\ resetEpoch' >= resetEpoch
            /\ generations'[conn[u]] >= generations[conn[u]]
        BY <1>3, <3>1
      <3>3. Generation(conn[u])' = Generation(conn[u]) => conn[u] # c
        BY <1>3, <2>1, <3>1 DEF Generation
      <3>4. QED  BY <1>1, <1>3, <2>1, <3>1, <3>2, <3>3, SnapshotFrame DEF TypeOK
    <2>2. QED  BY <2>1 DEF SnapshotsTrue
  <1>4. ASSUME NEW t \in Tasks, GetPoolStep(t) PROVE SnapshotsTrue'
    <2>1. CASE Enter(t)
      BY <1>1, <1>2, <1>r, <2>1 DEF Enter, TypeOK, HoldsSnapshot
    <2>2. CASE Lock(t)
      BY <1>1, <1>2, <2>2 DEF Lock, TypeOK, HoldsSnapshot
    <2>3. CASE TakeSnapshot(t)
      <3>1. CASE ReturnPool(t, TRUE) \/ ReturnPool(t, FALSE)
        BY <1>r, <2>3, <3>1 DEF TakeSnapshot
      <3>2. CASE ~(ReturnPool(t, TRUE) \/ ReturnPool(t, FALSE))
        <4>1. /\ pools[conn[t]] = None /\ resetEpoch = entryEpoch[t]
              /\ snap' = [snap EXCEPT ![t] =
                   [schema |-> overrides[conn[t]], tunnel |-> tunnels[conn[t]],
                    generation |-> Generation(conn[t])]]
              /\ pc' = [pc EXCEPT ![t] = AfterSnapshot(t, tunnels[conn[t]])]
              /\ UNCHANGED <<pools, tunnels, overrides, resetEpoch, generations, conn, entryEpoch>>
              /\ conn[t] \in Connections
          BY <1>1, <2>3, <3>2 DEF TakeSnapshot, BusyTasksNamed
        <4>2. /\ snap'[t] = [schema |-> overrides[conn[t]], tunnel |-> tunnels[conn[t]],
                             generation |-> <<resetEpoch, generations[conn[t]]>>]
              /\ pc'[t] = AfterSnapshot(t, tunnels[conn[t]])
          BY <1>1, <4>1 DEF TypeOK, Generation
        <4>3. SnapshotTrue(t)'
          BY <1>1, <4>1, <4>2
          DEF SnapshotTrue, TypeOK, StillCurrent, Generation, AfterSnapshot, AfterPassword
        <4>4. QED  BY <1>1, <1>2, <4>1, <4>3 DEF TypeOK
      <3>3. QED  BY <3>1, <3>2
    <2>4. CASE FetchPassword(t)
      <3>1. CASE ReturnPool(t, FALSE)
        BY <1>r, <2>4, <3>1 DEF FetchPassword
      <3>2. CASE ~ReturnPool(t, FALSE)
        <4>1. /\ pc[t] = "password" /\ SnapshotTrue(t)
              /\ pc' = [pc EXCEPT ![t] = AfterPassword(t, snap[t].tunnel)]
              /\ UNCHANGED <<pools, tunnels, overrides, resetEpoch, generations, conn,
                             entryEpoch, snap>>
          BY <2>4, <3>2 DEF FetchPassword, SnapshotsTrue, HoldsSnapshot
        <4>2. pc'[t] = AfterPassword(t, snap[t].tunnel)
          BY <1>1, <4>1 DEF TypeOK
        <4>3. SnapshotTrue(t)'
          BY <4>1, <4>2 DEF SnapshotTrue, StillCurrent, Generation, AfterPassword
        <4>4. QED  BY <1>1, <1>2, <4>1, <4>3 DEF TypeOK
      <3>3. QED  BY <3>1, <3>2
    <2>5. CASE CacheTunnel(t)
      <3>1. CASE UNCHANGED inner /\ (ReturnPool(t, FALSE) \/ Retry(t))
        BY <1>r, <1>y, <3>1
      <3>2. CASE ~(UNCHANGED inner /\ (ReturnPool(t, FALSE) \/ Retry(t)))
        <4>1. /\ StillCurrent(t) /\ pc[t] = "tunnel" /\ SnapshotTrue(t)
              /\ tunnels' = [tunnels EXCEPT ![conn[t]] = snap[t].generation]
              /\ snap' = [snap EXCEPT ![t].tunnel = snap[t].generation]
              /\ pc' = [pc EXCEPT ![t] = "connect"]
              /\ UNCHANGED <<pools, overrides, resetEpoch, generations, lock, conn, entryEpoch>>
              /\ conn[t] \in Connections
          BY <1>1, <2>5, <3>2
          DEF CacheTunnel, SnapshotsTrue, HoldsSnapshot, BusyTasksNamed
        <4>2. /\ snap[t] \in Snapshot /\ snap[t].generation \in Nat \X Nat
              /\ snap[t].generation # None
          BY <1>1 DEF TypeOK, Snapshot, TunnelIds
        <4>3. /\ snap'[t] = [snap[t] EXCEPT !.tunnel = snap[t].generation]
              /\ snap'[t].generation = snap[t].generation
              /\ snap'[t].schema = snap[t].schema
              /\ snap'[t].tunnel = snap[t].generation
              /\ tunnels'[conn[t]] = snap[t].generation
              /\ pc'[t] = "connect"
          BY <1>1, <4>1, <4>2 DEF TypeOK, Snapshot
        <4>4. SnapshotTrue(t)'
          BY <4>1, <4>2, <4>3 DEF SnapshotTrue, StillCurrent, Generation
        <4>5. ASSUME NEW u \in Tasks, pc'[u] \in HoldsSnapshot, u # t
              PROVE  SnapshotTrue(u)'
          <5>1. /\ pc'[u] = pc[u] /\ snap'[u] = snap[u] /\ pc[u] \in HoldsSnapshot
                /\ SnapshotTrue(u) /\ conn[u] \in Connections
            BY <1>1, <4>1, <4>5 DEF TypeOK, SnapshotsTrue, BusyTasksNamed, HoldsSnapshot
          <5>2. conn[u] # conn[t]
            BY <4>1, <4>5, <5>1 DEF ConnectingHoldsLock, HoldsSnapshot, Connecting
          <5>3. tunnels'[conn[u]] = tunnels[conn[u]]
            BY <1>1, <4>1, <5>1, <5>2 DEF TypeOK
          <5>4. resetEpoch' >= resetEpoch /\ generations'[conn[u]] >= generations[conn[u]]
            BY <1>1, <4>1, <5>1 DEF TypeOK
          <5>5. QED  BY <1>1, <4>1, <5>1, <5>3, <5>4, SnapshotFrame DEF TypeOK
        <4>6. QED  BY <4>4, <4>5 DEF SnapshotsTrue
      <3>3. QED  BY <3>1, <3>2
    <2>6. CASE TunnelFailed(t)
      BY <1>r, <2>6 DEF TunnelFailed
    <2>7. CASE CachePool(t)
      <3>1. CASE UNCHANGED inner /\ (ReturnPool(t, FALSE) \/ Retry(t))
        BY <1>r, <1>y, <3>1
      <3>2. CASE ~(UNCHANGED inner /\ (ReturnPool(t, FALSE) \/ Retry(t)))
        <4>1. /\ pc[t] = "connect" /\ conn[t] \in Connections /\ pc'[t] \notin HoldsSnapshot
              /\ \A d \in Connections \ {conn[t]} : pools'[d] = pools[d]
              /\ UNCHANGED <<tunnels, overrides, resetEpoch, generations>>
              /\ \A u \in Tasks \ {t} : /\ pc'[u] = pc[u] /\ snap'[u] = snap[u]
                                        /\ conn'[u] = conn[u] /\ entryEpoch'[u] = entryEpoch[u]
          BY <1>1, <2>7, <3>2
          DEF CachePool, ReturnPool, TypeOK, BusyTasksNamed, HoldsSnapshot
        <4>2. ASSUME NEW u \in Tasks, pc'[u] \in HoldsSnapshot PROVE SnapshotTrue(u)'
          <5>1. /\ u # t /\ pc[u] \in HoldsSnapshot /\ SnapshotTrue(u)
                /\ conn[u] \in Connections
            BY <1>1, <4>1, <4>2 DEF SnapshotsTrue, BusyTasksNamed, HoldsSnapshot
          <5>2. conn[u] # conn[t]
            BY <4>1, <5>1 DEF ConnectingHoldsLock, HoldsSnapshot, Connecting
          <5>3. resetEpoch' >= resetEpoch /\ generations'[conn[u]] >= generations[conn[u]]
            BY <1>1, <4>1, <5>1 DEF TypeOK
          <5>4. QED  BY <1>1, <4>1, <5>1, <5>2, <5>3, SnapshotFrame DEF TypeOK
        <4>3. QED  BY <4>2 DEF SnapshotsTrue
      <3>3. QED  BY <3>1, <3>2
    <2>8. CASE ConnectFailed(t)
      BY <1>r, <1>y, <2>8 DEF ConnectFailed
    <2>9. QED  BY <1>4, <2>1, <2>2, <2>3, <2>4, <2>5, <2>6, <2>7, <2>8 DEF GetPoolStep
  <1>5. ASSUME NEW c \in Connections, NEW schema, ReplaceOverride(c, schema),
               UNCHANGED <<snap, entryEpoch>>,
               \A u \in Tasks : pc'[u] \in HoldsSnapshot => pc'[u] = pc[u] /\ conn'[u] = conn[u]
        PROVE  SnapshotsTrue'
    BY <1>1, <1>3, <1>5 DEF ReplaceOverride, TypeOK
  <1>6. ASSUME NEW t \in Tasks, SwitchStep(t) PROVE SnapshotsTrue'
    <2>1. CASE SetOverride(t)
      BY <1>1, <1>5, <2>1 DEF SetOverride, TypeOK, BusyTasksNamed, HoldsSnapshot
    <2>2. CASE ConfirmSwitch(t) \/ ConfirmFailed(t)
      BY <1>1, <1>2, <2>2 DEF ConfirmSwitch, ConfirmFailed, EndSwitch, TypeOK, HoldsSnapshot
    <2>3. CASE Rollback(t)
      <3>1. /\ conn[t] \in Connections /\ UNCHANGED <<snap, entryEpoch>>
            /\ pc'[t] \notin HoldsSnapshot
            /\ \A u \in Tasks \ {t} : pc'[u] = pc[u] /\ conn'[u] = conn[u]
        BY <1>1, <2>3 DEF Rollback, EndSwitch, TypeOK, BusyTasksNamed, HoldsSnapshot
      <3>2. CASE UNCHANGED inner
        BY <1>2, <3>1, <3>2
      <3>3. CASE ~UNCHANGED inner
        BY <1>5, <2>3, <3>1, <3>3 DEF Rollback
      <3>4. QED  BY <3>2, <3>3
    <2>4. QED  BY <1>6, <2>1, <2>2, <2>3 DEF SwitchStep
  <1>7. ASSUME NEW t \in Tasks, Abort(t) PROVE SnapshotsTrue'
    BY <1>r, <1>7 DEF Abort
  <1>8. ASSUME NEW t \in Tasks, NEW c \in Connections, FindServer(t, c) PROVE SnapshotsTrue'
    BY <1>1, <1>2, <1>8 DEF FindServer, TypeOK, HoldsSnapshot
  <1>9. ASSUME NEW t \in Tasks, NEW schema \in Schemas, BeginSwitch(t, schema)
        PROVE  SnapshotsTrue'
    BY <1>1, <1>2, <1>9 DEF BeginSwitch, TypeOK, HoldsSnapshot
  <1>10. ASSUME NEW c \in Connections, Disconnect(c) PROVE SnapshotsTrue'
    BY <1>1, <1>3, <1>10 DEF Disconnect, TypeOK
  <1>11. ASSUME NEW c \in Connections, NEW schema \in Schemas, SelectSchema(c, schema)
         PROVE  SnapshotsTrue'
    BY <1>5, <1>11 DEF SelectSchema
  <1>12. CASE Reset
    <2>1. ASSUME NEW u \in Tasks, pc'[u] \in HoldsSnapshot PROVE SnapshotTrue(u)'
      <3>1. /\ UNCHANGED <<generations, pc, conn, entryEpoch, snap>>
            /\ resetEpoch' = resetEpoch + 1
            /\ pc[u] \in HoldsSnapshot /\ SnapshotTrue(u) /\ conn[u] \in Connections
            /\ resetEpoch \in Nat /\ generations[conn[u]] \in Nat
        BY <1>1, <1>12, <2>1
        DEF Reset, SnapshotsTrue, TypeOK, BusyTasksNamed, HoldsSnapshot
      <3>2. resetEpoch' >= resetEpoch /\ generations'[conn[u]] >= generations[conn[u]]
        BY <3>1
      <3>3. Generation(conn[u])' # Generation(conn[u])
        BY <3>1 DEF Generation
      <3>4. QED  BY <1>1, <3>1, <3>2, <3>3, SnapshotFrame DEF TypeOK
    <2>2. QED  BY <2>1 DEF SnapshotsTrue
  <1>13. CASE ReloadConfig \/ UNCHANGED vars
    BY <1>13 DEF ReloadConfig, vars, SnapshotsTrue, SnapshotTrue, StillCurrent, Generation
  <1>14. QED
    BY <1>4, <1>6, <1>7, <1>8, <1>9, <1>10, <1>11, <1>12, <1>13 DEF Next

----------------------------------------------------------------------------
(* The cached pools and tunnels *)

(* How a step can change what is cached for the connections: the lemma the *)
(* invariants, the action properties and the refinement all rest on.       *)
Opened(t) ==
  LET c == conn[t] IN
  /\ pc[t] = "connect" /\ StillCurrent(t) /\ SnapshotTrue(t) /\ c \in Connections
  /\ pools' = [pools EXCEPT ![c] =
       [schema |-> overrides[c], tunnel |-> tunnels[c], version |-> version[t],
        epoch |-> resetEpoch]]
  /\ pools[c] = None
  /\ c \in Tunneled => tunnels[c] # None
  /\ UNCHANGED <<tunnels, overrides, resetEpoch>>
TunnelOpened(t) ==
  LET c == conn[t] IN
  /\ pc[t] = "tunnel" /\ StillCurrent(t) /\ SnapshotTrue(t) /\ c \in Connections
  /\ tunnels' = [tunnels EXCEPT ![c] = snap[t].generation]
  /\ pools[c] = None /\ tunnels[c] = None /\ c \in Tunneled
  /\ UNCHANGED <<pools, overrides, resetEpoch>>
Closed(c) ==
  /\ pools' = [pools EXCEPT ![c] = None]
  /\ tunnels' = [tunnels EXCEPT ![c] = None]
  /\ UNCHANGED <<overrides, resetEpoch>>
Replaced(c, schema) ==
  /\ overrides' = [overrides EXCEPT ![c] = schema]
  /\ pools' = [pools EXCEPT ![c] = None]
  /\ UNCHANGED <<tunnels, resetEpoch>>
Dropped ==
  /\ pools' = [c \in Connections |-> None]
  /\ tunnels' = [c \in Connections |-> None]
  /\ overrides' = [c \in Connections |-> None]
  /\ resetEpoch' = resetEpoch + 1

LEMMA CacheStep ==
  ASSUME Typed, SnapshotsTrue, [Next]_vars
  PROVE  \/ \E t \in Tasks : Opened(t) \/ TunnelOpened(t)
         \/ \E c \in Connections : Closed(c)
         \/ \E c \in Connections, schema \in OptionalSchema : Replaced(c, schema)
         \/ Dropped
         \/ UNCHANGED <<pools, tunnels, overrides, resetEpoch>>
  <1> DEFINE Goal == \/ \E t \in Tasks : Opened(t) \/ TunnelOpened(t)
                     \/ \E c \in Connections : Closed(c)
                     \/ \E c \in Connections, schema \in OptionalSchema : Replaced(c, schema)
                     \/ Dropped
                     \/ UNCHANGED <<pools, tunnels, overrides, resetEpoch>>
  <1>0. TypeOK /\ BusyTasksNamed
    BY DEF Typed
  <1>1. ASSUME NEW t \in Tasks, GetPoolStep(t) PROVE Goal
    <2>1. CASE UNCHANGED inner
      BY <2>1
    <2>2. CASE ~UNCHANGED inner
      <3>1. \/ CacheTunnel(t) /\ ~UNCHANGED inner
            \/ CachePool(t) /\ ~UNCHANGED inner
        BY <1>1, <2>2
        DEF GetPoolStep, Enter, Lock, TakeSnapshot, FetchPassword, TunnelFailed, ConnectFailed
      <3>2. CASE CacheTunnel(t)
        <4>1. /\ pc[t] = "tunnel" /\ StillCurrent(t) /\ SnapshotTrue(t)
              /\ conn[t] \in Connections
              /\ tunnels' = [tunnels EXCEPT ![conn[t]] = snap[t].generation]
              /\ UNCHANGED <<pools, overrides, resetEpoch>>
          BY <1>0, <2>2, <3>2
          DEF CacheTunnel, SnapshotsTrue, HoldsSnapshot, BusyTasksNamed
        <4>2. TunnelOpened(t)
          BY <4>1 DEF TunnelOpened, SnapshotTrue
        <4>3. QED  BY <4>2
      <3>3. CASE CachePool(t)
        <4>1. /\ pc[t] = "connect" /\ StillCurrent(t) /\ SnapshotTrue(t)
              /\ conn[t] \in Connections
              /\ pools' = [pools EXCEPT ![conn[t]] =
                   [schema |-> snap[t].schema, tunnel |-> snap[t].tunnel,
                    version |-> version[t], epoch |-> entryEpoch[t]]]
              /\ UNCHANGED <<tunnels, overrides, resetEpoch>>
          BY <1>0, <2>2, <3>3
          DEF CachePool, SnapshotsTrue, HoldsSnapshot, BusyTasksNamed
        <4>2. /\ snap[t].schema = overrides[conn[t]] /\ snap[t].tunnel = tunnels[conn[t]]
              /\ pools[conn[t]] = None /\ entryEpoch[t] = resetEpoch
              /\ conn[t] \in Tunneled => tunnels[conn[t]] # None
          BY <4>1 DEF SnapshotTrue, StillCurrent, Generation
        <4>3. Opened(t)
          BY <4>1, <4>2 DEF Opened
        <4>4. QED  BY <4>3
      <3>4. QED  BY <3>1, <3>2, <3>3
    <2>3. QED  BY <2>1, <2>2
  <1>2. ASSUME NEW c \in Connections, NEW schema \in OptionalSchema, ReplaceOverride(c, schema)
        PROVE  Goal
    BY <1>2 DEF ReplaceOverride, Replaced
  <1>3. ASSUME NEW t \in Tasks, SwitchStep(t) PROVE Goal
    <2>1. CASE SetOverride(t)
      BY <1>0, <1>2, <2>1 DEF SetOverride, BusyTasksNamed, Switch, OptionalSchema
    <2>2. CASE Rollback(t)
      <3>1. conn[t] \in Connections /\ switch[t].previous \in OptionalSchema
        BY <1>0, <2>2 DEF Rollback, BusyTasksNamed, Switch
      <3>2. ReplaceOverride(conn[t], switch[t].previous) \/ UNCHANGED inner
        BY <2>2 DEF Rollback
      <3>3. QED  BY <1>2, <3>1, <3>2
    <2>3. CASE ConfirmSwitch(t) \/ ConfirmFailed(t)
      BY <2>3 DEF ConfirmSwitch, ConfirmFailed
    <2>4. QED  BY <1>3, <2>1, <2>2, <2>3 DEF SwitchStep
  <1>4. ASSUME NEW c \in Connections, Disconnect(c) PROVE Goal
    BY <1>4 DEF Disconnect, Closed
  <1>5. ASSUME NEW c \in Connections, NEW schema \in Schemas, SelectSchema(c, schema) PROVE Goal
    BY <1>2, <1>5 DEF SelectSchema, OptionalSchema
  <1>6. CASE Reset
    BY <1>6 DEF Reset, Dropped
  <1>7. ASSUME NEW t \in Tasks, Abort(t) \/ (\E c \in Connections : FindServer(t, c))
                                \/ (\E schema \in Schemas : BeginSwitch(t, schema))
        PROVE  Goal
    BY <1>7 DEF Abort, FindServer, BeginSwitch
  <1>8. CASE ReloadConfig \/ UNCHANGED vars
    BY <1>8 DEF ReloadConfig, vars
  <1>9. QED  BY <1>1, <1>3, <1>4, <1>5, <1>6, <1>7, <1>8 DEF Next

CacheInv == PoolOnActiveSchema /\ PoolThroughCachedTunnel /\ PoolOfThisEpoch

(* A pool is on the active schema, over the cached tunnel and from this    *)
(* epoch when it is cached, and goes whenever one of those changes.        *)
LEMMA CacheInvStep ==
  ASSUME Typed, SnapshotsTrue, CacheInv, [Next]_vars
  PROVE  CacheInv'
  <1> USE DEF CacheInv, PoolOnActiveSchema, PoolThroughCachedTunnel, PoolOfThisEpoch
  <1>0. TypeOK /\ BusyTasksNamed
    BY DEF Typed
  <1>1. ASSUME NEW t \in Tasks, Opened(t) PROVE CacheInv'
    BY <1>0, <1>1 DEF Opened, TypeOK
  <1>2. ASSUME NEW t \in Tasks, TunnelOpened(t) PROVE CacheInv'
    BY <1>0, <1>2 DEF TunnelOpened, TypeOK
  <1>3. ASSUME NEW c \in Connections, Closed(c) PROVE CacheInv'
    BY <1>0, <1>3 DEF Closed, TypeOK
  <1>4. ASSUME NEW c \in Connections, NEW schema \in OptionalSchema, Replaced(c, schema)
        PROVE  CacheInv'
    BY <1>0, <1>4 DEF Replaced, TypeOK
  <1>5. CASE Dropped
    BY <1>5 DEF Dropped
  <1>6. CASE UNCHANGED <<pools, tunnels, overrides, resetEpoch>>
    BY <1>6
  <1>7. QED  BY <1>1, <1>2, <1>3, <1>4, <1>5, <1>6, CacheStep

----------------------------------------------------------------------------
(* Switches *)

(* A switch has its connection to itself, and until the user selects       *)
(* another database the override is the one it set, or gone if a reload    *)
(* came after that.                                                        *)
SwitchesAlone ==
  /\ \A t \in Tasks : IsSwitch(t) => pc[t] \notin {"idle", "found"}
  /\ \A t, u \in Tasks : IsSwitch(t) /\ IsSwitch(u) /\ conn[t] = conn[u] => t = u
OverrideExpected(t) ==
  /\ switch[t].tried \in Nat /\ switch[t].tried <= resetEpoch
  /\ pc[t] = "set" \/ overrides[conn[t]] = IF switch[t].tried = resetEpoch THEN switch[t].target ELSE None
SwitchesHold ==
  SwitchesAlone /\ \A t \in Tasks : IsSwitch(t) /\ switch[t].chosen = None => OverrideExpected(t)

(* Steps that neither begin nor end a switch nor change an override.       *)
LEMMA SwitchFrame ==
  ASSUME SwitchesHold, UNCHANGED <<switch, overrides, resetEpoch>>,
         \A t \in Tasks : IsSwitch(t) =>
           /\ conn'[t] = conn[t]
           /\ pc'[t] \notin {"idle", "found"}
           /\ pc'[t] = "set" <=> pc[t] = "set"
  PROVE  SwitchesHold'
  BY DEF SwitchesHold, SwitchesAlone, OverrideExpected, IsSwitch

(* A switch that ends leaves the others what they have.                    *)
LEMMA EndSwitchHolds ==
  ASSUME Typed, SwitchesHold, NEW t \in Tasks, IsSwitch(t), EndSwitch(t), UNCHANGED resetEpoch,
         \A c \in Connections : c # conn[t] => overrides'[c] = overrides[c]
  PROVE  SwitchesHold'
  <1>1. conn[t] \in Connections /\ ~IsSwitch(t)'
    BY DEF SwitchesHold, SwitchesAlone, Typed, TypeOK, BusyTasksNamed, EndSwitch, IsSwitch
  <1>2. \A u \in Tasks : u # t =>
          pc'[u] = pc[u] /\ conn'[u] = conn[u] /\ switch'[u] = switch[u]
    BY DEF Typed, TypeOK, EndSwitch
  <1>3. \A u \in Tasks : u # t /\ IsSwitch(u) => conn[u] \in Connections /\ conn[u] # conn[t]
    BY DEF SwitchesHold, SwitchesAlone, Typed, TypeOK, BusyTasksNamed
  <1>4. QED
    BY <1>1, <1>2, <1>3 DEF SwitchesHold, SwitchesAlone, OverrideExpected, IsSwitch

(* One step per action; only those of a switch, a selection and a reload   *)
(* change an override.                                                     *)
LEMMA SwitchesStep ==
  ASSUME Typed, SwitchesHold, [Next]_vars
  PROVE  SwitchesHold'
  <1> USE NoneAssumption, ConnectionsAssumption
  <1>t. /\ \A t \in Tasks : pc[t] \in {"set", "confirm", "rollback"} => IsSwitch(t)
        /\ \A t \in Tasks : IsSwitch(t) => switch[t] \in Switch
        /\ \A t \in Tasks : pc[t] # "idle" => conn[t] \in Connections
        /\ \A t \in Tasks : IsSwitch(t) => conn[t] \in Connections
    BY DEF Typed, TypeOK, BusyTasksNamed, IsSwitch, SwitchesHold, SwitchesAlone, Switch, NoSwitch
  <1>r. ASSUME NEW t \in Tasks, NEW ok \in BOOLEAN, ReturnPool(t, ok), UNCHANGED inner,
               pc[t] \in InGetPool \cup {"found"}
        PROVE  SwitchesHold'
    BY <1>r, SwitchFrame DEF ReturnPool, Typed, TypeOK, SwitchesHold, SwitchesAlone, InGetPool, Connecting
  <1>y. ASSUME NEW t \in Tasks, pc[t] \in Connecting, Retry(t), UNCHANGED inner PROVE SwitchesHold'
    BY <1>y, SwitchFrame DEF Retry, Typed, TypeOK, SwitchesHold, SwitchesAlone, Connecting
  <1>1. ASSUME NEW t \in Tasks, GetPoolStep(t) PROVE SwitchesHold'
    <2> USE DEF InGetPool, Connecting
    <2>1. CASE Enter(t)
      BY <2>1, <1>r, SwitchFrame DEF Enter, Typed, TypeOK, SwitchesHold, SwitchesAlone
    <2>2. CASE Lock(t)
      BY <2>2, SwitchFrame DEF Lock, Typed, TypeOK, SwitchesHold, SwitchesAlone
    <2>3. CASE TakeSnapshot(t)
      BY <2>3, <1>r, SwitchFrame
      DEF TakeSnapshot, AfterSnapshot, AfterPassword, Typed, TypeOK, SwitchesHold, SwitchesAlone
    <2>4. CASE FetchPassword(t)
      BY <2>4, <1>r, SwitchFrame
      DEF FetchPassword, AfterPassword, Typed, TypeOK, SwitchesHold, SwitchesAlone
    <2>5. CASE CacheTunnel(t)
      BY <2>5, <1>r, <1>y, SwitchFrame
      DEF CacheTunnel, Typed, TypeOK, SwitchesHold, SwitchesAlone
    <2>6. CASE CachePool(t)
      <3>1. CASE StillCurrent(t) /\ ReturnPool(t, TRUE) /\ UNCHANGED <<overrides, resetEpoch>>
        BY <2>6, <3>1, SwitchFrame
        DEF CachePool, ReturnPool, Typed, TypeOK, SwitchesHold, SwitchesAlone
      <3>2. QED  BY <2>6, <3>1, <1>r, <1>y DEF CachePool
    <2>7. CASE TunnelFailed(t) \/ ConnectFailed(t)
      BY <2>7, <1>r, <1>y DEF TunnelFailed, ConnectFailed
    <2>8. QED  BY <1>1, <2>1, <2>2, <2>3, <2>4, <2>5, <2>6, <2>7 DEF GetPoolStep
  <1>2. ASSUME NEW t \in Tasks, SetOverride(t) PROVE SwitchesHold'
    <2>1. /\ IsSwitch(t) /\ conn[t] \in Connections
          /\ \A u \in Tasks : u # t => pc'[u] = pc[u]
          /\ \A u \in Tasks : u # t /\ IsSwitch(u) => conn[u] # conn[t]
          /\ pc'[t] = "enter" /\ overrides'[conn[t]] = switch[t].target
          /\ switch'[t] = [switch[t] EXCEPT !.tried = resetEpoch] /\ switch[t] \in Switch
          /\ \A u \in Tasks : u # t => switch'[u] = switch[u]
          /\ resetEpoch \in Nat /\ UNCHANGED <<conn, resetEpoch>>
          /\ \A c \in Connections : c # conn[t] => overrides'[c] = overrides[c]
      BY <1>t, <1>2 DEF SetOverride, ReplaceOverride, Typed, TypeOK, SwitchesHold, SwitchesAlone
    <2>2. /\ switch'[t].target = switch[t].target /\ switch'[t].tried = resetEpoch
          /\ switch'[t].target # None /\ \A u \in Tasks : IsSwitch(u)' <=> IsSwitch(u)
      BY <1>t, <2>1 DEF Switch, IsSwitch, NoSwitch
    <2>3. SwitchesAlone'
      BY <2>1, <2>2 DEF SwitchesHold, SwitchesAlone
    <2>4. OverrideExpected(t)'
      BY <2>1, <2>2 DEF OverrideExpected
    <2>5. ASSUME NEW u \in Tasks, u # t, IsSwitch(u)', switch'[u].chosen = None PROVE OverrideExpected(u)'
      <3>1. IsSwitch(u) /\ OverrideExpected(u) /\ conn[u] \in Connections /\ conn[u] # conn[t]
        BY <1>t, <2>1, <2>2, <2>5 DEF SwitchesHold
      <3>2. QED  BY <2>1, <2>5, <3>1 DEF OverrideExpected
    <2>6. QED  BY <2>3, <2>4, <2>5 DEF SwitchesHold
  <1>3. ASSUME NEW t \in Tasks, ConfirmSwitch(t) \/ Rollback(t) PROVE SwitchesHold'
    <2>1. IsSwitch(t) /\ EndSwitch(t) /\ conn[t] \in Connections
      BY <1>t, <1>3 DEF ConfirmSwitch, Rollback
    <2>2. UNCHANGED resetEpoch /\ \A c \in Connections : c # conn[t] => overrides'[c] = overrides[c]
      BY <1>3, <2>1 DEF ConfirmSwitch, Rollback, ReplaceOverride, Typed, TypeOK
    <2>3. QED  BY <2>1, <2>2, EndSwitchHolds
  <1>4. ASSUME NEW t \in Tasks, ConfirmFailed(t) PROVE SwitchesHold'
    BY <1>4, SwitchFrame DEF ConfirmFailed, Typed, TypeOK, SwitchesHold, SwitchesAlone
  <1>5. ASSUME NEW t \in Tasks, Abort(t) PROVE SwitchesHold'
    BY <1>5, <1>r DEF Abort
  <1>6. ASSUME NEW t \in Tasks, NEW c \in Connections, FindServer(t, c) PROVE SwitchesHold'
    BY <1>6, SwitchFrame DEF FindServer, Typed, TypeOK, SwitchesHold, SwitchesAlone
  <1>7. ASSUME NEW t \in Tasks, NEW schema \in Schemas, BeginSwitch(t, schema) PROVE SwitchesHold'
    <2>1. /\ ~IsSwitch(t) /\ \A u \in Tasks : IsSwitch(u) => conn[u] # conn[t]
          /\ pc'[t] = "set" /\ \A u \in Tasks : u # t => pc'[u] = pc[u] /\ switch'[u] = switch[u]
          /\ switch'[t].previous = overrides[conn[t]]
          /\ switch'[t].tried = resetEpoch /\ resetEpoch \in Nat
          /\ UNCHANGED <<conn, overrides, resetEpoch>>
      BY <1>7 DEF BeginSwitch, Typed, TypeOK, SwitchesHold, SwitchesAlone
    <2>2. QED
      BY <2>1 DEF SwitchesHold, SwitchesAlone, OverrideExpected, IsSwitch
  <1>8. ASSUME NEW c \in Connections, NEW schema \in Schemas, SelectSchema(c, schema)
        PROVE  SwitchesHold'
    <2>1. \A t \in Tasks : conn[t] = c /\ IsSwitch(t) => switch'[t].chosen = schema
      BY <1>t, <1>8 DEF SelectSchema, Switch
    <2>2. \A t \in Tasks : ~(conn[t] = c /\ IsSwitch(t)) => switch'[t] = switch[t]
      BY <1>8 DEF SelectSchema
    <2>3. \A t \in Tasks : IsSwitch(t)' => IsSwitch(t)
      BY <2>2 DEF IsSwitch
    <2>4. UNCHANGED <<pc, conn, resetEpoch>> /\ \A d \in Connections : d # c => overrides'[d] = overrides[d]
      BY <1>8 DEF SelectSchema, ReplaceOverride, Typed, TypeOK
    <2>5. schema # None
      OBVIOUS
    <2>6. SwitchesAlone'
      BY <2>3, <2>4 DEF SwitchesHold, SwitchesAlone
    <2>7. ASSUME NEW t \in Tasks, IsSwitch(t)', switch'[t].chosen = None PROVE OverrideExpected(t)'
      <3>1. conn[t] # c /\ conn[t] \in Connections /\ switch'[t] = switch[t] /\ IsSwitch(t)
        BY <1>t, <2>1, <2>2, <2>3, <2>5, <2>7
      <3>2. QED  BY <2>4, <2>7, <3>1 DEF OverrideExpected, SwitchesHold
    <2>8. QED  BY <2>6, <2>7 DEF SwitchesHold
  <1>9. CASE Reset
    <2>1. /\ UNCHANGED <<pc, conn, switch>> /\ \A c \in Connections : overrides'[c] = None
          /\ resetEpoch \in Nat /\ resetEpoch' = resetEpoch + 1
      BY <1>9 DEF Reset, Typed, TypeOK
    <2>2. QED
      BY <1>t, <2>1 DEF SwitchesHold, SwitchesAlone, OverrideExpected, IsSwitch
  <1>10. ASSUME UNCHANGED <<pc, conn, switch, overrides, resetEpoch>> PROVE SwitchesHold'
    BY <1>10 DEF SwitchesHold, SwitchesAlone, OverrideExpected, IsSwitch
  <1>11. CASE ReloadConfig \/ UNCHANGED vars \/ \E c \in Connections : Disconnect(c)
    BY <1>10, <1>11 DEF ReloadConfig, Disconnect, vars
  <1>12. QED
    BY <1>1, <1>2, <1>3, <1>4, <1>5, <1>6, <1>7, <1>8, <1>9, <1>11 DEF Next, SwitchStep

----------------------------------------------------------------------------
(* The theorems *)

LEMMA IInvInit == Init => IInv
  <1> SUFFICES ASSUME Init PROVE IInv
    OBVIOUS
  <1>1. NoSnapshot \in Snapshot
    BY DEF NoSnapshot, Snapshot, OptionalSchema, TunnelIds
  <1>2. TypeOK
    BY <1>1 DEF Init, TypeOK, Places, OptionalSchema
  <1>3. BusyTasksNamed /\ ConnectingHoldsLock /\ SnapshotsTrue
    BY DEF Init, BusyTasksNamed, ConnectingHoldsLock, SnapshotsTrue, Connecting, HoldsSnapshot
  <1>4. PoolOnActiveSchema /\ PoolThroughCachedTunnel /\ PoolOfThisEpoch
    BY DEF Init, PoolOnActiveSchema, PoolThroughCachedTunnel, PoolOfThisEpoch
  <1>5. QED  BY <1>2, <1>3, <1>4 DEF IInv

LEMMA IInvStep == IInv /\ [Next]_vars => IInv'
  <1> SUFFICES ASSUME IInv, [Next]_vars PROVE IInv'
    OBVIOUS
  <1>1. Typed /\ CacheInv /\ ConnectingHoldsLock /\ SnapshotsTrue
    BY DEF IInv, Typed, CacheInv
  <1>2. Typed' /\ ConnectingHoldsLock' /\ SnapshotsTrue' /\ CacheInv'
    BY <1>1, TypeStep, LockStep, SnapshotStep, CacheInvStep
  <1>3. QED  BY <1>2 DEF IInv, Typed, CacheInv

LEMMA Inductive == Spec => []IInv
  BY IInvInit, IInvStep, PTL DEF Spec

(* Every variable keeps its type.                                          *)
THEOREM TypeCorrect == Spec => []TypeOK
  <1>1. IInv => TypeOK
    BY DEF IInv
  <1>2. QED  BY <1>1, Inductive, PTL

(* However many tasks connect, disconnects, switches and reloads overtake  *)
(* each other, a cached pool is on its connection's active database.       *)
THEOREM CachedPoolOnActiveSchema == Spec => []PoolOnActiveSchema
  <1>1. IInv => PoolOnActiveSchema
    BY DEF IInv
  <1>2. QED  BY <1>1, Inductive, PTL

(* A cached pool never outlives its tunnel.                                *)
THEOREM CachedPoolHasItsTunnel == Spec => []PoolThroughCachedTunnel
  <1>1. IInv => PoolThroughCachedTunnel
    BY DEF IInv
  <1>2. QED  BY <1>1, Inductive, PTL

(* No get_pool entered before a reload caches its pool after it.           *)
THEOREM CachedPoolOfThisEpoch == Spec => []PoolOfThisEpoch
  <1>1. IInv => PoolOfThisEpoch
    BY DEF IInv
  <1>2. QED  BY <1>1, Inductive, PTL

(* The connect lock excludes: one task at a time connects to a connection. *)
THEOREM SingleEstablisher == Spec => []OneEstablisher
  <1>1. IInv => OneEstablisher
    BY DEF IInv, OneEstablisher, ConnectingHoldsLock
  <1>2. QED  BY <1>1, Inductive, PTL

(* No step overwrites a cached pool or tunnel.                             *)
THEOREM CacheNeverOverwritten == Spec => NothingOverwritten
  <1> DEFINE Kept == \A c \in Connections :
               /\ pools[c] # None /\ pools'[c] # None => pools'[c] = pools[c]
               /\ tunnels[c] # None /\ tunnels'[c] # None => tunnels'[c] = tunnels[c]
  <1>1. ASSUME IInv, [Next]_vars PROVE Kept
    <2>1. /\ Typed /\ SnapshotsTrue
          /\ pools \in [Connections -> Pool \cup {None}]
          /\ tunnels \in [Connections -> TunnelIds \cup {None}]
      BY <1>1 DEF IInv, Typed, TypeOK
    <2>2. QED
      BY <1>1, <2>1, CacheStep DEF Opened, TunnelOpened, Closed, Replaced, Dropped
  <1>2. IInv /\ [Next]_vars => [Kept]_vars
    BY <1>1
  <1>3. QED  BY <1>2, Inductive, PTL DEF Spec, NothingOverwritten

(* A failed or cancelled `\c` puts the connection back on the database it  *)
(* was on, however its connects were overtaken, unless a reload has taken  *)
(* its own away or the user selected another one meanwhile.                *)
THEOREM FailedSwitchIsUndone == Spec => FailedSwitchRestores
  <1> DEFINE Restores ==
        \A t \in Tasks :
          pc[t] = "rollback" /\ pc'[t] = "idle" /\ switch[t].chosen = None
            => overrides'[conn[t]] = IF resetEpoch = switch[t].tried THEN switch[t].previous ELSE None
  <1>1. Init => SwitchesHold
    BY DEF Init, SwitchesHold, SwitchesAlone, IsSwitch
  <1>2. IInv /\ SwitchesHold /\ [Next]_vars => SwitchesHold'
    BY SwitchesStep DEF IInv, Typed
  <1>3. ASSUME IInv, SwitchesHold, [Next]_vars PROVE [Restores]_vars
    <2> SUFFICES ASSUME Next, NEW t \in Tasks, pc[t] = "rollback", pc'[t] = "idle",
                        switch[t].chosen = None
                 PROVE  overrides'[conn[t]] =
                          IF resetEpoch = switch[t].tried THEN switch[t].previous ELSE None
      BY <1>3
    <2>1. Typed /\ overrides \in [Connections -> OptionalSchema] /\ conn[t] \in Connections
      BY <1>3 DEF IInv, Typed, TypeOK, BusyTasksNamed
    <2>2. switch[t] \in Switch /\ IsSwitch(t)
      BY <2>1, NoneAssumption DEF Typed, BusyTasksNamed, IsSwitch, Switch, NoSwitch
    <2>3. overrides[conn[t]] = IF resetEpoch = switch[t].tried THEN switch[t].target ELSE None
      BY <1>3, <2>2 DEF SwitchesHold, OverrideExpected
    <2>4. Rollback(t)
      <3>1. pc \in [Tasks -> Places]
        BY <2>1 DEF Typed, TypeOK
      <3>2. ASSUME NEW u \in Tasks, GetPoolStep(u) \/ SetOverride(u) \/ ConfirmSwitch(u)
                                     \/ ConfirmFailed(u) \/ Abort(u)
            PROVE  pc[u] # "rollback" /\ \A v \in Tasks : v # u => pc'[v] = pc[v]
        BY <3>1, <3>2
        DEF GetPoolStep, Enter, Lock, TakeSnapshot, FetchPassword, CacheTunnel, TunnelFailed, CachePool,
            ConnectFailed, ReturnPool, Retry, SetOverride, ConfirmSwitch, ConfirmFailed, EndSwitch, Abort,
            InGetPool, Connecting
      <3>3. ASSUME NEW u \in Tasks, Rollback(u) \/ (\E c \in Connections : FindServer(u, c))
                                     \/ (\E schema \in Schemas : BeginSwitch(u, schema))
            PROVE  \A v \in Tasks : v # u => pc'[v] = pc[v]
        BY <3>1, <3>3 DEF Rollback, EndSwitch, FindServer, BeginSwitch
      <3>4. ~\E c \in Connections : FindServer(t, c)
        BY DEF FindServer
      <3>5. ~\E schema \in Schemas : BeginSwitch(t, schema)
        BY DEF BeginSwitch
      <3>6. ASSUME UNCHANGED pc PROVE FALSE
        BY <3>6
      <3>7. QED
        BY <3>2, <3>3, <3>4, <3>5, <3>6
        DEF Next, SwitchStep, Disconnect, SelectSchema, ReloadConfig, Reset
    <2>5. switch[t].target # None
      BY <2>2, NoneAssumption DEF Switch
    <2>6. QED  BY <2>1, <2>3, <2>4, <2>5 DEF Rollback, ReplaceOverride, inner
  <1>4. QED  BY <1>1, <1>2, <1>3, Inductive, PTL DEF Spec, FailedSwitchRestores

(* The manager implements its promise: every step of the tasks is a step   *)
(* of SessionPromise or changes nothing the promise speaks of.             *)
THEOREM Refinement == Spec => KeepsPromise
  <1> DEFINE sessions == [c \in Connections |-> IF pools[c] = None THEN {} ELSE {pools[c].schema}]
             tunnelUp == [c \in Connections |-> tunnels[c] # None]
  <1> USE NoneAssumption
  <1>1. Init => Promise!Init
    BY DEF Init, Promise!Init
  <1>2. ASSUME IInv, [Next]_vars PROVE [Promise!Next]_(Promise!sessionVars)
    <2>1. /\ Typed /\ SnapshotsTrue
          /\ pools \in [Connections -> Pool \cup {None}]
          /\ tunnels \in [Connections -> TunnelIds \cup {None}]
          /\ overrides \in [Connections -> OptionalSchema]
          /\ version \in [Tasks -> Nat] /\ resetEpoch \in Nat
          /\ snap \in [Tasks -> Snapshot]
      BY <1>2 DEF IInv, Typed, TypeOK
    <2>2. ASSUME NEW t \in Tasks, Opened(t), NEW c \in Connections, c = conn[t]
          PROVE  Promise!OpenSession(c)
      <3>1. [schema |-> overrides[c], tunnel |-> tunnels[c],
             version |-> version[t], epoch |-> resetEpoch] \in Pool
        BY <2>1, <2>2 DEF Pool
      <3>2. /\ pools'[c] # None /\ pools'[c].schema = overrides[c]
            /\ \A d \in Connections \ {c} : pools'[d] = pools[d]
        BY <2>1, <2>2, <3>1 DEF Opened
      <3>3. sessions' = [sessions EXCEPT ![c] = {overrides[c]}]
        BY <2>2, <3>2 DEF Opened
      <3>4. QED  BY <2>2, <3>3 DEF Opened, Promise!OpenSession
    <2>3. ASSUME NEW t \in Tasks, TunnelOpened(t), NEW c \in Connections, c = conn[t]
          PROVE  Promise!OpenTunnel(c)
      <3>1. snap[t].generation # None
        BY <2>1 DEF Snapshot, TunnelIds
      <3>2. tunnelUp' = [tunnelUp EXCEPT ![c] = TRUE]
        BY <2>1, <2>3, <3>1 DEF TunnelOpened
      <3>3. QED  BY <2>3, <3>2 DEF TunnelOpened, Promise!OpenTunnel
    <2>4. ASSUME NEW c \in Connections, Closed(c) PROVE Promise!Close(c)
      BY <2>1, <2>4 DEF Closed, Promise!Close
    <2>5. ASSUME NEW c \in Connections, NEW schema \in OptionalSchema, Replaced(c, schema)
          PROVE  Promise!Choose(c, schema)
      BY <2>1, <2>5 DEF Replaced, Promise!Choose
    <2>6. CASE Dropped
      BY <2>6 DEF Dropped, Promise!Next, Promise!Restart
    <2>7. CASE UNCHANGED <<pools, tunnels, overrides, resetEpoch>>
      BY <2>7 DEF Promise!sessionVars
    <2>8. ASSUME NEW t \in Tasks, Opened(t) \/ TunnelOpened(t) PROVE Promise!Next
      <3>1. conn[t] \in Connections
        BY <2>8 DEF Opened, TunnelOpened
      <3>2. PICK c \in Connections : c = conn[t]
        BY <3>1
      <3>3. Promise!OpenSession(c) \/ Promise!OpenTunnel(c)
        BY <2>2, <2>3, <2>8, <3>2
      <3>4. QED  BY <3>3 DEF Promise!Next
    <2>9. (\E c \in Connections : Closed(c)) => Promise!Next
      BY <2>4 DEF Promise!Next
    <2>10. (\E c \in Connections, schema \in OptionalSchema : Replaced(c, schema)) => Promise!Next
      BY <2>5 DEF Promise!Next, OptionalSchema
    <2>11. QED  BY <1>2, <2>1, <2>6, <2>7, <2>8, <2>9, <2>10, CacheStep
  <1>3. QED  BY <1>1, <1>2, Inductive, PTL DEF Spec, KeepsPromise, Promise!Spec
=============================================================================
