----------------------------- MODULE DbManager -----------------------------
(***************************************************************************)
(* The connection manager of the Rust backend (db.rs): one pool and one    *)
(* SSH tunnel per connection name, the override of the active schema, and  *)
(* get_pool, which connects outside the `inner` mutex and therefore has to *)
(* find out afterwards whether what it read is still true.                 *)
(*                                                                         *)
(* Every critical section of `inner` is one action.  Between two of them   *)
(* any other task, the user (disconnect, schema selection) or a config     *)
(* reload may run.  A task is one backend operation: a query, a catalog    *)
(* read, or a `\c` switch (switch_active_schema) around a get_pool.        *)
(*                                                                         *)
(* The events nobody bounds in the program (disconnects, switches and      *)
(* reloads) share the budget MaxEvents; generation and epoch counters are  *)
(* then bounded too, and no internal step needs a bound of its own.        *)
(***************************************************************************)
EXTENDS Naturals

CONSTANTS
  Connections,      \* names of the configured connections
  Tasks,            \* backend operations that may run at the same time
  Schemas,          \* databases a connection can be switched to
  Tunneled,         \* connections with an ssh_tunnel
  PasswordCommand,  \* connections with a password_command
  Hanging,          \* connections whose server may never answer (liveness only)
  None,             \* Rust's None
  MaxEvents         \* bound: disconnects + switches + selections + reloads

ASSUME ConnectionsAssumption ==
  /\ Tunneled \subseteq Connections
  /\ PasswordCommand \subseteq Connections
  /\ Hanging \subseteq Connections
ASSUME MaxEventsAssumption == MaxEvents \in Nat

VARIABLES
  config,        \* the config version AppState.servers hands out
  resetPending,  \* reset_connections dropped the config, db.reset() is next
  pools,         \* inner.pools: the cached pool of a connection, or None
  tunnels,       \* inner.tunnels: the cached tunnel of a connection, or None
  overrides,     \* inner.schema_overrides
  resetEpoch,    \* inner.reset_epoch
  generations,   \* inner.generations
  lock,          \* `connecting`: the task that holds a connection's lock
  pc,            \* where a task is
  conn,          \* the name in the ServerConfig the task was given ...
  version,       \* ... and the config version that ServerConfig was read from
  entryEpoch,    \* get_pool's entry_epoch
  fetched,       \* get_pool has the output of password_command
  snap,          \* what get_pool read under `inner` before connecting
  switch,        \* locals of switch_active_schema, or NoSwitch
  events         \* how much of MaxEvents is used

inner == <<pools, tunnels, overrides, resetEpoch, generations>>
appState == <<config, resetPending>>
locals == <<pc, conn, version, entryEpoch, fetched, snap, switch>>
vars == <<config, resetPending, pools, tunnels, overrides, resetEpoch, generations,
          lock, pc, conn, version, entryEpoch, fetched, snap, switch, events>>

----------------------------------------------------------------------------
(* The data.  `schema` None is the schema the ServerConfig itself names.   *)

OptionalSchema == Schemas \cup {None}

(* A tunnel is identified by the generation it was started at: the lock    *)
(* admits one starter at a time and a later start sees a later generation. *)
TunnelIds == Nat \X Nat

Pool == [schema : OptionalSchema,          \* the database it is connected to
         tunnel : TunnelIds \cup {None},   \* the tunnel it goes through
         version : Nat,                    \* the config it was built from
         epoch : Nat]                      \* reset_epoch when get_pool was entered

ASSUME NoneAssumption == None \notin Tasks \cup Schemas \cup Connections \cup TunnelIds \cup Pool

Snapshot == [schema : OptionalSchema, tunnel : TunnelIds \cup {None},
             generation : Nat \X Nat]
NoSnapshot == [schema |-> None, tunnel |-> None, generation |-> <<0, 0>>]

(* Two of them are history: `chosen`, the schema the user selected in the  *)
(* UI since the switch read `previous`, and `tried`, the reset epoch in    *)
(* which it set its own.                                                   *)
Switch == [target : Schemas, previous : OptionalSchema, chosen : OptionalSchema, tried : Nat]
NoSwitch == [target |-> None, previous |-> None, chosen |-> None, tried |-> 0]
IsSwitch(t) == switch[t] # NoSwitch

Generation(c) == <<resetEpoch, generations[c]>>

(* still_current: Err (reloaded), Ok(false) (moved) or Ok(true) (current). *)
Reloaded(t) == resetEpoch # snap[t].generation[1]
StillThisEpoch(t) == ~Reloaded(t)  \* fault: looks at reset_epoch only
StillCurrent(t) == Generation(conn[t]) = snap[t].generation
Moved(t) == ~Reloaded(t) /\ ~StillCurrent(t)

(* Places inside get_pool, and those where the connect lock is held.       *)
Connecting == {"snapshot", "password", "tunnel", "connect"}
InGetPool == {"enter", "lock"} \cup Connecting
Places == {"idle", "found", "set", "confirm", "rollback"} \cup InGetPool

TypeOK ==
  /\ config \in Nat
  /\ resetPending \in BOOLEAN
  /\ pools \in [Connections -> Pool \cup {None}]
  /\ tunnels \in [Connections -> TunnelIds \cup {None}]
  /\ overrides \in [Connections -> OptionalSchema]
  /\ resetEpoch \in Nat
  /\ generations \in [Connections -> Nat]
  /\ lock \in [Connections -> Tasks \cup {None}]
  /\ pc \in [Tasks -> Places]
  /\ conn \in [Tasks -> Connections \cup {None}]
  /\ version \in [Tasks -> Nat]
  /\ entryEpoch \in [Tasks -> Nat]
  /\ fetched \in [Tasks -> BOOLEAN]
  /\ snap \in [Tasks -> Snapshot]
  /\ switch \in [Tasks -> Switch \cup {NoSwitch}]
  /\ events \in Nat

Init ==
  /\ config = 0
  /\ resetPending = FALSE
  /\ pools = [c \in Connections |-> None]
  /\ tunnels = [c \in Connections |-> None]
  /\ overrides = [c \in Connections |-> None]
  /\ resetEpoch = 0
  /\ generations = [c \in Connections |-> 0]
  /\ lock = [c \in Connections |-> None]
  /\ pc = [t \in Tasks |-> "idle"]
  /\ conn = [t \in Tasks |-> None]
  /\ version = [t \in Tasks |-> 0]
  /\ entryEpoch = [t \in Tasks |-> 0]
  /\ fetched = [t \in Tasks |-> FALSE]
  /\ snap = [t \in Tasks |-> NoSnapshot]
  /\ switch = [t \in Tasks |-> NoSwitch]
  /\ events = 0

Go(t, place) == pc' = [pc EXCEPT ![t] = place]
Event == events < MaxEvents /\ events' = events + 1

----------------------------------------------------------------------------
(* get_pool *)

(* The value of get_pool reaches the caller: `_connecting` and the locals  *)
(* are dropped.  A switch goes on to its confirmation query, or rolls back.*)
ReturnPool(t, ok) ==
  /\ lock' = [c \in Connections |-> IF lock[c] = t THEN None ELSE lock[c]]
  /\ entryEpoch' = [entryEpoch EXCEPT ![t] = 0]
  /\ fetched' = [fetched EXCEPT ![t] = FALSE]
  /\ snap' = [snap EXCEPT ![t] = NoSnapshot]
  /\ IF IsSwitch(t)
       THEN /\ Go(t, IF ok THEN "confirm" ELSE "rollback")
            /\ UNCHANGED <<conn, version, switch>>
       ELSE /\ Go(t, "idle")
            /\ conn' = [conn EXCEPT ![t] = None]
            /\ version' = [version EXCEPT ![t] = 0]
            /\ UNCHANGED switch
  /\ UNCHANGED <<appState, events>>

(* The fast path, or note the reset epoch before waiting for the lock.     *)
Enter(t) ==
  /\ pc[t] \in {"found", "enter"}
  /\ IF pools[conn[t]] # None
       THEN ReturnPool(t, TRUE)
       ELSE /\ entryEpoch' = [entryEpoch EXCEPT ![t] = resetEpoch]
            /\ Go(t, "lock")
            /\ UNCHANGED <<appState, lock, conn, version, fetched, snap, switch, events>>
  /\ UNCHANGED inner

NoLock(c) == TRUE                                      \* fault: no connect lock
OneLockForAll(c) == \A d \in Connections : lock[d] = None  \* fault: not per connection
LockFree(c) == lock[c] = None

Lock(t) ==
  /\ pc[t] = "lock"
  /\ LockFree(conn[t])
  /\ lock' = [lock EXCEPT ![conn[t]] = t]
  /\ Go(t, "snapshot")
  /\ UNCHANGED <<appState, inner, conn, version, entryEpoch, fetched, snap, switch, events>>

(* Where the loop goes after the snapshot and after the password.          *)
AfterPassword(t, tunnel) ==
  IF conn[t] \in Tunneled /\ tunnel = None THEN "tunnel" ELSE "connect"
AfterSnapshot(t, tunnel) ==
  IF conn[t] \in PasswordCommand /\ ~fetched[t] THEN "password" ELSE AfterPassword(t, tunnel)

NeverOutdated(t) == FALSE  \* fault: entry_epoch is not compared
EntryOutdated(t) == resetEpoch # entryEpoch[t]

(* The top of get_pool's loop: another task's pool, a reload since entry,  *)
(* or a snapshot of what the connect needs.                                *)
TakeSnapshot(t) ==
  LET c == conn[t] IN
  /\ pc[t] = "snapshot"
  /\ CASE pools[c] # None -> ReturnPool(t, TRUE)
       [] pools[c] = None /\ EntryOutdated(t) -> ReturnPool(t, FALSE)
       [] OTHER ->
            /\ snap' = [snap EXCEPT ![t] = [schema |-> overrides[c], tunnel |-> tunnels[c],
                                            generation |-> Generation(c)]]
            /\ Go(t, AfterSnapshot(t, tunnels[c]))
            /\ UNCHANGED <<appState, lock, conn, version, entryEpoch, fetched, switch, events>>
  /\ UNCHANGED inner

(* password_command, at most once per get_pool.                            *)
FetchPassword(t) ==
  /\ pc[t] = "password"
  /\ \/ /\ fetched' = [fetched EXCEPT ![t] = TRUE]
        /\ Go(t, AfterPassword(t, snap[t].tunnel))
        /\ UNCHANGED <<appState, lock, conn, version, entryEpoch, snap, switch, events>>
     \/ ReturnPool(t, FALSE)
  /\ UNCHANGED inner

RetryFromOldSnapshot(t) ==  \* fault: connects again without reading again
  /\ Go(t, "connect")
  /\ UNCHANGED <<appState, lock, conn, version, entryEpoch, fetched, snap, switch, events>>
Retry(t) ==
  /\ Go(t, "snapshot")
  /\ snap' = [snap EXCEPT ![t] = NoSnapshot]
  /\ UNCHANGED <<appState, lock, conn, version, entryEpoch, fetched, switch, events>>

(* SshTunnel::start came back with a tunnel: cache it if the connection    *)
(* did not move meanwhile, else drop it and go round again.                *)
CacheTunnel(t) ==
  /\ pc[t] = "tunnel"
  /\ \/ Reloaded(t) /\ ReturnPool(t, FALSE) /\ UNCHANGED inner
     \/ Moved(t) /\ Retry(t) /\ UNCHANGED inner
     \/ /\ StillCurrent(t)
        /\ tunnels' = [tunnels EXCEPT ![conn[t]] = snap[t].generation]
        /\ snap' = [snap EXCEPT ![t].tunnel = snap[t].generation]
        /\ Go(t, "connect")
        /\ UNCHANGED <<appState, pools, overrides, resetEpoch, generations, lock, conn,
                       version, entryEpoch, fetched, switch, events>>

TunnelFailed(t) ==
  /\ pc[t] = "tunnel"
  /\ ReturnPool(t, FALSE)
  /\ UNCHANGED inner

(* connect() came back with a pool.                                        *)
CachePool(t) ==
  /\ pc[t] = "connect"
  /\ \/ Reloaded(t) /\ ReturnPool(t, FALSE) /\ UNCHANGED inner
     \/ Moved(t) /\ Retry(t) /\ UNCHANGED inner
     \/ /\ StillCurrent(t)
        /\ pools' = [pools EXCEPT ![conn[t]] =
             [schema |-> snap[t].schema, tunnel |-> snap[t].tunnel,
              version |-> version[t], epoch |-> entryEpoch[t]]]
        /\ ReturnPool(t, TRUE)
        /\ UNCHANGED <<tunnels, overrides, resetEpoch, generations>>

(* connect() failed: reported only if nothing changed meanwhile.           *)
ConnectFailed(t) ==
  /\ pc[t] = "connect"
  /\ \/ Moved(t) /\ Retry(t)
     \/ ~Moved(t) /\ ReturnPool(t, FALSE)
  /\ UNCHANGED inner

(* Cancel drops the future of a displayed run before or anywhere in        *)
(* get_pool (abortable); the rollback of a switch still runs.              *)
Abort(t) ==
  /\ pc[t] \in InGetPool \cup {"found"}
  /\ ReturnPool(t, FALSE)
  /\ UNCHANGED inner

----------------------------------------------------------------------------
(* The operations that change what get_pool read *)

BumpDown(c) == generations' = [generations EXCEPT ![c] = @ - 1]  \* fault: wraps below 0
Bump(c) == generations' = [generations EXCEPT ![c] = @ + 1]

(* set_schema_override and the write-back of the rollback: the pool goes,  *)
(* the tunnel stays.                                                       *)
ReplaceOverride(c, schema) ==
  /\ overrides' = [overrides EXCEPT ![c] = schema]
  /\ pools' = [pools EXCEPT ![c] = None]
  /\ Bump(c)
  /\ UNCHANGED <<tunnels, resetEpoch>>

DisconnectUnnoticed(c) ==  \* fault: does not move the generation
  /\ Event
  /\ pools' = [pools EXCEPT ![c] = None]
  /\ tunnels' = [tunnels EXCEPT ![c] = None]
  /\ UNCHANGED <<appState, overrides, resetEpoch, generations, lock, locals>>
DisconnectTunnelOnly(c) ==  \* fault: the pool outlives its tunnel
  /\ Event
  /\ tunnels' = [tunnels EXCEPT ![c] = None]
  /\ Bump(c)
  /\ UNCHANGED <<appState, pools, overrides, resetEpoch, lock, locals>>
Disconnect(c) ==
  /\ Event
  /\ pools' = [pools EXCEPT ![c] = None]
  /\ tunnels' = [tunnels EXCEPT ![c] = None]
  /\ Bump(c)
  /\ UNCHANGED <<appState, overrides, resetEpoch, lock, locals>>

(* The user picks a schema in the UI (set_active_schema).                  *)
SelectSchema(c, schema) ==
  /\ Event
  /\ ReplaceOverride(c, schema)
  /\ switch' = [t \in Tasks |-> IF conn[t] = c /\ IsSwitch(t)
                                  THEN [switch[t] EXCEPT !.chosen = schema] ELSE switch[t]]
  /\ UNCHANGED <<appState, lock, pc, conn, version, entryEpoch, fetched, snap>>

(* reset_connections: first the config caches, ...                         *)
ReloadConfig ==
  /\ ~resetPending
  /\ Event
  /\ config' = config + 1
  /\ resetPending' = TRUE
  /\ UNCHANGED <<inner, lock, locals>>

(* ... then db.reset().                                                    *)
Reset ==
  /\ resetPending
  /\ resetPending' = FALSE
  /\ pools' = [c \in Connections |-> None]
  /\ tunnels' = [c \in Connections |-> None]
  /\ overrides' = [c \in Connections |-> None]
  /\ resetEpoch' = resetEpoch + 1
  /\ UNCHANGED <<config, generations, lock, locals, events>>

----------------------------------------------------------------------------
(* The callers *)

FindServer(t, c) ==
  /\ pc[t] = "idle"
  /\ Go(t, "found")
  /\ conn' = [conn EXCEPT ![t] = c]
  /\ version' = [version EXCEPT ![t] = config]
  /\ UNCHANGED <<appState, inner, lock, entryEpoch, fetched, snap, switch, events>>

(* switch_active_schema reads the previous override and sets the new one   *)
(* in two critical sections.  The frontend keeps a second run off the      *)
(* connection, so no two `\c` of one connection are in flight.             *)
BeginSwitch(t, schema) ==
  /\ pc[t] = "found"
  /\ \A u \in Tasks : conn[u] = conn[t] => ~IsSwitch(u)
  /\ Event
  /\ switch' = [switch EXCEPT ![t] =
       [target |-> schema, previous |-> overrides[conn[t]], chosen |-> None, tried |-> resetEpoch]]
  /\ Go(t, "set")
  /\ UNCHANGED <<appState, inner, lock, conn, version, entryEpoch, fetched, snap>>

SetOverride(t) ==
  /\ pc[t] = "set"
  /\ ReplaceOverride(conn[t], switch[t].target)
  /\ switch' = [switch EXCEPT ![t].tried = resetEpoch]
  /\ Go(t, "enter")
  /\ UNCHANGED <<appState, lock, conn, version, entryEpoch, fetched, snap, events>>

EndSwitch(t) ==
  /\ Go(t, "idle")
  /\ conn' = [conn EXCEPT ![t] = None]
  /\ version' = [version EXCEPT ![t] = 0]
  /\ switch' = [switch EXCEPT ![t] = NoSwitch]
  /\ UNCHANGED <<appState, lock, entryEpoch, fetched, snap, events>>

ConfirmSwitch(t) ==
  /\ pc[t] = "confirm"
  /\ EndSwitch(t)
  /\ UNCHANGED inner

(* The confirmation query failed, or the cancel dropped it.                *)
ConfirmFailed(t) ==
  /\ pc[t] = "confirm"
  /\ Go(t, "rollback")
  /\ UNCHANGED <<appState, inner, lock, conn, version, entryEpoch, fetched, snap, switch, events>>

RollbackToConfig(t) ==  \* fault: forgets the database before
  /\ pc[t] = "rollback"
  /\ EndSwitch(t)
  /\ IF overrides[conn[t]] = switch[t].target
       THEN ReplaceOverride(conn[t], None)
       ELSE UNCHANGED inner
(* rollback_schema_override: a compare-and-swap on what the switch set.    *)
Rollback(t) ==
  /\ pc[t] = "rollback"
  /\ EndSwitch(t)
  /\ IF overrides[conn[t]] = switch[t].target
       THEN ReplaceOverride(conn[t], switch[t].previous)
       ELSE UNCHANGED inner

GetPoolStep(t) ==
  \/ Enter(t) \/ Lock(t) \/ TakeSnapshot(t) \/ FetchPassword(t)
  \/ CacheTunnel(t) \/ TunnelFailed(t) \/ CachePool(t) \/ ConnectFailed(t)
SwitchStep(t) == SetOverride(t) \/ ConfirmSwitch(t) \/ ConfirmFailed(t) \/ Rollback(t)

Next ==
  \/ \E t \in Tasks : GetPoolStep(t) \/ SwitchStep(t) \/ Abort(t)
  \/ \E t \in Tasks, c \in Connections : FindServer(t, c)
  \/ \E t \in Tasks, schema \in Schemas : BeginSwitch(t, schema)
  \/ \E c \in Connections : Disconnect(c)
  \/ \E c \in Connections, schema \in Schemas : SelectSchema(c, schema)
  \/ ReloadConfig \/ Reset

Spec == Init /\ [][Next]_vars

----------------------------------------------------------------------------
(* Safety *)

(* A cached pool is connected to the connection's active database: no      *)
(* connect that a schema switch, selection or rollback overtook leaves its *)
(* pool on the old database (the check after connect() in get_pool).       *)
PoolOnActiveSchema ==
  \A c \in Connections : pools[c] # None => pools[c].schema = overrides[c]

(* A cached pool goes through the tunnel that is cached for the connection *)
(* (both None without ssh_tunnel): "the tunnel and the pool must always be *)
(* dropped together", also when the drop happens during the connect.       *)
PoolThroughCachedTunnel ==
  \A c \in Connections : pools[c] # None => pools[c].tunnel = tunnels[c]

(* A get_pool that was waiting or connecting during a config reload caches *)
(* no pool: every cached pool was asked for since the last reset.          *)
PoolOfThisEpoch ==
  \A c \in Connections : pools[c] # None => pools[c].epoch = resetEpoch

(* "Only one task establishes a given connection at a time": between the   *)
(* snapshot and the cached pool no other task is connecting to the same.   *)
OneEstablisher ==
  \A t, u \in Tasks :
    /\ pc[t] \in Connecting
    /\ pc[u] \in Connecting
    /\ conn[t] = conn[u]
    => t = u

(* A cached pool or tunnel is dropped before another takes its place: no   *)
(* step of any task overwrites one that others may still be handed.        *)
NothingOverwritten ==
  [][\A c \in Connections :
       /\ pools[c] # None /\ pools'[c] # None => pools'[c] = pools[c]
       /\ tunnels[c] # None /\ tunnels'[c] # None => tunnels'[c] = tunnels[c]]_vars

(* A `\c` that fails or is cancelled leaves the connection on the database *)
(* it read before, and on the config's when, and only when, a reload came  *)
(* after it had set its own; unless the user chose one in the UI meanwhile *)
(* (rollback_schema_override).                                             *)
FailedSwitchRestores ==
  [][\A t \in Tasks :
       pc[t] = "rollback" /\ pc'[t] = "idle" /\ switch[t].chosen = None
         => overrides'[conn[t]] = IF resetEpoch = switch[t].tried THEN switch[t].previous ELSE None]_vars

(* "If, during the switch, the user changed to another database via schema *)
(* selection, do not roll back (respect that selection)".                  *)
SelectionSurvivesFailedSwitch ==
  [][\A t \in Tasks :
       pc[t] = "rollback" /\ pc'[t] = "idle" /\ switch[t].chosen \notin {None, switch[t].target}
         => overrides'[conn[t]] = switch[t].chosen]_vars

(* "A reload while waiting must not let this stale config be cached": once *)
(* a reload is over, cached pools come from the config it put in place.    *)
PoolOfCurrentConfig ==
  ~resetPending => \A c \in Connections : pools[c] # None => pools[c].version = config

----------------------------------------------------------------------------
(* The inductive invariant behind the above *)

(* A task that left "idle" has a connection, and a switch has its locals.  *)
BusyTasksNamed ==
  \A t \in Tasks :
    /\ pc[t] # "idle" => conn[t] \in Connections
    /\ pc[t] \in {"set", "confirm", "rollback"} => switch[t] \in Switch

(* Who connects holds the lock of its connection.                          *)
ConnectingHoldsLock ==
  \A t \in Tasks : pc[t] \in Connecting => lock[conn[t]] = t

(* What a task read before connecting is from its own epoch, and as long   *)
(* as the generation has not moved it is still true, with no pool cached.  *)
HoldsSnapshot == {"password", "tunnel", "connect"}
SnapshotTrue(t) ==
  /\ snap[t].generation[1] = entryEpoch[t]
  /\ snap[t].generation[1] <= resetEpoch
  /\ snap[t].generation[2] <= generations[conn[t]]
  /\ StillCurrent(t) => /\ overrides[conn[t]] = snap[t].schema
                        /\ tunnels[conn[t]] = snap[t].tunnel
                        /\ pools[conn[t]] = None
  /\ pc[t] = "tunnel" => snap[t].tunnel = None /\ conn[t] \in Tunneled
  /\ pc[t] = "connect" /\ conn[t] \in Tunneled => snap[t].tunnel # None
SnapshotsTrue == \A t \in Tasks : pc[t] \in HoldsSnapshot => SnapshotTrue(t)

IInv ==
  /\ TypeOK
  /\ BusyTasksNamed
  /\ ConnectingHoldsLock
  /\ SnapshotsTrue
  /\ PoolOnActiveSchema
  /\ PoolThroughCachedTunnel
  /\ PoolOfThisEpoch

----------------------------------------------------------------------------
(* Refinement *)

(* The sessions and tunnels the rest of the program sees are the cached    *)
(* ones; what the tasks hold meanwhile is the manager's own business.      *)
Promise == INSTANCE SessionPromise WITH
  active <- overrides,
  session <- [c \in Connections |-> IF pools[c] = None THEN {} ELSE {pools[c].schema}],
  tunnel <- [c \in Connections |-> tunnels[c] # None]

(* The manager keeps that promise: a session only ever opens on the active *)
(* database and over an open tunnel, and switching drops it but keeps the  *)
(* tunnel, whatever overtakes the connects in flight.                      *)
KeepsPromise == Promise!Spec

----------------------------------------------------------------------------
(* Liveness.  A task's own step is taken when it is enabled: connects,     *)
(* tunnel starts and password_command have timeouts.  tokio's Mutex serves *)
(* its waiters in order, hence strong fairness of Lock.  Nothing is        *)
(* assumed of a task on a connection that hangs.                           *)

Answered(t) == conn[t] \notin Hanging
Fairness(t) ==
  /\ WF_vars(Answered(t) /\ (GetPoolStep(t) \/ SwitchStep(t)))
  /\ SF_vars(Answered(t) /\ Lock(t))
FairSpec == Spec /\ \A t \in Tasks : Fairness(t)

(* Whoever asks for a pool gets it or an error: no waiter stays behind the *)
(* connect lock, no loop goes round forever once disconnects, switches and *)
(* reloads stop coming (MaxEvents), and a connection whose server does not *)
(* answer keeps nobody else waiting ("Holding inner across the connect     *)
(* would make a slow connection block queries on every other connection"). *)
GetPoolReturns ==
  \A t \in Tasks : (pc[t] \in InGetPool /\ Answered(t)) ~> (pc[t] \notin InGetPool)
=============================================================================
