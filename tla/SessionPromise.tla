--------------------------- MODULE SessionPromise ---------------------------
(***************************************************************************)
(* What the connection manager promises to the rest of the program, with   *)
(* no locks, generations, retries or tasks: a connection has an active     *)
(* database, at most one session (pool), which is on that database, and at *)
(* most one tunnel, which every session of a tunneled connection needs.    *)
(***************************************************************************)
CONSTANTS Connections, Schemas, Tunneled, None

VARIABLES
  active,   \* the chosen database of a connection, None for the config's
  session,  \* {} or the database the open session is connected to
  tunnel    \* whether the connection's tunnel is up

sessionVars == <<active, session, tunnel>>

Init ==
  /\ active = [c \in Connections |-> None]
  /\ session = [c \in Connections |-> {}]
  /\ tunnel = [c \in Connections |-> FALSE]

OpenTunnel(c) ==
  /\ c \in Tunneled
  /\ ~tunnel[c]
  /\ session[c] = {}
  /\ tunnel' = [tunnel EXCEPT ![c] = TRUE]
  /\ UNCHANGED <<active, session>>

OpenSession(c) ==
  /\ session[c] = {}
  /\ c \in Tunneled => tunnel[c]
  /\ session' = [session EXCEPT ![c] = {active[c]}]
  /\ UNCHANGED <<active, tunnel>>

(* Both go together; the chosen database stays.                            *)
Close(c) ==
  /\ session' = [session EXCEPT ![c] = {}]
  /\ tunnel' = [tunnel EXCEPT ![c] = FALSE]
  /\ UNCHANGED active

(* Another database needs another session, through the same tunnel.        *)
Choose(c, schema) ==
  /\ active' = [active EXCEPT ![c] = schema]
  /\ session' = [session EXCEPT ![c] = {}]
  /\ UNCHANGED tunnel

Restart ==
  /\ active' = [c \in Connections |-> None]
  /\ session' = [c \in Connections |-> {}]
  /\ tunnel' = [c \in Connections |-> FALSE]

Next ==
  \/ \E c \in Connections : OpenTunnel(c) \/ OpenSession(c) \/ Close(c)
  \/ \E c \in Connections, schema \in Schemas \cup {None} : Choose(c, schema)
  \/ Restart

Spec == Init /\ [][Next]_sessionVars
=============================================================================
