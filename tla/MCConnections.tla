---------------------------- MODULE MCConnections ----------------------------
(* Instances of the two sides of connections for TLC: the manager of the   *)
(* backend and the connection context of the frontend.  They share no      *)
(* state: in a behaviour the one in focus takes the steps.  Tasks, schemas *)
(* and handlers are interchangeable.                                       *)
EXTENDS DbManager, Workbench, TLC

Interchangeable == Permutations(Tasks) \cup Permutations(Schemas) \cup Permutations(Handlers)

VARIABLE focus

(* Once the user's actions are used up nothing may be left waiting.        *)
WorkbenchRests == (\A h \in Handlers : task[h] = NoTask) /\ UNCHANGED wbVars

ConnectionsInit == focus \in {"manager", "workbench"} /\ Init /\ WbInit
ConnectionsNext ==
  \/ focus = "manager" /\ Next /\ UNCHANGED <<focus, wbVars>>
  \/ focus = "workbench" /\ (WbNext \/ WorkbenchRests) /\ UNCHANGED <<focus, vars>>
ConnectionsSpec == ConnectionsInit /\ [][ConnectionsNext]_<<focus, vars, wbVars>>
=============================================================================
