------------------------------- MODULE MCRuns -------------------------------
(* Instances of what runs and cancels statements, and of the rules they    *)
(* pass, for TLC: the runs of a pooled engine, the two engines with one    *)
(* connection, those on a server of their own, and the rules of MCRules.   *)
(* They share no state: in a behaviour the one in focus takes the steps.   *)
EXTENDS QueryCancel, Engines, MCRules

Interchangeable ==
  Permutations(Displayed) \cup Permutations(Fetches) \cup Permutations(Cancels)
    \cup Permutations(Slots)

CONSTANTS r1, l1, s1, s2, s3

(* The three statements of the user on SQL Server: a transaction is        *)
(* opened, or a first write made, then one more or a plan, then a plan.    *)
AskedFor ==
  /\ asks[s1] # "explain" /\ asks[s2] # "begin" /\ asks[s3] = "explain"

RunsInit ==
  /\ focus \in {"pooled", "mssql", "duckdb", "remote"} \cup Rules
  /\ Init /\ (IF focus # "pooled" THEN ~sqlite ELSE TRUE) /\ RulesInit
  /\ MsInit /\ slot = l1
  /\ IF focus = "mssql" THEN AskedFor ELSE \A r \in ShownRuns : asks[r] = "write"
  /\ RsInit
  /\ DkInit /\ opens \subseteq {IF focus = "duckdb" THEN r1 ELSE Free}

OthersStay ==
  /\ UNCHANGED focus
  /\ IF focus # "pooled" THEN UNCHANGED vars ELSE TRUE
  /\ IF focus # "mssql" THEN UNCHANGED msVars ELSE TRUE
  /\ IF focus # "duckdb" THEN UNCHANGED dkVars ELSE TRUE
  /\ IF focus # "remote" THEN UNCHANGED rsVars ELSE TRUE
  /\ IF focus \notin Rules THEN UNCHANGED rulesVars ELSE TRUE

(* The instance has no Copy / Export fetch beside runs that wait after     *)
(* their answer, on SQLite and for the description of an empty result.     *)
WaitsAfterAnswer == sqlite \/ \E r \in Runs : outcome[r] = "empty"
NoFetchBeside == \A f \in Fetches : stage[f] = "new"

RunsNext ==
  \/ focus = "pooled" /\ Next /\ OthersStay /\ (WaitsAfterAnswer' => NoFetchBeside')
  \/ focus = "mssql" /\ MsNext /\ OthersStay
  \/ focus = "duckdb" /\ DkNext /\ OthersStay
  \/ focus = "remote" /\ RsNext /\ OthersStay
  \/ focus \in Rules /\ RulesNext /\ OthersStay

RunsSpec == RunsInit /\ [][RunsNext]_<<focus, vars, msVars, dkVars, rsVars, rulesVars>>

(* The type invariants.                                                    *)
RunsTypeOK == TypeOK /\ MsTypeOK /\ DkTypeOK /\ RsTypeOK /\ RulesTypeOK
=============================================================================
