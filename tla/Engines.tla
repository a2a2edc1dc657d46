------------------------------ MODULE Engines ------------------------------
(* The engines whose sessions the application keeps itself: SQL Server and *)
(* DuckDB, with one connection for what the user runs, and Redis,          *)
(* Elasticsearch and DynamoDB, which are sent one command after another.   *)
(* They share no state.                                                    *)
EXTENDS MssqlSession, DuckdbSession, RemoteSession

(* The engines with one connection keep it clean: no statement meets what  *)
(* another left in the session, no cancel ends another's statement, and    *)
(* the agent changes nothing; of several commands, all are allowed before  *)
(* one is sent.                                                            *)
EnginesPromise == MssqlPromise /\ DuckdbPromise /\ RemotePromise
=============================================================================
