----------------------------- MODULE SqlGuards -----------------------------
(***************************************************************************)
(* Which statements run, and under which row limit (db.rs: run_query_on    *)
(* and the classifiers it is built from; lib.rs: run_query_in_mode).       *)
(*                                                                         *)
(* A statement is what the classifiers can see of it, the words outside    *)
(* literals and comments (SqlScan), built from a small grammar: an         *)
(* optional EXPLAIN [ANALYZE], a verb, for WITH the verb of its body, and  *)
(* a few clauses.  Next to the classifiers stands what a server does with  *)
(* such a statement: it knows whose WHERE a WHERE is, and the classifiers  *)
(* only that the word is there.                                            *)
(***************************************************************************)
EXTENDS Naturals, FiniteSets

CONSTANTS MaxRows, DefaultLimit  \* row limits of a request and of the config

ASSUME LimitsAssumption == MaxRows \in Nat /\ DefaultLimit \in Nat \ {0}

VARIABLES
  statement,  \* the statement the user or the agent wants to run
  request,    \* how: mode, Writable switch and the connection's settings
  verdict     \* what becomes of it

sgVars == <<statement, request, verdict>>

Dml == {"insert", "update", "delete", "merge"}
Verbs == Dml \cup {"select", "with", "show", "values", "table", "describe", "call", "pragma",
                   "truncate", "drop", "create", "meta", ""}
(* "where" is the WHERE of the verb itself, for WITH that of its body;     *)
(* "elsewhere" one in a subquery or in a CTE.  "nextval" is a function     *)
(* with a side effect, "=" and "(value)" are the two ways to set a PRAGMA. *)
Clauses == {"into", "where", "elsewhere", "limit", "nextval", "=", "(value)"}

SqlStatements ==
  [explain : {"no", "plan", "analyze"}, verb : Verbs, body : Dml \cup {"select"},
   clauses : SUBSET Clauses, second : BOOLEAN]
RunRequests ==
  [mode : {"display", "fullFetch", "logRefetch", "chat"}, configReadonly : BOOLEAN,
   writable : BOOLEAN, allowDangerous : BOOLEAN]

(* A meta command and an empty statement have no clauses; the body of a    *)
(* statement that is not WITH is its own; a clause stands where it can.    *)
WellFormed(q) ==
  /\ q.verb # "with" => q.body = "select"
  /\ q.verb \in {"meta", ""} => q.explain = "no" /\ q.clauses = {} /\ ~q.second
  /\ q.clauses \cap {"=", "(value)"} # {} => q.verb = "pragma"
  /\ "nextval" \in q.clauses => q.verb \in {"select", "with", "values"}
  /\ "elsewhere" \in q.clauses => q.verb \in Dml \cup {"select", "with"}

----------------------------------------------------------------------------
(* The classifiers *)

LeadingKeyword(q) ==
  IF q.explain # "no" THEN "explain" ELSE IF q.verb = "meta" THEN "select" ELSE q.verb
Words(q) ==
  {LeadingKeyword(q), q.verb, q.body} \cup (q.clauses \cap {"into", "where", "limit", "nextval"})
    \cup (IF "elsewhere" \in q.clauses THEN {"where"} ELSE {})
    \cup (IF q.explain = "analyze" THEN {"analyze"} ELSE {})

IsFetchStatement(q) ==
  LeadingKeyword(q) \in {"select", "with", "show", "describe", "explain", "pragma", "values",
                         "table", "call"}
ContainsMultiple(q) == q.second

ReadonlyByKeyword(q) == IsFetchStatement(q)  \* fault: WITH ... DELETE counts as a read
IsReadonlyAllowed(q) ==
  /\ IsFetchStatement(q)
  /\ LeadingKeyword(q) = "with" => Words(q) \cap Dml = {}
  /\ LeadingKeyword(q) = "select" => "into" \notin Words(q)
  /\ LeadingKeyword(q) = "explain" /\ "analyze" \in Words(q) => Words(q) \cap (Dml \cup {"into"}) = {}
  /\ LeadingKeyword(q) = "pragma" => "=" \notin q.clauses

WhereMissing(q) == "where" \notin Words(q)
DangerousByVerb(q) ==  \* fault: wrapped statements are not looked into
  \/ q.verb \in {"update", "delete"} /\ q.explain = "no" /\ WhereMissing(q)
  \/ q.verb \in {"truncate", "drop"} /\ q.explain = "no"
(* dangerous_reason: also what WITH and EXPLAIN ANALYZE execute.           *)
IsDangerous(q) ==
  LET executes == LeadingKeyword(q) = "explain" /\ "analyze" \in Words(q)
      wraps == LeadingKeyword(q) = "with" \/ executes
      Runs(word, wrapped) == LeadingKeyword(q) = word \/ (wrapped /\ word \in Words(q))
  IN \/ (Runs("delete", wraps) \/ Runs("update", wraps)) /\ WhereMissing(q)
     \/ Runs("truncate", executes) \/ Runs("drop", executes)

AgentByReadonly(q) == ~IsReadonlyAllowed(q)  \* fault: the user's read-only guard is taken for enough
(* agent_rejection_reason, also is_safe_to_rerun.                          *)
AgentRejects(q) ==
  \/ LeadingKeyword(q) \notin {"select", "with", "show", "describe", "explain", "values", "table"}
  \/ ContainsMultiple(q)
  \/ LeadingKeyword(q) = "explain" /\ "analyze" \in Words(q)
  \/ ~IsReadonlyAllowed(q)

AutoLimitByKeyword(q) == LeadingKeyword(q) \in {"select", "with"}  \* fault: no veto words
ShouldAutoLimit(q) ==
  /\ q.verb # "meta"  \* not for SQL translated from a meta command
  /\ LeadingKeyword(q) \in {"select", "with"}
  /\ Words(q) \cap {"limit", "into", "insert", "update", "delete"} = {}

ExplainAnything(q) == LeadingKeyword(q) \in {"select", "with"} /\ ~ContainsMultiple(q)  \* fault: no read-only check
(* build_explain_sql, whose prefix executes the statement on Postgres.     *)
ExplainAccepts(q) ==
  /\ q.verb # "meta" /\ LeadingKeyword(q) \in {"select", "with"}
  /\ ~ContainsMultiple(q)
  /\ IsReadonlyAllowed(q)
Explained(q) == [q EXCEPT !.explain = "analyze"]

----------------------------------------------------------------------------
(* run_query_in_mode and run_query_on *)

SwitchFirst(r) ==  \* fault: the Writable switch overrides the config
  IF r.writable THEN "Off" ELSE IF r.configReadonly THEN "Config" ELSE "Switch"
GuardOf(r) ==
  IF r.mode \in {"logRefetch", "chat"} THEN "Agent"
  ELSE IF r.configReadonly THEN "Config"
  ELSE IF r.writable THEN "Off" ELSE "Switch"
AllowsDangerous(r) == r.allowDangerous /\ r.mode # "chat"

Refused(q, r) ==
  \/ LeadingKeyword(q) = ""
  \/ GuardOf(r) = "Agent" /\ AgentRejects(q)
  \/ (GuardOf(r) # "Off" \/ ~AllowsDangerous(r)) /\ ContainsMultiple(q)
  \/ GuardOf(r) # "Off" /\ ~IsReadonlyAllowed(q)
  \/ ~AllowsDangerous(r) /\ IsDangerous(q)

Untrimmed(q, r) == MaxRows  \* fault: what has a LIMIT of its own is not cut
(* The rows the client keeps: trimmed to default_limit when the SQL does   *)
(* not get the limit itself.                                               *)
ClientRows(q, r) ==
  IF r.mode = "display" /\ ~ShouldAutoLimit(q) /\ DefaultLimit < MaxRows THEN DefaultLimit ELSE MaxRows
AutoLimited(q, r) == r.mode = "display" /\ ShouldAutoLimit(q)

JudgeStatement ==
  /\ verdict = "pending"
  /\ \E q \in {s \in SqlStatements : WellFormed(s)}, r \in RunRequests :
       /\ statement' = q /\ request' = r
       /\ verdict' = IF Refused(q, r) THEN "refused" ELSE "run"

EmptyStatement == [explain |-> "no", verb |-> "", body |-> "select", clauses |-> {}, second |-> FALSE]
SgInit ==
  /\ statement = EmptyStatement
  /\ request = [mode |-> "display", configReadonly |-> FALSE, writable |-> FALSE, allowDangerous |-> FALSE]
  /\ verdict = "pending"
SgNext == JudgeStatement
SgSpec == SgInit /\ [][SgNext]_sgVars

SgTypeOK ==
  /\ statement \in SqlStatements
  /\ request \in RunRequests
  /\ verdict \in {"pending", "refused", "run"}

----------------------------------------------------------------------------
(* What a server does with a statement *)

Executes(q) == q.explain # "plan"
Modifies(q) ==
  /\ Executes(q)
  /\ \/ q.second
     \/ q.verb \in Dml \cup {"truncate", "drop", "create", "call"}
     \/ q.verb = "with" /\ q.body \in Dml
     \/ q.verb \in {"select", "with"} /\ "into" \in q.clauses
     \/ q.verb = "pragma" /\ q.clauses \cap {"=", "(value)"} # {}
     \/ "nextval" \in q.clauses
(* Every row of a table, or the table: the UPDATE or DELETE has no WHERE   *)
(* of its own.                                                             *)
Destroys(q) ==
  /\ Executes(q)
  /\ \/ {q.verb, q.body} \cap {"update", "delete"} # {} /\ "where" \notin q.clauses
     \/ q.verb \in {"truncate", "drop"}
(* The rows it has for the client: of several statements only the last one *)
(* is limited by what is appended, and the first may send all it has.      *)
RowsSent(q, r) == IF AutoLimited(q, r) /\ ~q.second THEN DefaultLimit ELSE MaxRows + 1

(* What the guard says it does not see: procedures, functions with side    *)
(* effects, PRAGMAs set in parentheses, EXPLAIN ANALYZE of DDL; nor does   *)
(* it look for INTO after WITH.                                            *)
BeyondTheGuard(q) ==
  \/ q.verb = "call"
  \/ "nextval" \in q.clauses
  \/ q.verb = "pragma" /\ "(value)" \in q.clauses
  \/ q.explain = "analyze" /\ q.verb \in {"truncate", "drop", "create", "pragma", "call"}
  \/ q.verb = "with" /\ "into" \in q.clauses

----------------------------------------------------------------------------
(* Properties *)

Ran == verdict = "run"

(* A connection that is read-only, by its config or because the Writable   *)
(* switch is off, is not modified by what it lets run; the config's lock   *)
(* cannot be lifted by the switch.                                         *)
ReadOnlyRunsModifyNothing ==
  Ran /\ (request.configReadonly \/ ~request.writable)
    => ~Modifies(statement) \/ BeyondTheGuard(statement)

(* The chat agent and the Run and Log re-fetch only read, whatever the     *)
(* switch says; EXPLAIN ANALYZE, CALL and PRAGMA included.  A function     *)
(* with a side effect and INTO after WITH pass and are left to the         *)
(* read-only transaction or session around the statement (PooledSession).  *)
AgentRunsModifyNothing ==
  Ran /\ request.mode \in {"chat", "logRefetch"} /\ Modifies(statement)
    => \/ "nextval" \in statement.clauses
       \/ statement.verb = "with" /\ "into" \in statement.clauses

(* Without allow_dangerous_statements an UPDATE or DELETE of every row, a  *)
(* TRUNCATE or a DROP does not run, neither by itself nor in WITH or       *)
(* EXPLAIN ANALYZE - unless another WHERE in it, of a CTE or a subquery,   *)
(* is taken for its own, as the guard's comment says it may be.            *)
NothingDestroyedByAccident ==
  Ran /\ ~AllowsDangerous(request) /\ Destroys(statement) => "elsewhere" \in statement.clauses

(* A single statement that gets LIMIT appended is a read without one, so   *)
(* LIMIT never changes what a write does.  (WITH ... MERGE, whose word is  *)
(* not looked for, becomes a syntax error; a function with a side effect   *)
(* is called for fewer rows.)                                              *)
LimitOnlyOnReads ==
  Ran /\ ~statement.second /\ AutoLimited(statement, request)
    => \/ ~Modifies([statement EXCEPT !.clauses = @ \ {"nextval"}]) /\ "limit" \notin statement.clauses
       \/ statement.verb = "with" /\ statement.body = "merge"

(* A display of one statement shows at most default_limit rows: either     *)
(* the server sends no more, or the client cuts them.  (Of several, which  *)
(* run with all guards off, the first may send more than it should.)       *)
DisplayIsBounded ==
  Ran /\ request.mode = "display" /\ ~statement.second
    => RowsSent(statement, request) <= DefaultLimit \/ ClientRows(statement, request) <= DefaultLimit

(* Explain really executes its statement on Postgres, so it accepts none   *)
(* that modifies something.                                                *)
ExplainModifiesNothing ==
  ExplainAccepts(statement) => ~Modifies(Explained(statement)) \/ BeyondTheGuard(Explained(statement))
=============================================================================
