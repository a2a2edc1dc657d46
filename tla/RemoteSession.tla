--------------------------- MODULE RemoteSession ---------------------------
(***************************************************************************)
(* A run on Redis, Elasticsearch or DynamoDB (engines/redis.rs,            *)
(* elasticsearch.rs, dynamodb.rs: run_query_cancellable): the commands of  *)
(* the editor are judged, then sent one by one; a cancel drops the future  *)
(* that waits for the answer, and the server works on.                     *)
(*                                                                         *)
(* A SELECT of DynamoDB, and its list of tables, are a command for each    *)
(* page, as many as there are pages.                                       *)
(***************************************************************************)
EXTENDS Naturals, Sequences, SequencesExt, FiniteSets

CONSTANTS MaxCommands,  \* bound: commands of a run, pages of an answer
          MaxShown      \* max_rows

ASSUME RemoteAssumption == MaxCommands \in Nat \ {0} /\ MaxShown \in Nat

VARIABLES
  remote,    \* the run: its engine, its commands, what it is allowed
  progress,     \* "idle", "registered", "waiting" for an answer, "over"
  next,      \* the command that is sent next, or was sent last
  answer,    \* of that command: "none", "sent", "ok", "failed"
  executed,  \* by the server, in order, with what came of it
  shown,     \* rows of the table, one for each command
  pressed, awake, ending
rsVars == <<remote, progress, next, answer, executed, shown, pressed, awake, ending>>

RemoteEngines == {"redis", "elasticsearch", "partiql", "tables"}
Commands == {"read", "write", "danger", "unsupported"}
NothingRun == [engine |-> "redis", commands |-> <<>>, readonly |-> FALSE, dangerous |-> FALSE]
Results == {"none", "refused", "ok", "part", "error", "cancelled"}

RsTypeOK ==
  /\ remote.engine \in RemoteEngines /\ remote.commands \in Seq(Commands)
  /\ progress \in {"idle", "registered", "waiting", "over"} /\ next \in 0 .. MaxCommands + 1
  /\ answer \in {"none", "sent", "ok", "failed"}
  /\ executed \in Seq([command : 1 .. MaxCommands, ok : BOOLEAN])
  /\ shown \in 0 .. MaxShown /\ pressed \in BOOLEAN /\ awake \in BOOLEAN /\ ending \in Results

RsInit ==
  /\ remote = NothingRun /\ progress = "idle" /\ next = 0 /\ answer = "none" /\ executed = <<>>
  /\ shown = 0 /\ pressed = FALSE /\ awake = FALSE /\ ending = "none"

LastCommand == Len(remote.commands)

----------------------------------------------------------------------------
(* The guards look at every command before any is sent.                    *)

Judged(r, command) ==
  /\ command # "unsupported"
  /\ r.readonly => command = "read"
  /\ command = "danger" => r.dangerous
FirstOnly(r) == Judged(r, r.commands[1])  \* fault: the rest is judged when its turn comes
RedisAllows(r) == \A i \in DOMAIN r.commands : Judged(r, r.commands[i])
ElasticAllows(r) == \A i \in DOMAIN r.commands : Judged(r, r.commands[i])
(* `tables` only reads, and is sent before the guards of PartiQL; what     *)
(* reads is one statement of as many pages as it has.                      *)
DynamoAllows(r) == r.engine = "tables" \/ Judged(r, r.commands[1])
Allowed(r) ==
  CASE r.engine = "redis" -> RedisAllows(r)
    [] r.engine = "elasticsearch" -> ElasticAllows(r)
    [] OTHER -> DynamoAllows(r)
Pages(r) == \A i \in DOMAIN r.commands : r.commands[i] = "read"
RemoteRuns ==
  {r \in [engine : RemoteEngines, commands : BoundedSeq(Commands, MaxCommands), readonly : BOOLEAN, dangerous : BOOLEAN] :
     /\ r.commands # <<>>
     /\ r.engine = "tables" => Pages(r)
     /\ r.engine = "partiql" => Len(r.commands) = 1 \/ Pages(r)}

Submit ==
  /\ progress = "idle"
  /\ remote' \in RemoteRuns
  /\ IF Allowed(remote') THEN progress' = "registered" /\ ending' = "none" ELSE progress' = "over" /\ ending' = "refused"
  /\ UNCHANGED <<next, answer, executed, shown, pressed, awake>>

(* The first poll sends the first command and begins to listen.            *)
Begin ==
  /\ progress = "registered"
  /\ progress' = "waiting" /\ next' = 1 /\ answer' = "sent"
  /\ UNCHANGED <<remote, executed, shown, pressed, awake, ending>>

(* The server, whoever still waits for it.                                 *)
ServerExecutes ==
  /\ answer = "sent"
  /\ \E ok \in BOOLEAN :
       /\ executed' = Append(executed, [command |-> next, ok |-> ok])
       /\ answer' = IF ok THEN "ok" ELSE "failed"
  /\ UNCHANGED <<remote, progress, next, shown, pressed, awake, ending>>

Over(how) ==
  /\ progress' = "over"
  /\ ending' = IF pressed /\ how = "error" THEN "cancelled" ELSE how
  /\ UNCHANGED <<next, answer>>
SendNext == next' = next + 1 /\ answer' = "sent" /\ UNCHANGED <<progress, ending>>
Show == shown' = IF shown < MaxShown THEN shown + 1 ELSE shown
SkipFailed == SendNext  \* fault: the commands behind the failed one are sent
StopHere == Over("error")
DropRest == Over("part")  \* fault: what the table cannot show is not run
RunRest == SendNext

(* execute_commands                                                        *)
RedisAnswers ==
  /\ remote.engine = "redis"
  /\ \/ answer = "failed" /\ StopHere /\ UNCHANGED shown
     \/ answer = "ok" /\ next = LastCommand /\ Over("ok") /\ Show
     \/ answer = "ok" /\ next # LastCommand /\ shown = MaxShown /\ RunRest /\ UNCHANGED shown
     \/ answer = "ok" /\ next # LastCommand /\ shown # MaxShown /\ SendNext /\ Show
(* execute_requests: an error status is a row among others, when there are *)
(* others; without an answer the run stops.                                *)
ElasticAnswers ==
  /\ remote.engine = "elasticsearch"
  /\ \/ answer = "failed" /\ StopHere /\ UNCHANGED shown
     \/ /\ answer = "ok" \/ LastCommand > 1
        /\ IF next = LastCommand THEN Over("ok") ELSE SendNext
        /\ Show
(* A page is shown: the last, the last the table has room for, or neither. *)
ShowPage ==
  /\ answer = "ok" /\ Show
  /\ \/ next = LastCommand /\ Over("ok")
     \/ next # LastCommand /\ shown = MaxShown /\ Over("part")
     \/ next # LastCommand /\ shown # MaxShown /\ SendNext
(* execute_statement: an error, or the deadline between two pages.         *)
PartiqlAnswers ==
  /\ remote.engine = "partiql"
  /\ \/ answer = "failed" /\ StopHere /\ UNCHANGED shown
     \/ answer = "ok" /\ next < LastCommand /\ StopHere /\ UNCHANGED shown
     \/ ShowPage
(* list_tables_query, fetch_tables_limited: past its deadline the list is  *)
(* what is there already, and says so.                                     *)
ListAnswers ==
  /\ remote.engine = "tables"
  /\ \/ answer = "failed" /\ StopHere /\ UNCHANGED shown
     \/ ShowPage
     \/ answer = "ok" /\ next < LastCommand /\ Show /\ Over("part")

(* The side of the answer is looked at first.                              *)
Answer ==
  /\ progress = "waiting" /\ answer \in {"ok", "failed"}
  /\ RedisAnswers \/ ElasticAnswers \/ PartiqlAnswers \/ ListAnswers
  /\ UNCHANGED <<remote, executed, pressed, awake>>

(* notify_waiters wakes who is waiting, and is forgotten otherwise.        *)
RequestCancel ==
  /\ progress \in {"registered", "waiting"} /\ ~pressed
  /\ pressed' = TRUE /\ awake' = (progress = "waiting")
  /\ UNCHANGED <<remote, progress, next, answer, executed, shown, ending>>
CancelFirst == TRUE  \* fault: the cancel is looked at before the answer
AnswerFirst == answer = "sent"
WakeCancelled ==
  /\ progress = "waiting" /\ awake /\ AnswerFirst
  /\ progress' = "over" /\ ending' = "cancelled"
  /\ UNCHANGED <<remote, next, answer, executed, shown, pressed, awake>>

RsNext == Submit \/ Begin \/ ServerExecutes \/ Answer \/ RequestCancel \/ WakeCancelled
RsSpec == RsInit /\ [][RsNext]_rsVars

----------------------------------------------------------------------------
(* Properties *)

(* "Validate all commands before running anything": if one command of the  *)
(* editor is not allowed, none of them has reached the server.             *)
NoneRunUnlessAllAllowed ==
  executed # <<>> /\ remote.engine # "tables" => \A i \in DOMAIN remote.commands : Judged(remote, remote.commands[i])

(* The server has executed the first commands, in order and once each, and *)
(* nothing behind a failure: but for Elasticsearch, where an error status  *)
(* is an answer.                                                           *)
PrefixIsExecuted ==
  /\ \A i \in DOMAIN executed : executed[i].command = i
  /\ remote.engine # "elasticsearch" => \A i \in 1 .. Len(executed) - 1 : executed[i].ok

(* A run that succeeds has executed everything, also what the table cannot *)
(* show; one that ends early with rows is a list cut at a page.            *)
SuccessIsWhole ==
  /\ ending = "ok" => Len(executed) = LastCommand
  /\ ending = "ok" /\ remote.engine # "elasticsearch" => \A i \in DOMAIN executed : executed[i].ok
  /\ ending = "part" => Pages(remote) /\ remote.engine \in {"partiql", "tables"}

(* A cancelled run was cancelled, and at most the command in flight is     *)
(* executed without being seen: the answer that was there is not lost.     *)
CancelLosesOneAnswer ==
  [][/\ ending' = "cancelled" /\ ending # "cancelled" => pressed /\ Len(executed) <= next
     /\ ending' = "cancelled" /\ answer = "ok" /\ ending # "cancelled" => remote.engine = "partiql" /\ next < LastCommand
     /\ progress = "over" => Len(executed') <= Len(executed) + 1]_rsVars

RemotePromise == []NoneRunUnlessAllAllowed /\ []PrefixIsExecuted /\ []SuccessIsWhole /\ CancelLosesOneAnswer
=============================================================================
