----------------------------- MODULE ChatAgent -----------------------------
(***************************************************************************)
(* The AI chat's agent loop (lib.rs: ai_chat, run_ai_chat; ai.rs:          *)
(* chat_step): rounds of a model call and the tool calls it requests, each *)
(* of which may run one read-only statement.  A stop (cancel_ai_chat) is   *)
(* recorded per request ID in ChatCancels, in a bounded history, and the   *)
(* loop looks at the record at its checkpoints.                            *)
(*                                                                         *)
(* A check and the step that follows it without waiting are one action.    *)
(***************************************************************************)
EXTENDS Naturals, Sequences, SequencesExt

CONSTANTS
  Requests,    \* request IDs; one is never used again
  MaxRounds,   \* CHAT_MAX_TOOL_ROUNDS
  MaxCalls,    \* CHAT_MAX_TOOL_CALLS
  HistoryMax,  \* CHAT_CANCEL_HISTORY_MAX
  MaxListed    \* bound: tool calls in one message of the model

ASSUME ChatLimits == MaxRounds \in Nat /\ MaxCalls \in Nat /\ HistoryMax \in Nat /\ MaxListed \in Nat

VARIABLES
  chat,        \* the state of each request
  stopRecords  \* ChatCancelState: the recorded stops, oldest first

caVars == <<chat, stopRecords>>

Stages == {"new", "resolving", "round", "model", "retried", "tools", "pool", "query", "ended", "done"}
ChatStates ==
  [stage : Stages, rounds : 0 .. MaxRounds, withTools : BOOLEAN,
   open : 0 .. MaxListed,   \* tool calls of the last message without their tool message
   executed : 0 .. MaxCalls, modelCalls : Nat,
   sent : Nat,              \* statements handed to the database
   recorded : Nat,          \* those listed in tool_calls
   result : {"none", "answer", "error", "cancelled"}]
CaTypeOK ==
  /\ chat \in [Requests -> ChatStates]
  /\ stopRecords \in Seq(Requests) /\ Len(stopRecords) <= HistoryMax /\ IsInjective(stopRecords)

CaInit ==
  /\ chat = [r \in Requests |-> [stage |-> "new", rounds |-> 0, withTools |-> FALSE, open |-> 0,
       executed |-> 0, modelCalls |-> 0, sent |-> 0, recorded |-> 0, result |-> "none"]]
  /\ stopRecords = <<>>

Stopped(r) == Contains(stopRecords, r)

----------------------------------------------------------------------------
(* ChatCancels *)

DropAtLimit(records) == IF Len(records) >= HistoryMax THEN Tail(records) ELSE records  \* fault: >= for >
DropOldest(records) ==
  IF Len(records) > HistoryMax THEN SubSeq(records, Len(records) - HistoryMax + 1, Len(records))
                               ELSE records
(* cancel_ai_chat records the ID, also of a request that has not started   *)
(* or has ended.                                                           *)
RequestStop(r) ==
  /\ ~Stopped(r)
  /\ stopRecords' = DropOldest(Append(stopRecords, r))
  /\ UNCHANGED chat

----------------------------------------------------------------------------
(* run_ai_chat *)

Becomes(r, new) == chat' = [chat EXCEPT ![r] = new]
Moved(c, to) == [c EXCEPT !.stage = to]
Ended(c, how) == [c EXCEPT !.stage = "ended", !.result = how]
ProceedUnlessStopped(r, new) ==
  IF Stopped(r) THEN Becomes(r, Ended(chat[r], "cancelled")) ELSE Becomes(r, new)

Enter(r) ==
  /\ chat[r].stage = "new"
  /\ ProceedUnlessStopped(r, Moved(chat[r], "resolving"))

(* resolve_ai_context may connect; no AI config, no AI for this engine.    *)
ResolveContext(r) ==
  /\ chat[r].stage = "resolving"
  /\ \/ ProceedUnlessStopped(r, Moved(chat[r], "round"))
     \/ Becomes(r, Ended(chat[r], "error"))

FinalCall(c) == c.rounds = MaxRounds
OffersTools(c) == ~FinalCall(c) /\ c.executed < MaxCalls
Called(c) == [c EXCEPT !.stage = "model", !.modelCalls = @ + 1, !.withTools = OffersTools(c)]
CallModel(r) ==
  /\ chat[r].stage = "round"
  /\ ProceedUnlessStopped(r, Called(chat[r]))

ResendAnyway(r, new) == Becomes(r, new)  \* fault: the resend does not look at the stop
ResendUnlessStopped(r, new) == ProceedUnlessStopped(r, new)
Resent(c) == [c EXCEPT !.stage = "retried", !.modelCalls = @ + 1]
(* request_chat_completion: a rejected reasoning_effort, which only goes   *)
(* with tools, is left out in one second request.                          *)
ResendWithoutEffort(r) ==
  /\ chat[r].stage = "model" /\ chat[r].withTools
  /\ ResendUnlessStopped(r, Resent(chat[r]))

ModelFails(r) ==
  /\ chat[r].stage \in {"model", "retried"}
  /\ Becomes(r, Ended(chat[r], "error"))

TakeAnswer(r, new) == Becomes(r, new)  \* fault: a stop during the last call is overlooked
AnswerUnlessStopped(r, new) == ProceedUnlessStopped(r, new)
AskedFor(c, n) == [c EXCEPT !.stage = "tools", !.open = n, !.rounds = @ + 1]
(* A text, which may be empty, or tool calls, which the last call ignores. *)
ModelAnswers(r) ==
  /\ chat[r].stage \in {"model", "retried"}
  /\ \/ \E how \in {"answer", "error"} : AnswerUnlessStopped(r, Ended(chat[r], how))
     \/ /\ ~FinalCall(chat[r])
        /\ \E n \in 1 .. MaxListed : AnswerUnlessStopped(r, AskedFor(chat[r], n))

LastTool(c) == c.open = 1
(* The tool message of one tool call is in the messages.                   *)
Replied(c) == [c EXCEPT !.open = @ - 1, !.stage = IF LastTool(c) THEN "round" ELSE "tools"]

Unbounded(c) == FALSE  \* fault: only the rounds are limited
BudgetExhausted(c) == c.executed >= MaxCalls
BreakOff(c) == [c EXCEPT !.stage = "round"]  \* fault: cut-off calls get no tool message
RefuseCall(c) == Replied(c)
Started(c) == [c EXCEPT !.executed = @ + 1]
(* The next tool call: beyond the budget, not runnable (an unknown tool,   *)
(* bad arguments, a statement the agent guard rejects), or to be run.      *)
NextToolCall(r) ==
  /\ chat[r].stage = "tools"
  /\ IF BudgetExhausted(chat[r])
       THEN Becomes(r, RefuseCall(chat[r]))
       ELSE LET started == Started(chat[r]) IN
            \/ ProceedUnlessStopped(r, Replied(started))
            \/ ProceedUnlessStopped(r, Moved(started, "pool"))

Sent(c) == [c EXCEPT !.stage = "query", !.sent = @ + 1]
(* get_pool: an error is the tool's result, a stop meanwhile ends the      *)
(* request before anything was sent.                                       *)
PoolReturns(r) ==
  /\ chat[r].stage = "pool"
  /\ \/ ProceedUnlessStopped(r, Sent(chat[r]))
     \/ ProceedUnlessStopped(r, Replied(chat[r]))

DropRecord(c) == c  \* fault: an aborted query is not listed
ListQuery(c) == [c EXCEPT !.recorded = @ + 1]
QueryReturns(r) ==
  /\ chat[r].stage = "query"
  /\ IF Stopped(r) THEN Becomes(r, Ended(ListQuery(chat[r]), "cancelled"))
                   ELSE Becomes(r, ListQuery(Replied(chat[r])))

NotPolled(r) == FALSE  \* fault: a stop before the query registered its cancel is missed
StopSeen(r) == Stopped(r)
(* The poll during a query, or the query's own cancel, after a stop.       *)
StopQuery(r) ==
  /\ chat[r].stage = "query"
  /\ StopSeen(r)
  /\ Becomes(r, Ended(ListQuery(chat[r]), "cancelled"))

(* ai_chat: the record is discarded with the reply; there is one at most.  *)
Discarded(records, r) == RemoveAt(records, CHOOSE i \in DOMAIN records : records[i] = r)
Finish(r) ==
  /\ chat[r].stage = "ended"
  /\ stopRecords' = IF Stopped(r) THEN Discarded(stopRecords, r) ELSE stopRecords
  /\ Becomes(r, Moved(chat[r], "done"))

----------------------------------------------------------------------------
(* What the loop does by itself; a statement may run for ever.             *)
AgentStep(r) ==
  \/ Enter(r) \/ ResolveContext(r) \/ CallModel(r) \/ ResendWithoutEffort(r) \/ ModelFails(r)
  \/ ModelAnswers(r) \/ NextToolCall(r) \/ PoolReturns(r) \/ StopQuery(r)

CaNext ==
  \E r \in Requests :
    \/ RequestStop(r) \/ Finish(r)
    \/ (AgentStep(r) \/ QueryReturns(r)) /\ UNCHANGED stopRecords
CaSpec == CaInit /\ [][CaNext]_caVars

(* A request that was sent starts, the model call has a timeout, get_pool  *)
(* returns (DbManager), and a running query is polled every 200 ms.        *)
FairStep(r) == Finish(r) \/ (AgentStep(r) /\ UNCHANGED stopRecords)
CaFairSpec == CaSpec /\ \A r \in Requests : WF_caVars(FairStep(r))

----------------------------------------------------------------------------
(* Properties *)

(* A stopped request, whenever the stop arrives, makes no further call to  *)
(* the model, runs nothing and never delivers an answer.                   *)
StopIsFinal ==
  [][\A r \in Requests : Stopped(r) =>
       /\ chat'[r].modelCalls = chat[r].modelCalls
       /\ chat'[r].sent = chat[r].sent
       /\ chat'[r].result = "answer" => chat[r].result = "answer"]_caVars

(* What was sent to the database is listed in the reply, however the       *)
(* request ended; nothing else is listed as sent.                          *)
SentIsListed ==
  \A r \in Requests : chat[r].recorded = chat[r].sent - (IF chat[r].stage = "query" THEN 1 ELSE 0)

(* The API refuses messages in which a tool call has no tool message: none *)
(* is open when the model is called.                                       *)
EveryCallIsReplied ==
  \A r \in Requests : chat[r].stage \in {"round", "model", "retried"} => chat[r].open = 0

(* Neither many rounds nor many tool calls in a round exceed the budgets.  *)
WithinBudget ==
  \A r \in Requests :
    chat[r].sent <= MaxCalls /\ chat[r].modelCalls <= 2 * MaxRounds + 1

(* A stop, of a request that has not started too, ends it, also during a   *)
(* query that would run for ever (the history holds all of them).          *)
StopEndsChat == \A r \in Requests : Stopped(r) ~> chat[r].stage = "done"

(* The conversation is one the model's API accepts, within its budget, and *)
(* a stop is final.                                                        *)
ChatPromise == [](SentIsListed /\ EveryCallIsReplied /\ WithinBudget) /\ StopIsFinal
=============================================================================
