---------------------------- MODULE TasksProofs -----------------------------
(***************************************************************************)
(* Theorems about what a user starts and waits for: a chat with the        *)
(* assistant, a dump, a launch.  They hold for any numbers of requests,    *)
(* dumps and launches and all limits.                                      *)
(***************************************************************************)
EXTENDS ChatAgent, Dump, Launch, SequenceTheorems, TLAPS

----------------------------------------------------------------------------
(***************************************************************************)
(* ChatAgent.  The theorems hold whatever the history of stops still knows. *)
(***************************************************************************)

USE ChatLimits

----------------------------------------------------------------------------
(* The inductive invariant is about each request by itself. *)

(* Before the model has answered, no tool call is open; while one is being *)
(* run, one is.                                                            *)
CallsInOrder(c) ==
  /\ c.stage \in {"new", "resolving", "round", "model", "retried"} => c.open = 0
  /\ c.stage \in {"tools", "pool", "query"} => c.open > 0

(* A statement is sent for a call that was started, and listed once its    *)
(* answer is there.                                                        *)
StatementsInOrder(c) ==
  /\ c.sent <= c.executed /\ (c.stage = "pool" => c.sent < c.executed)
  /\ c.recorded = c.sent - (IF c.stage = "query" THEN 1 ELSE 0)

(* Every round asks the model at most twice, the last one once.            *)
RoundsInOrder(c) ==
  /\ c.stage \in {"new", "resolving"} => c.modelCalls = 0
  /\ c.stage \in {"round", "tools", "pool", "query"} => c.modelCalls <= 2 * c.rounds
  /\ c.stage = "model" => c.modelCalls <= 2 * c.rounds + 1 /\ (c.rounds = MaxRounds => ~c.withTools)
  /\ c.stage = "retried" => c.modelCalls <= 2 * c.rounds + 2 /\ c.rounds < MaxRounds
  /\ c.modelCalls <= 2 * MaxRounds + 1

InOrder(c) == c \in ChatStates /\ CallsInOrder(c) /\ StatementsInOrder(c) /\ RoundsInOrder(c)

CaInv == chat \in [Requests -> ChatStates] /\ \A r \in Requests : InOrder(chat[r])

----------------------------------------------------------------------------
(* What the steps make of a request. *)

USE DEF InOrder, CallsInOrder, StatementsInOrder, RoundsInOrder

LEMMA Numbers ==
  ASSUME NEW c \in ChatStates
  PROVE  /\ c.rounds \in 0 .. MaxRounds /\ c.open \in 0 .. MaxListed /\ c.executed \in 0 .. MaxCalls
         /\ c.modelCalls \in Nat /\ c.sent \in Nat /\ c.recorded \in Nat
         /\ c.withTools \in BOOLEAN
  BY DEF ChatStates

LEMMA MovedFields ==
  ASSUME NEW c \in ChatStates, NEW s \in Stages
  PROVE  LET new == Moved(c, s) IN
         /\ new \in ChatStates /\ new.stage = s
         /\ new.rounds = c.rounds /\ new.open = c.open /\ new.executed = c.executed
         /\ new.modelCalls = c.modelCalls /\ new.sent = c.sent /\ new.recorded = c.recorded
         /\ new.result = c.result
  BY DEF ChatStates, Moved

LEMMA EndedFields ==
  ASSUME NEW c \in ChatStates, NEW how \in {"answer", "error", "cancelled"}
  PROVE  /\ Ended(c, how) \in ChatStates
         /\ Ended(c, how).stage = "ended" /\ Ended(c, how).result = how
         /\ Ended(c, how).rounds = c.rounds /\ Ended(c, how).open = c.open
         /\ Ended(c, how).executed = c.executed /\ Ended(c, how).modelCalls = c.modelCalls
         /\ Ended(c, how).sent = c.sent /\ Ended(c, how).recorded = c.recorded
  BY DEF Ended, ChatStates, Stages

LEMMA EndedInOrder ==
  ASSUME NEW c, InOrder(c), c.stage # "query", NEW how \in {"answer", "error", "cancelled"}
  PROVE  InOrder(Ended(c, how))
  BY EndedFields, Numbers

LEMMA RepliedFields ==
  ASSUME NEW c \in ChatStates, c.open > 0
  PROVE  /\ Replied(c) \in ChatStates
         /\ Replied(c).stage = (IF c.open = 1 THEN "round" ELSE "tools")
         /\ Replied(c).open = c.open - 1 /\ Replied(c).rounds = c.rounds
         /\ Replied(c).executed = c.executed /\ Replied(c).modelCalls = c.modelCalls
         /\ Replied(c).sent = c.sent /\ Replied(c).recorded = c.recorded
         /\ Replied(c).result = c.result
  <1> DEFINE o == c.open - 1
  <1> DEFINE s == IF c.open = 1 THEN "round" ELSE "tools"
  <1>1. Replied(c) = [c EXCEPT !.open = o, !.stage = s]
    BY DEF Replied, LastTool
  <1>2. o \in 0 .. MaxListed /\ s \in Stages
    BY Numbers DEF Stages
  <1> HIDE DEF o, s
  <1>3. [c EXCEPT !.open = o, !.stage = s] \in ChatStates
    BY <1>2 DEF ChatStates
  <1>4. LET new == [c EXCEPT !.open = o, !.stage = s] IN
        /\ new.open = o /\ new.stage = s
        /\ new.rounds = c.rounds /\ new.executed = c.executed /\ new.modelCalls = c.modelCalls
        /\ new.sent = c.sent /\ new.recorded = c.recorded /\ new.result = c.result
    BY DEF ChatStates
  <1> QED
    BY <1>1, <1>3, <1>4 DEF o, s

LEMMA RepliedInOrder ==
  ASSUME NEW c, InOrder(c), c.stage \in {"tools", "pool"}
  PROVE  InOrder(Replied(c))
  BY RepliedFields, Numbers

LEMMA ListedFields ==
  ASSUME NEW c \in ChatStates
  PROVE  /\ ListQuery(c) \in ChatStates /\ ListQuery(c).recorded = c.recorded + 1
         /\ ListQuery(c).stage = c.stage /\ ListQuery(c).rounds = c.rounds /\ ListQuery(c).open = c.open
         /\ ListQuery(c).executed = c.executed /\ ListQuery(c).modelCalls = c.modelCalls
         /\ ListQuery(c).sent = c.sent /\ ListQuery(c).result = c.result
  <1> DEFINE n == c.recorded + 1
  <1>1. ListQuery(c) = [c EXCEPT !.recorded = n]
    BY DEF ListQuery
  <1>2. n \in Nat
    BY Numbers
  <1> HIDE DEF n
  <1>3. [c EXCEPT !.recorded = n] \in ChatStates
    BY <1>2 DEF ChatStates
  <1>4. LET new == [c EXCEPT !.recorded = n] IN
        /\ new.recorded = n /\ new.stage = c.stage
        /\ new.rounds = c.rounds /\ new.open = c.open /\ new.executed = c.executed
        /\ new.modelCalls = c.modelCalls /\ new.sent = c.sent /\ new.result = c.result
    BY DEF ChatStates
  <1> QED
    BY <1>1, <1>3, <1>4 DEF n

LEMMA QueryOverInOrder ==
  ASSUME NEW c, InOrder(c), c.stage = "query"
  PROVE  InOrder(Ended(ListQuery(c), "cancelled")) /\ InOrder(ListQuery(Replied(c)))
  <1>1. InOrder(Ended(ListQuery(c), "cancelled"))
    <2>1. ListQuery(c) \in ChatStates
      BY ListedFields
    <2> QED
      BY <2>1, ListedFields, EndedFields, Numbers
  <1>2. InOrder(ListQuery(Replied(c)))
    <2>1. Replied(c) \in ChatStates
      BY RepliedFields
    <2> QED
      BY <2>1, ListedFields, RepliedFields, Numbers
  <1> QED
    BY <1>1, <1>2

(* The other steps change a number by one: what they make of a request.    *)
LEMMA CalledInOrder ==
  ASSUME NEW c, InOrder(c), c.stage = "round"
  PROVE  InOrder(Called(c))
  <1> DEFINE w == OffersTools(c)
  <1>0. w \in BOOLEAN /\ (c.rounds = MaxRounds => ~w)
    BY DEF OffersTools, FinalCall
  <1> HIDE DEF w
  <1> DEFINE m == c.modelCalls + 1
  <1> DEFINE new == [c EXCEPT !.stage = "model", !.modelCalls = m, !.withTools = w]
  <1>1. m \in Nat /\ "model" \in Stages
    BY Numbers DEF Stages
  <1> HIDE DEF m
  <1>2. new \in ChatStates
    BY <1>0, <1>1 DEF ChatStates
  <1>3. /\ new.stage = "model" /\ new.modelCalls = m /\ (new.withTools <=> w)
        /\ new.rounds = c.rounds /\ new.open = c.open /\ new.executed = c.executed
        /\ new.sent = c.sent /\ new.recorded = c.recorded
    BY <1>0 DEF ChatStates
  <1> HIDE DEF new
  <1>4. InOrder(new)
    BY <1>0, <1>2, <1>3, Numbers DEF m
  <1> QED
    BY <1>4 DEF new, m, w, Called

LEMMA ResentInOrder ==
  ASSUME NEW c, InOrder(c), c.stage = "model", c.rounds < MaxRounds
  PROVE  InOrder(Resent(c))
  <1> DEFINE m == c.modelCalls + 1
  <1> DEFINE new == [c EXCEPT !.stage = "retried", !.modelCalls = m]
  <1>1. m \in Nat /\ "retried" \in Stages
    BY Numbers DEF Stages
  <1> HIDE DEF m
  <1>2. new \in ChatStates
    BY <1>1 DEF ChatStates
  <1>3. /\ new.stage = "retried" /\ new.modelCalls = m
        /\ new.rounds = c.rounds /\ new.open = c.open /\ new.executed = c.executed
        /\ new.sent = c.sent /\ new.recorded = c.recorded
    BY DEF ChatStates
  <1> HIDE DEF new
  <1>4. InOrder(new)
    BY <1>2, <1>3, Numbers DEF m
  <1> QED
    BY <1>4 DEF new, m, Resent

LEMMA AnsweredInOrder ==
  ASSUME NEW c, InOrder(c), c.stage \in {"model", "retried"}, c.rounds < MaxRounds,
         NEW n \in 1 .. MaxListed
  PROVE  InOrder(AskedFor(c, n))
  <1> DEFINE k == c.rounds + 1
  <1> DEFINE new == [c EXCEPT !.stage = "tools", !.open = n, !.rounds = k]
  <1>1. k \in 0 .. MaxRounds /\ n \in 0 .. MaxListed /\ "tools" \in Stages
    BY Numbers DEF Stages
  <1> HIDE DEF k
  <1>2. new \in ChatStates
    BY <1>1 DEF ChatStates
  <1>3. /\ new.stage = "tools" /\ new.open = n /\ new.rounds = k
        /\ new.modelCalls = c.modelCalls /\ new.executed = c.executed /\ new.sent = c.sent
        /\ new.recorded = c.recorded
    BY DEF ChatStates
  <1> HIDE DEF new
  <1>4. InOrder(new)
    BY <1>2, <1>3, Numbers DEF k
  <1> QED
    BY <1>4 DEF new, k, AskedFor

LEMMA StartedInOrder ==
  ASSUME NEW c, InOrder(c), c.stage = "tools", c.executed < MaxCalls
  PROVE  /\ InOrder(Started(c)) /\ Started(c).stage = "tools"
         /\ Started(c).executed = c.executed + 1 /\ Started(c).sent = c.sent
  <1> DEFINE e == c.executed + 1
  <1> DEFINE new == [c EXCEPT !.executed = e]
  <1>1. e \in 0 .. MaxCalls
    BY Numbers DEF Stages
  <1> HIDE DEF e
  <1>2. new \in ChatStates
    BY <1>1 DEF ChatStates
  <1>3. /\ new.executed = e
        /\ new.stage = c.stage /\ new.rounds = c.rounds /\ new.open = c.open
        /\ new.modelCalls = c.modelCalls /\ new.sent = c.sent /\ new.recorded = c.recorded
    BY DEF ChatStates
  <1> HIDE DEF new
  <1>4. InOrder(new)
    BY <1>2, <1>3, Numbers DEF e
  <1> QED
    BY <1>3, <1>4 DEF new, e, Started

LEMMA SentInOrder ==
  ASSUME NEW c, InOrder(c), c.stage = "pool"
  PROVE  InOrder(Sent(c))
  <1> DEFINE n == c.sent + 1
  <1> DEFINE new == [c EXCEPT !.stage = "query", !.sent = n]
  <1>1. n \in Nat /\ "query" \in Stages
    BY Numbers DEF Stages
  <1> HIDE DEF n
  <1>2. new \in ChatStates
    BY <1>1 DEF ChatStates
  <1>3. /\ new.stage = "query" /\ new.sent = n
        /\ new.rounds = c.rounds /\ new.open = c.open /\ new.executed = c.executed
        /\ new.modelCalls = c.modelCalls /\ new.recorded = c.recorded
    BY DEF ChatStates
  <1> HIDE DEF new
  <1>4. InOrder(new)
    BY <1>2, <1>3, Numbers DEF n
  <1> QED
    BY <1>4 DEF new, n, Sent

HIDE DEF InOrder

(* One step per action. *)
KeepsOrder(r) == \E new : InOrder(new) /\ Becomes(r, new)

LEMMA Proceeds ==
  ASSUME NEW r, NEW new, InOrder(new), InOrder(chat[r]), chat[r].stage # "query",
         ProceedUnlessStopped(r, new)
  PROVE  KeepsOrder(r)
  BY EndedInOrder DEF ProceedUnlessStopped, KeepsOrder

LEMMA StepInOrder ==
  ASSUME CaInv, NEW r \in Requests, AgentStep(r) \/ QueryReturns(r)
  PROVE  KeepsOrder(r)
  <1> DEFINE c == chat[r]
  <1>0. InOrder(c) /\ c \in ChatStates
    BY DEF CaInv, InOrder
  <1>1. CASE Enter(r)
    <2> DEFINE new == Moved(c, "resolving")
    <2>1. c.stage = "new" /\ ProceedUnlessStopped(r, new)
      BY <1>1 DEF Enter
    <2>2. InOrder(new)
      <3>1. "resolving" \in Stages
        BY DEF Stages
      <3>2. /\ new \in ChatStates /\ new.stage = "resolving"
            /\ new.rounds = c.rounds /\ new.open = c.open /\ new.executed = c.executed
            /\ new.modelCalls = c.modelCalls /\ new.sent = c.sent /\ new.recorded = c.recorded
        BY <1>0, <3>1, MovedFields DEF ChatStates
      <3> HIDE DEF new
      <3> QED
        BY <1>0, <2>1, <3>2, Numbers DEF InOrder
    <2> QED
      BY <1>0, <2>1, <2>2, Proceeds
  <1>2. CASE ResolveContext(r)
    <2> DEFINE new == Moved(c, "round")
    <2>1. c.stage = "resolving" /\ (ProceedUnlessStopped(r, new) \/ Becomes(r, Ended(c, "error")))
      BY <1>2 DEF ResolveContext
    <2>2. InOrder(new)
      <3>1. "round" \in Stages
        BY DEF Stages
      <3>2. /\ new \in ChatStates /\ new.stage = "round"
            /\ new.rounds = c.rounds /\ new.open = c.open /\ new.executed = c.executed
            /\ new.modelCalls = c.modelCalls /\ new.sent = c.sent /\ new.recorded = c.recorded
        BY <1>0, <3>1, MovedFields DEF ChatStates
      <3> HIDE DEF new
      <3> QED
        BY <1>0, <2>1, <3>2, Numbers DEF InOrder
    <2>3. InOrder(Ended(c, "error"))
      BY <1>0, <2>1, EndedInOrder
    <2> HIDE DEF new
    <2> QED
      BY <1>0, <2>1, <2>2, <2>3, Proceeds DEF KeepsOrder
  <1>3. CASE CallModel(r)
    <2> DEFINE new == Called(c)
    <2>1. c.stage = "round" /\ ProceedUnlessStopped(r, new)
      BY <1>3 DEF CallModel
    <2>3. InOrder(new)
      BY <1>0, <2>1, CalledInOrder
    <2> HIDE DEF new
    <2> QED
      BY <1>0, <2>1, <2>3, Proceeds
  <1>4. CASE ResendWithoutEffort(r)
    <2> DEFINE new == Resent(c)
    <2>1. c.stage = "model" /\ c.withTools /\ ProceedUnlessStopped(r, new)
      BY <1>4 DEF ResendWithoutEffort, ResendUnlessStopped
    <2>2. c.rounds < MaxRounds
      BY <1>0, <2>1, Numbers DEF InOrder
    <2>3. InOrder(new)
      BY <1>0, <2>1, <2>2, ResentInOrder
    <2> HIDE DEF new
    <2> QED
      BY <1>0, <2>1, <2>3, Proceeds
  <1>5. CASE ModelFails(r)
    <2>1. c.stage # "query" /\ Becomes(r, Ended(c, "error"))
      BY <1>5 DEF ModelFails
    <2> QED
      BY <1>0, <2>1, EndedInOrder DEF KeepsOrder
  <1>6. CASE ModelAnswers(r)
    <2>1. c.stage \in {"model", "retried"}
      BY <1>6 DEF ModelAnswers
    <2>2. ASSUME NEW how \in {"answer", "error"}, ProceedUnlessStopped(r, Ended(c, how)) PROVE KeepsOrder(r)
      <3>1. InOrder(Ended(c, how))
        BY <1>0, <2>1, EndedInOrder
      <3> QED
        BY <1>0, <2>1, <2>2, <3>1, Proceeds
    <2>3. ASSUME ~FinalCall(c), NEW n \in 1 .. MaxListed,
                 ProceedUnlessStopped(r, AskedFor(c, n))
          PROVE  KeepsOrder(r)
      <3> DEFINE new == AskedFor(c, n)
      <3>1. c.rounds < MaxRounds
        BY <1>0, <2>3, Numbers DEF InOrder, FinalCall
      <3>2. InOrder(new)
        BY <1>0, <2>1, <3>1, AnsweredInOrder
      <3>3. ProceedUnlessStopped(r, new)
        BY <2>3
      <3> HIDE DEF new
      <3> QED
        BY <1>0, <2>1, <3>2, <3>3, Proceeds
    <2> QED
      BY <1>6, <2>2, <2>3 DEF ModelAnswers, AnswerUnlessStopped
  <1>7. CASE NextToolCall(r)
    <2> DEFINE started == Started(c)
    <2> DEFINE run == Moved(started, "pool")
    <2>1. c.stage = "tools"
      BY <1>7 DEF NextToolCall
    <2>2. CASE BudgetExhausted(c)
      <3>1. Becomes(r, Replied(c))
        BY <1>7, <2>2 DEF NextToolCall, RefuseCall
      <3> QED
        BY <1>0, <2>1, <3>1, RepliedInOrder DEF KeepsOrder
    <2>3. CASE ~BudgetExhausted(c)
      <3>1. ProceedUnlessStopped(r, Replied(started)) \/ ProceedUnlessStopped(r, run)
        BY <1>7, <2>3 DEF NextToolCall
      <3>2. c.executed < MaxCalls
        BY <1>0, <2>3, Numbers DEF InOrder, BudgetExhausted
      <3>3. InOrder(started)
        BY <1>0, <2>1, <3>2, StartedInOrder
      <3>4. started.stage = "tools" /\ started.executed = c.executed + 1 /\ started.sent = c.sent
        BY <1>0, <2>1, <3>2, StartedInOrder
      <3> HIDE DEF started
      <3>5. InOrder(Replied(started))
        BY <3>3, <3>4, RepliedInOrder
      <3>6. InOrder(run)
        <4>1. "pool" \in Stages
          BY DEF Stages
        <4>2. /\ run \in ChatStates /\ run.stage = "pool"
              /\ run.rounds = started.rounds /\ run.open = started.open
              /\ run.executed = started.executed /\ run.modelCalls = started.modelCalls
              /\ run.sent = started.sent /\ run.recorded = started.recorded
          BY <3>3, <4>1, MovedFields DEF InOrder
        <4> HIDE DEF run
        <4> QED
          BY <1>0, <3>3, <3>4, <4>2, Numbers DEF InOrder
      <3> HIDE DEF run
      <3> QED
        BY <1>0, <2>1, <3>1, <3>5, <3>6, Proceeds
    <2> QED
      BY <2>2, <2>3
  <1>8. CASE PoolReturns(r)
    <2> DEFINE new == Sent(c)
    <2>1. /\ c.stage = "pool"
          /\ ProceedUnlessStopped(r, new) \/ ProceedUnlessStopped(r, Replied(c))
      BY <1>8 DEF PoolReturns
    <2>2. InOrder(new)
      BY <1>0, <2>1, SentInOrder
    <2>3. InOrder(Replied(c))
      BY <1>0, <2>1, RepliedInOrder
    <2> HIDE DEF new
    <2> QED
      BY <1>0, <2>1, <2>2, <2>3, Proceeds
  <1>9. CASE StopQuery(r) \/ QueryReturns(r)
    <2>1. /\ c.stage = "query"
          /\ Becomes(r, Ended(ListQuery(c), "cancelled")) \/ Becomes(r, ListQuery(Replied(c)))
      BY <1>9 DEF StopQuery, QueryReturns, ListQuery
    <2> QED
      BY <1>0, <2>1, QueryOverInOrder DEF KeepsOrder
  <1> QED
    BY <1>1, <1>2, <1>3, <1>4, <1>5, <1>6, <1>7, <1>8, <1>9 DEF AgentStep

LEMMA CaInvariance == CaSpec => []CaInv
  <1>1. CaInit => CaInv
    <2> SUFFICES ASSUME CaInit PROVE CaInv
      OBVIOUS
    <2> DEFINE first == [stage |-> "new", rounds |-> 0, withTools |-> FALSE, open |-> 0,
                         executed |-> 0, modelCalls |-> 0, sent |-> 0, recorded |-> 0, result |-> "none"]
    <2>1. first \in ChatStates
      BY DEF ChatStates, Stages
    <2>2. chat = [q \in Requests |-> first]
      BY DEF CaInit
    <2>3. /\ first.stage = "new" /\ first.open = 0 /\ first.executed = 0
          /\ first.rounds = 0 /\ first.modelCalls = 0 /\ first.sent = 0 /\ first.recorded = 0
      OBVIOUS
    <2> HIDE DEF first
    <2>4. InOrder(first)
      BY <2>1, <2>3 DEF InOrder
    <2> QED
      BY <2>1, <2>2, <2>4 DEF CaInv
  <1>2. CaInv /\ [CaNext]_caVars => CaInv'
    <2> SUFFICES ASSUME CaInv, [CaNext]_caVars PROVE CaInv'
      OBVIOUS
    <2>1. ASSUME NEW r \in Requests, NEW new, InOrder(new), Becomes(r, new) PROVE CaInv'
      <3>1. new \in ChatStates
        BY <2>1 DEF InOrder
      <3>2. /\ chat' \in [Requests -> ChatStates]
            /\ \A q \in Requests : chat'[q] = IF q = r THEN new ELSE chat[q]
        BY <2>1, <3>1 DEF CaInv, Becomes
      <3>3. ASSUME NEW q \in Requests PROVE InOrder(chat'[q])
        BY <2>1, <3>2 DEF CaInv
      <3> QED
        BY <3>2, <3>3 DEF CaInv, InOrder
    <2>2. ASSUME NEW r \in Requests, Finish(r) PROVE CaInv'
      <3> DEFINE c == chat[r]
      <3>1. c.stage = "ended" /\ Becomes(r, Moved(c, "done"))
        BY <2>2 DEF Finish
      <3>2. InOrder(c) /\ c \in ChatStates /\ "done" \in Stages
        BY DEF CaInv, InOrder, Stages
      <3> HIDE DEF c
      <3>3. InOrder(Moved(c, "done"))
        BY <3>1, <3>2, MovedFields, Numbers DEF InOrder
      <3> QED
        BY <3>1, <3>3, <2>1
    <2>3. CASE UNCHANGED chat
      BY <2>3 DEF CaInv, InOrder
    <2>4. ASSUME NEW r \in Requests, AgentStep(r) \/ QueryReturns(r) PROVE CaInv'
      BY <2>1, <2>4, StepInOrder DEF KeepsOrder
    <2> QED
      BY <2>2, <2>3, <2>4 DEF CaNext, RequestStop, caVars
  <1> QED
    BY <1>1, <1>2, PTL DEF CaSpec

----------------------------------------------------------------------------
(* The records of stops: in the order they came, each once, within the     *)
(* limit.                                                                  *)
RecordsKept ==
  stopRecords \in Seq(Requests) /\ Len(stopRecords) <= HistoryMax /\ IsInjective(stopRecords)

LEMMA PartOfRecords ==
  ASSUME NEW s \in Seq(Requests), IsInjective(s), NEW m \in Nat, m >= 1, NEW n \in Nat, n <= Len(s)
  PROVE  /\ SubSeq(s, m, n) \in Seq(Requests) /\ IsInjective(SubSeq(s, m, n))
         /\ Len(SubSeq(s, m, n)) = IF m <= n THEN n - m + 1 ELSE 0
         /\ \A i \in 1 .. Len(SubSeq(s, m, n)) : SubSeq(s, m, n)[i] = s[m + i - 1]
  <1>1. Len(s) \in Nat /\ DOMAIN s = 1 .. Len(s)
    BY LenProperties
  <1>2. \A i \in m .. n : i \in 1 .. Len(s) /\ s[i] \in Requests
    BY <1>1, ElementOfSeq
  <1> DEFINE t == SubSeq(s, m, n)
  <1>3. /\ t \in Seq(Requests) /\ Len(t) = IF m <= n THEN n - m + 1 ELSE 0
        /\ \A i \in 1 .. n - m + 1 : t[i] = s[m + i - 1]
    BY <1>2, SubSeqProperties
  <1> HIDE DEF t
  <1>4. \A i \in 1 .. Len(t) : i \in 1 .. n - m + 1 /\ m + i - 1 \in 1 .. Len(s)
    BY <1>1, <1>3
  <1>5. DOMAIN t = 1 .. Len(t)
    BY <1>3, LenProperties
  <1>6. \A i, j \in DOMAIN t : t[i] = t[j] => i = j
    <2> SUFFICES ASSUME NEW i \in 1 .. Len(t), NEW j \in 1 .. Len(t), t[i] = t[j] PROVE i = j
      BY <1>5
    <2>1. s[m + i - 1] = s[m + j - 1] /\ m + i - 1 \in DOMAIN s /\ m + j - 1 \in DOMAIN s
      BY <1>1, <1>3, <1>4
    <2>2. m + i - 1 = m + j - 1
      BY <2>1 DEF IsInjective
    <2> QED
      BY <1>4, <2>2
  <1> QED
    BY <1>3, <1>4, <1>6 DEF IsInjective, t

LEMMA OneMoreRecord ==
  ASSUME RecordsKept, NEW r \in Requests, ~Stopped(r)
  PROVE  LET s == DropOldest(Append(stopRecords, r)) IN
         s \in Seq(Requests) /\ Len(s) <= HistoryMax /\ IsInjective(s)
  <1> DEFINE a == Append(stopRecords, r)
  <1>1. Len(stopRecords) \in Nat /\ DOMAIN stopRecords = 1 .. Len(stopRecords)
    BY LenProperties DEF RecordsKept
  <1>2. /\ a \in Seq(Requests) /\ Len(a) = Len(stopRecords) + 1
        /\ \A i \in 1 .. Len(stopRecords) : a[i] = stopRecords[i]
        /\ a[Len(stopRecords) + 1] = r
    BY AppendProperties DEF RecordsKept
  <1> HIDE DEF a
  <1>3. IsInjective(a)
    <2>1. DOMAIN a = 1 .. Len(a)
      BY <1>2, LenProperties
    <2>2. \A i \in 1 .. Len(stopRecords) : stopRecords[i] # r
      BY DEF Stopped, Contains
    <2> SUFFICES ASSUME NEW i \in 1 .. Len(a), NEW j \in 1 .. Len(a), a[i] = a[j] PROVE i = j
      BY <2>1 DEF IsInjective
    <2>3. CASE i = Len(stopRecords) + 1 \/ j = Len(stopRecords) + 1
      BY <1>1, <1>2, <2>2, <2>3
    <2>4. CASE i \in 1 .. Len(stopRecords) /\ j \in 1 .. Len(stopRecords)
      BY <1>1, <1>2, <2>4 DEF RecordsKept, IsInjective
    <2> QED
      BY <1>1, <1>2, <2>3, <2>4
  <1>4. CASE Len(a) > HistoryMax
    <2> DEFINE m == Len(a) - HistoryMax + 1
    <2>1. m \in Nat /\ m >= 1 /\ Len(a) \in Nat /\ Len(a) <= Len(a)
      BY <1>1, <1>2, <1>4, ChatLimits
    <2>2. DropOldest(a) = SubSeq(a, m, Len(a))
      BY <1>4 DEF DropOldest
    <2>3. (IF m <= Len(a) THEN Len(a) - m + 1 ELSE 0) <= HistoryMax
      BY <1>1, <1>2, ChatLimits
    <2> HIDE DEF m
    <2>4. /\ SubSeq(a, m, Len(a)) \in Seq(Requests) /\ IsInjective(SubSeq(a, m, Len(a)))
          /\ Len(SubSeq(a, m, Len(a))) = IF m <= Len(a) THEN Len(a) - m + 1 ELSE 0
      BY <1>2, <1>3, <2>1, PartOfRecords
    <2> QED
      BY <2>2, <2>3, <2>4 DEF a
  <1>5. CASE ~(Len(a) > HistoryMax)
    <2>1. DropOldest(a) = a /\ Len(a) <= HistoryMax
      BY <1>1, <1>2, <1>5, ChatLimits DEF DropOldest
    <2> QED
      BY <1>2, <1>3, <2>1 DEF a
  <1> QED
    BY <1>4, <1>5

LEMMA OneRecordLess ==
  ASSUME RecordsKept, NEW r \in Requests, Stopped(r)
  PROVE  LET s == Discarded(stopRecords, r) IN
         s \in Seq(Requests) /\ Len(s) <= HistoryMax /\ IsInjective(s)
  <1> DEFINE k == CHOOSE i \in DOMAIN stopRecords : stopRecords[i] = r
             n == Len(stopRecords)
             before == SubSeq(stopRecords, 1, k - 1)
             after == SubSeq(stopRecords, k + 1, n)
             s == before \o after
  <1>1. n \in Nat /\ DOMAIN stopRecords = 1 .. n /\ stopRecords \in Seq(Requests) /\ IsInjective(stopRecords)
    BY LenProperties DEF RecordsKept
  <1>2. k \in 1 .. n
    <2>1. \E i \in DOMAIN stopRecords : stopRecords[i] = r
      BY <1>1 DEF Stopped, Contains
    <2> QED
      BY <1>1, <2>1
  <1>3. Discarded(stopRecords, r) = s
    BY DEF Discarded, RemoveAt
  <1> HIDE DEF k, n
  <1>4. n = Len(stopRecords)
    BY DEF n
  <1>5. k - 1 \in Nat /\ k - 1 <= n /\ k + 1 \in Nat /\ k + 1 >= 1 /\ k \in Nat /\ n - k \in Nat
    BY <1>1, <1>2
  <1>6. /\ before \in Seq(Requests) /\ Len(before) = k - 1
        /\ \A i \in 1 .. k - 1 : before[i] = stopRecords[i]
    <2>1. /\ before \in Seq(Requests) /\ Len(before) = IF 1 <= k - 1 THEN k - 1 - 1 + 1 ELSE 0
          /\ \A i \in 1 .. Len(before) : before[i] = stopRecords[1 + i - 1]
      BY <1>1, <1>4, <1>5, PartOfRecords
    <2>2. (IF 1 <= k - 1 THEN k - 1 - 1 + 1 ELSE 0) = k - 1 /\ \A i \in 1 .. k - 1 : 1 + i - 1 = i
      BY <1>5
    <2> QED
      BY <2>1, <2>2
  <1>7. /\ after \in Seq(Requests) /\ Len(after) = n - k
        /\ \A i \in 1 .. n - k : after[i] = stopRecords[k + i]
    <2>1. /\ after \in Seq(Requests) /\ Len(after) = IF k + 1 <= n THEN n - (k + 1) + 1 ELSE 0
          /\ \A i \in 1 .. Len(after) : after[i] = stopRecords[k + 1 + i - 1]
      BY <1>1, <1>4, <1>5, PartOfRecords
    <2>2. (IF k + 1 <= n THEN n - (k + 1) + 1 ELSE 0) = n - k /\ \A i \in 1 .. n - k : k + 1 + i - 1 = k + i
      BY <1>1, <1>2, <1>5
    <2> QED
      BY <2>1, <2>2
  <1> HIDE DEF before, after
  <1>8. /\ s \in Seq(Requests) /\ Len(s) = Len(before) + Len(after)
        /\ \A i \in 1 .. Len(before) + Len(after) :
             s[i] = IF i <= Len(before) THEN before[i] ELSE after[i - Len(before)]
    BY <1>6, <1>7, ConcatProperties
  <1> HIDE DEF s
  <1>9. Len(s) = n - 1 /\ \A i \in 1 .. n - 1 : s[i] = stopRecords[IF i < k THEN i ELSE i + 1]
    <2>1. Len(s) = n - 1
      BY <1>1, <1>2, <1>5, <1>6, <1>7, <1>8
    <2>2. ASSUME NEW i \in 1 .. n - 1 PROVE s[i] = stopRecords[IF i < k THEN i ELSE i + 1]
      <3>1. CASE i < k
        <4>1. i <= k - 1 /\ i \in 1 .. k - 1 /\ i \in 1 .. Len(before) + Len(after)
          BY <1>1, <1>2, <1>6, <1>7, <3>1
        <4> QED
          BY <1>6, <1>8, <3>1, <4>1
      <3>2. CASE ~(i < k)
        <4>1. ~(i <= k - 1) /\ i - (k - 1) \in 1 .. n - k /\ k + (i - (k - 1)) = i + 1 /\ i \in 1 .. Len(before) + Len(after)
          BY <1>1, <1>2, <1>6, <1>7, <3>2
        <4>2. s[i] = after[i - (k - 1)]
          BY <1>6, <1>8, <4>1
        <4> QED
          BY <1>7, <3>2, <4>1, <4>2
      <3> QED
        BY <3>1, <3>2
    <2> QED
      BY <2>1, <2>2
  <1>10. IsInjective(s)
    <2>1. DOMAIN s = 1 .. n - 1
      BY <1>8, <1>9, LenProperties
    <2> SUFFICES ASSUME NEW i \in 1 .. n - 1, NEW j \in 1 .. n - 1, s[i] = s[j] PROVE i = j
      BY <2>1 DEF IsInjective
    <2> DEFINE p == IF i < k THEN i ELSE i + 1
               q == IF j < k THEN j ELSE j + 1
    <2>2. p \in 1 .. n /\ q \in 1 .. n /\ (p = q => i = j)
      BY <1>1, <1>2
    <2>3. stopRecords[p] = stopRecords[q]
      BY <1>9
    <2> HIDE DEF p, q
    <2> QED
      BY <1>1, <2>2, <2>3 DEF IsInjective
  <1>11. Len(s) <= HistoryMax
    BY <1>1, <1>4, <1>9, ChatLimits DEF RecordsKept
  <1> QED
    BY <1>3, <1>8, <1>10, <1>11

(* The history of stops never holds more than its limit, nor a request     *)
(* twice, in whatever order stops and replies come.                        *)
THEOREM CaTypeCorrect == CaSpec => []CaTypeOK
  <1>1. CaInit => RecordsKept
    <2> SUFFICES ASSUME CaInit PROVE RecordsKept
      OBVIOUS
    <2>1. stopRecords = <<>> /\ <<>> \in Seq(Requests) /\ Len(<<>>) = 0 /\ DOMAIN <<>> = {}
      BY EmptySeq DEF CaInit
    <2> QED
      BY <2>1, ChatLimits DEF RecordsKept, IsInjective
  <1>2. RecordsKept /\ [CaNext]_caVars => RecordsKept'
    <2> SUFFICES ASSUME RecordsKept, CaNext, stopRecords' # stopRecords PROVE RecordsKept'
      BY DEF caVars, RecordsKept
    <2>1. PICK r \in Requests : RequestStop(r) \/ Finish(r)
      BY DEF CaNext
    <2>2. CASE RequestStop(r)
      BY <2>2, OneMoreRecord DEF RequestStop, RecordsKept
    <2>3. CASE Finish(r)
      <3>1. Stopped(r) /\ stopRecords' = Discarded(stopRecords, r)
        BY <2>3 DEF Finish
      <3> QED
        BY <3>1, OneRecordLess DEF RecordsKept
    <2> QED
      BY <2>1, <2>2, <2>3
  <1>3. CaInv /\ RecordsKept => CaTypeOK
    BY DEF CaInv, RecordsKept, CaTypeOK
  <1> QED
    BY <1>1, <1>2, <1>3, CaInvariance, PTL DEF CaSpec

(* The agent stays within its budget in a conversation the API accepts,    *)
(* lists what it sent, and does nothing more once it is stopped.           *)
THEOREM ChatKeepsPromise == CaSpec => ChatPromise
  <1> DEFINE Final ==
        \A r \in Requests : Stopped(r) =>
          /\ chat'[r].modelCalls = chat[r].modelCalls
          /\ chat'[r].sent = chat[r].sent
          /\ chat'[r].result = "answer" => chat[r].result = "answer"
  <1>1. CaInv => SentIsListed /\ EveryCallIsReplied /\ WithinBudget
    <2> SUFFICES ASSUME CaInv, NEW r \in Requests
                 PROVE  /\ chat[r].recorded = chat[r].sent - (IF chat[r].stage = "query" THEN 1 ELSE 0)
                        /\ chat[r].stage \in {"round", "model", "retried"} => chat[r].open = 0
                        /\ chat[r].sent <= MaxCalls /\ chat[r].modelCalls <= 2 * MaxRounds + 1
      BY DEF SentIsListed, EveryCallIsReplied, WithinBudget
    <2> DEFINE c == chat[r]
    <2>1. InOrder(c)
      BY DEF CaInv
    <2> HIDE DEF c
    <2>2. /\ c.recorded = c.sent - (IF c.stage = "query" THEN 1 ELSE 0)
          /\ c.stage \in {"round", "model", "retried"} => c.open = 0
          /\ c.sent <= MaxCalls /\ c.modelCalls <= 2 * MaxRounds + 1
      BY <2>1, Numbers DEF InOrder
    <2> QED
      BY <2>2 DEF c
  <1>2. CaInv /\ [CaNext]_caVars => [Final]_caVars
    <2> SUFFICES ASSUME CaInv, CaNext, NEW q \in Requests, Stopped(q)
                 PROVE  /\ chat'[q].modelCalls = chat[q].modelCalls
                        /\ chat'[q].sent = chat[q].sent
                        /\ chat'[q].result = "answer" => chat[q].result = "answer"
      OBVIOUS
    <2> DEFINE c == chat[q]
    <2>1. c \in ChatStates /\ InOrder(c)
      BY DEF CaInv, InOrder
    <2>2. \/ chat'[q] = c \/ chat'[q] = Moved(c, "done")
          \/ chat'[q] = Ended(c, "cancelled") \/ chat'[q] = Ended(c, "error")
          \/ chat'[q] = Ended(ListQuery(c), "cancelled")
          \/ c.stage = "tools" /\ chat'[q] = Replied(c)
      <3>1. PICK r \in Requests : RequestStop(r) \/ Finish(r) \/ AgentStep(r) \/ QueryReturns(r)
        BY DEF CaNext
      <3>2. CASE r # q \/ RequestStop(r)
        <4>1. ASSUME r # q, NEW new, Becomes(r, new) PROVE chat'[q] = chat[q]
          BY <4>1 DEF Becomes, CaInv
        <4>2. RequestStop(r) \/ \E new : Becomes(r, new)
          BY <3>1, StepInOrder DEF Finish, KeepsOrder
        <4> QED
          BY <3>2, <4>1, <4>2 DEF RequestStop
      <3>3. ASSUME NEW new, Becomes(q, new) PROVE chat'[q] = new
        BY <3>3 DEF Becomes, CaInv
      <3>4. ASSUME NEW new, ProceedUnlessStopped(q, new) PROVE chat'[q] = Ended(c, "cancelled")
        BY <3>3, <3>4 DEF ProceedUnlessStopped
      <3>5. CASE Finish(q)
        BY <3>3, <3>5 DEF Finish
      <3>6. CASE Enter(q) \/ CallModel(q) \/ ResendWithoutEffort(q) \/ PoolReturns(q)
        BY <3>4, <3>6 DEF Enter, CallModel, ResendWithoutEffort, ResendUnlessStopped, PoolReturns
      <3>7. CASE ResolveContext(q) \/ ModelFails(q)
        BY <3>3, <3>4, <3>7 DEF ResolveContext, ModelFails
      <3>8. CASE ModelAnswers(q)
        BY <3>4, <3>8 DEF ModelAnswers, AnswerUnlessStopped
      <3>9. CASE NextToolCall(q)
        BY <3>3, <3>4, <3>9 DEF NextToolCall, RefuseCall
      <3>10. CASE StopQuery(q) \/ QueryReturns(q)
        BY <3>3, <3>10 DEF StopQuery, QueryReturns
      <3> QED
        BY <3>1, <3>2, <3>5, <3>6, <3>7, <3>8, <3>9, <3>10 DEF AgentStep
    <2> DEFINE new == chat'[q]
    <2>3. \/ new = c \/ new = Moved(c, "done") \/ new = Ended(c, "cancelled") \/ new = Ended(c, "error")
          \/ new = Ended(ListQuery(c), "cancelled") \/ (c.stage = "tools" /\ new = Replied(c))
      BY <2>2
    <2>4. c.stage = "tools" => c.open > 0
      BY <2>1 DEF InOrder
    <2>5. ListQuery(c) \in ChatStates /\ "done" \in Stages
      BY <2>1, ListedFields DEF Stages
    <2> HIDE DEF c, new
    <2>6. /\ new.modelCalls = c.modelCalls /\ new.sent = c.sent
          /\ new.result = "answer" => c.result = "answer"
      BY <2>1, <2>3, <2>4, <2>5, MovedFields, EndedFields, ListedFields, RepliedFields
    <2> QED
      BY <2>6 DEF c, new
  <1> QED
    BY <1>1, <1>2, CaInvariance, PTL DEF CaSpec, ChatPromise, StopIsFinal

HIDE ChatLimits DEF InOrder, CallsInOrder, StatementsInOrder, RoundsInOrder

----------------------------------------------------------------------------
(***************************************************************************)
(* Dump                                                                    *)
(***************************************************************************)

USE DumpsAssumption

----------------------------------------------------------------------------
(* The parts of the inductive invariant. *)

(* What a dump holds where: nothing before it is made, nothing after it is *)
(* over; and how it ends is only said at the end.                          *)
HeldByStage ==
  \A d \in Dumps :
    /\ dump[d].stage \notin {"over", "done"} => dump[d].result = "none"
    /\ dump[d].stage \in {"new", "checks", "helper", "tunnel", "over", "done"} => d \notin tunnels
    /\ dump[d].stage \in {"new", "checks", "helper", "tunnel", "files", "over", "done"} =>
         d \notin partials \cup optionFiles \cup children

(* A dump is only moved when its tool wrote all of it.                     *)
MovedIsWhole ==
  /\ OutputIsWhole
  /\ \A d \in Dumps : dump[d].stage = "exited" => d \in whole

DuInv == DuTypeOK /\ HeldByStage /\ CancelFindsItsDump /\ MovedIsWhole

----------------------------------------------------------------------------
(* How a dump goes on and how it leaves.                                   *)
LEMMA GotoTyped ==
  ASSUME DuTypeOK, NEW d \in Dumps, NEW s \in DuStages, DuGoto(d, s)
  PROVE  /\ dump' \in [Dumps -> DumpStates]
         /\ dump'[d].stage = s /\ dump'[d].result = dump[d].result
         /\ \A e \in Dumps \ {d} : dump'[e] = dump[e]
  <1>1. [dump[d] EXCEPT !.stage = s] \in DumpStates
    BY DEF DuTypeOK, DumpStates
  <1>2. [dump[d] EXCEPT !.stage = s].stage = s /\ [dump[d] EXCEPT !.stage = s].result = dump[d].result
    BY DEF DuTypeOK, DumpStates
  <1> QED
    BY <1>1, <1>2 DEF DuTypeOK, DuGoto

LEMMA LeaveTyped ==
  ASSUME DuTypeOK, NEW d \in Dumps, NEW how \in {"ok", "error", "cancelled"}, Leave(d, how)
  PROVE  /\ dump' \in [Dumps -> DumpStates]
         /\ dump'[d].stage = "over" /\ dump'[d].result = how
         /\ \A e \in Dumps \ {d} : dump'[e] = dump[e]
         /\ partials' = partials \ {d} /\ optionFiles' = optionFiles \ {d}
         /\ tunnels' = tunnels \ {d} /\ children' = children \ {d}
  BY DEF DuTypeOK, DumpStates, DuStages, Leave, DropFiles

LEMMA RefusedTyped ==
  ASSUME DuTypeOK, NEW d \in Dumps,
         dump' = [dump EXCEPT ![d] = [stage |-> "done", result |-> "refused"]]
  PROVE  /\ dump' \in [Dumps -> DumpStates]
         /\ dump'[d].stage = "done"
         /\ \A e \in Dumps \ {d} : dump'[e] = dump[e]
  BY DEF DuTypeOK, DumpStates, DuStages

(* The state of dumps keeps its types.                                     *)
LEMMA DuTypeStep == DuTypeOK /\ [DuNext]_duVars => DuTypeOK'
  <1> SUFFICES ASSUME DuTypeOK, [DuNext]_duVars PROVE DuTypeOK'
    OBVIOUS
  <1> USE DEF DuTypeOK, DuStages
  <1> USE GotoTyped, LeaveTyped, RefusedTyped
  <1>1. ASSUME NEW d \in Dumps, StartDump(d) \/ ToolExits(d) \/ DumpStep(d) PROVE DuTypeOK'
    <2>1. CASE StartDump(d)
      BY <2>1 DEF StartDump, DuAt
    <2>2. CASE ToolExits(d)
      BY <2>2 DEF ToolExits, DuAt
    <2>3. CASE Unregister(d)
      BY <2>3 DEF Unregister, DuAt
    <2>4. CASE CheckRequest(d)
      BY <2>4 DEF CheckRequest, DuAt
    <2>5. CASE RunHelper(d)
      BY <2>5 DEF RunHelper, DuAt
    <2>6. CASE OpenTunnel(d)
      BY <2>6 DEF OpenTunnel, DuAt
    <2>7. CASE SpawnTool(d)
      BY <2>7 DEF SpawnTool, DuAt
    <2>8. CASE WaitForTool(d)
      BY <2>8 DEF WaitForTool, DuAt, Succeeded
    <2>9. CASE SeeCancel(d)
      BY <2>9 DEF SeeCancel, DuAt
    <2>10. CASE MoveIntoPlace(d)
      <3>1. [of |-> d, whole |-> d \in whole] \in [of : Dumps \cup {OldFile}, whole : BOOLEAN]
        OBVIOUS
      <3>2. outputFile' \in [of : Dumps \cup {OldFile}, whole : BOOLEAN]
        BY <2>10, <3>1 DEF MoveIntoPlace, RenameFails
      <3>3. PICK how \in {"ok", "error"} : Leave(d, how)
        BY <2>10 DEF MoveIntoPlace
      <3> QED
        BY <2>10, <3>2, <3>3 DEF MoveIntoPlace
    <2> QED
      BY <1>1, <2>1, <2>2, <2>3, <2>4, <2>5, <2>6, <2>7, <2>8, <2>9, <2>10 DEF DumpStep
  <1>2. ASSUME NEW i \in DumpIds, CancelDump(i) PROVE DuTypeOK'
    BY <1>2 DEF CancelDump
  <1>3. CASE ApplicationDies
    BY <1>3 DEF ApplicationDies
  <1>4. CASE UNCHANGED duVars
    BY <1>4 DEF duVars
  <1> QED
    BY <1>1, <1>2, <1>3, <1>4 DEF DuNext

(* Every way out of run_dump drops what it holds.                          *)
LEMMA HeldByStageStep == DuTypeOK /\ HeldByStage /\ [DuNext]_duVars => HeldByStage'
  <1> SUFFICES ASSUME DuTypeOK /\ HeldByStage, [DuNext]_duVars PROVE HeldByStage'
    OBVIOUS
  <1> USE DEF DuTypeOK, HeldByStage, DuStages
  <1> USE GotoTyped, LeaveTyped, RefusedTyped
  <1>1. ASSUME NEW d \in Dumps, StartDump(d) \/ ToolExits(d) \/ DumpStep(d) PROVE HeldByStage'
    <2>1. CASE StartDump(d)
      BY <2>1 DEF StartDump, DuAt
    <2>2. CASE ToolExits(d)
      BY <2>2 DEF ToolExits, DuAt
    <2>3. CASE Unregister(d)
      BY <2>3 DEF Unregister, DuAt
    <2>4. CASE CheckRequest(d)
      BY <2>4 DEF CheckRequest, DuAt
    <2>5. CASE RunHelper(d)
      BY <2>5 DEF RunHelper, DuAt
    <2>6. CASE OpenTunnel(d)
      BY <2>6 DEF OpenTunnel, DuAt
    <2>7. CASE SpawnTool(d)
      BY <2>7 DEF SpawnTool, DuAt
    <2>8. CASE WaitForTool(d)
      BY <2>8 DEF WaitForTool, DuAt, Succeeded
    <2>9. CASE SeeCancel(d)
      BY <2>9 DEF SeeCancel, DuAt
    <2>10. CASE MoveIntoPlace(d)
      BY <2>10 DEF MoveIntoPlace, DuAt, RenameFails
    <2> QED
      BY <1>1, <2>1, <2>2, <2>3, <2>4, <2>5, <2>6, <2>7, <2>8, <2>9, <2>10 DEF DumpStep
  <1>2. ASSUME NEW i \in DumpIds, CancelDump(i) PROVE HeldByStage'
    BY <1>2 DEF CancelDump
  <1>3. CASE ApplicationDies
    BY <1>3 DEF ApplicationDies
  <1>4. CASE UNCHANGED duVars
    BY <1>4 DEF duVars
  <1> QED
    BY <1>1, <1>2, <1>3, <1>4 DEF DuNext

(* An ID in use is not given away.                                         *)
LEMMA CancelFindsStep ==
  DuTypeOK /\ CancelFindsItsDump /\ [DuNext]_duVars => CancelFindsItsDump'
  <1> SUFFICES ASSUME DuTypeOK /\ CancelFindsItsDump, [DuNext]_duVars PROVE CancelFindsItsDump'
    OBVIOUS
  <1> USE DEF DuTypeOK, CancelFindsItsDump, DuStages
  <1> USE GotoTyped, LeaveTyped, RefusedTyped
  <1>1. ASSUME NEW d \in Dumps, StartDump(d) \/ ToolExits(d) \/ DumpStep(d) PROVE CancelFindsItsDump'
    <2>1. CASE StartDump(d)
      BY <2>1 DEF StartDump, DuAt
    <2>2. CASE ToolExits(d)
      BY <2>2 DEF ToolExits, DuAt
    <2>3. CASE Unregister(d)
      BY <2>3 DEF Unregister, DuAt
    <2>4. CASE CheckRequest(d)
      BY <2>4 DEF CheckRequest, DuAt
    <2>5. CASE RunHelper(d)
      BY <2>5 DEF RunHelper, DuAt
    <2>6. CASE OpenTunnel(d)
      BY <2>6 DEF OpenTunnel, DuAt
    <2>7. CASE SpawnTool(d)
      BY <2>7 DEF SpawnTool, DuAt
    <2>8. CASE WaitForTool(d)
      BY <2>8 DEF WaitForTool, DuAt, Succeeded
    <2>9. CASE SeeCancel(d)
      BY <2>9 DEF SeeCancel, DuAt
    <2>10. CASE MoveIntoPlace(d)
      BY <2>10 DEF MoveIntoPlace, DuAt, RenameFails
    <2> QED
      BY <1>1, <2>1, <2>2, <2>3, <2>4, <2>5, <2>6, <2>7, <2>8, <2>9, <2>10 DEF DumpStep
  <1>2. ASSUME NEW i \in DumpIds, CancelDump(i) PROVE CancelFindsItsDump'
    BY <1>2 DEF CancelDump
  <1>3. CASE ApplicationDies
    BY <1>3 DEF ApplicationDies
  <1>4. CASE UNCHANGED duVars
    BY <1>4 DEF duVars
  <1> QED
    BY <1>1, <1>2, <1>3, <1>4 DEF DuNext

(* A tool that failed never gets its file moved.                           *)
LEMMA MovedIsWholeStep == DuTypeOK /\ MovedIsWhole /\ [DuNext]_duVars => MovedIsWhole'
  <1> SUFFICES ASSUME DuTypeOK /\ MovedIsWhole, [DuNext]_duVars PROVE MovedIsWhole'
    OBVIOUS
  <1> USE DEF DuTypeOK, MovedIsWhole, OutputIsWhole, DuStages
  <1> USE GotoTyped, LeaveTyped, RefusedTyped
  <1>1. ASSUME NEW d \in Dumps, StartDump(d) \/ ToolExits(d) \/ DumpStep(d) PROVE MovedIsWhole'
    <2>1. CASE StartDump(d)
      BY <2>1 DEF StartDump, DuAt
    <2>2. CASE ToolExits(d)
      BY <2>2 DEF ToolExits, DuAt
    <2>3. CASE Unregister(d)
      BY <2>3 DEF Unregister, DuAt
    <2>4. CASE CheckRequest(d)
      BY <2>4 DEF CheckRequest, DuAt
    <2>5. CASE RunHelper(d)
      BY <2>5 DEF RunHelper, DuAt
    <2>6. CASE OpenTunnel(d)
      BY <2>6 DEF OpenTunnel, DuAt
    <2>7. CASE SpawnTool(d)
      BY <2>7 DEF SpawnTool, DuAt
    <2>8. CASE WaitForTool(d)
      BY <2>8 DEF WaitForTool, DuAt, Succeeded
    <2>9. CASE SeeCancel(d)
      BY <2>9 DEF SeeCancel, DuAt
    <2>10. CASE MoveIntoPlace(d)
      BY <2>10 DEF MoveIntoPlace, DuAt, RenameFails
    <2> QED
      BY <1>1, <2>1, <2>2, <2>3, <2>4, <2>5, <2>6, <2>7, <2>8, <2>9, <2>10 DEF DumpStep
  <1>2. ASSUME NEW i \in DumpIds, CancelDump(i) PROVE MovedIsWhole'
    BY <1>2 DEF CancelDump
  <1>3. CASE ApplicationDies
    BY <1>3 DEF ApplicationDies
  <1>4. CASE UNCHANGED duVars
    BY <1>4 DEF duVars
  <1> QED
    BY <1>1, <1>2, <1>3, <1>4 DEF DuNext

----------------------------------------------------------------------------
LEMMA DuInvariance == DuSpec => []DuInv
  <1>1. DuInit => DuInv
    BY DEF DuInit, DuInv, DuTypeOK, DumpStates, DuStages, HeldByStage, CancelFindsItsDump, MovedIsWhole,
           OutputIsWhole
  <1>2. DuInv /\ [DuNext]_duVars => DuInv'
    BY DuTypeStep, HeldByStageStep, CancelFindsStep, MovedIsWholeStep DEF DuInv
  <1> QED
    BY <1>1, <1>2, PTL DEF DuSpec

(* Whatever fails, is cancelled or dies, and however many dumps go to one  *)
(* path: it always holds a whole file, a dump that is over leaves nothing  *)
(* behind, a cancel finds its dump, and only a success replaces the file.  *)
THEOREM DumpKeepsPromise == DuSpec => DumpPromise
  <1> DEFINE Replaces ==
        outputFile' # outputFile =>
          /\ outputFile'.of \in Dumps
          /\ dump'[outputFile'.of].result = "ok" /\ dump[outputFile'.of].result = "none"
  <1>1. DuInv => OutputIsWhole /\ NothingLeftBehind /\ CancelFindsItsDump
    BY DEF DuInv, MovedIsWhole, HeldByStage, NothingLeftBehind
  <1>2. DuInv /\ [DuNext]_duVars => [Replaces]_duVars
    <2> SUFFICES ASSUME DuInv, DuNext, outputFile' # outputFile PROVE Replaces
      BY DEF duVars
    <2>1. PICK d \in Dumps : MoveIntoPlace(d)
      BY DEF DuNext, DumpStep, StartDump, ToolExits, Unregister, CheckRequest, RunHelper, OpenTunnel,
             SpawnTool, WaitForTool, SeeCancel, CancelDump, ApplicationDies
    <2>2. Leave(d, "ok") /\ outputFile' = [of |-> d, whole |-> d \in whole]
      BY <2>1 DEF MoveIntoPlace, RenameFails
    <2>3. dump[d].result = "none"
      BY <2>1 DEF MoveIntoPlace, DuAt, DuInv, HeldByStage
    <2> QED
      BY <2>2, <2>3, LeaveTyped DEF DuInv
  <1> QED
    BY <1>1, <1>2, DuInvariance, PTL DEF DuSpec, DumpPromise, OnlySuccessReplaces

HIDE DumpsAssumption

----------------------------------------------------------------------------
(***************************************************************************)
(* Launch                                                                  *)
(***************************************************************************)

(* One process has the window; its own route is on its way to the page     *)
(* until the page is ready, the others' arrive after it is there.          *)
RoutesOnTheirWay ==
  /\ \A l \in Launches : process[l] = "window" <=> instance = l
  /\ \A l \in Launches : process[l] \in {"forwarded", "resolved", "told"} => instance # NoLaunch
  /\ page # "loading" => instance # NoLaunch
  /\ page \in {"loading", "listening"} =>
       /\ taken = NoLaunch
       /\ launchRoute = IF instance # NoLaunch /\ HasRoute(instance) THEN instance ELSE NoLaunch
  /\ page = "taking" =>
       launchRoute = NoLaunch /\ taken = IF HasRoute(instance) THEN instance ELSE NoLaunch
  /\ page = "ready" => launchRoute = NoLaunch /\ taken = NoLaunch

(* The page has heard of a launch, or the queue holds it, never both.      *)
HeardOrQueued ==
  /\ live.ready <=> page = "ready"
  /\ live.ready => live.pending = {}
  /\ \A l \in live.pending : process[l] = "told" /\ shown[l] = 0
  /\ \A l \in Launches :
       /\ shown[l] \in {0, 1}
       /\ process[l] \in {"resolved", "told"} => outcome[l] # "none"
       /\ shown[l] = 1 =>
            /\ outcome[l] # "none"
            /\ process[l] = "told" \/ (instance = l /\ page = "ready")
       /\ process[l] = "told" => shown[l] = 1 \/ l \in live.pending
       /\ instance = l /\ HasRoute(l) /\ page = "ready" => shown[l] = 1

(* Who got past its write has written, and what was written is still there *)
(* when it is resolved.                                                    *)
PastTheWrite ==
  \A l \in Launches :
    /\ Writing(l) /\ process[l] \notin {"new", "failed"} => l \in written /\ file # Absent
    /\ outcome[l] # "none" => process[l] \notin {"new", "preflight", "failed"}
    /\ Writing(l) => outcome[l] # "error"

(* A process merges its config in its write, or the one with the window at *)
(* the first route it resolves.                                            *)
MergedOnce ==
  /\ \A l \in Launches :
       /\ overrideRuns[l] \in {0, 1}
       /\ process[l] = "new" => overrideRuns[l] = 0
       /\ process[l] = "preflight" /\ ~Writing(l) => overrideRuns[l] = 0
  /\ instance # NoLaunch /\ ~cached => overrideRuns[instance] = 0

LaInv == LaTypeOK /\ RoutesOnTheirWay /\ HeardOrQueued /\ PastTheWrite /\ MergedOnce

----------------------------------------------------------------------------
(* Every step keeps the types. *)
LEMMA LaTypeStep == LaTypeOK /\ RoutesOnTheirWay /\ [LaNext]_laVars => LaTypeOK'
  <1> SUFFICES ASSUME LaTypeOK /\ RoutesOnTheirWay, [LaNext]_laVars PROVE LaTypeOK'
    OBVIOUS
  <1> USE LaunchAssumption DEF LaTypeOK, RoutesOnTheirWay, Commands
  <1>1. ASSUME NEW l \in Launches, Preflight(l) PROVE LaTypeOK'
    BY <1>1 DEF Preflight, Become, Writing, HasRoute, HasContent, AfterFailedWrite
  <1>2. ASSUME NEW l \in Launches, ShowWindow(l) PROVE LaTypeOK'
    BY <1>2 DEF ShowWindow, Become, HasRoute, ConfigOfWrite, Writing
  <1>3. ASSUME NEW l \in Launches, HandOver(l) PROVE LaTypeOK'
    BY <1>3 DEF HandOver, Become, HasRoute, Writing
  <1>4. ASSUME NEW l \in Launches, DispatchRoute(l) PROVE LaTypeOK'
    BY <1>4 DEF DispatchRoute, Resolve, Become, HasRoute, Writing
  <1>5. ASSUME NEW l \in Launches, DeliverRoute(l) PROVE LaTypeOK'
    BY <1>5 DEF DeliverRoute, Become, Heard, EmitNow, HasRoute, Writing
  <1>6. CASE Listen
    BY <1>6 DEF Listen, HasRoute, Writing
  <1>7. CASE TakeLaunchRoute
    BY <1>7 DEF TakeLaunchRoute, HasRoute, Writing
  <1>8. CASE AnswerReady
    <2>1. shown' \in [Launches -> Nat]
      BY <1>8 DEF AnswerReady
    <2>2. outcome' \in [Launches -> {"none", "target", "error"}] /\ overrideRuns' \in [Launches -> Nat]
      BY <1>8 DEF AnswerReady, Resolve
    <2>3. live' \in [ready : BOOLEAN, pending : SUBSET Launches] /\ cached' \in BOOLEAN
      BY <1>8 DEF AnswerReady, Resolve, NowReady
    <2> QED
      BY <1>8, <2>1, <2>2, <2>3 DEF AnswerReady
  <1>9. CASE UNCHANGED laVars
    BY <1>9 DEF laVars, HasRoute, Writing
  <1> QED
    BY <1>1, <1>2, <1>3, <1>4, <1>5, <1>6, <1>7, <1>8, <1>9 DEF LaNext, LaStep

(* The window's own route. *)
LEMMA RoutesStep == LaTypeOK /\ RoutesOnTheirWay /\ [LaNext]_laVars => RoutesOnTheirWay'
  <1> SUFFICES ASSUME LaTypeOK /\ RoutesOnTheirWay, [LaNext]_laVars PROVE RoutesOnTheirWay'
    OBVIOUS
  <1> USE LaunchAssumption DEF LaTypeOK, RoutesOnTheirWay, Commands
  <1>1. ASSUME NEW l \in Launches, Preflight(l) PROVE RoutesOnTheirWay'
    BY <1>1 DEF Preflight, Become, Writing, HasRoute, HasContent, AfterFailedWrite
  <1>2. ASSUME NEW l \in Launches, ShowWindow(l) PROVE RoutesOnTheirWay'
    BY <1>2 DEF ShowWindow, Become, HasRoute, ConfigOfWrite, Writing
  <1>3. ASSUME NEW l \in Launches, HandOver(l) PROVE RoutesOnTheirWay'
    BY <1>3 DEF HandOver, Become, HasRoute, Writing
  <1>4. ASSUME NEW l \in Launches, DispatchRoute(l) PROVE RoutesOnTheirWay'
    BY <1>4 DEF DispatchRoute, Resolve, Become, HasRoute, Writing
  <1>5. ASSUME NEW l \in Launches, DeliverRoute(l) PROVE RoutesOnTheirWay'
    BY <1>5 DEF DeliverRoute, Become, Heard, EmitNow, HasRoute, Writing
  <1>6. CASE Listen
    BY <1>6 DEF Listen, HasRoute, Writing
  <1>7. CASE TakeLaunchRoute
    BY <1>7 DEF TakeLaunchRoute, HasRoute, Writing
  <1>8. CASE AnswerReady
    BY <1>8 DEF AnswerReady, Resolve, NowReady, HasRoute, Writing
  <1>9. CASE UNCHANGED laVars
    BY <1>9 DEF laVars, HasRoute, Writing
  <1> QED
    BY <1>1, <1>2, <1>3, <1>4, <1>5, <1>6, <1>7, <1>8, <1>9 DEF LaNext, LaStep

(* The queue and the page. *)
LEMMA HeardStep == LaTypeOK /\ RoutesOnTheirWay /\ HeardOrQueued /\ [LaNext]_laVars => HeardOrQueued'
  <1> SUFFICES ASSUME LaTypeOK /\ RoutesOnTheirWay /\ HeardOrQueued, [LaNext]_laVars PROVE HeardOrQueued'
    OBVIOUS
  <1> USE LaunchAssumption DEF LaTypeOK, RoutesOnTheirWay, HeardOrQueued, Commands
  <1>1. ASSUME NEW l \in Launches, Preflight(l) PROVE HeardOrQueued'
    BY <1>1 DEF Preflight, Become, Writing, HasRoute, HasContent, AfterFailedWrite
  <1>2. ASSUME NEW l \in Launches, ShowWindow(l) PROVE HeardOrQueued'
    BY <1>2 DEF ShowWindow, Become, HasRoute, ConfigOfWrite, Writing
  <1>3. ASSUME NEW l \in Launches, HandOver(l) PROVE HeardOrQueued'
    BY <1>3 DEF HandOver, Become, HasRoute, Writing
  <1>4. ASSUME NEW l \in Launches, DispatchRoute(l) PROVE HeardOrQueued'
    BY <1>4 DEF DispatchRoute, Resolve, Become, HasRoute, Writing
  <1>5. ASSUME NEW l \in Launches, DeliverRoute(l) PROVE HeardOrQueued'
    BY <1>5 DEF DeliverRoute, Become, Heard, EmitNow, HasRoute, Writing
  <1>6. CASE Listen
    BY <1>6 DEF Listen, HasRoute, Writing
  <1>7. CASE TakeLaunchRoute
    BY <1>7 DEF TakeLaunchRoute, HasRoute, Writing
  <1>8. CASE AnswerReady
    BY <1>8 DEF AnswerReady, Resolve, NowReady, HasRoute, Writing
  <1>9. CASE UNCHANGED laVars
    BY <1>9 DEF laVars, HasRoute, Writing
  <1> QED
    BY <1>1, <1>2, <1>3, <1>4, <1>5, <1>6, <1>7, <1>8, <1>9 DEF LaNext, LaStep

(* A written file stays. *)
LEMMA WrittenStep == LaTypeOK /\ RoutesOnTheirWay /\ PastTheWrite /\ [LaNext]_laVars => PastTheWrite'
  <1> SUFFICES ASSUME LaTypeOK /\ RoutesOnTheirWay /\ PastTheWrite, [LaNext]_laVars PROVE PastTheWrite'
    OBVIOUS
  <1> USE LaunchAssumption DEF LaTypeOK, RoutesOnTheirWay, PastTheWrite, Commands
  <1>1. ASSUME NEW l \in Launches, Preflight(l) PROVE PastTheWrite'
    BY <1>1 DEF Preflight, Become, Writing, HasRoute, HasContent, AfterFailedWrite
  <1>2. ASSUME NEW l \in Launches, ShowWindow(l) PROVE PastTheWrite'
    BY <1>2 DEF ShowWindow, Become, HasRoute, ConfigOfWrite, Writing
  <1>3. ASSUME NEW l \in Launches, HandOver(l) PROVE PastTheWrite'
    BY <1>3 DEF HandOver, Become, HasRoute, Writing
  <1>4. ASSUME NEW l \in Launches, DispatchRoute(l) PROVE PastTheWrite'
    BY <1>4 DEF DispatchRoute, Resolve, Become, HasRoute, Writing
  <1>5. ASSUME NEW l \in Launches, DeliverRoute(l) PROVE PastTheWrite'
    BY <1>5 DEF DeliverRoute, Become, Heard, EmitNow, HasRoute, Writing
  <1>6. CASE Listen
    BY <1>6 DEF Listen, HasRoute, Writing
  <1>7. CASE TakeLaunchRoute
    BY <1>7 DEF TakeLaunchRoute, HasRoute, Writing
  <1>8. CASE AnswerReady
    BY <1>8 DEF AnswerReady, Resolve, NowReady, HasRoute, Writing
  <1>9. CASE UNCHANGED laVars
    BY <1>9 DEF laVars, HasRoute, Writing
  <1> QED
    BY <1>1, <1>2, <1>3, <1>4, <1>5, <1>6, <1>7, <1>8, <1>9 DEF LaNext, LaStep

(* The config of a process is merged once. *)
LEMMA MergedStep == LaTypeOK /\ RoutesOnTheirWay /\ MergedOnce /\ [LaNext]_laVars => MergedOnce'
  <1> SUFFICES ASSUME LaTypeOK /\ RoutesOnTheirWay /\ MergedOnce, [LaNext]_laVars PROVE MergedOnce'
    OBVIOUS
  <1> USE LaunchAssumption DEF LaTypeOK, RoutesOnTheirWay, MergedOnce, Commands
  <1>1. ASSUME NEW l \in Launches, Preflight(l) PROVE MergedOnce'
    BY <1>1 DEF Preflight, Become, Writing, HasRoute, HasContent, AfterFailedWrite
  <1>2. ASSUME NEW l \in Launches, ShowWindow(l) PROVE MergedOnce'
    BY <1>2 DEF ShowWindow, Become, HasRoute, ConfigOfWrite, Writing
  <1>3. ASSUME NEW l \in Launches, HandOver(l) PROVE MergedOnce'
    BY <1>3 DEF HandOver, Become, HasRoute, Writing
  <1>4. ASSUME NEW l \in Launches, DispatchRoute(l) PROVE MergedOnce'
    BY <1>4 DEF DispatchRoute, Resolve, Become, HasRoute, Writing
  <1>5. ASSUME NEW l \in Launches, DeliverRoute(l) PROVE MergedOnce'
    BY <1>5 DEF DeliverRoute, Become, Heard, EmitNow, HasRoute, Writing
  <1>6. CASE Listen
    BY <1>6 DEF Listen, HasRoute, Writing
  <1>7. CASE TakeLaunchRoute
    BY <1>7 DEF TakeLaunchRoute, HasRoute, Writing
  <1>8. CASE AnswerReady
    BY <1>8 DEF AnswerReady, Resolve, NowReady, HasRoute, Writing
  <1>9. CASE UNCHANGED laVars
    BY <1>9 DEF laVars, HasRoute, Writing
  <1> QED
    BY <1>1, <1>2, <1>3, <1>4, <1>5, <1>6, <1>7, <1>8, <1>9 DEF LaNext, LaStep

(* The invariant of Launch. *)
THEOREM LaInvariance == LaSpec => []LaInv
  <1>1. LaInit => LaInv
    <2> SUFFICES ASSUME LaInit PROVE LaInv
      OBVIOUS
    <2>1. LaTypeOK
      BY DEF LaInit, LaTypeOK
    <2>2. RoutesOnTheirWay /\ PastTheWrite /\ MergedOnce
      BY LaunchAssumption DEF LaInit, RoutesOnTheirWay, PastTheWrite, MergedOnce
    <2>3. HeardOrQueued
      BY LaunchAssumption DEF LaInit, HeardOrQueued
    <2> QED
      BY <2>1, <2>2, <2>3 DEF LaInv
  <1>2. LaInv /\ [LaNext]_laVars => LaInv'
    BY LaTypeStep, RoutesStep, HeardStep, WrittenStep, MergedStep DEF LaInv
  <1> QED
    BY <1>1, <1>2, PTL DEF LaSpec

(* Whichever comes first of the page and the launches: each is shown once, *)
(* with its outcome, none that was written is shown as a failure, no text  *)
(* is clobbered by a write without one, and the override command runs once *)
(* for each process.                                                       *)
THEOREM LaunchKeepsPromise == LaSpec => LaunchPromise
  <1> DEFINE Replaces ==
        \A l \in Launches : file' # file /\ file # Absent => file' \in Launches /\ command[file'] = "writeText"
  <1>1. LaInv => ShownOnce /\ NothingIsMissed
    BY DEF LaInv, LaTypeOK, RoutesOnTheirWay, HeardOrQueued, ShownOnce, NothingIsMissed
  <1>2. LaInv => OnlyWrittenIsShown /\ OneOverrideRun
    BY DEF LaInv, LaTypeOK, RoutesOnTheirWay, HeardOrQueued, PastTheWrite, MergedOnce, OnlyWrittenIsShown, OneOverrideRun
  <1>3. LaInv /\ [LaNext]_laVars => [Replaces]_laVars
    <2> SUFFICES ASSUME LaInv, LaNext, file' # file, file # Absent
                 PROVE  file' \in Launches /\ command[file'] = "writeText"
      OBVIOUS
    <2>1. PICK l \in Launches : Preflight(l)
      BY DEF LaNext, LaStep, Listen, TakeLaunchRoute, AnswerReady, HandOver, DispatchRoute, DeliverRoute, ShowWindow
    <2> QED
      BY <2>1 DEF Preflight, HasContent
  <1> QED
    BY <1>1, <1>2, <1>3, LaInvariance, PTL DEF LaSpec, LaunchPromise, OnlyTextReplaces

=============================================================================
