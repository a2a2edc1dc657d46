---------------------------- MODULE MssqlSession ----------------------------
(***************************************************************************)
(* The SQL Server engine (engines/mssql.rs): one connection for what the   *)
(* user runs, in a slot behind a lock, and a connection of its own for     *)
(* each statement of the chat agent.  What a statement leaves in its       *)
(* session - SHOWPLAN switched on, an open transaction - stays there for   *)
(* the next one, so a connection goes back to the slot only when nothing   *)
(* can be left over.                                                       *)
(*                                                                         *)
(* A statement may be cancelled (CancelTarget::ClientSide), its run may be *)
(* aborted at any await (QueryRuns), the server may refuse it and the      *)
(* connection may break at every step.                                     *)
(***************************************************************************)
EXTENDS Naturals, FiniteSets

CONSTANTS
  ShownRuns,    \* statements of the user; an abort may drop them
  ChatRuns,     \* statements of the chat agent
  Listers,      \* catalog queries (query_rows)
  Links,        \* connections that can be opened
  NoLink, NoRun

ASSUME MssqlAssumption ==
  /\ NoLink \notin Links /\ NoRun \notin ShownRuns \cup ChatRuns \cup Listers
  /\ ShownRuns \cap ChatRuns = {} /\ (ShownRuns \cup ChatRuns) \cap Listers = {}

MsRuns == ShownRuns \cup ChatRuns
Users == MsRuns \cup Listers
Statements2 == {"write", "begin", "explain"}

VARIABLES
  msAt,      \* where each execution is
  asks,      \* the statement it executes
  slot,      \* the connection in the slot
  holder,    \* who holds the slot's lock
  link,      \* the connection an execution has taken
  sess,      \* the server's session of each connection
  durable,   \* writes that were committed
  msPressed, \* runs somebody cancelled
  broken     \* history: connections that broke

msVars == <<msAt, asks, slot, holder, link, sess, durable, msPressed, broken>>

InSelect == {"on", "plan", "off", "begin", "exec", "rollback"}
NoTransaction == [open |-> FALSE, of |-> {}]
MsTypeOK ==
  /\ msAt \in [Users -> {"new", "take", "registered", "query", "attention", "ended"} \cup InSelect]
  /\ asks \in [Users -> Statements2]
  /\ slot \in Links \cup {NoLink} /\ holder \in Users \cup {NoRun}
  /\ link \in [Users -> Links \cup {NoLink}]
  /\ \A c \in Links :
       /\ sess[c].is \in {"unused", "open", "closed"} /\ sess[c].showplan \in BOOLEAN
       /\ sess[c].tx.open \in BOOLEAN /\ sess[c].tx.of \subseteq MsRuns
  /\ durable \subseteq MsRuns /\ msPressed \subseteq MsRuns /\ broken \subseteq Links

(* A pool is made with a connection that has logged in.                    *)
MsInit ==
  \E first \in Links :
    /\ msAt = [u \in Users |-> "new"]
    /\ asks \in [Users -> Statements2] /\ \A u \in Users \ ShownRuns : asks[u] = "write"
    /\ slot = first /\ holder = NoRun
    /\ link = [u \in Users |-> NoLink]
    /\ sess = [c \in Links |-> [is |-> IF c = first THEN "open" ELSE "unused", showplan |-> FALSE, tx |-> NoTransaction]]
    /\ durable = {} /\ msPressed = {} /\ broken = {}

GoTo(u, at) == msAt' = [msAt EXCEPT ![u] = at]
(* The server ends a session, and rolls back, when its connection closes.  *)
Closed(s, c) == IF c = NoLink THEN s
                ELSE [s EXCEPT ![c] = [is |-> "closed", showplan |-> FALSE, tx |-> NoTransaction]]
Release(u) == holder' = NoRun /\ link' = [link EXCEPT ![u] = NoLink]

----------------------------------------------------------------------------
TakeLock(u) ==
  /\ msAt[u] = "new" /\ holder = NoRun
  /\ holder' = u
  /\ GoTo(u, "take")
  /\ UNCHANGED <<asks, slot, link, sess, durable, msPressed, broken>>

OnUsersConnection(u) == FALSE  \* fault: the agent's statement runs in the user's session
OwnConnection(u) == u \in ChatRuns

(* take_client and open_client *)
TakeClient(u) ==
  /\ msAt[u] = "take" /\ ~OwnConnection(u) /\ slot # NoLink
  /\ link' = [link EXCEPT ![u] = slot]
  /\ slot' = NoLink
  /\ GoTo(u, IF u \in Listers THEN "query" ELSE "registered")
  /\ UNCHANGED <<asks, holder, sess, durable, msPressed, broken>>
OpenClient(u) ==
  /\ msAt[u] = "take" /\ (OwnConnection(u) \/ slot = NoLink)
  /\ \E c \in Links :
       /\ sess[c].is = "unused"
       /\ sess' = [sess EXCEPT ![c].is = "open"]
       /\ link' = [link EXCEPT ![u] = c]
  /\ GoTo(u, IF u \in Listers THEN "query" ELSE "registered")
  /\ UNCHANGED <<asks, slot, holder, durable, msPressed, broken>>
OpenFails(u) ==
  /\ msAt[u] = "take" /\ (OwnConnection(u) \/ slot = NoLink)
  /\ Release(u)
  /\ GoTo(u, "ended")
  /\ UNCHANGED <<asks, slot, sess, durable, msPressed, broken>>

(* From here on the select waits for the result or the notification.       *)
StartSelect(r) ==
  /\ msAt[r] = "registered"
  /\ GoTo(r, IF r \in ChatRuns THEN "begin" ELSE IF asks[r] = "explain" THEN "on" ELSE "exec")
  /\ UNCHANGED <<asks, slot, holder, link, sess, durable, msPressed, broken>>

----------------------------------------------------------------------------
(* The end of an execution.  Its connection goes back to the slot when     *)
(* `fit`: the server answered, if only with an error.                      *)

AlwaysFit(u, fit) == TRUE  \* fault: whatever broke
Reusable(u, fit) == fit /\ ~OwnConnection(u)
End(u, fit, after) ==
  /\ IF Reusable(u, fit) THEN slot' = link[u] /\ sess' = after
     ELSE sess' = Closed(after, link[u]) /\ UNCHANGED slot
  /\ Release(u)
  /\ GoTo(u, "ended")

(* A statement without SHOWPLAN takes effect, in the open transaction if   *)
(* there is one.                                                           *)
Effect(u) == LET c == link[u] IN
  CASE ~sess[c].showplan /\ asks[u] = "begin" -> [sess EXCEPT ![c].tx.open = TRUE]
    [] ~sess[c].showplan /\ asks[u] = "write" /\ sess[c].tx.open -> [sess EXCEPT ![c].tx.of = @ \cup {u}]
    [] OTHER -> sess
Committed(u) == IF asks[u] = "write" /\ ~sess[link[u]].showplan /\ ~sess[link[u]].tx.open
                  THEN durable \cup {u} ELSE durable
CommittedIfSent(u) == IF u \in ShownRuns /\ link[u] # NoLink THEN {durable, Committed(u)} ELSE {durable}

(* execute_statement, outside a transaction of its own *)
Execute(r) ==
  /\ msAt[r] = "exec" /\ r \in ShownRuns
  /\ \/ durable' = Committed(r) /\ End(r, TRUE, Effect(r)) /\ UNCHANGED broken
     \/ End(r, TRUE, sess) /\ UNCHANGED <<durable, broken>>
     \/ End(r, FALSE, sess) /\ broken' = broken \cup {link[r]} /\ UNCHANGED durable
  /\ UNCHANGED <<asks, msPressed>>

(* execute, on the agent's path: BEGIN TRANSACTION, the statement,         *)
(* ROLLBACK whatever came of it.                                           *)
BeginAgent(r) ==
  /\ msAt[r] = "begin"
  /\ \/ sess' = [sess EXCEPT ![link[r]].tx.open = TRUE] /\ GoTo(r, "exec")
        /\ UNCHANGED <<slot, holder, link>>
     \/ \E fit \in BOOLEAN : End(r, fit, sess)
  /\ UNCHANGED <<asks, durable, msPressed, broken>>
ExecuteAgent(r) ==
  /\ msAt[r] = "exec" /\ r \in ChatRuns
  /\ \/ sess' = Effect(r) /\ durable' = Committed(r)
     \/ UNCHANGED <<sess, durable>>
  /\ GoTo(r, "rollback")
  /\ UNCHANGED <<asks, slot, holder, link, msPressed, broken>>
RollBackAgent(r) ==
  /\ msAt[r] = "rollback"
  /\ \/ End(r, TRUE, [sess EXCEPT ![link[r]].tx = NoTransaction])
     \/ End(r, FALSE, sess)
  /\ UNCHANGED <<asks, durable, msPressed, broken>>

(* run_showplan: OFF is tried even if the statement failed. *)
ShowplanOn(r) ==
  /\ msAt[r] = "on"
  /\ \/ sess' = [sess EXCEPT ![link[r]].showplan = TRUE] /\ GoTo(r, "plan")
        /\ UNCHANGED <<slot, holder, link>>
     \/ End(r, TRUE, sess)
     \/ End(r, FALSE, sess)
  /\ UNCHANGED <<asks, durable, msPressed, broken>>
OffUnlessError(r) ==  \* fault: `?` on the statement, before OFF
  \/ GoTo(r, "off") /\ UNCHANGED <<slot, holder, link, sess>>
  \/ End(r, TRUE, sess)
AfterPlan(r) == GoTo(r, "off") /\ UNCHANGED <<slot, holder, link, sess>>
ShowPlan(r) ==
  /\ msAt[r] = "plan"
  /\ AfterPlan(r)
  /\ UNCHANGED <<asks, durable, msPressed, broken>>
ShowplanOff(r) ==
  /\ msAt[r] = "off"
  /\ \/ End(r, TRUE, [sess EXCEPT ![link[r]].showplan = FALSE])
     \/ End(r, FALSE, sess)
  /\ UNCHANGED <<asks, durable, msPressed, broken>>

(* query_rows *)
QueryCatalog(l) ==
  /\ msAt[l] = "query"
  /\ \/ End(l, TRUE, sess) /\ UNCHANGED broken
     \/ End(l, FALSE, sess) /\ broken' = broken \cup {link[l]}
  /\ UNCHANGED <<asks, durable, msPressed>>

----------------------------------------------------------------------------
(* Cancelling: notify_waiters wakes the select if there is one; a press    *)
(* between the registration and the select only sets the flag.             *)

KeepClient(r) == slot' = link[r] /\ UNCHANGED sess  \* fault: back to the slot after the Attention
DropClient(r) == sess' = Closed(sess, link[r]) /\ UNCHANGED slot
PressCancel(r) ==
  /\ msAt[r] \in {"registered"} \cup InSelect /\ r \notin msPressed
  /\ msPressed' = msPressed \cup {r}
  /\ IF msAt[r] \in InSelect THEN GoTo(r, "attention") ELSE UNCHANGED msAt
  /\ UNCHANGED <<asks, slot, holder, link, sess, durable, broken>>
(* The statement may have had its effect before the Attention came.        *)
SendAttention(r) ==
  /\ msAt[r] = "attention"
  /\ DropClient(r)
  /\ durable' \in CommittedIfSent(r)
  /\ Release(r)
  /\ GoTo(r, "ended")
  /\ UNCHANGED <<asks, msPressed, broken>>

(* The future of a displayed run is dropped at one of its awaits, with the *)
(* lock and the connection it holds.                                       *)
AbortRun(r) ==
  /\ r \in ShownRuns /\ msAt[r] \notin {"registered", "ended"}
  /\ sess' = Closed(sess, link[r])
  /\ durable' \in CommittedIfSent(r)
  /\ link' = [link EXCEPT ![r] = NoLink]
  /\ holder' = IF holder = r THEN NoRun ELSE holder
  /\ msPressed' = msPressed \cup {r}
  /\ GoTo(r, "ended")
  /\ UNCHANGED <<asks, slot, broken>>

(* The user ends the transaction that is open in the session.              *)
EndTransaction ==
  /\ holder = NoRun /\ slot # NoLink /\ sess[slot].tx.open
  /\ \/ durable' = durable \cup sess[slot].tx.of
     \/ UNCHANGED durable
  /\ sess' = [sess EXCEPT ![slot].tx = NoTransaction]
  /\ UNCHANGED <<msAt, asks, slot, holder, link, msPressed, broken>>

MsNext ==
  \/ \E u \in Users : TakeLock(u) \/ TakeClient(u) \/ OpenClient(u) \/ OpenFails(u)
  \/ \E r \in MsRuns :
       \/ StartSelect(r) \/ Execute(r) \/ BeginAgent(r) \/ ExecuteAgent(r) \/ RollBackAgent(r)
       \/ ShowplanOn(r) \/ ShowPlan(r) \/ ShowplanOff(r)
       \/ PressCancel(r) \/ SendAttention(r) \/ AbortRun(r)
  \/ \E l \in Listers : QueryCatalog(l)
  \/ EndTransaction
MsSpec == MsInit /\ [][MsNext]_msVars

----------------------------------------------------------------------------
(* Properties *)

(* "all later statements would become plans": no statement and no catalog  *)
(* query executes in a session whose SHOWPLAN another one left on.         *)
PlansAreAskedFor ==
  \A u \in Users : msAt[u] \in {"exec", "query", "begin"} => ~sess[link[u]].showplan

(* "Writes that slip past the statement-level guard are undone": nothing   *)
(* the agent wrote is ever committed, by itself or with a transaction the  *)
(* user had left open.                                                     *)
AgentCommitsNothing == durable \cap ChatRuns = {}

(* One connection is used by one execution at a time, and the one in the   *)
(* slot is alive.                                                          *)
LinksAreNotShared ==
  /\ \A u, v \in Users : link[u] # NoLink /\ link[u] = link[v] => u = v
  /\ slot # NoLink => sess[slot].is = "open" /\ \A u \in Users : link[u] # slot

(* What the user did in an open transaction is lost only with the          *)
(* connection: one that broke, whose statement was cancelled or aborted,   *)
(* or on which SHOWPLAN could not be switched on or off.  An error of a    *)
(* statement, a catalog query and the agent's ROLLBACK leave it alone.     *)
TransactionsAreKept ==
  [][\A c \in Links :
       LET lost == (sess[c].tx.of \cap ShownRuns) \ (sess'[c].tx.of \cup durable') IN
       lost # {} =>
         \/ EndTransaction
         \/ /\ sess'[c].is = "closed"
            /\ \/ c \in broken'
               \/ \E r \in msPressed' : link[r] = c
               \/ \E q \in ShownRuns : link[q] = c /\ asks[q] = "explain"]_msVars

MssqlPromise == [](PlansAreAskedFor /\ AgentCommitsNothing /\ LinksAreNotShared) /\ TransactionsAreKept
=============================================================================
