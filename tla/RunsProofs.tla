----------------------------- MODULE RunsProofs -----------------------------
(***************************************************************************)
(* Theorems about what runs statements: the engines whose sessions the     *)
(* application keeps itself, and runs and their cancels on pooled sessions *)
(* (QueryCancel).  They hold for any numbers of runs, catalog queries,     *)
(* connections, commands and cancels, and for every set of sessions.       *)
(***************************************************************************)
EXTENDS Engines, QueryCancel, FiniteSetTheorems, TLAPS


----------------------------------------------------------------------------
(***************************************************************************)
(* MssqlSession                                                            *)
(***************************************************************************)

MsSessions == [is : {"unused", "open", "closed"}, showplan : BOOLEAN, tx : [open : BOOLEAN, of : SUBSET MsRuns]]
SessionsTyped == MsTypeOK /\ sess \in [Links -> MsSessions]

(* One execution at a time: it has the lock from its first step to its     *)
(* last, and a connection from the moment it has taken one.                *)
OneAtATime ==
  \A u \in Users :
    /\ msAt[u] \in {"new", "ended"} <=> holder # u
    /\ msAt[u] \in {"new", "take", "ended"} <=> link[u] = NoLink

(* Who gets where.                                                         *)
EachInItsPath ==
  /\ \A u \in Users \ ShownRuns : asks[u] = "write"
  /\ \A u \in Users :
       /\ msAt[u] = "query" => u \in Listers
       /\ msAt[u] \in {"registered", "exec", "attention"} => u \in MsRuns
       /\ msAt[u] \in {"begin", "rollback"} => u \in ChatRuns
       /\ msAt[u] \in {"on", "plan", "off"} => u \in ShownRuns /\ asks[u] = "explain"
       /\ msAt[u] = "attention" => u \in msPressed

(* The connections in use are open, and none of them is in the slot; in    *)
(* one that is not open there is nothing.                                  *)
LinksAreOpen ==
  /\ slot # NoLink => sess[slot].is = "open"
  /\ \A u \in Users : link[u] # NoLink => sess[link[u]].is = "open" /\ link[u] # slot
  /\ \A c \in Links : sess[c].is # "open" => ~sess[c].showplan /\ sess[c].tx = NoTransaction

(* SHOWPLAN is on only between the switch of a statement and its end.      *)
PlansAreSwitchedOff ==
  /\ slot # NoLink => ~sess[slot].showplan
  /\ \A u \in Users : link[u] # NoLink /\ sess[link[u]].showplan => msAt[u] \in {"plan", "off", "attention"}

(* The agent's writes are in the transaction of its own connection, where  *)
(* nobody else writes.                                                     *)
AgentIsApart ==
  /\ slot # NoLink => sess[slot].tx.of \cap ChatRuns = {}
  /\ \A u \in Users \ ChatRuns : link[u] # NoLink => sess[link[u]].tx.of \cap ChatRuns = {}
  /\ \A u \in ChatRuns : link[u] # NoLink => sess[link[u]].tx.of \cap ShownRuns = {}
  /\ \A u \in ChatRuns : msAt[u] = "exec" => sess[link[u]].tx.open
  /\ AgentCommitsNothing

MsInv == SessionsTyped /\ OneAtATime /\ EachInItsPath /\ LinksAreOpen /\ PlansAreSwitchedOff /\ AgentIsApart

(* A statement is felt only in its own session, and only adds to it.       *)
LEMMA EffectIs ==
  ASSUME MsInv, NEW u \in MsRuns, link[u] # NoLink
  PROVE  /\ link[u] \in Links
         /\ Effect(u) \in [Links -> MsSessions]
         /\ \A c \in Links \ {link[u]} : Effect(u)[c] = sess[c]
         /\ Effect(u)[link[u]].is = "open"
         /\ Effect(u)[link[u]].showplan = sess[link[u]].showplan
         /\ sess[link[u]].tx.of \subseteq Effect(u)[link[u]].tx.of
         /\ Effect(u)[link[u]].tx.of \subseteq sess[link[u]].tx.of \cup {u}
         /\ sess[link[u]].tx.open => Effect(u)[link[u]].tx.open
  <1>1. link[u] \in Links /\ sess \in [Links -> MsSessions] /\ sess[link[u]].is = "open"
    BY DEF MsInv, SessionsTyped, MsTypeOK, Users, MsRuns, LinksAreOpen
  <1>2. \/ Effect(u) = sess
        \/ Effect(u) = [sess EXCEPT ![link[u]].tx.open = TRUE]
        \/ Effect(u) = [sess EXCEPT ![link[u]].tx.of = @ \cup {u}]
    BY DEF Effect
  <1>3. CASE Effect(u) = sess
    BY <1>1, <1>3
  <1>4. CASE Effect(u) = [sess EXCEPT ![link[u]].tx.open = TRUE]
    <2>1. sess[link[u]] \in MsSessions /\ sess[link[u]].tx.of \subseteq MsRuns
      BY <1>1 DEF MsSessions
    <2>2. [sess[link[u]] EXCEPT !.tx.open = TRUE] \in MsSessions
      BY <2>1 DEF MsSessions
    <2>3. Effect(u)[link[u]] = [sess[link[u]] EXCEPT !.tx.open = TRUE]
      BY <1>1, <1>4
    <2>4. \A c \in Links \ {link[u]} : Effect(u)[c] = sess[c]
      BY <1>1, <1>4
    <2>5. Effect(u) \in [Links -> MsSessions]
      BY <1>1, <1>4, <2>2
    <2>6. Effect(u)[link[u]].tx.of = sess[link[u]].tx.of /\ Effect(u)[link[u]].tx.open
      BY <2>1, <2>3 DEF MsSessions
    <2> QED
      BY <1>1, <2>3, <2>4, <2>5, <2>6 DEF MsSessions
  <1>5. CASE Effect(u) = [sess EXCEPT ![link[u]].tx.of = @ \cup {u}]
    BY <1>1, <1>5 DEF MsSessions
  <1> QED
    BY <1>2, <1>3, <1>4, <1>5

(* Nothing but the session of an execution's own connection changes.       *)
OnlyItsOwn(u, after) ==
  /\ after \in [Links -> MsSessions]
  /\ \A c \in Links \ {link[u]} : after[c] = sess[c]
  /\ after[link[u]].is = "open"
ClosedSession == [is |-> "closed", showplan |-> FALSE, tx |-> NoTransaction]

(* An execution ends with its connection in the slot, or closed.           *)
LEMMA EndLeads ==
  ASSUME MsInv, NEW u \in Users, link[u] # NoLink, NEW fit \in BOOLEAN, NEW after, OnlyItsOwn(u, after),
         End(u, fit, after)
  PROVE  /\ link[u] \in Links
         /\ sess' \in [Links -> MsSessions]
         /\ \A c \in Links \ {link[u]} : sess'[c] = sess[c]
         /\ msAt' = [msAt EXCEPT ![u] = "ended"] /\ link' = [link EXCEPT ![u] = NoLink] /\ holder' = NoRun
         /\ \/ fit /\ u \notin ChatRuns /\ slot' = link[u] /\ sess'[link[u]] = after[link[u]]
            \/ ~(fit /\ u \notin ChatRuns) /\ slot' = slot /\ sess'[link[u]] = ClosedSession
  <1>1. link[u] \in Links
    BY DEF MsInv, SessionsTyped, MsTypeOK
  <1>2. ClosedSession \in MsSessions
    BY DEF ClosedSession, MsSessions, NoTransaction
  <1>3. msAt' = [msAt EXCEPT ![u] = "ended"] /\ link' = [link EXCEPT ![u] = NoLink] /\ holder' = NoRun
    BY DEF End, GoTo, Release
  <1>4. CASE Reusable(u, fit)
    BY <1>1, <1>3, <1>4 DEF End, Reusable, OwnConnection, OnlyItsOwn
  <1>5. CASE ~Reusable(u, fit)
    <2>1. sess' = [after EXCEPT ![link[u]] = ClosedSession] /\ slot' = slot
      BY <1>1, <1>5, MssqlAssumption DEF End, Closed, ClosedSession
    <2> QED
      BY <1>1, <1>2, <1>3, <1>5, <2>1 DEF Reusable, OwnConnection, OnlyItsOwn
  <1> QED
    BY <1>4, <1>5

(* The end of an execution keeps what the invariant says of the sessions,  *)
(* if it leaves nothing in the one it puts into the slot.                  *)
LEMMA EndKeeps ==
  ASSUME MsInv, NEW u \in Users, link[u] # NoLink, NEW fit \in BOOLEAN, NEW after, OnlyItsOwn(u, after),
         End(u, fit, after), UNCHANGED <<asks, msPressed>>,
         fit /\ u \notin ChatRuns => ~after[link[u]].showplan /\ after[link[u]].tx.of \cap ChatRuns = {}
  PROVE  /\ LinksAreOpen' /\ PlansAreSwitchedOff'
         /\ AgentCommitsNothing' => AgentIsApart'
  <1> USE EndLeads, MssqlAssumption
  <1>1. /\ msAt \in [Users -> {"new", "take", "registered", "query", "attention", "ended"} \cup InSelect]
        /\ link \in [Users -> Links \cup {NoLink}] /\ slot \in Links \cup {NoLink} /\ sess \in [Links -> MsSessions]
    BY DEF MsInv, SessionsTyped, MsTypeOK
  <1>2. holder = u
    BY DEF MsInv, OneAtATime
  <1>3. \A v \in Users : link'[v] = NoLink
    BY <1>1, <1>2 DEF MsInv, OneAtATime
  <1>4. \A v \in Users : msAt'[v] # "exec"
    BY <1>1, <1>2 DEF MsInv, OneAtATime
  <1>5. LinksAreOpen'
    BY <1>1, <1>3 DEF MsInv, LinksAreOpen, ClosedSession, OnlyItsOwn
  <1>6. PlansAreSwitchedOff'
    BY <1>1, <1>3 DEF MsInv, LinksAreOpen, PlansAreSwitchedOff
  <1>7. slot' # NoLink => sess'[slot'].tx.of \cap ChatRuns = {}
    BY <1>1 DEF MsInv, LinksAreOpen, AgentIsApart
  <1> QED
    BY <1>3, <1>4, <1>5, <1>6, <1>7 DEF AgentIsApart, Users, MsRuns

(* What the sessions are left with, for each step that may end one's use.  *)
SessionsStayClean == LinksAreOpen /\ PlansAreSwitchedOff /\ AgentIsApart
(* An execution that is on its way has a connection, which is open.        *)
LEMMA InUse ==
  ASSUME MsInv, NEW u \in Users, msAt[u] \notin {"new", "take", "ended"}
  PROVE  link[u] # NoLink /\ link[u] \in Links /\ OnlyItsOwn(u, sess)
         /\ sess[link[u]] \in MsSessions
  BY DEF MsInv, SessionsTyped, MsTypeOK, OneAtATime, LinksAreOpen, OnlyItsOwn

(* What a run of the user commits is nothing of the agent.                 *)
LEMMA CommittedIsShown == ASSUME MsInv, NEW r \in ShownRuns PROVE Committed(r) \cap ChatRuns = {}
  BY MssqlAssumption DEF Committed, MsInv, AgentIsApart, AgentCommitsNothing

(* A statement of the user: it commits its own writes or the transaction   *)
(* keeps them.                                                             *)
LEMMA ExecuteKeeps == ASSUME MsInv, NEW r \in MsRuns, Execute(r) PROVE SessionsStayClean'
  <1> USE DEF SessionsStayClean
  <1>1. r \in Users /\ r \in ShownRuns /\ r \notin ChatRuns /\ msAt[r] = "exec" /\ UNCHANGED <<asks, msPressed>>
    BY MssqlAssumption DEF Execute, Users
  <1>2. link[r] # NoLink /\ OnlyItsOwn(r, sess) /\ OnlyItsOwn(r, Effect(r))
    BY <1>1, InUse, EffectIs DEF OnlyItsOwn
  <1>3. ~sess[link[r]].showplan /\ sess[link[r]].tx.of \cap ChatRuns = {}
    BY <1>1, <1>2 DEF MsInv, PlansAreSwitchedOff, AgentIsApart
  <1>4. ~Effect(r)[link[r]].showplan /\ Effect(r)[link[r]].tx.of \cap ChatRuns = {}
    BY <1>1, <1>2, <1>3, EffectIs
  <1>5. AgentCommitsNothing'
    BY <1>1, CommittedIsShown DEF Execute, AgentCommitsNothing, MsInv, AgentIsApart
  <1>6. CASE End(r, TRUE, Effect(r))
    BY <1>1, <1>2, <1>4, <1>5, <1>6, EndKeeps
  <1>7. CASE \E fit \in BOOLEAN : End(r, fit, sess)
    BY <1>1, <1>2, <1>3, <1>5, <1>7, EndKeeps
  <1> QED
    BY <1>6, <1>7 DEF Execute

(* BEGIN TRANSACTION of the agent, on a connection of its own.             *)
LEMMA BeginAgentKeeps == ASSUME MsInv, NEW r \in MsRuns, BeginAgent(r) PROVE SessionsStayClean'
  <1> USE DEF SessionsStayClean
  <1>1. r \in Users /\ r \in ChatRuns /\ msAt[r] = "begin" /\ UNCHANGED <<asks, msPressed, durable>>
    BY DEF BeginAgent, Users, MsInv, EachInItsPath
  <1>2. link[r] # NoLink /\ link[r] \in Links /\ OnlyItsOwn(r, sess) /\ sess[link[r]] \in MsSessions
    BY <1>1, InUse
  <1>3. AgentCommitsNothing'
    BY <1>1 DEF AgentCommitsNothing, MsInv, AgentIsApart
  <1>4. CASE \E fit \in BOOLEAN : End(r, fit, sess)
    BY <1>1, <1>2, <1>3, <1>4, EndKeeps
  <1>5. CASE sess' = [sess EXCEPT ![link[r]].tx.open = TRUE] /\ GoTo(r, "exec") /\ UNCHANGED <<slot, holder, link>>
    <2>1. /\ sess'[link[r]].is = sess[link[r]].is /\ sess'[link[r]].showplan = sess[link[r]].showplan
          /\ sess'[link[r]].tx.of = sess[link[r]].tx.of /\ sess'[link[r]].tx.open
      BY <1>2, <1>5 DEF MsSessions, MsInv, SessionsTyped
    <2>2. \A c \in Links \ {link[r]} : sess'[c] = sess[c]
      BY <1>2, <1>5 DEF MsInv, SessionsTyped
    <2>3. \A v \in Users \ {r} : msAt'[v] = msAt[v]
      BY <1>5 DEF GoTo, MsInv, SessionsTyped, MsTypeOK
    <2>4. /\ slot # NoLink => slot \in Links
          /\ \A v \in Users : link[v] # NoLink => link[v] \in Links
          /\ \A v \in Users \ {r} : link[v] = NoLink /\ msAt[v] # "exec"
      BY <1>1 DEF MsInv, SessionsTyped, MsTypeOK, OneAtATime
    <2>5. ~sess[link[r]].showplan /\ sess[link[r]].is = "open" /\ slot # link[r] /\ UNCHANGED <<slot, link>>
      BY <1>1, <1>2, <1>5 DEF MsInv, PlansAreSwitchedOff, LinksAreOpen
    <2>6. LinksAreOpen'
      BY <1>2, <2>1, <2>2, <2>4, <2>5 DEF MsInv, LinksAreOpen
    <2>7. PlansAreSwitchedOff'
      BY <1>2, <1>5, <2>1, <2>2, <2>4, <2>5 DEF MsInv, LinksAreOpen, PlansAreSwitchedOff
    <2>8. AgentIsApart'
      BY <1>1, <1>2, <1>3, <1>5, <2>1, <2>2, <2>3, <2>4 DEF MsInv, LinksAreOpen, AgentIsApart, Users, MsRuns
    <2> QED
      BY <2>6, <2>7, <2>8
  <1> QED
    BY <1>4, <1>5 DEF BeginAgent

(* The statement of the agent, in its transaction.                         *)
LEMMA ExecuteAgentKeeps == ASSUME MsInv, NEW r \in MsRuns, ExecuteAgent(r) PROVE SessionsStayClean'
  <1> USE DEF SessionsStayClean
  <1>1. /\ r \in Users /\ r \in ChatRuns /\ msAt[r] = "exec" /\ UNCHANGED <<asks, msPressed, slot, link>>
        /\ GoTo(r, "rollback")
    BY DEF ExecuteAgent, Users
  <1>2. link[r] # NoLink /\ link[r] \in Links /\ sess[link[r]] \in MsSessions
    BY <1>1, InUse
  <1>3. AgentCommitsNothing'
    BY <1>1 DEF ExecuteAgent, Committed, AgentCommitsNothing, MsInv, AgentIsApart
  <1>4. /\ sess'[link[r]].is = "open" /\ ~sess'[link[r]].showplan
        /\ sess'[link[r]].tx.of \cap ShownRuns = {}
        /\ \A c \in Links \ {link[r]} : sess'[c] = sess[c]
    <2>1. sess[link[r]].is = "open" /\ ~sess[link[r]].showplan /\ sess[link[r]].tx.of \cap ShownRuns = {}
      BY <1>1, <1>2 DEF MsInv, LinksAreOpen, PlansAreSwitchedOff, AgentIsApart
    <2> QED
      BY <1>1, <1>2, <2>1, EffectIs, MssqlAssumption DEF ExecuteAgent
  <1>5. /\ slot # NoLink => slot \in Links
        /\ \A v \in Users \ {r} : link[v] = NoLink
        /\ \A v \in Users : msAt'[v] # "exec"
    BY <1>1 DEF MsInv, SessionsTyped, MsTypeOK, OneAtATime, GoTo
  <1>6. LinksAreOpen'
    BY <1>1, <1>2, <1>4, <1>5 DEF MsInv, LinksAreOpen
  <1>7. PlansAreSwitchedOff'
    BY <1>1, <1>2, <1>4, <1>5 DEF MsInv, LinksAreOpen, PlansAreSwitchedOff
  <1>8. AgentIsApart'
    BY <1>1, <1>2, <1>3, <1>4, <1>5 DEF MsInv, LinksAreOpen, AgentIsApart, Users, MsRuns
  <1> QED
    BY <1>6, <1>7, <1>8

(* ROLLBACK of the agent; its connection is closed.                        *)
LEMMA RollBackAgentKeeps == ASSUME MsInv, NEW r \in MsRuns, RollBackAgent(r) PROVE SessionsStayClean'
  <1> USE DEF SessionsStayClean
  <1>1. r \in Users /\ r \in ChatRuns /\ msAt[r] = "rollback" /\ UNCHANGED <<asks, msPressed, durable>>
    BY DEF RollBackAgent, Users, MsInv, EachInItsPath
  <1>2. link[r] # NoLink /\ link[r] \in Links /\ OnlyItsOwn(r, sess) /\ sess[link[r]] \in MsSessions
    BY <1>1, InUse
  <1>3. AgentCommitsNothing'
    BY <1>1 DEF AgentCommitsNothing, MsInv, AgentIsApart
  <1>4. OnlyItsOwn(r, [sess EXCEPT ![link[r]].tx = NoTransaction])
    BY <1>2 DEF OnlyItsOwn, MsSessions, NoTransaction
  <1> QED
    BY <1>1, <1>2, <1>3, <1>4, EndKeeps DEF RollBackAgent

(* SHOWPLAN is switched on, by who asked for a plan.                       *)
LEMMA ShowplanOnKeeps == ASSUME MsInv, NEW r \in MsRuns, ShowplanOn(r) PROVE SessionsStayClean'
  <1> USE DEF SessionsStayClean
  <1>1. r \in Users /\ r \in ShownRuns /\ r \notin ChatRuns /\ msAt[r] = "on" /\ UNCHANGED <<asks, msPressed, durable>>
    BY MssqlAssumption DEF ShowplanOn, Users, MsInv, EachInItsPath
  <1>2. link[r] # NoLink /\ link[r] \in Links /\ OnlyItsOwn(r, sess) /\ sess[link[r]] \in MsSessions
    BY <1>1, InUse
  <1>3. AgentCommitsNothing'
    BY <1>1 DEF AgentCommitsNothing, MsInv, AgentIsApart
  <1>4. ~sess[link[r]].showplan /\ sess[link[r]].tx.of \cap ChatRuns = {}
    BY <1>1, <1>2 DEF MsInv, PlansAreSwitchedOff, AgentIsApart
  <1>5. CASE \E fit \in BOOLEAN : End(r, fit, sess)
    BY <1>1, <1>2, <1>3, <1>4, <1>5, EndKeeps
  <1>6. CASE sess' = [sess EXCEPT ![link[r]].showplan = TRUE] /\ GoTo(r, "plan") /\ UNCHANGED <<slot, holder, link>>
    <2>1. sess'[link[r]].is = sess[link[r]].is /\ sess'[link[r]].tx = sess[link[r]].tx
      BY <1>2, <1>6 DEF MsSessions, MsInv, SessionsTyped
    <2>2. \A c \in Links \ {link[r]} : sess'[c] = sess[c]
      BY <1>2, <1>6 DEF MsInv, SessionsTyped
    <2>3. msAt'[r] = "plan" /\ \A v \in Users \ {r} : msAt'[v] = msAt[v]
      BY <1>1, <1>6 DEF GoTo, MsInv, SessionsTyped, MsTypeOK
    <2>4. /\ slot # NoLink => slot \in Links
          /\ \A v \in Users : link[v] # NoLink => link[v] \in Links
          /\ \A v \in Users \ {r} : link[v] = NoLink /\ msAt[v] # "exec"
      BY <1>1 DEF MsInv, SessionsTyped, MsTypeOK, OneAtATime
    <2>5. sess[link[r]].is = "open" /\ slot # link[r] /\ UNCHANGED <<slot, link>>
      BY <1>1, <1>2, <1>6 DEF MsInv, LinksAreOpen
    <2>6. LinksAreOpen'
      BY <1>2, <2>1, <2>2, <2>4, <2>5 DEF MsInv, LinksAreOpen
    <2>7. PlansAreSwitchedOff'
      BY <1>2, <2>2, <2>3, <2>4, <2>5 DEF MsInv, LinksAreOpen, PlansAreSwitchedOff
    <2>8. AgentIsApart'
      BY <1>1, <1>2, <1>3, <1>6, <2>1, <2>2, <2>3, <2>4 DEF MsInv, LinksAreOpen, AgentIsApart, Users, MsRuns
    <2> QED
      BY <2>6, <2>7, <2>8
  <1> QED
    BY <1>5, <1>6 DEF ShowplanOn

(* SHOWPLAN is switched off, or its connection is closed.                  *)
LEMMA ShowplanOffKeeps == ASSUME MsInv, NEW r \in MsRuns, ShowplanOff(r) PROVE SessionsStayClean'
  <1> USE DEF SessionsStayClean
  <1>1. r \in Users /\ r \in ShownRuns /\ r \notin ChatRuns /\ msAt[r] = "off" /\ UNCHANGED <<asks, msPressed, durable>>
    BY MssqlAssumption DEF ShowplanOff, Users, MsInv, EachInItsPath
  <1>2. link[r] # NoLink /\ link[r] \in Links /\ OnlyItsOwn(r, sess) /\ sess[link[r]] \in MsSessions
    BY <1>1, InUse
  <1>3. AgentCommitsNothing'
    BY <1>1 DEF AgentCommitsNothing, MsInv, AgentIsApart
  <1>4. sess[link[r]].tx.of \cap ChatRuns = {}
    BY <1>1, <1>2 DEF MsInv, AgentIsApart
  <1>5. DEFINE after == [sess EXCEPT ![link[r]].showplan = FALSE]
  <1>6. OnlyItsOwn(r, after) /\ ~after[link[r]].showplan /\ after[link[r]].tx = sess[link[r]].tx
    BY <1>2 DEF OnlyItsOwn, MsSessions
  <1> HIDE DEF after
  <1>7. CASE End(r, TRUE, after)
    BY <1>1, <1>2, <1>3, <1>4, <1>6, <1>7, EndKeeps
  <1>8. CASE End(r, FALSE, sess)
    BY <1>1, <1>2, <1>3, <1>8, EndKeeps
  <1> QED
    BY <1>7, <1>8 DEF ShowplanOff, after

(* A catalog query, in a session without SHOWPLAN.                         *)
LEMMA QueryCatalogKeeps == ASSUME MsInv, NEW l \in Listers, QueryCatalog(l) PROVE SessionsStayClean'
  <1> USE DEF SessionsStayClean
  <1>1. l \in Users /\ l \notin ChatRuns /\ msAt[l] = "query" /\ UNCHANGED <<asks, msPressed, durable>>
    BY MssqlAssumption DEF QueryCatalog, Users, MsRuns
  <1>2. link[l] # NoLink /\ link[l] \in Links /\ OnlyItsOwn(l, sess) /\ sess[link[l]] \in MsSessions
    BY <1>1, InUse
  <1>3. AgentCommitsNothing'
    BY <1>1 DEF AgentCommitsNothing, MsInv, AgentIsApart
  <1>4. ~sess[link[l]].showplan /\ sess[link[l]].tx.of \cap ChatRuns = {}
    BY <1>1, <1>2 DEF MsInv, PlansAreSwitchedOff, AgentIsApart
  <1>5. \E fit \in BOOLEAN : End(l, fit, sess)
    BY DEF QueryCatalog
  <1> QED
    BY <1>1, <1>2, <1>3, <1>4, <1>5, EndKeeps

(* The types, at the end of an execution and in between.                   *)
LEMMA TypedIs ==
  ASSUME MsInv, UNCHANGED asks, slot' \in Links \cup {NoLink}, holder' \in Users \cup {NoRun},
         msAt' \in [Users -> {"new", "take", "registered", "query", "attention", "ended"} \cup InSelect],
         link' \in [Users -> Links \cup {NoLink}], sess' \in [Links -> MsSessions],
         durable' \subseteq MsRuns, msPressed' \subseteq MsRuns, broken' \subseteq Links
  PROVE  SessionsTyped'
  <1>1. \A c \in Links : sess'[c] \in MsSessions
    OBVIOUS
  <1> QED
    BY <1>1 DEF SessionsTyped, MsTypeOK, MsInv, MsSessions

(* The end of an execution keeps the types.                                *)
LEMMA EndTyped ==
  ASSUME MsInv, NEW u \in Users, link[u] # NoLink, NEW fit \in BOOLEAN, NEW after, OnlyItsOwn(u, after),
         End(u, fit, after), UNCHANGED <<asks, msPressed>>, durable' \subseteq MsRuns, broken' \subseteq Links
  PROVE  SessionsTyped'
  <1>1. sess' \in [Links -> MsSessions] /\ slot' \in Links \cup {NoLink}
    BY EndLeads DEF MsInv, SessionsTyped, MsTypeOK
  <1>2. /\ msAt' = [msAt EXCEPT ![u] = "ended"] /\ link' = [link EXCEPT ![u] = NoLink] /\ holder' = NoRun
    BY EndLeads
  <1>3. /\ msAt' \in [Users -> {"new", "take", "registered", "query", "attention", "ended"} \cup InSelect]
        /\ link' \in [Users -> Links \cup {NoLink}]
    BY <1>2 DEF MsInv, SessionsTyped, MsTypeOK
  <1> QED
    BY <1>1, <1>2, <1>3, TypedIs DEF MsInv, SessionsTyped, MsTypeOK

(* A connection that is closed has a session, and what is committed are    *)
(* runs.                                                                   *)
LEMMA ClosedTyped == ASSUME MsInv, NEW u \in Users PROVE Closed(sess, link[u]) \in [Links -> MsSessions]
  <1>1. ClosedSession \in MsSessions
    BY DEF ClosedSession, MsSessions, NoTransaction
  <1> QED
    BY <1>1 DEF Closed, ClosedSession, MsInv, SessionsTyped
LEMMA CommittedTyped == ASSUME MsInv, NEW r \in MsRuns PROVE Committed(r) \subseteq MsRuns
  BY DEF Committed, MsInv, SessionsTyped, MsTypeOK

(* Every step keeps one execution at a time.                                *)
LEMMA OneAtATimeStep == MsInv /\ [MsNext]_msVars => OneAtATime'
  <1> SUFFICES ASSUME MsInv, [MsNext]_msVars PROVE OneAtATime'
    OBVIOUS
  <1> USE MssqlAssumption DEF MsInv, SessionsTyped, MsTypeOK, OneAtATime, MsRuns, Users, InSelect, EachInItsPath
  <1>1. ASSUME NEW u \in Users, TakeLock(u) PROVE OneAtATime'
    BY <1>1 DEF TakeLock, GoTo
  <1>2. ASSUME NEW u \in Users, TakeClient(u) PROVE OneAtATime'
    BY <1>2 DEF TakeClient, OwnConnection, GoTo
  <1>3. ASSUME NEW u \in Users, OpenClient(u) PROVE OneAtATime'
    BY <1>3 DEF OpenClient, OwnConnection, GoTo
  <1>4. ASSUME NEW u \in Users, OpenFails(u) PROVE OneAtATime'
    BY <1>4 DEF OpenFails, OwnConnection, Release, GoTo
  <1>5. ASSUME NEW r \in MsRuns, StartSelect(r) PROVE OneAtATime'
    BY <1>5 DEF StartSelect, GoTo
  <1>6. ASSUME NEW r \in MsRuns, Execute(r) PROVE OneAtATime'
    BY <1>6 DEF Execute, End, Reusable, Release, OwnConnection, Closed, GoTo
  <1>7. ASSUME NEW r \in MsRuns, BeginAgent(r) PROVE OneAtATime'
    BY <1>7 DEF BeginAgent, End, Reusable, Release, OwnConnection, Closed, GoTo
  <1>8. ASSUME NEW r \in MsRuns, ExecuteAgent(r) PROVE OneAtATime'
    BY <1>8 DEF ExecuteAgent, GoTo
  <1>9. ASSUME NEW r \in MsRuns, RollBackAgent(r) PROVE OneAtATime'
    BY <1>9 DEF RollBackAgent, End, Reusable, Release, OwnConnection, Closed, GoTo
  <1>10. ASSUME NEW r \in MsRuns, ShowplanOn(r) PROVE OneAtATime'
    BY <1>10 DEF ShowplanOn, End, Reusable, Release, OwnConnection, Closed, GoTo
  <1>11. ASSUME NEW r \in MsRuns, ShowPlan(r) PROVE OneAtATime'
    BY <1>11 DEF ShowPlan, AfterPlan, GoTo
  <1>12. ASSUME NEW r \in MsRuns, ShowplanOff(r) PROVE OneAtATime'
    BY <1>12 DEF ShowplanOff, End, Reusable, Release, OwnConnection, Closed, GoTo
  <1>13. ASSUME NEW r \in MsRuns, PressCancel(r) PROVE OneAtATime'
    BY <1>13 DEF PressCancel, InSelect, GoTo
  <1>14. ASSUME NEW r \in MsRuns, SendAttention(r) PROVE OneAtATime'
    BY <1>14 DEF SendAttention, DropClient, Closed, Release, GoTo
  <1>15. ASSUME NEW r \in MsRuns, AbortRun(r) PROVE OneAtATime'
    BY <1>15 DEF AbortRun, Closed, GoTo
  <1>16. ASSUME NEW l \in Listers, QueryCatalog(l) PROVE OneAtATime'
    BY <1>16 DEF QueryCatalog, End, Reusable, Release, OwnConnection, Closed, GoTo
  <1>17. CASE EndTransaction
    BY <1>17 DEF EndTransaction
  <1>18. CASE UNCHANGED msVars
    BY <1>18 DEF msVars
  <1> QED
    BY <1>1, <1>2, <1>3, <1>4, <1>5, <1>6, <1>7, <1>8, <1>9, <1>10, <1>11, <1>12, <1>13, <1>14, <1>15, <1>16, <1>17, <1>18 DEF MsNext

(* Every step keeps each execution in its path.                             *)
LEMMA PathStep == MsInv /\ [MsNext]_msVars => EachInItsPath'
  <1> SUFFICES ASSUME MsInv, [MsNext]_msVars PROVE EachInItsPath'
    OBVIOUS
  <1> USE MssqlAssumption DEF MsInv, SessionsTyped, MsTypeOK, EachInItsPath, MsRuns, Users, InSelect
  <1>1. ASSUME NEW u \in Users, TakeLock(u) PROVE EachInItsPath'
    BY <1>1 DEF TakeLock, GoTo
  <1>2. ASSUME NEW u \in Users, TakeClient(u) PROVE EachInItsPath'
    BY <1>2 DEF TakeClient, OwnConnection, GoTo
  <1>3. ASSUME NEW u \in Users, OpenClient(u) PROVE EachInItsPath'
    BY <1>3 DEF OpenClient, OwnConnection, GoTo
  <1>4. ASSUME NEW u \in Users, OpenFails(u) PROVE EachInItsPath'
    BY <1>4 DEF OpenFails, OwnConnection, Release, GoTo
  <1>5. ASSUME NEW r \in MsRuns, StartSelect(r) PROVE EachInItsPath'
    BY <1>5 DEF StartSelect, GoTo
  <1>6. ASSUME NEW r \in MsRuns, Execute(r) PROVE EachInItsPath'
    BY <1>6 DEF Execute, End, Reusable, Release, OwnConnection, Closed, GoTo
  <1>7. ASSUME NEW r \in MsRuns, BeginAgent(r) PROVE EachInItsPath'
    BY <1>7 DEF BeginAgent, End, Reusable, Release, OwnConnection, Closed, GoTo
  <1>8. ASSUME NEW r \in MsRuns, ExecuteAgent(r) PROVE EachInItsPath'
    BY <1>8 DEF ExecuteAgent, GoTo
  <1>9. ASSUME NEW r \in MsRuns, RollBackAgent(r) PROVE EachInItsPath'
    BY <1>9 DEF RollBackAgent, End, Reusable, Release, OwnConnection, Closed, GoTo
  <1>10. ASSUME NEW r \in MsRuns, ShowplanOn(r) PROVE EachInItsPath'
    BY <1>10 DEF ShowplanOn, End, Reusable, Release, OwnConnection, Closed, GoTo
  <1>11. ASSUME NEW r \in MsRuns, ShowPlan(r) PROVE EachInItsPath'
    BY <1>11 DEF ShowPlan, AfterPlan, GoTo
  <1>12. ASSUME NEW r \in MsRuns, ShowplanOff(r) PROVE EachInItsPath'
    BY <1>12 DEF ShowplanOff, End, Reusable, Release, OwnConnection, Closed, GoTo
  <1>13. ASSUME NEW r \in MsRuns, PressCancel(r) PROVE EachInItsPath'
    BY <1>13 DEF PressCancel, InSelect, GoTo
  <1>14. ASSUME NEW r \in MsRuns, SendAttention(r) PROVE EachInItsPath'
    BY <1>14 DEF SendAttention, DropClient, Closed, Release, GoTo
  <1>15. ASSUME NEW r \in MsRuns, AbortRun(r) PROVE EachInItsPath'
    BY <1>15 DEF AbortRun, Closed, GoTo
  <1>16. ASSUME NEW l \in Listers, QueryCatalog(l) PROVE EachInItsPath'
    BY <1>16 DEF QueryCatalog, End, Reusable, Release, OwnConnection, Closed, GoTo
  <1>17. CASE EndTransaction
    BY <1>17 DEF EndTransaction
  <1>18. CASE UNCHANGED msVars
    BY <1>18 DEF msVars
  <1> QED
    BY <1>1, <1>2, <1>3, <1>4, <1>5, <1>6, <1>7, <1>8, <1>9, <1>10, <1>11, <1>12, <1>13, <1>14, <1>15, <1>16, <1>17, <1>18 DEF MsNext

(* Every step keeps the connections in use open.                            *)
LEMMA LinksStep == MsInv /\ [MsNext]_msVars => LinksAreOpen'
  <1> SUFFICES ASSUME MsInv, [MsNext]_msVars PROVE LinksAreOpen'
    OBVIOUS
  <1> USE MssqlAssumption DEF MsInv, SessionsTyped, MsTypeOK, MsSessions, NoTransaction, LinksAreOpen, OneAtATime, MsRuns, Users, InSelect, EachInItsPath
  <1>1. ASSUME NEW u \in Users, TakeLock(u) PROVE LinksAreOpen'
    BY <1>1 DEF TakeLock, GoTo
  <1>2. ASSUME NEW u \in Users, TakeClient(u) PROVE LinksAreOpen'
    BY <1>2 DEF TakeClient, OwnConnection, GoTo
  <1>3. ASSUME NEW u \in Users, OpenClient(u) PROVE LinksAreOpen'
    BY <1>3 DEF OpenClient, OwnConnection, GoTo
  <1>4. ASSUME NEW u \in Users, OpenFails(u) PROVE LinksAreOpen'
    BY <1>4 DEF OpenFails, OwnConnection, Release, GoTo
  <1>5. ASSUME NEW r \in MsRuns, StartSelect(r) PROVE LinksAreOpen'
    BY <1>5 DEF StartSelect, GoTo
  <1>6. ASSUME NEW r \in MsRuns, Execute(r) PROVE LinksAreOpen'
    BY <1>6, ExecuteKeeps DEF SessionsStayClean
  <1>7. ASSUME NEW r \in MsRuns, BeginAgent(r) PROVE LinksAreOpen'
    BY <1>7, BeginAgentKeeps DEF SessionsStayClean
  <1>8. ASSUME NEW r \in MsRuns, ExecuteAgent(r) PROVE LinksAreOpen'
    BY <1>8, ExecuteAgentKeeps DEF SessionsStayClean
  <1>9. ASSUME NEW r \in MsRuns, RollBackAgent(r) PROVE LinksAreOpen'
    BY <1>9, RollBackAgentKeeps DEF SessionsStayClean
  <1>10. ASSUME NEW r \in MsRuns, ShowplanOn(r) PROVE LinksAreOpen'
    BY <1>10, ShowplanOnKeeps DEF SessionsStayClean
  <1>11. ASSUME NEW r \in MsRuns, ShowPlan(r) PROVE LinksAreOpen'
    BY <1>11 DEF ShowPlan, AfterPlan, GoTo
  <1>12. ASSUME NEW r \in MsRuns, ShowplanOff(r) PROVE LinksAreOpen'
    BY <1>12, ShowplanOffKeeps DEF SessionsStayClean
  <1>13. ASSUME NEW r \in MsRuns, PressCancel(r) PROVE LinksAreOpen'
    BY <1>13 DEF PressCancel, InSelect, GoTo
  <1>14. ASSUME NEW r \in MsRuns, SendAttention(r) PROVE LinksAreOpen'
    BY <1>14 DEF SendAttention, DropClient, Closed, Release, GoTo
  <1>15. ASSUME NEW r \in MsRuns, AbortRun(r) PROVE LinksAreOpen'
    BY <1>15 DEF AbortRun, Closed, GoTo
  <1>16. ASSUME NEW l \in Listers, QueryCatalog(l) PROVE LinksAreOpen'
    BY <1>16, QueryCatalogKeeps DEF SessionsStayClean
  <1>17. CASE EndTransaction
    BY <1>17 DEF EndTransaction
  <1>18. CASE UNCHANGED msVars
    BY <1>18 DEF msVars
  <1> QED
    BY <1>1, <1>2, <1>3, <1>4, <1>5, <1>6, <1>7, <1>8, <1>9, <1>10, <1>11, <1>12, <1>13, <1>14, <1>15, <1>16, <1>17, <1>18 DEF MsNext

(* No step leaves SHOWPLAN on.                                              *)
LEMMA PlansStep == MsInv /\ [MsNext]_msVars => PlansAreSwitchedOff'
  <1> SUFFICES ASSUME MsInv, [MsNext]_msVars PROVE PlansAreSwitchedOff'
    OBVIOUS
  <1> USE MssqlAssumption DEF MsInv, SessionsTyped, MsTypeOK, MsSessions, NoTransaction, PlansAreSwitchedOff, LinksAreOpen, OneAtATime, MsRuns, Users, InSelect, EachInItsPath
  <1>1. ASSUME NEW u \in Users, TakeLock(u) PROVE PlansAreSwitchedOff'
    BY <1>1 DEF TakeLock, GoTo
  <1>2. ASSUME NEW u \in Users, TakeClient(u) PROVE PlansAreSwitchedOff'
    BY <1>2 DEF TakeClient, OwnConnection, GoTo
  <1>3. ASSUME NEW u \in Users, OpenClient(u) PROVE PlansAreSwitchedOff'
    BY <1>3 DEF OpenClient, OwnConnection, GoTo
  <1>4. ASSUME NEW u \in Users, OpenFails(u) PROVE PlansAreSwitchedOff'
    BY <1>4 DEF OpenFails, OwnConnection, Release, GoTo
  <1>5. ASSUME NEW r \in MsRuns, StartSelect(r) PROVE PlansAreSwitchedOff'
    BY <1>5 DEF StartSelect, GoTo
  <1>6. ASSUME NEW r \in MsRuns, Execute(r) PROVE PlansAreSwitchedOff'
    BY <1>6, ExecuteKeeps DEF SessionsStayClean
  <1>7. ASSUME NEW r \in MsRuns, BeginAgent(r) PROVE PlansAreSwitchedOff'
    BY <1>7, BeginAgentKeeps DEF SessionsStayClean
  <1>8. ASSUME NEW r \in MsRuns, ExecuteAgent(r) PROVE PlansAreSwitchedOff'
    BY <1>8, ExecuteAgentKeeps DEF SessionsStayClean
  <1>9. ASSUME NEW r \in MsRuns, RollBackAgent(r) PROVE PlansAreSwitchedOff'
    BY <1>9, RollBackAgentKeeps DEF SessionsStayClean
  <1>10. ASSUME NEW r \in MsRuns, ShowplanOn(r) PROVE PlansAreSwitchedOff'
    BY <1>10, ShowplanOnKeeps DEF SessionsStayClean
  <1>11. ASSUME NEW r \in MsRuns, ShowPlan(r) PROVE PlansAreSwitchedOff'
    BY <1>11 DEF ShowPlan, AfterPlan, GoTo
  <1>12. ASSUME NEW r \in MsRuns, ShowplanOff(r) PROVE PlansAreSwitchedOff'
    BY <1>12, ShowplanOffKeeps DEF SessionsStayClean
  <1>13. ASSUME NEW r \in MsRuns, PressCancel(r) PROVE PlansAreSwitchedOff'
    BY <1>13 DEF PressCancel, InSelect, GoTo
  <1>14. ASSUME NEW r \in MsRuns, SendAttention(r) PROVE PlansAreSwitchedOff'
    BY <1>14 DEF SendAttention, DropClient, Closed, Release, GoTo
  <1>15. ASSUME NEW r \in MsRuns, AbortRun(r) PROVE PlansAreSwitchedOff'
    BY <1>15 DEF AbortRun, Closed, GoTo
  <1>16. ASSUME NEW l \in Listers, QueryCatalog(l) PROVE PlansAreSwitchedOff'
    BY <1>16, QueryCatalogKeeps DEF SessionsStayClean
  <1>17. CASE EndTransaction
    BY <1>17 DEF EndTransaction
  <1>18. CASE UNCHANGED msVars
    BY <1>18 DEF msVars
  <1> QED
    BY <1>1, <1>2, <1>3, <1>4, <1>5, <1>6, <1>7, <1>8, <1>9, <1>10, <1>11, <1>12, <1>13, <1>14, <1>15, <1>16, <1>17, <1>18 DEF MsNext

(* Every step keeps the agent apart.                                        *)
LEMMA AgentStep == MsInv /\ [MsNext]_msVars => AgentIsApart'
  <1> SUFFICES ASSUME MsInv, [MsNext]_msVars PROVE AgentIsApart'
    OBVIOUS
  <1> USE MssqlAssumption DEF MsInv, SessionsTyped, MsTypeOK, MsSessions, NoTransaction, AgentIsApart, AgentCommitsNothing, LinksAreOpen, OneAtATime, MsRuns, Users, InSelect, EachInItsPath
  <1>1. ASSUME NEW u \in Users, TakeLock(u) PROVE AgentIsApart'
    BY <1>1 DEF TakeLock, GoTo
  <1>2. ASSUME NEW u \in Users, TakeClient(u) PROVE AgentIsApart'
    BY <1>2 DEF TakeClient, OwnConnection, GoTo
  <1>3. ASSUME NEW u \in Users, OpenClient(u) PROVE AgentIsApart'
    BY <1>3 DEF OpenClient, OwnConnection, GoTo
  <1>4. ASSUME NEW u \in Users, OpenFails(u) PROVE AgentIsApart'
    BY <1>4 DEF OpenFails, OwnConnection, Release, GoTo
  <1>5. ASSUME NEW r \in MsRuns, StartSelect(r) PROVE AgentIsApart'
    BY <1>5 DEF StartSelect, GoTo
  <1>6. ASSUME NEW r \in MsRuns, Execute(r) PROVE AgentIsApart'
    BY <1>6, ExecuteKeeps DEF SessionsStayClean
  <1>7. ASSUME NEW r \in MsRuns, BeginAgent(r) PROVE AgentIsApart'
    BY <1>7, BeginAgentKeeps DEF SessionsStayClean
  <1>8. ASSUME NEW r \in MsRuns, ExecuteAgent(r) PROVE AgentIsApart'
    BY <1>8, ExecuteAgentKeeps DEF SessionsStayClean
  <1>9. ASSUME NEW r \in MsRuns, RollBackAgent(r) PROVE AgentIsApart'
    BY <1>9, RollBackAgentKeeps DEF SessionsStayClean
  <1>10. ASSUME NEW r \in MsRuns, ShowplanOn(r) PROVE AgentIsApart'
    BY <1>10, ShowplanOnKeeps DEF SessionsStayClean
  <1>11. ASSUME NEW r \in MsRuns, ShowPlan(r) PROVE AgentIsApart'
    BY <1>11 DEF ShowPlan, AfterPlan, GoTo
  <1>12. ASSUME NEW r \in MsRuns, ShowplanOff(r) PROVE AgentIsApart'
    BY <1>12, ShowplanOffKeeps DEF SessionsStayClean
  <1>13. ASSUME NEW r \in MsRuns, PressCancel(r) PROVE AgentIsApart'
    BY <1>13 DEF PressCancel, InSelect, GoTo
  <1>14. ASSUME NEW r \in MsRuns, SendAttention(r) PROVE AgentIsApart'
    BY <1>14, CommittedIsShown DEF SendAttention, DropClient, Closed, Release, GoTo, CommittedIfSent
  <1>15. ASSUME NEW r \in MsRuns, AbortRun(r) PROVE AgentIsApart'
    BY <1>15, CommittedIsShown DEF AbortRun, Closed, GoTo, CommittedIfSent
  <1>16. ASSUME NEW l \in Listers, QueryCatalog(l) PROVE AgentIsApart'
    BY <1>16, QueryCatalogKeeps DEF SessionsStayClean
  <1>17. CASE EndTransaction
    BY <1>17 DEF EndTransaction
  <1>18. CASE UNCHANGED msVars
    BY <1>18 DEF msVars
  <1> QED
    BY <1>1, <1>2, <1>3, <1>4, <1>5, <1>6, <1>7, <1>8, <1>9, <1>10, <1>11, <1>12, <1>13, <1>14, <1>15, <1>16, <1>17, <1>18 DEF MsNext

(* Every step keeps the types.                                              *)
LEMMA MsTypeStep == MsInv /\ [MsNext]_msVars => SessionsTyped'
  <1> SUFFICES ASSUME MsInv, [MsNext]_msVars PROVE SessionsTyped'
    OBVIOUS
  <1>1. ASSUME NEW u \in Users, TakeLock(u) PROVE SessionsTyped'
    BY <1>1 DEF TakeLock, GoTo, InSelect, MsSessions, MsInv, SessionsTyped, MsTypeOK
  <1>2. ASSUME NEW u \in Users, TakeClient(u) PROVE SessionsTyped'
    BY <1>2 DEF TakeClient, OwnConnection, GoTo, InSelect, MsSessions, MsInv, SessionsTyped, MsTypeOK
  <1>3. ASSUME NEW u \in Users, OpenClient(u) PROVE SessionsTyped'
    BY <1>3 DEF OpenClient, OwnConnection, GoTo, InSelect, MsSessions, MsInv, SessionsTyped, MsTypeOK
  <1>4. ASSUME NEW u \in Users, OpenFails(u) PROVE SessionsTyped'
    BY <1>4 DEF OpenFails, OwnConnection, Release, GoTo, InSelect, MsSessions, MsInv, SessionsTyped, MsTypeOK
  <1>5. ASSUME NEW r \in MsRuns, StartSelect(r) PROVE SessionsTyped'
    BY <1>5 DEF StartSelect, GoTo, InSelect, MsSessions, MsInv, SessionsTyped, MsTypeOK
  <1>6. ASSUME NEW r \in MsRuns, Execute(r) PROVE SessionsTyped'
    <2>1. msAt[r] \notin {"new", "take", "ended"} /\ r \in Users
      BY <1>6 DEF Execute, InSelect, Users
    <2>2. link[r] # NoLink /\ link[r] \in Links /\ OnlyItsOwn(r, sess) /\ sess[link[r]] \in MsSessions
      BY <2>1, InUse DEF MsInv
    <2>3. OnlyItsOwn(r, Effect(r))
      BY <2>2, EffectIs DEF OnlyItsOwn
    <2>4. /\ UNCHANGED <<asks, msPressed>> /\ durable' \subseteq MsRuns /\ broken' \subseteq Links
          /\ End(r, TRUE, Effect(r)) \/ End(r, TRUE, sess) \/ End(r, FALSE, sess)
      BY <1>6, <2>2, CommittedTyped DEF Execute, MsInv, SessionsTyped, MsTypeOK
    <2> QED
      BY <2>1, <2>2, <2>3, <2>4, EndTyped
  <1>7. ASSUME NEW r \in MsRuns, BeginAgent(r) PROVE SessionsTyped'
    <2>1. msAt[r] \notin {"new", "take", "ended"} /\ r \in Users
      BY <1>7 DEF BeginAgent, InSelect, Users
    <2>2. link[r] # NoLink /\ link[r] \in Links /\ OnlyItsOwn(r, sess) /\ sess[link[r]] \in MsSessions
      BY <2>1, InUse DEF MsInv
    <2>3. CASE \E fit \in BOOLEAN : End(r, fit, sess)
      <3>1. UNCHANGED <<asks, msPressed>> /\ durable' \subseteq MsRuns /\ broken' \subseteq Links
        BY <1>7 DEF BeginAgent, MsInv, SessionsTyped, MsTypeOK
      <3> QED
        BY <2>1, <2>2, <2>3, <3>1, EndTyped
    <2>4. CASE sess' = [sess EXCEPT ![link[r]].tx.open = TRUE] /\ GoTo(r, "exec") /\ UNCHANGED <<slot, holder, link>>
      <3>1. [sess[link[r]] EXCEPT !.tx.open = TRUE] \in MsSessions
        BY <2>2 DEF MsSessions
      <3>2. sess' = [sess EXCEPT ![link[r]] = [sess[link[r]] EXCEPT !.tx.open = TRUE]]
        BY <2>4
      <3>3. sess' \in [Links -> MsSessions]
        BY <2>2, <3>1, <3>2 DEF MsInv, SessionsTyped
      <3>4. msAt' \in [Users -> {"new", "take", "registered", "query", "attention", "ended"} \cup InSelect]
        BY <2>4 DEF GoTo, InSelect, MsInv, SessionsTyped, MsTypeOK
      <3> QED
        BY <1>7, <2>4, <3>3, <3>4, TypedIs DEF BeginAgent, MsInv, SessionsTyped, MsTypeOK
    <2> QED
      BY <1>7, <2>3, <2>4 DEF BeginAgent
  <1>8. ASSUME NEW r \in MsRuns, ExecuteAgent(r) PROVE SessionsTyped'
    <2>1. msAt[r] \notin {"new", "take", "ended"} /\ r \in Users
      BY <1>8 DEF ExecuteAgent, InSelect, Users
    <2>2. link[r] # NoLink /\ link[r] \in Links /\ OnlyItsOwn(r, sess) /\ sess[link[r]] \in MsSessions
      BY <2>1, InUse DEF MsInv
    <2>3. sess' \in [Links -> MsSessions] /\ durable' \subseteq MsRuns
      BY <1>8, <2>2, EffectIs, CommittedTyped DEF ExecuteAgent, MsInv, SessionsTyped, MsTypeOK
    <2>4. msAt' \in [Users -> {"new", "take", "registered", "query", "attention", "ended"} \cup InSelect]
      BY <1>8 DEF ExecuteAgent, GoTo, InSelect, MsInv, SessionsTyped, MsTypeOK
    <2> QED
      BY <1>8, <2>3, <2>4, TypedIs DEF ExecuteAgent, MsInv, SessionsTyped, MsTypeOK
  <1>9. ASSUME NEW r \in MsRuns, RollBackAgent(r) PROVE SessionsTyped'
    <2>1. msAt[r] \notin {"new", "take", "ended"} /\ r \in Users
      BY <1>9 DEF RollBackAgent, InSelect, Users
    <2>2. link[r] # NoLink /\ link[r] \in Links /\ OnlyItsOwn(r, sess) /\ sess[link[r]] \in MsSessions
      BY <2>1, InUse DEF MsInv
    <2>3. OnlyItsOwn(r, [sess EXCEPT ![link[r]].tx = NoTransaction])
      BY <2>2 DEF OnlyItsOwn, MsSessions, NoTransaction
    <2>4. UNCHANGED <<asks, msPressed>> /\ durable' \subseteq MsRuns /\ broken' \subseteq Links
      BY <1>9 DEF RollBackAgent, MsInv, SessionsTyped, MsTypeOK
    <2> QED
      BY <1>9, <2>1, <2>2, <2>3, <2>4, EndTyped DEF RollBackAgent
  <1>10. ASSUME NEW r \in MsRuns, ShowplanOn(r) PROVE SessionsTyped'
    <2>1. msAt[r] \notin {"new", "take", "ended"} /\ r \in Users
      BY <1>10 DEF ShowplanOn, InSelect, Users
    <2>2. link[r] # NoLink /\ link[r] \in Links /\ OnlyItsOwn(r, sess) /\ sess[link[r]] \in MsSessions
      BY <2>1, InUse DEF MsInv
    <2>3. CASE \E fit \in BOOLEAN : End(r, fit, sess)
      <3>1. UNCHANGED <<asks, msPressed>> /\ durable' \subseteq MsRuns /\ broken' \subseteq Links
        BY <1>10 DEF ShowplanOn, MsInv, SessionsTyped, MsTypeOK
      <3> QED
        BY <2>1, <2>2, <2>3, <3>1, EndTyped
    <2>4. CASE sess' = [sess EXCEPT ![link[r]].showplan = TRUE] /\ GoTo(r, "plan") /\ UNCHANGED <<slot, holder, link>>
      <3>1. sess' \in [Links -> MsSessions]
        BY <2>2, <2>4 DEF MsInv, SessionsTyped, MsSessions
      <3>2. msAt' \in [Users -> {"new", "take", "registered", "query", "attention", "ended"} \cup InSelect]
        BY <2>4 DEF GoTo, InSelect, MsInv, SessionsTyped, MsTypeOK
      <3> QED
        BY <1>10, <2>4, <3>1, <3>2, TypedIs DEF ShowplanOn, MsInv, SessionsTyped, MsTypeOK
    <2> QED
      BY <1>10, <2>3, <2>4 DEF ShowplanOn
  <1>11. ASSUME NEW r \in MsRuns, ShowPlan(r) PROVE SessionsTyped'
    BY <1>11 DEF ShowPlan, AfterPlan, GoTo, InSelect, MsSessions, MsInv, SessionsTyped, MsTypeOK
  <1>12. ASSUME NEW r \in MsRuns, ShowplanOff(r) PROVE SessionsTyped'
    <2>1. msAt[r] \notin {"new", "take", "ended"} /\ r \in Users
      BY <1>12 DEF ShowplanOff, InSelect, Users
    <2>2. link[r] # NoLink /\ link[r] \in Links /\ OnlyItsOwn(r, sess) /\ sess[link[r]] \in MsSessions
      BY <2>1, InUse DEF MsInv
    <2>3. OnlyItsOwn(r, [sess EXCEPT ![link[r]].showplan = FALSE])
      BY <2>2 DEF OnlyItsOwn, MsSessions
    <2>4. UNCHANGED <<asks, msPressed>> /\ durable' \subseteq MsRuns /\ broken' \subseteq Links
      BY <1>12 DEF ShowplanOff, MsInv, SessionsTyped, MsTypeOK
    <2> QED
      BY <1>12, <2>1, <2>2, <2>3, <2>4, EndTyped DEF ShowplanOff
  <1>13. ASSUME NEW r \in MsRuns, PressCancel(r) PROVE SessionsTyped'
    BY <1>13 DEF PressCancel, InSelect, GoTo, InSelect, MsSessions, MsInv, SessionsTyped, MsTypeOK
  <1>14. ASSUME NEW r \in MsRuns, SendAttention(r) PROVE SessionsTyped'
    <2>1. sess' \in [Links -> MsSessions] /\ durable' \subseteq MsRuns
      BY <1>14, ClosedTyped, CommittedTyped DEF SendAttention, DropClient, CommittedIfSent, Users, MsInv, SessionsTyped, MsTypeOK
    <2>2. /\ msAt' \in [Users -> {"new", "take", "registered", "query", "attention", "ended"} \cup InSelect]
          /\ link' \in [Users -> Links \cup {NoLink}] /\ holder' \in Users \cup {NoRun}
      BY <1>14 DEF SendAttention, GoTo, Release, MsInv, SessionsTyped, MsTypeOK
    <2> QED
      BY <1>14, <2>1, <2>2, TypedIs DEF SendAttention, DropClient, MsInv, SessionsTyped, MsTypeOK
  <1>15. ASSUME NEW r \in MsRuns, AbortRun(r) PROVE SessionsTyped'
    <2>1. sess' \in [Links -> MsSessions] /\ durable' \subseteq MsRuns
      BY <1>15, ClosedTyped, CommittedTyped DEF AbortRun, CommittedIfSent, Users, MsInv, SessionsTyped, MsTypeOK
    <2>2. /\ msAt' \in [Users -> {"new", "take", "registered", "query", "attention", "ended"} \cup InSelect]
          /\ link' \in [Users -> Links \cup {NoLink}] /\ holder' \in Users \cup {NoRun}
      BY <1>15 DEF AbortRun, GoTo, MsInv, SessionsTyped, MsTypeOK
    <2> QED
      BY <1>15, <2>1, <2>2, TypedIs DEF AbortRun, MsInv, SessionsTyped, MsTypeOK
  <1>16. ASSUME NEW l \in Listers, QueryCatalog(l) PROVE SessionsTyped'
    <2>1. msAt[l] \notin {"new", "take", "ended"} /\ l \in Users
      BY <1>16 DEF QueryCatalog, InSelect, Users
    <2>2. link[l] # NoLink /\ link[l] \in Links /\ OnlyItsOwn(l, sess) /\ sess[link[l]] \in MsSessions
      BY <2>1, InUse DEF MsInv
    <2>3. UNCHANGED <<asks, msPressed>> /\ durable' \subseteq MsRuns /\ broken' \subseteq Links
      BY <1>16, <2>2 DEF QueryCatalog, MsInv, SessionsTyped, MsTypeOK
    <2> QED
      BY <1>16, <2>1, <2>2, <2>3, EndTyped DEF QueryCatalog
  <1>17. CASE EndTransaction
    <2>1. slot \in Links /\ sess[slot] \in MsSessions /\ sess[slot].tx.of \subseteq MsRuns
      BY <1>17 DEF EndTransaction, MsInv, SessionsTyped, MsTypeOK
    <2>2. sess' \in [Links -> MsSessions]
      BY <1>17, <2>1 DEF EndTransaction, MsInv, SessionsTyped, MsSessions, NoTransaction
    <2>3. durable' \subseteq MsRuns
      BY <1>17, <2>1 DEF EndTransaction, MsInv, SessionsTyped, MsTypeOK
    <2> QED
      BY <1>17, <2>2, <2>3, TypedIs DEF EndTransaction, MsInv, SessionsTyped, MsTypeOK
  <1>18. CASE UNCHANGED msVars
    BY <1>18 DEF msVars, MsInv, SessionsTyped, MsTypeOK
  <1> QED
    BY <1>1, <1>2, <1>3, <1>4, <1>5, <1>6, <1>7, <1>8, <1>9, <1>10, <1>11, <1>12, <1>13, <1>14, <1>15, <1>16, <1>17, <1>18 DEF MsNext

(* The invariant of the SQL Server sessions.                               *)
THEOREM MsInvariance == MsSpec => []MsInv
  <1>1. MsInit => MsInv
    <2> SUFFICES ASSUME MsInit PROVE MsInv
      OBVIOUS
    <2>1. PICK first \in Links :
            /\ slot = first
            /\ sess = [c \in Links |-> [is |-> IF c = first THEN "open" ELSE "unused", showplan |-> FALSE, tx |-> NoTransaction]]
      BY DEF MsInit
    <2>2. /\ msAt = [u \in Users |-> "new"] /\ link = [u \in Users |-> NoLink] /\ holder = NoRun
          /\ asks \in [Users -> Statements2] /\ (\A u \in Users \ ShownRuns : asks[u] = "write")
          /\ durable = {} /\ msPressed = {} /\ broken = {}
      BY DEF MsInit
    <2>3. /\ sess \in [Links -> MsSessions] /\ sess[slot].is = "open"
          /\ \A c \in Links : ~sess[c].showplan /\ sess[c].tx = NoTransaction
      BY <2>1 DEF MsSessions, NoTransaction
    <2>4. SessionsTyped
      BY <2>1, <2>2, <2>3 DEF SessionsTyped, MsTypeOK, MsSessions
    <2>5. OneAtATime
      BY <2>2, MssqlAssumption DEF OneAtATime, Users, MsRuns
    <2>6. EachInItsPath
      BY <2>2 DEF EachInItsPath
    <2>7. LinksAreOpen /\ PlansAreSwitchedOff
      BY <2>1, <2>2, <2>3 DEF LinksAreOpen, PlansAreSwitchedOff
    <2>8. AgentIsApart
      BY <2>1, <2>2, <2>3 DEF AgentIsApart, AgentCommitsNothing, NoTransaction, Users, MsRuns
    <2> QED
      BY <2>4, <2>5, <2>6, <2>7, <2>8 DEF MsInv
  <1>2. MsInv /\ [MsNext]_msVars => MsInv'
    BY MsTypeStep, OneAtATimeStep, PathStep, LinksStep, PlansStep, AgentStep DEF MsInv
  <1> QED
    BY <1>1, <1>2, PTL DEF MsSpec

(* What a step takes out of a transaction that was open in session c.      *)
Taken(c) == (sess[c].tx.of \cap ShownRuns) \ (sess'[c].tx.of \cup durable')
IsKept(c) ==
  Taken(c) # {} =>
    \/ EndTransaction
    \/ /\ sess'[c].is = "closed"
       /\ \/ c \in broken'
          \/ \E r \in msPressed' : link[r] = c
          \/ \E q \in ShownRuns : link[q] = c /\ asks[q] = "explain"
(* Only the end of a connection of the user's takes anything.              *)
LEMMA EndTakes ==
  ASSUME MsInv, NEW u \in Users, link[u] # NoLink, NEW fit \in BOOLEAN, NEW after, OnlyItsOwn(u, after),
         End(u, fit, after), sess[link[u]].tx.of \subseteq after[link[u]].tx.of \/ u \in ChatRuns,
         NEW c \in Links, Taken(c) # {}
  PROVE  c = link[u] /\ ~fit /\ u \notin ChatRuns /\ sess'[c].is = "closed"
  <1>1. c = link[u]
    BY EndLeads DEF Taken
  <1>2. u \notin ChatRuns
    BY <1>1 DEF MsInv, AgentIsApart, Taken
  <1>3. ~fit
    BY <1>1, <1>2, EndLeads DEF Taken
  <1> QED
    BY <1>1, <1>2, <1>3, EndLeads DEF ClosedSession

(* Every step of the sessions keeps the user's transactions.               *)
LEMMA TransactionsStep ==
  MsInv /\ [MsNext]_msVars =>
    [\A c \in Links :
       LET lost == (sess[c].tx.of \cap ShownRuns) \ (sess'[c].tx.of \cup durable') IN
       lost # {} =>
         \/ EndTransaction
         \/ /\ sess'[c].is = "closed"
            /\ \/ c \in broken'
               \/ \E r \in msPressed' : link[r] = c
               \/ \E q \in ShownRuns : link[q] = c /\ asks[q] = "explain"]_msVars
  <1> SUFFICES ASSUME MsInv, MsNext PROVE \A c \in Links : IsKept(c)
    BY DEF Taken, IsKept
  <1> SUFFICES ASSUME NEW c \in Links, Taken(c) # {} PROVE IsKept(c)
    BY DEF IsKept
  <1>0. sess' # sess
    BY DEF Taken
  <1>1. ASSUME NEW u \in Users, OpenClient(u) PROVE FALSE
    <2>1. sess'[c].tx = sess[c].tx
      BY <1>1 DEF OpenClient, MsInv, SessionsTyped, MsSessions
    <2> QED
      BY <2>1 DEF Taken
  <1>2. ASSUME NEW r \in MsRuns, Execute(r) PROVE IsKept(c)
    <2>1. r \in Users /\ msAt[r] = "exec"
      BY <1>2 DEF Execute, Users
    <2>2. link[r] # NoLink /\ OnlyItsOwn(r, sess) /\ OnlyItsOwn(r, Effect(r))
      BY <2>1, InUse, EffectIs DEF OnlyItsOwn
    <2>3. ~End(r, TRUE, Effect(r)) /\ ~End(r, TRUE, sess)
      BY <2>1, <2>2, EndTakes, EffectIs
    <2>4. End(r, FALSE, sess) /\ broken' = broken \cup {link[r]}
      BY <1>2, <2>3 DEF Execute
    <2>5. c = link[r] /\ sess'[c].is = "closed"
      BY <2>1, <2>2, <2>4, EndTakes
    <2> QED
      BY <2>4, <2>5 DEF IsKept
  <1>3. ASSUME NEW r \in MsRuns, BeginAgent(r) PROVE FALSE
    <2>1. r \in Users /\ msAt[r] = "begin" /\ r \in ChatRuns
      BY <1>3 DEF BeginAgent, Users, MsInv, EachInItsPath
    <2>2. link[r] # NoLink /\ OnlyItsOwn(r, sess)
      BY <2>1, InUse
    <2>3. sess' = [sess EXCEPT ![link[r]].tx.open = TRUE]
      BY <1>3, <2>1, <2>2, EndTakes DEF BeginAgent
    <2>4. sess'[c].tx.of = sess[c].tx.of
      BY <2>3 DEF MsInv, SessionsTyped, MsSessions
    <2> QED
      BY <2>4 DEF Taken
  <1>4. ASSUME NEW r \in MsRuns, ExecuteAgent(r) PROVE FALSE
    <2>1. sess' = Effect(r) /\ link[r] # NoLink
      BY <1>0, <1>4, InUse DEF ExecuteAgent, Users
    <2>2. sess[c].tx.of \subseteq sess'[c].tx.of
      BY <2>1, EffectIs
    <2> QED
      BY <2>2 DEF Taken
  <1>5. ASSUME NEW r \in MsRuns, RollBackAgent(r) PROVE FALSE
    <2>1. r \in Users /\ msAt[r] = "rollback" /\ r \in ChatRuns
      BY <1>5 DEF RollBackAgent, Users, MsInv, EachInItsPath
    <2>2. link[r] # NoLink /\ link[r] \in Links /\ OnlyItsOwn(r, sess) /\ sess[link[r]] \in MsSessions
      BY <2>1, InUse
    <2>3. OnlyItsOwn(r, [sess EXCEPT ![link[r]].tx = NoTransaction])
      BY <2>2 DEF OnlyItsOwn, MsSessions, NoTransaction
    <2> QED
      BY <1>5, <2>1, <2>2, <2>3, EndTakes DEF RollBackAgent
  <1>6. ASSUME NEW r \in MsRuns, ShowplanOn(r) PROVE IsKept(c)
    <2>1. r \in Users /\ msAt[r] = "on" /\ r \in ShownRuns /\ asks[r] = "explain"
      BY <1>6 DEF ShowplanOn, Users, MsInv, EachInItsPath
    <2>2. link[r] # NoLink /\ OnlyItsOwn(r, sess)
      BY <2>1, InUse
    <2>3. CASE sess' = [sess EXCEPT ![link[r]].showplan = TRUE]
      <3>1. sess'[c].tx = sess[c].tx
        BY <2>3 DEF MsInv, SessionsTyped, MsSessions
      <3> QED
        BY <3>1 DEF Taken
    <2>4. CASE \E fit \in BOOLEAN : End(r, fit, sess)
      <3>1. c = link[r] /\ sess'[c].is = "closed"
        BY <2>1, <2>2, <2>4, EndTakes
      <3> QED
        BY <2>1, <3>1 DEF IsKept
    <2> QED
      BY <1>6, <2>3, <2>4 DEF ShowplanOn
  <1>7. ASSUME NEW r \in MsRuns, ShowplanOff(r) PROVE IsKept(c)
    <2>1. r \in Users /\ msAt[r] = "off" /\ r \in ShownRuns /\ asks[r] = "explain"
      BY <1>7 DEF ShowplanOff, Users, MsInv, EachInItsPath
    <2>2. link[r] # NoLink /\ link[r] \in Links /\ OnlyItsOwn(r, sess) /\ sess[link[r]] \in MsSessions
      BY <2>1, InUse
    <2>3. DEFINE after == [sess EXCEPT ![link[r]].showplan = FALSE]
    <2>4. OnlyItsOwn(r, after) /\ after[link[r]].tx = sess[link[r]].tx
      BY <2>2 DEF OnlyItsOwn, MsSessions
    <2>5. End(r, TRUE, after) \/ End(r, FALSE, sess)
      BY <1>7 DEF ShowplanOff
    <2> HIDE DEF after
    <2>6. c = link[r] /\ sess'[c].is = "closed"
      BY <2>1, <2>2, <2>4, <2>5, EndTakes
    <2> QED
      BY <2>1, <2>6 DEF IsKept
  <1>8. ASSUME NEW l \in Listers, QueryCatalog(l) PROVE IsKept(c)
    <2>1. l \in Users /\ msAt[l] = "query"
      BY <1>8 DEF QueryCatalog, Users
    <2>2. link[l] # NoLink /\ OnlyItsOwn(l, sess)
      BY <2>1, InUse
    <2>3. End(l, FALSE, sess) /\ broken' = broken \cup {link[l]}
      BY <1>8, <2>1, <2>2, EndTakes DEF QueryCatalog
    <2>4. c = link[l] /\ sess'[c].is = "closed"
      BY <2>1, <2>2, <2>3, EndTakes
    <2> QED
      BY <2>3, <2>4 DEF IsKept
  <1>9. ASSUME NEW r \in MsRuns, sess' = Closed(sess, link[r]), r \in msPressed' PROVE IsKept(c)
    <2>1. link[r] # NoLink /\ sess' = [sess EXCEPT ![link[r]] = ClosedSession]
      BY <1>0, <1>9 DEF Closed, ClosedSession
    <2>2. c = link[r]
      BY <2>1 DEF Taken, MsInv, SessionsTyped
    <2> QED
      BY <1>9, <2>1, <2>2 DEF IsKept, ClosedSession, MsInv, SessionsTyped
  <1>10. ASSUME NEW r \in MsRuns, SendAttention(r) \/ AbortRun(r) PROVE IsKept(c)
    <2>1. sess' = Closed(sess, link[r]) /\ r \in msPressed'
      BY <1>10 DEF SendAttention, DropClient, AbortRun, MsInv, EachInItsPath, Users
    <2> QED
      BY <1>9, <2>1
  <1> QED
    BY <1>0, <1>1, <1>2, <1>3, <1>4, <1>5, <1>6, <1>7, <1>8, <1>10
    DEF MsNext, TakeLock, TakeClient, OpenFails, StartSelect, ShowPlan, AfterPlan, PressCancel, IsKept

(* No statement meets what another left in its session, the agent commits  *)
(* nothing, no connection is shared, and a transaction of the user is lost *)
(* only with its connection.                                               *)
THEOREM MssqlKeepsPromise == MsSpec => MssqlPromise
  <1>1. MsInv => PlansAreAskedFor /\ AgentCommitsNothing /\ LinksAreNotShared
    <2> SUFFICES ASSUME MsInv PROVE PlansAreAskedFor /\ LinksAreNotShared
      BY DEF MsInv, AgentIsApart
    <2>1. PlansAreAskedFor
      BY DEF MsInv, OneAtATime, PlansAreSwitchedOff, PlansAreAskedFor
    <2>2. LinksAreNotShared
      BY DEF MsInv, OneAtATime, LinksAreOpen, LinksAreNotShared
    <2> QED
      BY <2>1, <2>2
  <1> QED
    BY <1>1, TransactionsStep, MsInvariance, PTL DEF MsSpec, MssqlPromise, TransactionsAreKept

----------------------------------------------------------------------------
(***************************************************************************)
(* DuckdbSession                                                           *)
(***************************************************************************)

(***************************************************************************)
(* DuckdbSession                                                           *)
(***************************************************************************)

(* The thread of an execution is running exactly while it has the          *)
(* connection; its future holds the lock exactly while it waits.           *)
Holding == {"holds", "readOnly", "statement", "executes"}
TaskOver == {"done", "failed", "refused"}
ThreadsHold ==
  \A e \in Executions :
    /\ task[e] \in Holding <=> conn = e
    /\ dkAt[e] = "awaiting" <=> exec = e
    /\ e \in regs => dkAt[e] = "awaiting"
    /\ dkAt[e] = "new" => task[e] = "none"
    /\ dkAt[e] \in {"finished", "cancelled"} => task[e] \in TaskOver
    /\ task[e] = "readOnly" => e \in GuardedRuns

(* A transaction of the agent is the one of the statement being executed.  *)
AgentsTransaction ==
  /\ \A e \in GuardedRuns : task[e] \in {"statement", "executes"} => openedBy = e
  /\ openedBy \in GuardedRuns => task[openedBy] \in {"statement", "executes"}

(* Who was flagged in time is refused.                                     *)
EarlyIsRefused == \A e \in early : task[e] \in {"queued", "holds", "refused"}

DkInv == DkTypeOK /\ ThreadsHold /\ AgentsTransaction /\ EarlyIsRefused /\ ReportsWhatHappened

(* Every step keeps the types. *)
LEMMA DkTypeStep == DkInv /\ [DkNext]_dkVars => DkTypeOK'
  <1> SUFFICES ASSUME DkInv, [DkNext]_dkVars PROVE DkTypeOK'
    OBVIOUS
  <1> USE DuckdbAssumption DEF DkInv, DkTypeOK, Executions, DkRuns, ThreadsHold, Holding
  <1>1. ASSUME NEW e \in Executions, BeginExecution(e) PROVE DkTypeOK'
    BY <1>1 DEF BeginExecution, NeedsExec, TaskTo
  <1>2. ASSUME NEW e \in Executions, FinishExecution(e) PROVE DkTypeOK'
    BY <1>2 DEF FinishExecution, Outcome
  <1>3. ASSUME NEW e \in Executions, LockConnection(e) PROVE DkTypeOK'
    BY <1>3 DEF LockConnection, TaskTo
  <1>4. ASSUME NEW e \in Executions, CheckFlag(e) PROVE DkTypeOK'
    BY <1>4 DEF CheckFlag, FlagSeen, TaskTo
  <1>5. ASSUME NEW e \in Executions, StartStatement(e) PROVE DkTypeOK'
    BY <1>5 DEF StartStatement, TaskTo
  <1>6. ASSUME NEW e \in Executions, StatementReturns(e) PROVE DkTypeOK'
    BY <1>6 DEF StatementReturns, EndStatement, TaskTo
  <1>7. ASSUME NEW e \in GuardedRuns, BeginReadOnly(e) PROVE DkTypeOK'
    BY <1>7 DEF BeginReadOnly, LeaveTransaction, TaskTo
  <1>8. ASSUME NEW e \in TableRuns, DropFuture(e) PROVE DkTypeOK'
    BY <1>8 DEF DropFuture
  <1>9. ASSUME NEW e \in DkRuns, SetFlag(e) PROVE DkTypeOK'
    BY <1>9 DEF SetFlag
  <1>10. ASSUME NEW e \in DkRuns, Interrupt(e) PROVE DkTypeOK'
    BY <1>10 DEF Interrupt, EndStatement, TaskTo
  <1>11. CASE EndOwnTransaction
    BY <1>11 DEF EndOwnTransaction
  <1>12. CASE UNCHANGED dkVars
    BY <1>12 DEF dkVars
  <1> QED
    BY <1>1, <1>2, <1>3, <1>4, <1>5, <1>6, <1>7, <1>8, <1>9, <1>10, <1>11, <1>12 DEF DkNext

(* Every step keeps the connection with its thread, the lock with its      *)
(* future.                                                                 *)
LEMMA ThreadsStep == DkInv /\ [DkNext]_dkVars => ThreadsHold'
  <1> SUFFICES ASSUME DkInv, [DkNext]_dkVars PROVE ThreadsHold'
    OBVIOUS
  <1> USE DuckdbAssumption DEF DkInv, DkTypeOK, Executions, DkRuns, ThreadsHold, Holding, TaskOver
  <1>1. ASSUME NEW e \in Executions, BeginExecution(e) PROVE ThreadsHold'
    BY <1>1 DEF BeginExecution, NeedsExec, TaskTo
  <1>2. ASSUME NEW e \in Executions, FinishExecution(e) PROVE ThreadsHold'
    BY <1>2 DEF FinishExecution, Outcome
  <1>3. ASSUME NEW e \in Executions, LockConnection(e) PROVE ThreadsHold'
    BY <1>3 DEF LockConnection, TaskTo
  <1>4. ASSUME NEW e \in Executions, CheckFlag(e) PROVE ThreadsHold'
    BY <1>4 DEF CheckFlag, FlagSeen, TaskTo
  <1>5. ASSUME NEW e \in Executions, StartStatement(e) PROVE ThreadsHold'
    BY <1>5 DEF StartStatement, TaskTo
  <1>6. ASSUME NEW e \in Executions, StatementReturns(e) PROVE ThreadsHold'
    BY <1>6 DEF StatementReturns, EndStatement, TaskTo
  <1>7. ASSUME NEW e \in GuardedRuns, BeginReadOnly(e) PROVE ThreadsHold'
    BY <1>7 DEF BeginReadOnly, LeaveTransaction, TaskTo
  <1>8. ASSUME NEW e \in TableRuns, DropFuture(e) PROVE ThreadsHold'
    BY <1>8 DEF DropFuture
  <1>9. ASSUME NEW e \in DkRuns, SetFlag(e) PROVE ThreadsHold'
    BY <1>9 DEF SetFlag
  <1>10. ASSUME NEW e \in DkRuns, Interrupt(e) PROVE ThreadsHold'
    BY <1>10 DEF Interrupt, EndStatement, TaskTo
  <1>11. CASE EndOwnTransaction
    BY <1>11 DEF EndOwnTransaction
  <1>12. CASE UNCHANGED dkVars
    BY <1>12 DEF dkVars
  <1> QED
    BY <1>1, <1>2, <1>3, <1>4, <1>5, <1>6, <1>7, <1>8, <1>9, <1>10, <1>11, <1>12 DEF DkNext

(* Every step keeps the agent in its own transaction. *)
LEMMA DkAgentStep == DkInv /\ [DkNext]_dkVars => AgentsTransaction'
  <1> SUFFICES ASSUME DkInv, [DkNext]_dkVars PROVE AgentsTransaction'
    OBVIOUS
  <1> USE DuckdbAssumption DEF DkInv, DkTypeOK, Executions, DkRuns, ThreadsHold, Holding, AgentsTransaction
  <1>1. ASSUME NEW e \in Executions, BeginExecution(e) PROVE AgentsTransaction'
    BY <1>1 DEF BeginExecution, NeedsExec, TaskTo
  <1>2. ASSUME NEW e \in Executions, FinishExecution(e) PROVE AgentsTransaction'
    BY <1>2 DEF FinishExecution, Outcome
  <1>3. ASSUME NEW e \in Executions, LockConnection(e) PROVE AgentsTransaction'
    BY <1>3 DEF LockConnection, TaskTo
  <1>4. ASSUME NEW e \in Executions, CheckFlag(e) PROVE AgentsTransaction'
    BY <1>4 DEF CheckFlag, FlagSeen, TaskTo
  <1>5. ASSUME NEW e \in Executions, StartStatement(e) PROVE AgentsTransaction'
    BY <1>5 DEF StartStatement, TaskTo
  <1>6. ASSUME NEW e \in Executions, StatementReturns(e) PROVE AgentsTransaction'
    BY <1>6 DEF StatementReturns, EndStatement, TaskTo
  <1>7. ASSUME NEW e \in GuardedRuns, BeginReadOnly(e) PROVE AgentsTransaction'
    BY <1>7 DEF BeginReadOnly, LeaveTransaction, TaskTo
  <1>8. ASSUME NEW e \in TableRuns, DropFuture(e) PROVE AgentsTransaction'
    BY <1>8 DEF DropFuture
  <1>9. ASSUME NEW e \in DkRuns, SetFlag(e) PROVE AgentsTransaction'
    BY <1>9 DEF SetFlag
  <1>10. ASSUME NEW e \in DkRuns, Interrupt(e) PROVE AgentsTransaction'
    BY <1>10 DEF Interrupt, EndStatement, TaskTo
  <1>11. CASE EndOwnTransaction
    BY <1>11 DEF EndOwnTransaction
  <1>12. CASE UNCHANGED dkVars
    BY <1>12 DEF dkVars
  <1> QED
    BY <1>1, <1>2, <1>3, <1>4, <1>5, <1>6, <1>7, <1>8, <1>9, <1>10, <1>11, <1>12 DEF DkNext

(* Every step leaves who was flagged in time unexecuted. *)
LEMMA EarlyStep == DkInv /\ [DkNext]_dkVars => EarlyIsRefused'
  <1> SUFFICES ASSUME DkInv, [DkNext]_dkVars PROVE EarlyIsRefused'
    OBVIOUS
  <1> USE DuckdbAssumption DEF DkInv, DkTypeOK, Executions, DkRuns, ThreadsHold, Holding, EarlyIsRefused
  <1>1. ASSUME NEW e \in Executions, BeginExecution(e) PROVE EarlyIsRefused'
    BY <1>1 DEF BeginExecution, NeedsExec, TaskTo
  <1>2. ASSUME NEW e \in Executions, FinishExecution(e) PROVE EarlyIsRefused'
    BY <1>2 DEF FinishExecution, Outcome
  <1>3. ASSUME NEW e \in Executions, LockConnection(e) PROVE EarlyIsRefused'
    BY <1>3 DEF LockConnection, TaskTo
  <1>4. ASSUME NEW e \in Executions, CheckFlag(e) PROVE EarlyIsRefused'
    BY <1>4 DEF CheckFlag, FlagSeen, TaskTo
  <1>5. ASSUME NEW e \in Executions, StartStatement(e) PROVE EarlyIsRefused'
    BY <1>5 DEF StartStatement, TaskTo
  <1>6. ASSUME NEW e \in Executions, StatementReturns(e) PROVE EarlyIsRefused'
    BY <1>6 DEF StatementReturns, EndStatement, TaskTo
  <1>7. ASSUME NEW e \in GuardedRuns, BeginReadOnly(e) PROVE EarlyIsRefused'
    BY <1>7 DEF BeginReadOnly, LeaveTransaction, TaskTo
  <1>8. ASSUME NEW e \in TableRuns, DropFuture(e) PROVE EarlyIsRefused'
    BY <1>8 DEF DropFuture
  <1>9. ASSUME NEW e \in DkRuns, SetFlag(e) PROVE EarlyIsRefused'
    BY <1>9 DEF SetFlag
  <1>10. ASSUME NEW e \in DkRuns, Interrupt(e) PROVE EarlyIsRefused'
    BY <1>10 DEF Interrupt, EndStatement, TaskTo
  <1>11. CASE EndOwnTransaction
    BY <1>11 DEF EndOwnTransaction
  <1>12. CASE UNCHANGED dkVars
    BY <1>12 DEF dkVars
  <1> QED
    BY <1>1, <1>2, <1>3, <1>4, <1>5, <1>6, <1>7, <1>8, <1>9, <1>10, <1>11, <1>12 DEF DkNext

(* Every step reports what happened. *)
LEMMA ReportsStep == DkInv /\ [DkNext]_dkVars => ReportsWhatHappened'
  <1> SUFFICES ASSUME DkInv, [DkNext]_dkVars PROVE ReportsWhatHappened'
    OBVIOUS
  <1> USE DuckdbAssumption DEF DkInv, DkTypeOK, Executions, DkRuns, ThreadsHold, Holding, TaskOver, ReportsWhatHappened
  <1>1. ASSUME NEW e \in Executions, BeginExecution(e) PROVE ReportsWhatHappened'
    BY <1>1 DEF BeginExecution, NeedsExec, TaskTo
  <1>2. ASSUME NEW e \in Executions, FinishExecution(e) PROVE ReportsWhatHappened'
    BY <1>2 DEF FinishExecution, Outcome
  <1>3. ASSUME NEW e \in Executions, LockConnection(e) PROVE ReportsWhatHappened'
    BY <1>3 DEF LockConnection, TaskTo
  <1>4. ASSUME NEW e \in Executions, CheckFlag(e) PROVE ReportsWhatHappened'
    BY <1>4 DEF CheckFlag, FlagSeen, TaskTo
  <1>5. ASSUME NEW e \in Executions, StartStatement(e) PROVE ReportsWhatHappened'
    BY <1>5 DEF StartStatement, TaskTo
  <1>6. ASSUME NEW e \in Executions, StatementReturns(e) PROVE ReportsWhatHappened'
    BY <1>6 DEF StatementReturns, EndStatement, TaskTo
  <1>7. ASSUME NEW e \in GuardedRuns, BeginReadOnly(e) PROVE ReportsWhatHappened'
    BY <1>7 DEF BeginReadOnly, LeaveTransaction, TaskTo
  <1>8. ASSUME NEW e \in TableRuns, DropFuture(e) PROVE ReportsWhatHappened'
    BY <1>8 DEF DropFuture
  <1>9. ASSUME NEW e \in DkRuns, SetFlag(e) PROVE ReportsWhatHappened'
    BY <1>9 DEF SetFlag
  <1>10. ASSUME NEW e \in DkRuns, Interrupt(e) PROVE ReportsWhatHappened'
    BY <1>10 DEF Interrupt, EndStatement, TaskTo
  <1>11. CASE EndOwnTransaction
    BY <1>11 DEF EndOwnTransaction
  <1>12. CASE UNCHANGED dkVars
    BY <1>12 DEF dkVars
  <1> QED
    BY <1>1, <1>2, <1>3, <1>4, <1>5, <1>6, <1>7, <1>8, <1>9, <1>10, <1>11, <1>12 DEF DkNext

THEOREM DkInvariance == DkSpec => []DkInv
  <1>1. DkInit => DkInv
    BY DuckdbAssumption
    DEF DkInit, DkInv, DkTypeOK, ThreadsHold, Holding, TaskOver, AgentsTransaction, EarlyIsRefused, ReportsWhatHappened, Executions, DkRuns
  <1>2. DkInv /\ [DkNext]_dkVars => DkInv'
    BY DkTypeStep, ThreadsStep, DkAgentStep, EarlyStep, ReportsStep DEF DkInv
  <1> QED
    BY <1>1, <1>2, PTL DEF DkSpec

(* An interrupt that ends a statement comes from the cancel of a run that  *)
(* is not registered any more, or ends its own or an abandoned statement.  *)
LEMMA InterruptStep ==
  DkInv /\ [DkNext]_dkVars =>
    [\A e \in (aimed \ aimed') \cap regs : task' # task => conn = e \/ dkAt[conn] = "dropped"]_dkVars
  <1> SUFFICES ASSUME DkInv, DkNext, NEW e \in (aimed \ aimed') \cap regs, task' # task
               PROVE  conn = e \/ dkAt[conn] = "dropped"
    BY DEF dkVars
  <1>1. PICK q \in DkRuns : Interrupt(q)
    BY DEF DkNext, BeginExecution, FinishExecution, LockConnection, CheckFlag, StartStatement, StatementReturns,
           BeginReadOnly, DropFuture, SetFlag, EndOwnTransaction
  <1>2. q = e /\ conn # Free /\ task[conn] = "executes"
    BY <1>1 DEF Interrupt, EndStatement
  <1>3. conn \in Executions /\ e \in Executions
    BY <1>2 DEF DkInv, DkTypeOK, DkRuns, Executions
  <1>4. exec = e
    BY <1>3 DEF DkInv, ThreadsHold
  <1>5. dkAt[conn] \in {"awaiting", "dropped"}
    BY <1>2, <1>3 DEF DkInv, DkTypeOK, ThreadsHold, TaskOver
  <1>6. dkAt[conn] = "awaiting" => exec = conn
    BY <1>3 DEF DkInv, ThreadsHold
  <1> QED
    BY <1>4, <1>5, <1>6

LEMMA TransactionStep ==
  DkInv /\ [DkNext]_dkVars => [openedBy' # openedBy /\ openedBy \in TableRuns => EndOwnTransaction]_dkVars
  <1> SUFFICES ASSUME DkInv, DkNext, openedBy' # openedBy, openedBy \in TableRuns PROVE EndOwnTransaction
    BY DEF dkVars
  <1>1. openedBy # Free /\ openedBy \notin GuardedRuns
    BY DuckdbAssumption
  <1>2. ASSUME NEW e \in Executions, NEW how, task[e] = "executes", EndStatement(e, how) PROVE FALSE
    BY <1>1, <1>2 DEF EndStatement, DkInv, AgentsTransaction
  <1>3. ~\E e \in DkRuns : Interrupt(e)
    <2>1. conn \in Executions \/ conn = Free
      BY DEF DkInv, DkTypeOK
    <2> QED
      BY <1>2, <2>1 DEF Interrupt
  <1>4. ~\E e \in Executions : StatementReturns(e)
    BY <1>2 DEF StatementReturns
  <1> QED
    BY <1>1, <1>3, <1>4
    DEF DkNext, BeginExecution, FinishExecution, LockConnection, CheckFlag, StartStatement,
        BeginReadOnly, LeaveTransaction, DropFuture, SetFlag

(* Whatever overlaps: an interrupt meets the statement it is meant for, a  *)
(* cancel in time keeps a statement from running, the agent stays in its   *)
(* own transaction and the user's is ended by the user.                    *)
THEOREM DuckdbKeepsPromise == DkSpec => DuckdbPromise
  <1>1. DkInv => CancelledInTimeNeverRuns /\ AgentsOnlyRead /\ ReportsWhatHappened
    <2> SUFFICES ASSUME DkInv PROVE CancelledInTimeNeverRuns /\ AgentsOnlyRead
      BY DEF DkInv
    <2>1. CancelledInTimeNeverRuns
      BY DEF DkInv, EarlyIsRefused, CancelledInTimeNeverRuns
    <2>2. conn = Free => openedBy \notin GuardedRuns
      BY DuckdbAssumption DEF DkInv, AgentsTransaction, ThreadsHold, Holding, Executions, DkRuns
    <2> QED
      BY <2>1, <2>2 DEF AgentsOnlyRead, DkInv, AgentsTransaction
  <1> QED
    BY <1>1, InterruptStep, TransactionStep, DkInvariance, PTL
    DEF DkSpec, DuckdbPromise, InterruptsMatch, UserEndsTransactions

----------------------------------------------------------------------------
(***************************************************************************)
(* RemoteSession                                                           *)
(***************************************************************************)

(***************************************************************************)
(* RemoteSession                                                           *)
(***************************************************************************)

(* Before the first command is sent there is nothing; after it the run is  *)
(* one that the guards let through.                                        *)
RunIsAllowed ==
  /\ progress = "idle" => remote = NothingRun
  /\ progress # "idle" => remote \in RemoteRuns
  /\ progress \in {"idle", "registered"} => answer = "none"
  /\ progress = "waiting" => answer # "none"
  /\ progress = "registered" \/ answer # "none" => Allowed(remote)
  /\ answer = "none" <=> next = 0
  /\ next <= LastCommand

(* What the server has executed are the commands that were sent, but for   *)
(* the one in flight.                                                      *)
SentIsExecuted ==
  /\ Len(executed) = (IF answer = "sent" THEN next - 1 ELSE next)
  /\ \A i \in 1 .. Len(executed) : executed[i].command = i
  /\ answer \in {"ok", "failed"} => (executed[next].ok <=> answer = "ok")
  /\ remote.engine # "elasticsearch" => \A i \in 1 .. Len(executed) : i < next => executed[i].ok

(* What a run ends with.                                                   *)
EndingIsRight ==
  /\ ending # "none" <=> progress = "over"
  /\ ending = "refused" => answer = "none"
  /\ ending = "ok" => next = LastCommand /\ answer \in {"ok", "failed"}
                      /\ (remote.engine # "elasticsearch" => answer = "ok")
  /\ ending = "part" => answer # "none" /\ Pages(remote) /\ remote.engine \in {"partiql", "tables"}
  /\ awake => pressed

RsInv == RsTypeOK /\ RunIsAllowed /\ SentIsExecuted /\ EndingIsRight

(* What the runs of the model are.                                         *)
LEMMA RemoteRunsAre ==
  ASSUME NEW r \in RemoteRuns
  PROVE  /\ r.engine \in RemoteEngines /\ r.commands \in Seq(Commands)
         /\ Len(r.commands) \in 1 .. MaxCommands
         /\ r.engine = "partiql" => Len(r.commands) = 1 \/ Pages(r)
         /\ r.engine = "tables" => Pages(r)
  <1>1. PICK m \in 0 .. MaxCommands : r.commands \in [1 .. m -> Commands]
    <2>1. r.commands \in BoundedSeq(Commands, MaxCommands)
      BY DEF RemoteRuns
    <2> QED
      BY <2>1 DEF BoundedSeq, SeqOf
  <1>2. r.commands \in Seq(Commands) /\ Len(r.commands) = m /\ m \in Nat /\ m <= MaxCommands
    BY <1>1, RemoteAssumption
  <1>3. r.engine \in RemoteEngines /\ r.commands # <<>>
        /\ (r.engine = "partiql" => Len(r.commands) = 1 \/ Pages(r)) /\ (r.engine = "tables" => Pages(r))
    BY DEF RemoteRuns
  <1>4. m # 0
    BY <1>2, <1>3
  <1> QED
    BY <1>2, <1>3, <1>4, RemoteAssumption

(* An answer lets the run go on to the next command or ends it.            *)
GoesOn ==
  /\ SendNext /\ next # LastCommand
  /\ remote.engine # "elasticsearch" => answer = "ok"
EndsWith(how) ==
  /\ Over(how)
  /\ how = "ok" => next = LastCommand /\ (remote.engine # "elasticsearch" => answer = "ok")
  /\ how = "part" => remote.engine \in {"partiql", "tables"} /\ (remote.engine = "partiql" => next # LastCommand)
  /\ how = "error" /\ answer = "ok" => remote.engine = "partiql" /\ next < LastCommand
LEMMA AnswerLeads ==
  ASSUME RsInv, Answer
  PROVE  /\ GoesOn \/ \E how \in {"ok", "part", "error"} : EndsWith(how)
         /\ shown' \in 0 .. MaxShown
  <1>1. Show => shown' \in 0 .. MaxShown
    BY RemoteAssumption DEF Show, RsInv, RsTypeOK
  <1>2. UNCHANGED shown => shown' \in 0 .. MaxShown
    BY DEF RsInv, RsTypeOK
  <1>3. next \in Nat /\ LastCommand \in Nat /\ next <= LastCommand
    BY RemoteAssumption DEF RsInv, RsTypeOK, RunIsAllowed, LastCommand
  <1>4. CASE RedisAnswers
    BY <1>1, <1>2, <1>3, <1>4 DEF Answer, RedisAnswers, StopHere, RunRest, GoesOn, EndsWith
  <1>5. CASE ElasticAnswers
    BY <1>1, <1>2, <1>3, <1>5 DEF Answer, ElasticAnswers, StopHere, GoesOn, EndsWith
  <1>6. CASE PartiqlAnswers
    BY <1>1, <1>2, <1>3, <1>6 DEF Answer, PartiqlAnswers, ShowPage, StopHere, GoesOn, EndsWith
  <1>7. CASE ListAnswers
    BY <1>1, <1>2, <1>3, <1>7 DEF Answer, ListAnswers, ShowPage, StopHere, GoesOn, EndsWith
  <1> QED
    BY <1>4, <1>5, <1>6, <1>7 DEF Answer

(* A step of the server appends what came of the command in flight.        *)
LEMMA ServerAppends ==
  ASSUME RsInv, ServerExecutes
  PROVE  /\ next \in 1 .. MaxCommands /\ Len(executed) = next - 1 /\ Len(executed') = next
         /\ executed' \in Seq([command : 1 .. MaxCommands, ok : BOOLEAN])
         /\ \A i \in 1 .. Len(executed) : executed'[i] = executed[i]
         /\ executed'[next].command = next
         /\ executed'[next].ok \in BOOLEAN
         /\ answer' \in {"ok", "failed"}
         /\ executed'[next].ok <=> answer' = "ok"
  <1>1. PICK ok \in BOOLEAN : /\ executed' = Append(executed, [command |-> next, ok |-> ok])
                              /\ answer' = IF ok THEN "ok" ELSE "failed"
    BY DEF ServerExecutes
  <1>2. answer = "sent" /\ progress # "idle"
    BY DEF ServerExecutes, RsInv, RunIsAllowed
  <1>3. next \in 1 .. MaxCommands
    <2>1. LastCommand <= MaxCommands /\ LastCommand \in Nat
      BY <1>2, RemoteRunsAre, RemoteAssumption DEF RsInv, RunIsAllowed, LastCommand
    <2> QED
      BY <1>2, <2>1, RemoteAssumption DEF RsInv, RunIsAllowed, RsTypeOK
  <1>4. Len(executed) = next - 1 /\ executed \in Seq([command : 1 .. MaxCommands, ok : BOOLEAN])
    BY <1>2 DEF RsInv, SentIsExecuted, RsTypeOK
  <1>5. [command |-> next, ok |-> ok] \in [command : 1 .. MaxCommands, ok : BOOLEAN]
    BY <1>3
  <1>6. /\ Len(executed') = next
        /\ executed' \in Seq([command : 1 .. MaxCommands, ok : BOOLEAN])
        /\ \A i \in 1 .. Len(executed) : executed'[i] = executed[i]
        /\ executed'[next] = [command |-> next, ok |-> ok]
    BY <1>1, <1>3, <1>4, <1>5
  <1> QED
    BY <1>1, <1>3, <1>4, <1>6

(* Every step keeps the types.                                             *)
LEMMA RsTypeStep == RsInv /\ [RsNext]_rsVars => RsTypeOK'
  <1> SUFFICES ASSUME RsInv, RsNext PROVE RsTypeOK'
    BY DEF rsVars, RsInv, RsTypeOK
  <1> USE DEF RsInv, RsTypeOK
  <1>1. CASE Submit
    BY <1>1, RemoteRunsAre DEF Submit, Results
  <1>2. CASE Begin
    BY <1>2, RemoteAssumption DEF Begin
  <1>3. CASE ServerExecutes
    BY <1>3, ServerAppends DEF ServerExecutes
  <1>4. CASE Answer
    <2>1. UNCHANGED <<remote, executed, pressed, awake>> /\ shown' \in 0 .. MaxShown
      BY <1>4, AnswerLeads DEF Answer
    <2>2. CASE GoesOn
      <3>1. next + 1 \in 0 .. MaxCommands + 1
        <4>1. progress # "idle" /\ next < LastCommand
          BY <1>4, <2>2 DEF Answer, GoesOn, RunIsAllowed, LastCommand
        <4> QED
          BY <4>1, RemoteRunsAre, RemoteAssumption DEF RunIsAllowed, LastCommand
      <3> QED
        BY <2>1, <2>2, <3>1 DEF GoesOn, SendNext
    <2>3. ASSUME NEW how \in {"ok", "part", "error"}, EndsWith(how) PROVE RsTypeOK'
      BY <2>1, <2>3 DEF EndsWith, Over, Results
    <2> QED
      BY <1>4, <2>2, <2>3, AnswerLeads
  <1>5. CASE RequestCancel
    BY <1>5 DEF RequestCancel
  <1>6. CASE WakeCancelled
    BY <1>6 DEF WakeCancelled, Results
  <1> QED
    BY <1>1, <1>2, <1>3, <1>4, <1>5, <1>6 DEF RsNext

(* Every step keeps to what the guards let through.                        *)
LEMMA AllowedStep == RsInv /\ [RsNext]_rsVars => RunIsAllowed'
  <1> SUFFICES ASSUME RsInv, RsNext PROVE RunIsAllowed'
    BY DEF rsVars, RsInv, RunIsAllowed, LastCommand
  <1> USE DEF RsInv, RunIsAllowed, LastCommand
  <1>1. CASE Submit
    BY <1>1, RemoteRunsAre DEF Submit
  <1>2. CASE Begin
    <2>1. Len(remote.commands) >= 1
      BY <1>2, RemoteRunsAre DEF Begin
    <2> QED
      BY <1>2, <2>1 DEF Begin
  <1>3. CASE ServerExecutes
    BY <1>3 DEF ServerExecutes
  <1>4. CASE Answer
    <2>1. UNCHANGED remote /\ progress = "waiting" /\ answer \in {"ok", "failed"}
      BY <1>4 DEF Answer
    <2>2. CASE GoesOn
      BY <2>1, <2>2 DEF GoesOn, SendNext, RsTypeOK
    <2>3. ASSUME NEW how \in {"ok", "part", "error"}, EndsWith(how) PROVE RunIsAllowed'
      BY <2>1, <2>3 DEF EndsWith, Over
    <2> QED
      BY <1>4, <2>2, <2>3, AnswerLeads
  <1>5. CASE RequestCancel
    BY <1>5 DEF RequestCancel
  <1>6. CASE WakeCancelled
    BY <1>6 DEF WakeCancelled
  <1> QED
    BY <1>1, <1>2, <1>3, <1>4, <1>5, <1>6 DEF RsNext

(* Every step keeps what is executed to what was sent.                     *)
LEMMA SentStep == RsInv /\ [RsNext]_rsVars => SentIsExecuted'
  <1> SUFFICES ASSUME RsInv, RsNext PROVE SentIsExecuted'
    BY DEF rsVars, RsInv, SentIsExecuted
  <1> USE DEF RsInv, SentIsExecuted
  <1>1. CASE Submit
    BY <1>1 DEF Submit, RunIsAllowed, RsTypeOK
  <1>2. CASE Begin
    BY <1>2 DEF Begin, RunIsAllowed, RsTypeOK
  <1>3. CASE ServerExecutes
    <2>1. UNCHANGED <<remote, next>> /\ answer = "sent"
      BY <1>3 DEF ServerExecutes
    <2>2. \A i \in 1 .. Len(executed') : i < next \/ i = next
      BY <1>3, ServerAppends
    <2>3. \A i \in 1 .. Len(executed') : i < next => i \in 1 .. Len(executed) /\ executed'[i] = executed[i]
      BY <1>3, ServerAppends
    <2>4. \A i \in 1 .. Len(executed') : executed'[i].command = i
      BY <1>3, <2>2, <2>3, ServerAppends
    <2>5. remote.engine # "elasticsearch" => \A i \in 1 .. Len(executed') : i < next => executed'[i].ok
      BY <2>1, <2>3
    <2> QED
      BY <1>3, <2>1, <2>4, <2>5, ServerAppends
  <1>4. CASE Answer
    <2>1. UNCHANGED <<remote, executed>> /\ answer \in {"ok", "failed"} /\ progress = "waiting"
      BY <1>4 DEF Answer
    <2>2. CASE GoesOn
      <3>1. answer' = "sent" /\ next' = next + 1 /\ next \in Nat /\ Len(executed) = next
        BY <2>1, <2>2, RemoteAssumption DEF GoesOn, SendNext, RsTypeOK
      <3>2. remote.engine # "elasticsearch" /\ next > 0 => executed[next].ok
        BY <2>1, <2>2 DEF GoesOn
      <3>3. remote.engine # "elasticsearch" => \A i \in 1 .. Len(executed) : i < next + 1 => executed[i].ok
        BY <3>1, <3>2
      <3> QED
        BY <2>1, <3>1, <3>3
    <2>3. ASSUME NEW how \in {"ok", "part", "error"}, EndsWith(how) PROVE SentIsExecuted'
      BY <2>1, <2>3 DEF EndsWith, Over
    <2> QED
      BY <1>4, <2>2, <2>3, AnswerLeads
  <1>5. CASE RequestCancel
    BY <1>5 DEF RequestCancel
  <1>6. CASE WakeCancelled
    BY <1>6 DEF WakeCancelled
  <1> QED
    BY <1>1, <1>2, <1>3, <1>4, <1>5, <1>6 DEF RsNext

(* Every step that ends a run ends it with what it has done.               *)
LEMMA EndingStep == RsInv /\ [RsNext]_rsVars => EndingIsRight'
  <1> SUFFICES ASSUME RsInv, RsNext PROVE EndingIsRight'
    BY DEF rsVars, RsInv, EndingIsRight, LastCommand
  <1> USE DEF RsInv, EndingIsRight, LastCommand
  <1>1. CASE Submit
    BY <1>1 DEF Submit, RunIsAllowed
  <1>2. CASE Begin
    BY <1>2 DEF Begin
  <1>3. CASE ServerExecutes
    BY <1>3, ServerAppends DEF ServerExecutes
  <1>4. CASE Answer
    <2>1. UNCHANGED <<remote, pressed, awake>> /\ answer \in {"ok", "failed"} /\ progress = "waiting"
      BY <1>4 DEF Answer
    <2>2. CASE GoesOn
      BY <2>1, <2>2 DEF GoesOn, SendNext
    <2>3. ASSUME NEW how \in {"ok", "part", "error"}, EndsWith(how) PROVE EndingIsRight'
      <3>1. how = "part" => Pages(remote) /\ remote.engine \in {"partiql", "tables"}
        <4>1. CASE remote.engine = "tables"
          BY <2>1, <4>1, RemoteRunsAre DEF RunIsAllowed
        <4>2. CASE remote.engine = "partiql" /\ next # LastCommand
          <5>1. remote \in RemoteRuns /\ next # 0 /\ next \in Nat /\ next <= Len(remote.commands)
            BY <2>1, RemoteAssumption DEF RunIsAllowed, RsTypeOK
          <5>2. Len(remote.commands) # 1
            <6>1. Len(remote.commands) # next
              BY <2>1, <2>3, <4>2 DEF EndsWith, LastCommand
            <6>2. Len(remote.commands) \in Nat
              BY <5>1, RemoteRunsAre, RemoteAssumption
            <6>3. \A n, k \in Nat : k # 0 /\ k <= n /\ n # k => n # 1
              OBVIOUS
            <6> QED
              BY <5>1, <6>1, <6>2, <6>3
          <5> QED
            BY <4>2, <5>1, <5>2, RemoteRunsAre
        <4> QED
          BY <2>3, <4>1, <4>2 DEF EndsWith
      <3> QED
        BY <2>1, <2>3, <3>1 DEF EndsWith, Over
    <2> QED
      BY <1>4, <2>2, <2>3, AnswerLeads
  <1>5. CASE RequestCancel
    BY <1>5 DEF RequestCancel
  <1>6. CASE WakeCancelled
    BY <1>6 DEF WakeCancelled
  <1> QED
    BY <1>1, <1>2, <1>3, <1>4, <1>5, <1>6 DEF RsNext

(* The invariant of the runs on a server of their own.                     *)
THEOREM RsInvariance == RsSpec => []RsInv
  <1>1. RsInit => RsInv
    <2> SUFFICES ASSUME RsInit PROVE RsInv
      OBVIOUS
    <2>1. remote = NothingRun /\ remote.engine \in RemoteEngines /\ remote.commands = <<>>
      BY DEF RsInit, NothingRun, RemoteEngines
    <2>2. RsTypeOK
      <3>1. 0 \in 0 .. MaxCommands + 1 /\ 0 \in 0 .. MaxShown
        BY RemoteAssumption
      <3>2. remote.commands \in Seq(Commands) /\ executed \in Seq([command : 1 .. MaxCommands, ok : BOOLEAN])
        BY <2>1 DEF RsInit
      <3> QED
        BY <2>1, <3>1, <3>2 DEF RsInit, RsTypeOK, Results
    <2>3. RunIsAllowed /\ SentIsExecuted /\ EndingIsRight
      BY <2>1, RemoteAssumption DEF RsInit, RunIsAllowed, SentIsExecuted, EndingIsRight, LastCommand
    <2> QED
      BY <2>2, <2>3 DEF RsInv
  <1>2. RsInv /\ [RsNext]_rsVars => RsInv'
    BY RsTypeStep, AllowedStep, SentStep, EndingStep DEF RsInv
  <1> QED
    BY <1>1, <1>2, PTL DEF RsSpec

(* A cancel is reported where somebody pressed, and loses at most the      *)
(* answer in flight.                                                       *)
LEMMA RsCancelStep ==
  RsInv /\ [RsNext]_rsVars =>
    [/\ ending' = "cancelled" /\ ending # "cancelled" => pressed /\ Len(executed) <= next
     /\ ending' = "cancelled" /\ answer = "ok" /\ ending # "cancelled" => remote.engine = "partiql" /\ next < LastCommand
     /\ progress = "over" => Len(executed') <= Len(executed) + 1]_rsVars
  <1> SUFFICES ASSUME RsInv, RsNext
               PROVE  /\ ending' = "cancelled" /\ ending # "cancelled" => pressed /\ Len(executed) <= next
                      /\ ending' = "cancelled" /\ answer = "ok" /\ ending # "cancelled" => remote.engine = "partiql" /\ next < LastCommand
                      /\ Len(executed') <= Len(executed) + 1
    BY DEF rsVars
  <1>0. next \in Nat /\ Len(executed) \in Nat /\ Len(executed) <= next
    BY RemoteAssumption DEF RsInv, RsTypeOK, SentIsExecuted
  <1>1. CASE UNCHANGED ending /\ UNCHANGED executed
    BY <1>0, <1>1
  <1>2. CASE Submit
    BY <1>0, <1>2 DEF Submit
  <1>3. CASE ServerExecutes
    BY <1>0, <1>3, ServerAppends DEF ServerExecutes
  <1>4. CASE Answer
    <2>1. UNCHANGED executed /\ answer \in {"ok", "failed"}
      BY <1>4 DEF Answer
    <2>2. CASE GoesOn
      BY <1>1, <2>1, <2>2 DEF GoesOn, SendNext
    <2>3. ASSUME NEW how \in {"ok", "part", "error"}, EndsWith(how), ending' = "cancelled"
          PROVE  pressed /\ (answer = "ok" => remote.engine = "partiql" /\ next < LastCommand)
      BY <2>3 DEF EndsWith, Over
    <2> QED
      BY <1>0, <1>4, <2>1, <2>2, <2>3, AnswerLeads
  <1>5. CASE WakeCancelled
    BY <1>0, <1>5 DEF WakeCancelled, AnswerFirst, RsInv, EndingIsRight
  <1> QED
    BY <1>1, <1>2, <1>3, <1>4, <1>5 DEF RsNext, Begin, RequestCancel

(* Nothing is sent unless everything is allowed; what is executed is a     *)
(* prefix, in order; a success is whole; a cancel loses one answer.        *)
THEOREM RemoteKeepsPromise == RsSpec => RemotePromise
  <1>1. RsInv => NoneRunUnlessAllAllowed
    <2> SUFFICES ASSUME RsInv, executed # <<>>, remote.engine # "tables", NEW i \in DOMAIN remote.commands
                 PROVE  Judged(remote, remote.commands[i])
      BY DEF NoneRunUnlessAllAllowed
    <2>1. answer # "none"
      BY DEF RsInv, SentIsExecuted, RunIsAllowed, RsTypeOK
    <2>2. remote \in RemoteRuns /\ Allowed(remote)
      BY <2>1 DEF RsInv, RunIsAllowed
    <2>3. /\ remote.engine \in RemoteEngines /\ remote.commands \in Seq(Commands) /\ Len(remote.commands) \in 1 .. MaxCommands
          /\ remote.engine = "partiql" => Len(remote.commands) = 1 \/ Pages(remote)
      BY <2>2, RemoteRunsAre
    <2>4. i \in 1 .. Len(remote.commands) /\ 1 \in DOMAIN remote.commands
      BY <2>3, RemoteAssumption
    <2>5. CASE remote.engine = "redis"
      BY <2>2, <2>5 DEF Allowed, RedisAllows
    <2>6. CASE remote.engine = "elasticsearch"
      BY <2>2, <2>6 DEF Allowed, ElasticAllows
    <2>7. CASE remote.engine = "partiql"
      <3>1. Judged(remote, remote.commands[1])
        BY <2>2, <2>7 DEF Allowed, DynamoAllows
      <3>2. CASE Len(remote.commands) = 1
        BY <2>4, <3>1, <3>2
      <3>3. CASE Pages(remote)
        BY <2>4, <3>1, <3>3 DEF Pages
      <3> QED
        BY <2>3, <2>7, <3>2, <3>3
    <2> QED
      BY <2>3, <2>5, <2>6, <2>7 DEF RemoteEngines
  <1>2. RsInv => PrefixIsExecuted
    <2> SUFFICES ASSUME RsInv PROVE PrefixIsExecuted
      OBVIOUS
    <2>1. DOMAIN executed = 1 .. Len(executed) /\ Len(executed) \in Nat /\ next \in Nat /\ Len(executed) <= next
      BY RemoteAssumption DEF RsInv, RsTypeOK, SentIsExecuted
    <2>2. \A i \in 1 .. Len(executed) - 1 : i \in 1 .. Len(executed) /\ i < next
      BY <2>1
    <2> QED
      BY <2>1, <2>2 DEF PrefixIsExecuted, RsInv, SentIsExecuted
  <1>3. RsInv => SuccessIsWhole
    <2> SUFFICES ASSUME RsInv PROVE SuccessIsWhole
      OBVIOUS
    <2>1. DOMAIN executed = 1 .. Len(executed) /\ Len(executed) \in Nat /\ next \in Nat
      BY RemoteAssumption DEF RsInv, RsTypeOK
    <2>2. ending = "ok" => Len(executed) = LastCommand /\ Len(executed) = next
      BY DEF RsInv, EndingIsRight, SentIsExecuted
    <2>3. ASSUME ending = "ok", remote.engine # "elasticsearch", NEW i \in DOMAIN executed PROVE executed[i].ok
      <3>1. i < next \/ i = next
        BY <2>1, <2>2, <2>3
      <3> QED
        BY <2>1, <2>3, <3>1 DEF RsInv, EndingIsRight, SentIsExecuted
    <2> QED
      BY <2>2, <2>3 DEF SuccessIsWhole, RsInv, EndingIsRight
  <1> QED
    BY <1>1, <1>2, <1>3, RsCancelStep, RsInvariance, PTL DEF RsSpec, RemotePromise, CancelLosesOneAnswer

----------------------------------------------------------------------------
(* The three together, which share no state.                               *)
THEOREM EnginesKeepPromise == MsSpec /\ DkSpec /\ RsSpec => EnginesPromise
  BY MssqlKeepsPromise, DuckdbKeepsPromise, RemoteKeepsPromise, PTL DEF EnginesPromise
(* And their types.                                                        *)
THEOREM EnginesTypeCorrect == MsSpec /\ DkSpec /\ RsSpec => [](MsTypeOK /\ DkTypeOK /\ RsTypeOK)
  <1>1. /\ MsInv => MsTypeOK
        /\ DkInv => DkTypeOK
        /\ RsInv => RsTypeOK
    BY DEF MsInv, SessionsTyped, DkInv, RsInv
  <1> QED
    BY <1>1, MsInvariance, DkInvariance, RsInvariance, PTL

----------------------------------------------------------------------------
(***************************************************************************)
(* QueryCancel                                                             *)
(***************************************************************************)


USE RunsAssumption, NoneAssumption
USE DEF Go, GoCancel, queryRuns, server, cancels, Runs, Successes

----------------------------------------------------------------------------
(* Types.  Pools are counted by the aborts that dropped one.               *)

Disconnected == {k \in Cancels : phase[k] \in {"wake", "done"}}

(* The type invariant, but for the number of the current pool.             *)
Types ==
  /\ stage \in [Runs -> Stages]
  /\ sqlite \in BOOLEAN
  /\ inFlight \subseteq Displayed
  /\ claimed \subseteq Displayed
  /\ token \subseteq Displayed
  /\ registry \in Displayed \cup {None}
  /\ flagged \subseteq Displayed
  /\ pool \in Nat
  /\ session \in [Runs -> Sessions \cup {None}]
  /\ onServer \in [Sessions -> Runs \cup {None}]
  /\ outcome \in [Runs -> Successes \cup {None, "error"}]
  /\ result \in [Runs -> {None, "ok", "error", "cancelled"}]
  /\ phase \in [Cancels -> Phases]
  /\ runs \in [Cancels -> SUBSET Displayed]
  /\ target \in [Cancels -> Displayed \cup {None}]
  /\ kill \in [Cancels -> Sessions \cup {None}]

(* No abort drops a second pool.                                           *)
PoolsCounted == pool <= Cardinality(Disconnected)

Typed == Types /\ PoolsCounted

LEMMA TypedIsTypeOK == Typed => TypeOK
  <1> SUFFICES ASSUME Typed PROVE TypeOK
    OBVIOUS
  <1>1. Cardinality(Disconnected) <= Cardinality(Cancels) /\ Cardinality(Disconnected) \in Nat
        /\ Cardinality(Cancels) \in Nat
    <2>1. Disconnected \subseteq Cancels
      BY DEF Disconnected
    <2> QED
      BY <2>1, CancelsAssumption, FS_Subset, FS_CardinalityType
  <1>2. pool \in 0 .. Cardinality(Cancels)
    BY <1>1 DEF Typed, Types, PoolsCounted
  <1> QED
    BY <1>2 DEF Typed, Types, TypeOK

(* Every step keeps every variable in its type: one step per action.       *)
LEMMA TypesStep ==
  Typed /\ [Next]_vars => Types'
  <1> SUFFICES ASSUME Typed, [Next]_vars PROVE Types'
    OBVIOUS
  <1> USE DEF Typed, Types, Stages, Running, Phases
  <1>1. ASSUME NEW r \in Runs, RunStep(r) PROVE Types'
    <2>1. CASE Start(r)
      BY <2>1 DEF Start, Go
    <2>2. CASE Acquire(r)
      <3>1. pool \in 0 .. Cardinality(Cancels)
        BY TypedIsTypeOK DEF TypeOK
      <3>2. \A k \in Slots : <<pool, k>> \in Sessions
        BY <3>1 DEF Sessions
      <3> QED
        BY <2>2, <3>2 DEF Acquire
    <2>3. CASE FailEarly(r)
      BY <2>3 DEF FailEarly
    <2>4. CASE Register(r)
      BY <2>4 DEF Register
    <2>5. CASE Send(r)
      BY <2>5 DEF Send
    <2>6. CASE Answered(r)
      BY <2>6 DEF Answered, AllThere, Unregister, EndRun, Returned
    <2>7. CASE Dropped(r)
      BY <2>7 DEF Dropped, ResultThere, AllThere, Unregister, EndRun
    <2>8. CASE Finish(r)
      BY <2>8 DEF Finish
    <2>9. CASE FinishClaimed(r)
      BY <2>9 DEF FinishClaimed
    <2>10. CASE Describe(r)
      BY <2>10 DEF Describe
    <2>11. CASE ClearHandler(r)
      BY <2>11 DEF ClearHandler, EndRun, Returned
    <2> QED
      BY <1>1, <2>1, <2>2, <2>3, <2>4, <2>5, <2>6, <2>7, <2>8, <2>9, <2>10, <2>11 DEF RunStep
  <1>2. ASSUME NEW s \in Sessions, ServerAnswers(s) PROVE Types'
    BY <1>2 DEF ServerAnswers, StatementEnds
  <1>3. ASSUME NEW k \in Cancels, Press(k) \/ CancelStep(k) \/ KillArrives(k) PROVE Types'
    <2>1. CASE Press(k)
      BY <2>1 DEF Press
    <2>2. CASE AskServer(k)
      BY <2>2 DEF AskServer, ToStop
    <2>3. CASE KillConfirmed(k)
      BY <2>3 DEF KillConfirmed
    <2>4. CASE ServerSilent(k)
      BY <2>4 DEF ServerSilent
    <2>5. CASE ClaimAbort(k)
      BY <2>5 DEF ClaimAbort, Claimable
    <2>6. CASE Disconnect(k)
      BY <2>6 DEF Disconnect
    <2>7. CASE Wake(k)
      BY <2>7 DEF Wake
    <2>8. CASE KillArrives(k)
      BY <2>8 DEF KillArrives, StatementEnds
    <2> QED
      BY <1>3, <2>1, <2>2, <2>3, <2>4, <2>5, <2>6, <2>7, <2>8 DEF CancelStep
  <1>4. CASE UNCHANGED vars
    BY <1>4 DEF vars
  <1> QED
    BY <1>1, <1>2, <1>3, <1>4 DEF Next

(* Only Disconnect makes a pool, and each cancel does so once.             *)
LEMMA PoolsCountedStep == Typed /\ [Next]_vars => PoolsCounted'
  <1> SUFFICES ASSUME Typed, [Next]_vars PROVE PoolsCounted'
    OBVIOUS
  <1> USE DEF Typed, Types, PoolsCounted
  <1>f. /\ IsFiniteSet(Disconnected) /\ Cardinality(Disconnected) \in Nat
        /\ IsFiniteSet(Disconnected') /\ Cardinality(Disconnected') \in Nat
    <2>1. Disconnected \subseteq Cancels /\ Disconnected' \subseteq Cancels
      BY DEF Disconnected
    <2> QED
      BY <2>1, CancelsAssumption, FS_Subset, FS_CardinalityType
  <1>m. ASSUME UNCHANGED pool, Disconnected \subseteq Disconnected' PROVE PoolsCounted'
    <2>1. Cardinality(Disconnected) <= Cardinality(Disconnected')
      BY <1>m, <1>f, FS_Subset
    <2> QED
      BY <1>m, <1>f, <2>1
  <1>1. ASSUME NEW r \in Runs, RunStep(r) PROVE PoolsCounted'
    <2>1. UNCHANGED <<pool, phase>>
      BY <1>1 DEF RunStep, Start, Acquire, FailEarly, Register, Send, Describe, Answered, ClearHandler, Dropped, Finish,
                  FinishClaimed
    <2> QED
      BY <2>1, <1>m DEF Disconnected
  <1>2. ASSUME NEW s \in Sessions, ServerAnswers(s) PROVE PoolsCounted'
    BY <1>2, <1>m DEF ServerAnswers, Disconnected
  <1>3. ASSUME NEW k \in Cancels, Press(k) \/ CancelStep(k) \/ KillArrives(k) PROVE PoolsCounted'
    <2>1. CASE Disconnect(k)
      <3>1. Disconnected' = Disconnected \cup {k} /\ k \notin Disconnected
        BY <2>1 DEF Disconnect, Disconnected
      <3>2. Cardinality(Disconnected') = Cardinality(Disconnected) + 1
        BY <3>1, <1>f, FS_AddElement
      <3> QED
        BY <2>1, <3>2, <1>f DEF Disconnect
    <2>2. CASE ~Disconnect(k)
      <3>1. UNCHANGED pool /\ Disconnected \subseteq Disconnected'
        BY <1>3, <2>2 DEF CancelStep, Press, AskServer, KillConfirmed, ServerSilent, ClaimAbort, Wake,
                          KillArrives, Disconnected
      <3> QED
        BY <3>1, <1>m
    <2> QED
      BY <2>1, <2>2
  <1>4. CASE UNCHANGED vars
    BY <1>4, <1>m DEF vars, Disconnected
  <1> QED
    BY <1>1, <1>2, <1>3, <1>4 DEF Next

LEMMA TypedInit == Init => Typed
  <1> SUFFICES ASSUME Init PROVE Typed
    OBVIOUS
  <1>1. Cardinality(Disconnected) \in Nat
    <2>1. Disconnected \subseteq Cancels
      BY DEF Disconnected
    <2> QED
      BY <2>1, CancelsAssumption, FS_Subset, FS_CardinalityType
  <1>2. PoolsCounted
    BY <1>1 DEF Init, PoolsCounted
  <1> QED
    BY <1>2 DEF Init, Typed, Types, Stages, Running, Phases

(* The state of runs and cancels keeps its types for any number of them;   *)
(* no more pools are made than there are cancels.                          *)
THEOREM TypeCorrect == Spec => []TypeOK
  <1>1. Typed /\ [Next]_vars => Typed'
    BY TypesStep, PoolsCountedStep DEF Typed
  <1> QED
    BY TypedInit, <1>1, TypedIsTypeOK, PTL DEF Spec

----------------------------------------------------------------------------
(* The registries agree with where the runs are. *)

Active(d) == stage[d] \notin {"new", "returned"}

(* Whoever may have a registration or a statement holds a session, and     *)
(* QueryRuns has exactly the displayed runs under way, at most one.        *)
RunsInOrder ==
  /\ \A r \in Runs : stage[r] \in {"session", "registered", "sent", "describing", "clearing"} => session[r] # None
  /\ registry # None => stage[registry] \in {"registered", "sent", "describing"}
  /\ \A d \in Displayed : d \in inFlight <=> Active(d)
  /\ \A d, e \in inFlight : d = e

(* One step per action.                                                    *)
LEMMA RunsInOrderStep ==
  Typed /\ RunsInOrder /\ [Next]_vars => RunsInOrder'
  <1> SUFFICES ASSUME Typed /\ RunsInOrder, [Next]_vars PROVE RunsInOrder'
    OBVIOUS
  <1> USE DEF Typed, Types, RunsInOrder, Active, Stages, Running
  <1>1. ASSUME NEW r \in Runs, RunStep(r) PROVE RunsInOrder'
    <2>1. CASE Start(r)
      BY <2>1 DEF Start
    <2>2. CASE Acquire(r)
      <3>1. pool \in 0 .. Cardinality(Cancels)
        BY TypedIsTypeOK DEF TypeOK
      <3>2. \A k \in Slots : <<pool, k>> # None
        BY <3>1
      <3> QED
        BY <2>2, <3>2 DEF Acquire
    <2>3. CASE FailEarly(r)
      BY <2>3 DEF FailEarly
    <2>4. CASE Register(r)
      BY <2>4 DEF Register
    <2>5. CASE Send(r)
      BY <2>5 DEF Send
    <2>6. CASE Answered(r)
      BY <2>6 DEF Answered, AllThere, Unregister, EndRun, Returned
    <2>7. CASE Dropped(r)
      BY <2>7 DEF Dropped, ResultThere, AllThere, Unregister, EndRun
    <2>8. CASE Finish(r)
      BY <2>8 DEF Finish
    <2>9. CASE FinishClaimed(r)
      BY <2>9 DEF FinishClaimed
    <2>10. CASE Describe(r)
      BY <2>10 DEF Describe
    <2>11. CASE ClearHandler(r)
      BY <2>11 DEF ClearHandler, EndRun, Returned
    <2> QED
      BY <1>1, <2>1, <2>2, <2>3, <2>4, <2>5, <2>6, <2>7, <2>8, <2>9, <2>10, <2>11 DEF RunStep
  <1>2. ASSUME NEW s \in Sessions, ServerAnswers(s) PROVE RunsInOrder'
    BY <1>2 DEF ServerAnswers, StatementEnds
  <1>3. ASSUME NEW k \in Cancels, Press(k) \/ CancelStep(k) \/ KillArrives(k) PROVE RunsInOrder'
    <2>1. CASE Press(k)
      BY <2>1 DEF Press
    <2>2. CASE AskServer(k)
      BY <2>2 DEF AskServer, ToStop
    <2>3. CASE KillConfirmed(k)
      BY <2>3 DEF KillConfirmed
    <2>4. CASE ServerSilent(k)
      BY <2>4 DEF ServerSilent
    <2>5. CASE ClaimAbort(k)
      BY <2>5 DEF ClaimAbort, Claimable
    <2>6. CASE Disconnect(k)
      BY <2>6 DEF Disconnect
    <2>7. CASE Wake(k)
      BY <2>7 DEF Wake
    <2>8. CASE KillArrives(k)
      BY <2>8 DEF KillArrives, StatementEnds
    <2> QED
      BY <1>3, <2>1, <2>2, <2>3, <2>4, <2>5, <2>6, <2>7, <2>8 DEF CancelStep
  <1>4. CASE UNCHANGED vars
    BY <1>4 DEF vars
  <1> QED
    BY <1>1, <1>2, <1>3, <1>4 DEF Next

(* What the server answered reaches only a statement that was sent, and     *)
(* what is returned after a success is the success, but for a run that an   *)
(* abort found waiting for more.                                           *)
AnswersKept ==
  \A r \in Runs :
    /\ stage[r] \in {"new", "pool", "session", "registered"} => outcome[r] = None
    /\ stage[r] = "describing" => outcome[r] = "empty"
    /\ stage[r] = "clearing" => sqlite
    /\ stage[r] \in {"ended", "claimedWait", "returned"} /\ outcome[r] \in Successes =>
         \/ result[r] = "ok"
         \/ r \in token /\ (sqlite \/ outcome[r] = "empty")

(* One step per action.                                                    *)
LEMMA AnswersKeptStep ==
  Types /\ AnswersKept /\ [Next]_vars => AnswersKept'
  <1> SUFFICES ASSUME Types /\ AnswersKept, [Next]_vars PROVE AnswersKept'
    OBVIOUS
  <1> USE DEF Types, AnswersKept, Stages, Running
  <1>1. ASSUME NEW r \in Runs, RunStep(r) PROVE AnswersKept'
    <2>1. CASE Start(r)
      BY <2>1 DEF Start
    <2>2. CASE Acquire(r)
      BY <2>2 DEF Acquire
    <2>3. CASE FailEarly(r)
      BY <2>3 DEF FailEarly
    <2>4. CASE Register(r)
      BY <2>4 DEF Register
    <2>5. CASE Send(r)
      BY <2>5 DEF Send
    <2>6. CASE Answered(r)
      BY <2>6 DEF Answered, AllThere, Unregister, EndRun, Returned
    <2>7. CASE Dropped(r)
      BY <2>7 DEF Dropped, ResultThere, AllThere, Unregister, EndRun
    <2>8. CASE Finish(r)
      BY <2>8 DEF Finish
    <2>9. CASE FinishClaimed(r)
      BY <2>9 DEF FinishClaimed
    <2>10. CASE Describe(r)
      BY <2>10 DEF Describe
    <2>11. CASE ClearHandler(r)
      BY <2>11 DEF ClearHandler, EndRun, Returned
    <2> QED
      BY <1>1, <2>1, <2>2, <2>3, <2>4, <2>5, <2>6, <2>7, <2>8, <2>9, <2>10, <2>11 DEF RunStep
  <1>2. ASSUME NEW s \in Sessions, ServerAnswers(s) PROVE AnswersKept'
    BY <1>2 DEF ServerAnswers, StatementEnds
  <1>3. ASSUME NEW k \in Cancels, Press(k) \/ CancelStep(k) \/ KillArrives(k) PROVE AnswersKept'
    <2>1. CASE Press(k)
      BY <2>1 DEF Press
    <2>2. CASE AskServer(k)
      BY <2>2 DEF AskServer, ToStop
    <2>3. CASE KillConfirmed(k)
      BY <2>3 DEF KillConfirmed
    <2>4. CASE ServerSilent(k)
      BY <2>4 DEF ServerSilent
    <2>5. CASE ClaimAbort(k)
      BY <2>5 DEF ClaimAbort, Claimable
    <2>6. CASE Disconnect(k)
      BY <2>6 DEF Disconnect
    <2>7. CASE Wake(k)
      BY <2>7 DEF Wake
    <2>8. CASE KillArrives(k)
      BY <2>8 DEF KillArrives, StatementEnds
    <2> QED
      BY <1>3, <2>1, <2>2, <2>3, <2>4, <2>5, <2>6, <2>7, <2>8 DEF CancelStep
  <1>4. CASE UNCHANGED vars
    BY <1>4 DEF vars
  <1> QED
    BY <1>1, <1>2, <1>3, <1>4 DEF Next

(* What a cancel aims at was running when the user pressed it, and flags,  *)
(* tokens and cancelled results come from nowhere else.                    *)
OnlyPressed ==
  /\ \A k \in Cancels : phase[k] = "idle" => runs[k] = {} /\ target[k] = None
  /\ \A k \in Cancels : target[k] # None => target[k] \in runs[k]
  /\ \A r \in flagged \cup token : Pressed(r)
  /\ CancelledWasPressed

(* One step per action; Press enlarges what was pressed.                   *)
LEMMA OnlyPressedStep ==
  Types /\ RunsInOrder /\ OnlyPressed /\ [Next]_vars => OnlyPressed'
  <1> SUFFICES ASSUME Types /\ RunsInOrder /\ OnlyPressed, [Next]_vars PROVE OnlyPressed'
    OBVIOUS
  <1> USE DEF Types, RunsInOrder, Active, OnlyPressed, CancelledWasPressed, Pressed
  <1>1. ASSUME NEW r \in Runs, RunStep(r) PROVE OnlyPressed'
    <2>1. CASE Start(r)
      BY <2>1 DEF Start
    <2>2. CASE Acquire(r)
      BY <2>2 DEF Acquire
    <2>3. CASE FailEarly(r)
      BY <2>3 DEF FailEarly
    <2>4. CASE Register(r)
      BY <2>4 DEF Register
    <2>5. CASE Send(r)
      BY <2>5 DEF Send
    <2>6. CASE Answered(r)
      BY <2>6 DEF Answered, AllThere, Unregister, EndRun, Returned
    <2>7. CASE Dropped(r)
      BY <2>7 DEF Dropped, ResultThere, AllThere, Unregister, EndRun
    <2>8. CASE Finish(r)
      BY <2>8 DEF Finish
    <2>9. CASE FinishClaimed(r)
      BY <2>9 DEF FinishClaimed
    <2>10. CASE Describe(r)
      BY <2>10 DEF Describe
    <2>11. CASE ClearHandler(r)
      BY <2>11 DEF ClearHandler, EndRun, Returned
    <2> QED
      BY <1>1, <2>1, <2>2, <2>3, <2>4, <2>5, <2>6, <2>7, <2>8, <2>9, <2>10, <2>11 DEF RunStep
  <1>2. ASSUME NEW s \in Sessions, ServerAnswers(s) PROVE OnlyPressed'
    BY <1>2 DEF ServerAnswers, StatementEnds
  <1>3. ASSUME NEW k \in Cancels, Press(k) \/ CancelStep(k) \/ KillArrives(k) PROVE OnlyPressed'
    <2>1. CASE Press(k)
      BY <2>1 DEF Press
    <2>2. CASE AskServer(k)
      BY <2>2 DEF AskServer, ToStop
    <2>3. CASE KillConfirmed(k)
      BY <2>3 DEF KillConfirmed
    <2>4. CASE ServerSilent(k)
      BY <2>4 DEF ServerSilent
    <2>5. CASE ClaimAbort(k)
      BY <2>5 DEF ClaimAbort, Claimable
    <2>6. CASE Disconnect(k)
      BY <2>6 DEF Disconnect
    <2>7. CASE Wake(k)
      BY <2>7 DEF Wake
    <2>8. CASE KillArrives(k)
      BY <2>8 DEF KillArrives, StatementEnds
    <2> QED
      BY <1>3, <2>1, <2>2, <2>3, <2>4, <2>5, <2>6, <2>7, <2>8 DEF CancelStep
  <1>4. CASE UNCHANGED vars
    BY <1>4 DEF vars
  <1> QED
    BY <1>1, <1>2, <1>3, <1>4 DEF Next

(* An abort between its claim and its wake-up: it alone is there, and the  *)
(* run it has claimed waits for it.                                        *)
Aborting(k) == phase[k] \in {"disconnect", "wake"}

AbortsHold ==
  /\ token \subseteq claimed
  /\ \A k \in Cancels : Aborting(k) => \E d \in runs[k] \cap inFlight : d \in claimed \ token
  /\ \A j, k \in Cancels : Aborting(j) /\ Aborting(k) => j = k

(* One step per action.                                                    *)
LEMMA AbortsHoldStep ==
  Types /\ RunsInOrder /\ AbortsHold /\ [Next]_vars => AbortsHold'
  <1> SUFFICES ASSUME Types /\ RunsInOrder /\ AbortsHold, [Next]_vars PROVE AbortsHold'
    OBVIOUS
  <1> USE DEF Types, RunsInOrder, Active, AbortsHold, Aborting, Stages, Running
  <1>1. ASSUME NEW r \in Runs, RunStep(r) PROVE AbortsHold'
    <2>1. CASE Start(r)
      BY <2>1 DEF Start
    <2>2. CASE Acquire(r)
      BY <2>2 DEF Acquire
    <2>3. CASE FailEarly(r)
      BY <2>3 DEF FailEarly
    <2>4. CASE Register(r)
      BY <2>4 DEF Register
    <2>5. CASE Send(r)
      BY <2>5 DEF Send
    <2>6. CASE Answered(r)
      BY <2>6 DEF Answered, AllThere, Unregister, EndRun, Returned
    <2>7. CASE Dropped(r)
      BY <2>7 DEF Dropped, ResultThere, AllThere, Unregister, EndRun
    <2>8. CASE Finish(r)
      BY <2>8 DEF Finish
    <2>9. CASE FinishClaimed(r)
      BY <2>9 DEF FinishClaimed
    <2>10. CASE Describe(r)
      BY <2>10 DEF Describe
    <2>11. CASE ClearHandler(r)
      BY <2>11 DEF ClearHandler, EndRun, Returned
    <2> QED
      BY <1>1, <2>1, <2>2, <2>3, <2>4, <2>5, <2>6, <2>7, <2>8, <2>9, <2>10, <2>11 DEF RunStep
  <1>2. ASSUME NEW s \in Sessions, ServerAnswers(s) PROVE AbortsHold'
    BY <1>2 DEF ServerAnswers, StatementEnds
  <1>3. ASSUME NEW k \in Cancels, Press(k) \/ CancelStep(k) \/ KillArrives(k) PROVE AbortsHold'
    <2>1. CASE Press(k)
      BY <2>1 DEF Press
    <2>2. CASE AskServer(k)
      BY <2>2 DEF AskServer, ToStop
    <2>3. CASE KillConfirmed(k)
      BY <2>3 DEF KillConfirmed
    <2>4. CASE ServerSilent(k)
      BY <2>4 DEF ServerSilent
    <2>5. CASE ClaimAbort(k)
      BY <2>5 DEF ClaimAbort, Claimable
    <2>6. CASE Disconnect(k)
      BY <2>6 DEF Disconnect
    <2>7. CASE Wake(k)
      BY <2>7 DEF Wake
    <2>8. CASE KillArrives(k)
      BY <2>8 DEF KillArrives, StatementEnds
    <2> QED
      BY <1>3, <2>1, <2>2, <2>3, <2>4, <2>5, <2>6, <2>7, <2>8 DEF CancelStep
  <1>4. CASE UNCHANGED vars
    BY <1>4 DEF vars
  <1> QED
    BY <1>1, <1>2, <1>3, <1>4 DEF Next

----------------------------------------------------------------------------
(* The inductive invariant and the theorems. *)

IInv == Typed /\ RunsInOrder /\ AnswersKept /\ OnlyPressed /\ AbortsHold

LEMMA Invariance == Spec => []IInv
  <1>1. Init => IInv
    <2> SUFFICES ASSUME Init PROVE IInv
      OBVIOUS
    <2>1. RunsInOrder /\ AnswersKept /\ OnlyPressed /\ AbortsHold
      BY DEF Init, RunsInOrder, Active, AnswersKept, OnlyPressed, CancelledWasPressed, AbortsHold, Aborting
    <2> QED
      BY <2>1, TypedInit DEF IInv
  <1>2. IInv /\ [Next]_vars => IInv'
    BY TypesStep, PoolsCountedStep, RunsInOrderStep, AnswersKeptStep, OnlyPressedStep, AbortsHoldStep
    DEF IInv, Typed
  <1> QED
    BY <1>1, <1>2, PTL DEF Spec

(* What a Cancel would reach is running, however runs, answers and cancels *)
(* interleave.                                                             *)
THEOREM RegistrationsLive == Spec => []RegistrationsAreLive
  <1>1. IInv => RegistrationsAreLive
    BY DEF IInv, Typed, Types, RunsInOrder, Active, RegistrationsAreLive
  <1> QED
    BY <1>1, Invariance, PTL

(* Nothing is reported as cancelled that was not running when the user     *)
(* pressed Cancel.                                                         *)
THEOREM CancelledOnlyIfPressed == Spec => []CancelledWasPressed
  <1>1. IInv => CancelledWasPressed
    BY DEF IInv, OnlyPressed
  <1> QED
    BY <1>1, Invariance, PTL

(* A success is what the run returns, unless an abort found the run still  *)
(* waiting for the description of an empty result or for SQLite's handle.  *)
THEOREM SuccessReported == Spec => []SuccessIsReported
  <1>1. IInv => SuccessIsReported
    BY DEF IInv, AnswersKept, SuccessIsReported
  <1> QED
    BY <1>1, Invariance, PTL

(* No abort drops the pool under a run it has not claimed.                 *)
THEOREM NextQuerySpared == Spec => AbortSparesNextQuery
  <1> DEFINE Spared ==
        pool' # pool =>
          \A d \in Displayed :
            stage[d] \in Running \cup {"ended", "claimedWait"} => d \in claimed
  <1>1. IInv /\ [Next]_vars => [Spared]_vars
    <2> SUFFICES ASSUME IInv, [Next]_vars, pool' # pool PROVE Spared
      BY DEF vars
    <2>1. PICK k \in Cancels : Disconnect(k)
      BY DEF vars, Next, RunStep, Start, Acquire, FailEarly, Register, Send, Describe, Answered, ClearHandler, Dropped, Finish,
             FinishClaimed, ServerAnswers, Press, CancelStep, AskServer, KillConfirmed, ServerSilent,
             ClaimAbort, Wake, KillArrives
    <2>2. PICK d \in inFlight : d \in claimed
      BY <2>1 DEF Disconnect, IInv, AbortsHold, Aborting
    <2> QED
      BY <2>2 DEF IInv, RunsInOrder, Active, Running
  <1> QED
    BY <1>1, Invariance, PTL DEF Spec, AbortSparesNextQuery

=============================================================================
