----------------------------- MODULE MCServices -----------------------------
(* Instances of the services for TLC.  They share no state: in a behaviour *)
(* the one in focus takes the steps.                                       *)
EXTENDS PasswordRefresh, PooledSession, SchemaCache, ChatAgent, Dump, TunnelRelay, TunnelSetup,
        QueryFolder, Launch, HistoryLog, ConfigFile, TLC

CONSTANTS
  d1, d2, d3, i1, i2, n1, n2, n3, h1, h2,  \* dumps, dump IDs, tunnels, SSH hosts
  k1,                                      \* a host key
  o1, o2, o3, f1, f2, f3, q1, q2, anyCase  \* file operations, folders, file names

IdOfDump == (d1 :> i1) @@ (d2 :> i1) @@ (d3 :> i2)  \* d2 is started again with the ID of d1
HostOfTunnel == (n1 :> h1) @@ (n2 :> h2) @@ (n3 :> h1)

SameButForCase == [n \in {q1, q2} |-> anyCase]
A == <<f1, q1>>
B == <<f2, q1>>
C == <<f2, q2>>
D == <<f3, q1>>
CallsOnTheseFiles ==
  {[kind |-> c[1], at |-> c[2], to |-> c[3]] :
     c \in {<<"move", A, B>>, <<"move", D, B>>, <<"rename", C, B>>, <<"write", B, B>>, <<"guarded", B, B>>,
            <<"create", B, B>>, <<"ensure", C, C>>, <<"delete", A, A>>, <<"delete", B, B>>}}
Interchangeable == Permutations(FileOps)
NoCall == [kind |-> "create", at |-> B, to |-> B]
FilesThere == {A, C, D}

----------------------------------------------------------------------------
VARIABLE focus

Services == {"password", "session", "schema", "chat", "dump", "relay", "setup", "folder", "launch", "history", "config"}

ServicesInit ==
  /\ focus \in Services
  /\ PwInit /\ ScInit /\ CaInit /\ DuInit /\ TrInit /\ HiInit
  /\ (IF focus # "session" THEN sqlite = TRUE ELSE TRUE) /\ PsInit
  /\ (IF focus # "setup" THEN hostKey = [h \in SshHosts |-> k1] /\ knownHosts = NothingKnown ELSE TRUE)
  /\ TsInit
  /\ (IF focus # "folder" THEN call = [o \in FileOps |-> NoCall] ELSE TRUE)
  /\ (IF focus # "folder" THEN disk = [p \in Places |-> Missing] ELSE TRUE)
  /\ QfInit
  /\ (IF focus # "launch" THEN command = [l \in Launches |-> "plain"] /\ file = Absent ELSE TRUE)
  /\ LaInit
  /\ CfInit
  /\ IF focus # "config" THEN text["tmp"] = Gone /\ ~open["tmp"] ELSE TRUE

OthersStay ==
  /\ UNCHANGED focus
  /\ IF focus # "password" THEN UNCHANGED pwVars ELSE TRUE
  /\ IF focus # "session" THEN UNCHANGED psVars ELSE TRUE
  /\ IF focus # "schema" THEN UNCHANGED scVars ELSE TRUE
  /\ IF focus # "chat" THEN UNCHANGED caVars ELSE TRUE
  /\ IF focus # "dump" THEN UNCHANGED duVars ELSE TRUE
  /\ IF focus # "relay" THEN UNCHANGED trVars ELSE TRUE
  /\ IF focus # "setup" THEN UNCHANGED tsVars ELSE TRUE
  /\ IF focus # "folder" THEN UNCHANGED qfVars ELSE TRUE
  /\ IF focus # "launch" THEN UNCHANGED laVars ELSE TRUE
  /\ IF focus # "history" THEN UNCHANGED hiVars ELSE TRUE
  /\ IF focus # "config" THEN UNCHANGED cfVars ELSE TRUE

ServicesNext ==
  \/ focus = "password" /\ PwNext /\ OthersStay
  \/ focus = "session" /\ PsNext /\ OthersStay
  \/ focus = "schema" /\ ScNext /\ OthersStay
  \/ focus = "chat" /\ CaNext /\ OthersStay
  \/ focus = "dump" /\ DuNext /\ OthersStay
  \/ focus = "relay" /\ TrNext /\ OthersStay
  \/ focus = "setup" /\ TsNext /\ OthersStay
  \/ focus = "folder" /\ QfNext /\ OthersStay
  \/ focus = "launch" /\ LaNext /\ OthersStay
  \/ focus = "history" /\ HiNext /\ OthersStay
  \/ focus = "config" /\ CfNext /\ OthersStay

ServicesSpec == ServicesInit /\ [][ServicesNext]_<<focus, pwVars, psVars, scVars, caVars, duVars, trVars, tsVars, qfVars, laVars, hiVars, cfVars>>

(* The type invariants of the services.                                    *)
ServicesTypeOK ==
  /\ PwTypeOK /\ PsTypeOK /\ ScTypeOK /\ CaTypeOK /\ DuTypeOK
  /\ TrTypeOK /\ TsTypeOK /\ QfTypeOK /\ LaTypeOK /\ HiTypeOK /\ CfTypeOK

(* The user's files, queries, configuration and history, survive whatever  *)
(* happens while they are written, and passwords stay private.             *)
FilesAreSafe == FilesSurvive /\ ConfigPromise /\ LogPromise
=============================================================================
