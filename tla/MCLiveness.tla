----------------------------- MODULE MCLiveness -----------------------------
(* Liveness of cancels, of editor tabs and of the services that have to    *)
(* come to an end, for TLC.  They share no state: in a behaviour the one   *)
(* in focus takes the steps, fairly.                                       *)
EXTENDS ChatAgent, Dump, TunnelRelay, Launch, GlobMatch, PasswordRefresh, TLC

CONSTANTS
  None,
  Displayed, Fetches, Cancels, Slots,                                               \* QueryCancel
  Tabs, Paths, Ops, UserEdits, ExternalEdits, Uses, MaxEdits,                       \* FileSync
  d1, d2, i1, i2, u1, u2, x1

IdOfDump == (d1 :> i1) @@ (d2 :> i1)
SameLine == {{u1, x1}, {u1, u2}}

VARIABLES stage, sqlite, inFlight, claimed, token, registry, flagged, pool, session, onServer, runOutcome,
          result, phase, runs, target, kill
cancelVars == <<stage, sqlite, inFlight, claimed, token, registry, flagged, pool, session, onServer, runOutcome,
                result, phase, runs, target, kill>>
Cancelling == INSTANCE QueryCancel WITH outcome <- runOutcome

VARIABLES files, path, content, base, dirty, conflicted, active, pending, navigator, op, edits
editorVars == <<files, path, content, base, dirty, conflicted, active, pending, navigator, op, edits>>
Editor == INSTANCE FileSync WITH Overlaps <- SameLine, MaxEvents <- MaxEdits, events <- edits

VARIABLE focus
Parts == {"cancel", "editor", "chat", "dump", "relay", "launch", "glob", "password"}

LivenessInit ==
  /\ focus \in Parts
  /\ Cancelling!Init /\ (IF focus # "cancel" THEN ~sqlite ELSE TRUE)
  /\ CaInit /\ DuInit /\ TrInit /\ GlInit /\ PwInit
  /\ (IF focus # "editor" THEN files = [p \in Paths |-> None] ELSE TRUE) /\ Editor!Init
  /\ (IF focus # "launch" THEN command = [l \in Launches |-> "plain"] /\ file = Absent ELSE TRUE)
  /\ LaInit

OthersStay ==
  /\ UNCHANGED focus
  /\ IF focus # "cancel" THEN UNCHANGED cancelVars ELSE TRUE
  /\ IF focus # "editor" THEN UNCHANGED editorVars ELSE TRUE
  /\ IF focus # "chat" THEN UNCHANGED caVars ELSE TRUE
  /\ IF focus # "dump" THEN UNCHANGED duVars ELSE TRUE
  /\ IF focus # "relay" THEN UNCHANGED trVars ELSE TRUE
  /\ IF focus # "launch" THEN UNCHANGED laVars ELSE TRUE
  /\ IF focus # "glob" THEN UNCHANGED glVars ELSE TRUE
  /\ IF focus # "password" THEN UNCHANGED pwVars ELSE TRUE

LivenessNext ==
  \/ focus = "cancel" /\ Cancelling!Next /\ OthersStay
  \/ focus = "editor" /\ Editor!Next /\ OthersStay
  \/ focus = "chat" /\ CaNext /\ OthersStay
  \/ focus = "dump" /\ DuNext /\ OthersStay
  \/ focus = "relay" /\ TrNext /\ OthersStay
  \/ focus = "launch" /\ LaNext /\ OthersStay
  \/ focus = "glob" /\ GlNext /\ OthersStay
  \/ focus = "password" /\ PwNext /\ OthersStay

(* The fairness of each module, for the one in focus.                      *)
LivenessSpec ==
  /\ LivenessInit
  /\ [][LivenessNext]_<<focus, cancelVars, editorVars, caVars, duVars, trVars, laVars, glVars, pwVars>>
  /\ \A r \in Displayed \cup Fetches :
       WF_cancelVars(/\ focus = "cancel"
                     /\ \/ Cancelling!Describe(r) \/ Cancelling!Answered(r) \/ Cancelling!Dropped(r)
                        \/ Cancelling!Finish(r) \/ Cancelling!FinishClaimed(r))
  /\ \A k \in Cancels : WF_cancelVars(focus = "cancel" /\ Cancelling!CancelStep(k))
  /\ \A o \in Ops :
       /\ WF_editorVars(focus = "editor" /\ Editor!Continue(o))
       /\ WF_editorVars(focus = "editor" /\ (Editor!Backend(o) \/ Editor!Answer(o)))
       /\ SF_editorVars(focus = "editor" /\ Editor!Watch(o))
  /\ SF_editorVars(focus = "editor" /\ Editor!AutoSave)
  /\ \A r \in Requests : WF_caVars(focus = "chat" /\ FairStep(r))
  /\ \A d \in Dumps : WF_duVars(focus = "dump" /\ DumpStep(d))
  /\ WF_trVars(focus = "relay" /\ RelayStep)
  /\ WF_trVars(focus = "relay" /\ DriverSends) /\ WF_trVars(focus = "relay" /\ DriverReads)
  /\ WF_trVars(focus = "relay" /\ ServerReads) /\ WF_trVars(focus = "relay" /\ ServerAnswers)
  /\ WF_trVars(focus = "relay" /\ server.eof /\ ServerCloses)
  /\ WF_laVars(focus = "launch" /\ LaStep)
  /\ WF_glVars(focus = "glob" /\ GlNext)
  /\ \A o \in Operations : WF_pwVars(focus = "password" /\ RefreshStep(o))

----------------------------------------------------------------------------
(* What comes to an end (stated in the modules) *)

CancelEndsRun == Cancelling!CancelEndsRun

(* What the user stops comes to an end, whatever it waits for: a chat, a   *)
(* dump, the relays of a tunnel that was dropped.                          *)
StoppedWorkEnds == StopEndsChat /\ CancelEndsDump /\ DropEndsRelay

(* What was asked for is answered: a request through a tunnel, a launch, a *)
(* wait for somebody else's password helper, a match of a glob.            *)
NobodyWaitsForEver == EveryRequestIsAnswered /\ EveryLaunchIsShown /\ RefreshEnds /\ GlobEnds
=============================================================================
