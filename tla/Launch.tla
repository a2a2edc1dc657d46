------------------------------- MODULE Launch -------------------------------
(***************************************************************************)
(* Starting Queryfolio with something to open (lib.rs: run, frontend_ready *)
(* and dispatch_route).  Every launch is a process; `write` saves its file *)
(* before anything else.  The first process shows the window, later ones   *)
(* hand their arguments over to it and end.  What is to be opened waits    *)
(* until the page listens for it.                                          *)
(***************************************************************************)
EXTENDS Naturals, FiniteSets

CONSTANTS
  Launches,
  NoLaunch,
  Absent, Blank0,  \* the file: not there, and empty
  Before           \* the file as it was

Commands == {"plain", "open", "writeText", "writeNothing", "writeTooMuch"}

ASSUME LaunchAssumption ==
  NoLaunch \notin Launches /\ {Absent, Blank0, Before} \cap Launches = {} /\ Absent # Blank0

VARIABLES
  command,   \* what each process was started with
  process,   \* where it is
  file,      \* the query file all of them are about
  instance,  \* the process with the window
  launchRoute, \* its own arguments, until the page asks for them
  page,      \* the frontend: its listener, then its call of frontend_ready
  taken,     \* the launch whose route that call is resolving
  live,      \* LiveDelivery: ready and pending (targets and errors)
  shown,     \* how often the page was told about a launch
  outcome,   \* "target" or "error" when a route is resolved
  cached,    \* the window's process holds the merged config
  overrideRuns, \* history: runs of config_override_command by each process
  written    \* history: launches whose text was saved

laVars == <<command, process, file, instance, launchRoute, page, taken, live, shown, outcome,
            cached, overrideRuns, written>>

Writing(l) == command[l] \in {"writeText", "writeNothing", "writeTooMuch"}
HasRoute(l) == command[l] # "plain"

LaTypeOK ==
  /\ command \in [Launches -> Commands]
  /\ process \in [Launches -> {"new", "preflight", "window", "forwarded", "resolved", "told", "failed", "ended"}]
  /\ file \in Launches \cup {Absent, Blank0, Before}
  /\ instance \in Launches \cup {NoLaunch} /\ launchRoute \in Launches \cup {NoLaunch}
  /\ page \in {"loading", "listening", "taking", "ready"}
  /\ taken \in Launches \cup {NoLaunch}
  /\ live \in [ready : BOOLEAN, pending : SUBSET Launches]
  /\ shown \in [Launches -> Nat]
  /\ outcome \in [Launches -> {"none", "target", "error"}]
  /\ cached \in BOOLEAN
  /\ overrideRuns \in [Launches -> Nat]
  /\ written \subseteq Launches

LaInit ==
  /\ command \in [Launches -> Commands]
  /\ process = [l \in Launches |-> "new"]
  /\ file \in {Absent, Before}
  /\ instance = NoLaunch /\ launchRoute = NoLaunch
  /\ page = "loading" /\ taken = NoLaunch
  /\ live = [ready |-> FALSE, pending |-> {}]
  /\ shown = [l \in Launches |-> 0]
  /\ outcome = [l \in Launches |-> "none"]
  /\ cached = FALSE
  /\ overrideRuns = [l \in Launches |-> 0]
  /\ written = {}

Become(l, s) == process' = [process EXCEPT ![l] = s]

----------------------------------------------------------------------------
(* Before the window: apply_cli_write_route                                *)

EmptyIsText(l) == command[l] \in {"writeText", "writeNothing"}  \* fault: an empty stdin is a text
HasContent(l) == command[l] = "writeText"
ContinueAnyway(l) == "preflight"  \* fault: the launch goes on to open the file
AfterFailedWrite(l) == "failed"
(* Too much on stdin, a broken config, a full disk: nothing is written and *)
(* the process exits with an error.  Without content the file is created   *)
(* when it is missing.                                                     *)
Preflight(l) ==
  /\ process[l] = "new"
  /\ overrideRuns' = [overrideRuns EXCEPT ![l] = IF Writing(l) /\ command[l] # "writeTooMuch" THEN 1 ELSE 0]
  /\ \/ /\ Writing(l)
        /\ Become(l, AfterFailedWrite(l))
        /\ UNCHANGED <<file, written>>
     \/ /\ command[l] # "writeTooMuch"
        /\ Become(l, "preflight")
        /\ file' = CASE Writing(l) /\ HasContent(l) -> l
                     [] Writing(l) /\ ~HasContent(l) /\ file = Absent -> Blank0
                     [] OTHER -> file
        /\ written' = IF Writing(l) THEN written \cup {l} ELSE written
  /\ UNCHANGED <<command, instance, launchRoute, page, taken, live, shown, outcome, cached>>

ConfigIsForgotten(l) == FALSE  \* fault: the config of the write is not kept
ConfigOfWrite(l) == Writing(l)
(* Builder::default() ... manage(AppState::with_config(preflight_config))  *)
ShowWindow(l) ==
  /\ process[l] = "preflight" /\ instance = NoLaunch
  /\ instance' = l
  /\ cached' = ConfigOfWrite(l)
  /\ launchRoute' = IF HasRoute(l) THEN l ELSE NoLaunch
  /\ Become(l, "window")
  /\ UNCHANGED <<command, file, page, taken, live, shown, outcome, overrideRuns, written>>

(* single-instance: the window's process dispatches the route.             *)
HandOver(l) ==
  /\ process[l] = "preflight" /\ instance # NoLaunch
  /\ Become(l, IF HasRoute(l) THEN "forwarded" ELSE "ended")
  /\ UNCHANGED <<command, file, instance, launchRoute, page, taken, live, shown, outcome, cached,
                 overrideRuns, written>>

----------------------------------------------------------------------------
(* resolve_route_target: the first use of the config merges it.            *)
Resolve(l) ==
  /\ outcome' = [outcome EXCEPT ![l] = IF file = Absent THEN "error" ELSE "target"]
  /\ overrideRuns' = IF cached THEN overrideRuns ELSE [overrideRuns EXCEPT ![instance] = @ + 1]
  /\ cached' = TRUE

DispatchRoute(l) ==
  /\ process[l] = "forwarded"
  /\ Resolve(l)
  /\ Become(l, "resolved")
  /\ UNCHANGED <<command, file, instance, launchRoute, page, taken, live, shown, written>>

AlwaysEmit == TRUE  \* fault: the event is emitted without asking who listens
EmitNow == live.ready
QueueToo(l) == page # "loading"  \* fault: what is queued is emitted as well
Heard(l) == EmitNow /\ page # "loading"
(* Ready check and push under one lock; an event nobody listens for is     *)
(* gone.                                                                   *)
DeliverRoute(l) ==
  /\ process[l] = "resolved"
  /\ Become(l, "told")
  /\ shown' = IF Heard(l) THEN [shown EXCEPT ![l] = @ + 1] ELSE shown
  /\ live' = IF EmitNow THEN live ELSE [live EXCEPT !.pending = @ \cup {l}]
  /\ UNCHANGED <<command, file, instance, launchRoute, page, taken, outcome, cached, overrideRuns, written>>

----------------------------------------------------------------------------
(* The page: onMount registers the listeners, then calls frontend_ready.   *)

Listen ==
  /\ instance # NoLaunch /\ page = "loading"
  /\ page' = "listening"
  /\ UNCHANGED <<command, process, file, instance, launchRoute, taken, live, shown, outcome, cached,
                 overrideRuns, written>>

TakeLaunchRoute ==
  /\ page = "listening"
  /\ page' = "taking"
  /\ taken' = launchRoute /\ launchRoute' = NoLaunch
  /\ UNCHANGED <<command, process, file, instance, live, shown, outcome, cached, overrideRuns, written>>

StillQueue == FALSE  \* fault: the queue is handed over but goes on
NowReady == TRUE
(* Resolve the launch route; then ready and the queue, under the lock.     *)
AnswerReady ==
  /\ page = "taking"
  /\ page' = "ready"
  /\ IF taken = NoLaunch THEN UNCHANGED <<outcome, overrideRuns, cached>> ELSE Resolve(taken)
  /\ shown' = [l \in Launches |-> shown[l] + (IF l = taken \/ l \in live.pending THEN 1 ELSE 0)]
  /\ live' = [ready |-> NowReady, pending |-> {}]
  /\ taken' = NoLaunch
  /\ UNCHANGED <<command, process, file, instance, launchRoute, written>>

----------------------------------------------------------------------------
LaStep == Listen \/ TakeLaunchRoute \/ AnswerReady
            \/ \E l \in Launches : HandOver(l) \/ DispatchRoute(l) \/ DeliverRoute(l)
LaNext == LaStep \/ \E l \in Launches : Preflight(l) \/ ShowWindow(l)
(* Tauri's runtime runs its tasks and the page's script.                   *)
LaSpec == LaInit /\ [][LaNext]_laVars
LaFairSpec == LaSpec /\ WF_laVars(LaStep)

----------------------------------------------------------------------------
(* Properties *)

(* "Preventing misses and double delivery": the page hears of every launch *)
(* at most once, and when it has heard of it, of the outcome.              *)
ShownOnce == \A l \in Launches : shown[l] <= 1 /\ (shown[l] = 1 => outcome[l] # "none")

(* Nothing is lost between the queue and the events, whichever comes first *)
(* of the page's readiness and the end of the resolution.                  *)
NothingIsMissed ==
  page = "ready" =>
    \A l \in Launches : process[l] = "told" \/ (instance = l /\ HasRoute(l)) => shown[l] = 1

(* A `write` that failed does not open the file as if it had worked.       *)
OnlyWrittenIsShown ==
  \A l \in Launches : shown[l] > 0 /\ Writing(l) => l \in written /\ outcome[l] = "target"

(* `write` without a text does not clobber a file, be it empty stdin or a  *)
(* launch from the Finder, whose stdin is /dev/null.                       *)
OnlyTextReplaces ==
  [][\A l \in Launches : file' # file /\ file # Absent => file' \in Launches /\ command[file'] = "writeText"]_laVars

(* config_override_command (1Password, Touch ID) runs once per launch, and *)
(* what was written and what is opened go by the same configuration.       *)
OneOverrideRun == \A l \in Launches : overrideRuns[l] <= 1

(* Every launch that got past its write is heard of, once a window is up.  *)
EveryLaunchIsShown ==
  \A l \in Launches : process[l] \in {"window", "forwarded"} /\ HasRoute(l) ~> shown[l] = 1

(* Every launch is shown as it was asked for, once.                        *)
LaunchPromise == [](ShownOnce /\ NothingIsMissed /\ OnlyWrittenIsShown /\ OneOverrideRun) /\ OnlyTextReplaces
=============================================================================
