-------------------------------- MODULE Dump --------------------------------
(***************************************************************************)
(* Dumping a database with mysqldump or pg_dump (dump.rs: run_dump, under  *)
(* the commands run_dump and cancel_dump of lib.rs): the tool writes to a  *)
(* partial file next to the chosen path, which replaces it when the tool   *)
(* has succeeded; a password file, a tunnel and the tool itself live as    *)
(* long as the dump.  The application may die at any moment.               *)
(***************************************************************************)
EXTENDS FiniteSets

CONSTANTS
  Dumps,          \* calls of run_dump, all to one output path
  DumpIds, IdOf,  \* the ID the frontend gives to each
  PasswordHelper, \* dumps of a connection with a password_command,
  ViaTunnel,      \* ... with an SSH tunnel,
  Mysql,          \* ... with mysqldump, which reads an option file
  OldFile, NoDump

ASSUME DumpsAssumption ==
  /\ IdOf \in [Dumps -> DumpIds]
  /\ PasswordHelper \subseteq Dumps /\ ViaTunnel \subseteq Dumps /\ Mysql \subseteq Dumps
  /\ OldFile \notin Dumps /\ NoDump \notin Dumps

VARIABLES
  dump,          \* where each dump is and how it ended
  dumps,         \* AppState.dumps: the dump registered under an ID
  cancelTokens,  \* dumps whose token is cancelled
  partials,      \* partial files on disk ...
  whole,         \* ... those with a complete dump
  optionFiles,   \* password files on disk
  tunnels,       \* dedicated tunnels open
  children,      \* tools running
  outputFile,    \* what the chosen path holds: [of |-> whose dump, whole |-> ...]
  alive          \* the application has not died

duVars == <<dump, dumps, cancelTokens, partials, whole, optionFiles, tunnels, children, outputFile, alive>>

DuStages == {"new", "checks", "helper", "tunnel", "files", "running", "exited", "over", "done"}
DumpStates == [stage : DuStages, result : {"none", "ok", "error", "cancelled", "refused"}]
DuTypeOK ==
  /\ dump \in [Dumps -> DumpStates]
  /\ dumps \in [DumpIds -> Dumps \cup {NoDump}]
  /\ cancelTokens \subseteq Dumps
  /\ partials \subseteq Dumps /\ whole \subseteq Dumps /\ optionFiles \subseteq Dumps
  /\ tunnels \subseteq Dumps /\ children \subseteq Dumps
  /\ outputFile \in [of : Dumps \cup {OldFile}, whole : BOOLEAN]
  /\ alive \in BOOLEAN

DuInit ==
  /\ dump = [d \in Dumps |-> [stage |-> "new", result |-> "none"]]
  /\ dumps = [i \in DumpIds |-> NoDump]
  /\ cancelTokens = {} /\ partials = {} /\ whole = {}
  /\ optionFiles = {} /\ tunnels = {} /\ children = {}
  /\ outputFile = [of |-> OldFile, whole |-> TRUE]
  /\ alive = TRUE

DuAt(d, s) == alive /\ dump[d].stage = s
DuGoto(d, s) == dump' = [dump EXCEPT ![d].stage = s]

----------------------------------------------------------------------------
(* The commands *)

(* An ID that is in use is refused, without touching its registration.     *)
StartDump(d) ==
  /\ DuAt(d, "new")
  /\ IF dumps[IdOf[d]] # NoDump
       THEN /\ dump' = [dump EXCEPT ![d] = [stage |-> "done", result |-> "refused"]]
            /\ UNCHANGED dumps
       ELSE /\ dumps' = [dumps EXCEPT ![IdOf[d]] = d]
            /\ DuGoto(d, "checks")
  /\ UNCHANGED <<cancelTokens, partials, whole, optionFiles, tunnels, children, outputFile, alive>>

CancelDump(i) ==
  /\ alive /\ dumps[i] # NoDump
  /\ cancelTokens' = cancelTokens \cup {dumps[i]}
  /\ UNCHANGED <<dump, dumps, partials, whole, optionFiles, tunnels, children, outputFile, alive>>

Unregister(d) ==
  /\ DuAt(d, "over")
  /\ dumps' = [dumps EXCEPT ![IdOf[d]] = NoDump]
  /\ DuGoto(d, "done")
  /\ UNCHANGED <<cancelTokens, partials, whole, optionFiles, tunnels, children, outputFile, alive>>

----------------------------------------------------------------------------
(* dump::run_dump *)

KeepFiles(d) == UNCHANGED <<partials, optionFiles>>  \* fault: removed on success only
DropFiles(d) == partials' = partials \ {d} /\ optionFiles' = optionFiles \ {d}
(* Leaving the function drops what it holds: RemoveOnDrop of both files,   *)
(* the tunnel, and the tool (kill, or kill_on_drop).                       *)
Leave(d, how) ==
  /\ dump' = [dump EXCEPT ![d] = [stage |-> "over", result |-> how]]
  /\ DropFiles(d)
  /\ tunnels' = tunnels \ {d}
  /\ children' = children \ {d}

(* The server and its active schema, the tool, the path, the database, the *)
(* arguments.                                                              *)
CheckRequest(d) ==
  /\ DuAt(d, "checks")
  /\ \/ Leave(d, "error")
     \/ /\ DuGoto(d, IF d \in PasswordHelper THEN "helper" ELSE "tunnel")
        /\ UNCHANGED <<partials, optionFiles, tunnels, children>>
  /\ UNCHANGED <<dumps, cancelTokens, whole, outputFile, alive>>

RunHelper(d) ==
  /\ DuAt(d, "helper")
  /\ \/ Leave(d, "error")
     \/ /\ d \notin cancelTokens
        /\ DuGoto(d, "tunnel")
        /\ UNCHANGED <<partials, optionFiles, tunnels, children>>
  /\ UNCHANGED <<dumps, cancelTokens, whole, outputFile, alive>>

(* Opening the tunnel is not interrupted; the token is looked at after it. *)
OpenTunnel(d) ==
  /\ DuAt(d, "tunnel")
  /\ \/ d \in ViaTunnel /\ Leave(d, "error")
     \/ d \in cancelTokens /\ Leave(d, "cancelled")
     \/ /\ d \notin cancelTokens
        /\ tunnels' = IF d \in ViaTunnel THEN tunnels \cup {d} ELSE tunnels
        /\ DuGoto(d, "files")
        /\ UNCHANGED <<partials, optionFiles, children>>
  /\ UNCHANGED <<dumps, cancelTokens, whole, outputFile, alive>>

(* The password file, the partial file, then the tool; each may fail.      *)
SpawnTool(d) ==
  /\ DuAt(d, "files")
  /\ \/ Leave(d, "error")
     \/ /\ optionFiles' = IF d \in Mysql THEN optionFiles \cup {d} ELSE optionFiles
        /\ partials' = partials \cup {d}
        /\ children' = children \cup {d}
        /\ DuGoto(d, "running")
        /\ UNCHANGED tunnels
  /\ UNCHANGED <<dumps, cancelTokens, whole, outputFile, alive>>

IgnoreStatus(d) == TRUE  \* fault: the exit status is not looked at
Succeeded(d) == d \in whole
(* The tool ends, with a complete dump or not; select! may take the cancel *)
(* instead, and then the tool is killed.                                   *)
ToolExits(d) ==
  /\ DuAt(d, "running")
  /\ d \in children
  /\ children' = children \ {d}
  /\ whole' \in {whole, whole \cup {d}}
  /\ UNCHANGED <<dump, dumps, cancelTokens, partials, optionFiles, tunnels, outputFile, alive>>
WaitForTool(d) ==
  /\ DuAt(d, "running")
  /\ d \notin children
  /\ IF Succeeded(d) THEN DuGoto(d, "exited") /\ UNCHANGED <<partials, optionFiles, tunnels, children>>
                     ELSE Leave(d, "error")
  /\ UNCHANGED <<dumps, cancelTokens, whole, outputFile, alive>>
SeeCancel(d) ==
  /\ DuAt(d, "running") \/ DuAt(d, "helper")
  /\ d \in cancelTokens
  /\ Leave(d, "cancelled")
  /\ UNCHANGED <<dumps, cancelTokens, whole, outputFile, alive>>

CopyFails(d) == outputFile' = [of |-> d, whole |-> TRUE]  \* fault: moved first, then checked
RenameFails(d) == UNCHANGED outputFile
(* The rename, which replaces an existing file at once; then keep().       *)
MoveIntoPlace(d) ==
  /\ DuAt(d, "exited")
  /\ \/ Leave(d, "error") /\ RenameFails(d)
     \/ Leave(d, "ok") /\ outputFile' = [of |-> d, whole |-> d \in whole]
  /\ UNCHANGED <<dumps, cancelTokens, whole, alive>>

(* Nothing is cleaned up, and a tool that is still running writes on.      *)
ApplicationDies == alive /\ alive' = FALSE
  /\ UNCHANGED <<dump, dumps, cancelTokens, partials, whole, optionFiles, tunnels, children, outputFile>>

----------------------------------------------------------------------------
DumpStep(d) ==
  \/ Unregister(d) \/ CheckRequest(d) \/ RunHelper(d) \/ OpenTunnel(d) \/ SpawnTool(d)
  \/ WaitForTool(d) \/ SeeCancel(d) \/ MoveIntoPlace(d)
DuNext ==
  \/ \E d \in Dumps : StartDump(d) \/ ToolExits(d) \/ DumpStep(d)
  \/ \E i \in DumpIds : CancelDump(i)
  \/ ApplicationDies
DuSpec == DuInit /\ [][DuNext]_duVars

(* run_dump goes on by itself; the tool may run for ever.                  *)
DuFairSpec == DuSpec /\ \A d \in Dumps : WF_duVars(DumpStep(d))

----------------------------------------------------------------------------
(* Properties *)

(* The chosen path never holds part of a dump: it keeps what it had until  *)
(* a whole dump replaces it, whatever fails, is cancelled or dies when.    *)
OutputIsWhole == outputFile.whole

(* Only a dump that then reports success changes the chosen path, also     *)
(* when several dumps go there.                                            *)
OnlySuccessReplaces ==
  [][outputFile' # outputFile =>
       /\ outputFile'.of \in Dumps
       /\ dump'[outputFile'.of].result = "ok" /\ dump[outputFile'.of].result = "none"]_duVars

(* A dump that is over leaves nothing behind: no partial file, no file     *)
(* with the password, no tunnel and no tool.                               *)
NothingLeftBehind ==
  \A d \in Dumps : dump[d].stage \in {"over", "done"} =>
    d \notin partials \cup optionFiles \cup tunnels \cup children

(* A cancel finds the dump that is running under its ID, also after a      *)
(* second start with the same ID was refused.                              *)
CancelFindsItsDump ==
  \A d \in Dumps : dump[d].stage \notin {"new", "done"} => dumps[IdOf[d]] = d

(* A cancelled dump ends, though its tool never would.                     *)
CancelEndsDump == \A d \in Dumps : d \in cancelTokens ~> ~alive \/ dump[d].stage = "done"

(* The output path holds a whole file, a dump that is over has cleaned up  *)
(* after itself, and its Cancel button reaches it.                         *)
DumpPromise == [](OutputIsWhole /\ NothingLeftBehind /\ CancelFindsItsDump) /\ OnlySuccessReplaces
=============================================================================
