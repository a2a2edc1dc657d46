----------------------------- MODULE ConfigFile -----------------------------
(***************************************************************************)
(* config.yml on disk (config.rs): the template, saves of the config       *)
(* editor, connections added for a database file, and the loads that read  *)
(* it meanwhile.  The first three are synchronous commands, one at a time  *)
(* on the window's main thread; loads run on other threads and in the      *)
(* command-line processes.  One action per system call others can come     *)
(* between.                                                                *)
(***************************************************************************)
EXTENDS Naturals, FiniteSets

CONSTANTS
  ConfigEdits,  \* what the user saves, adds or changes with another program, once each
  Loads,        \* AppConfig::load
  Gone, Nothing, HalfText,  \* no file, an empty one, one partly written
  MaxDeaths     \* bound: how often the application is killed

(* A whole text is the edits made to the template.                         *)
WholeTexts == SUBSET ConfigEdits
IsWhole(t) == t \notin {Gone, Nothing, HalfText}

ASSUME ConfigAssumption ==
  /\ MaxDeaths \in Nat /\ IsFiniteSet(ConfigEdits)
  /\ Gone \notin ConfigEdits \cup {Nothing, HalfText} /\ Nothing # HalfText
  /\ \A t \in WholeTexts : IsWhole(t)

ConfigNames == {"yml", "yaml"}

VARIABLES
  text,     \* contents of config.yml, config.yaml and config.yml.tmp
  open,     \* which of them others on the machine may read
  made,     \* edits already used
  window,   \* the window's command: where it is, its edit, the text it read, the path it writes
  load,     \* where each load is
  outside,  \* history: how many times another program wrote
  deaths

cfVars == <<text, open, made, window, load, outside, deaths>>

NoCommand == [at |-> "idle", edit |-> Gone, read |-> Gone, path |-> "yml"]
CfTypeOK ==
  /\ DOMAIN text = ConfigNames \cup {"tmp"} /\ \A p \in DOMAIN text : IsWhole(text[p]) => text[p] \in WholeTexts
  /\ open \in [ConfigNames \cup {"tmp"} -> BOOLEAN]
  /\ made \subseteq ConfigEdits
  /\ window.at \in {"idle", "create", "created", "half", "opened", "toWrite", "temp", "private", "halfTemp", "synced"}
  /\ window.edit \in ConfigEdits \cup {Gone} /\ window.path \in ConfigNames
  /\ IsWhole(window.read) => window.read \in WholeTexts
  /\ load \in [Loads -> {"new", "yml", "yaml", "missing", "read", "broken"}]
  /\ outside \in 0 .. Cardinality(ConfigEdits) /\ deaths \in 0 .. MaxDeaths

There(p) == text[p] # Gone
ConfigPath == IF There("yml") THEN "yml" ELSE IF There("yaml") THEN "yaml" ELSE "yml"
(* tighten_config_permissions                                              *)
Tighten(paths) == open' = [p \in DOMAIN open |-> IF p \in paths THEN FALSE ELSE open[p]]
Command(at) == window' = [window EXCEPT !.at = at]

(* A temporary file of a run that was killed may lie about.                *)
CfInit ==
  /\ \E t \in {Gone, HalfText} : text = [p \in ConfigNames \cup {"tmp"} |-> IF p = "tmp" THEN t ELSE Gone]
  /\ \E o \in BOOLEAN : open = [p \in ConfigNames \cup {"tmp"} |-> p = "tmp" /\ o]
  /\ made = {}
  /\ window = NoCommand
  /\ load = [l \in Loads |-> "new"]
  /\ outside = 0 /\ deaths = 0

----------------------------------------------------------------------------
(* ensure_config_file_in *)

EnsureExisting(then) ==
  /\ There("yml") \/ There("yaml")
  /\ Tighten(ConfigNames)
  /\ Command(then)
  /\ UNCHANGED <<text, made, load, outside, deaths>>

EnsureConfigFile ==
  /\ window.at = "idle"
  /\ \/ EnsureExisting("idle")
     \/ ~There("yml") /\ ~There("yaml") /\ Command("create")
        /\ UNCHANGED <<text, open, made, load, outside, deaths>>

Truncating == TRUE  \* fault: opened without O_EXCL, as if nothing were there
MayCreate == ~There("yml")
CreateTemplate ==
  /\ window.at = "create"
  /\ IF MayCreate
       THEN /\ text' = [text EXCEPT !["yml"] = Nothing]
            /\ Tighten({"yml"})
            /\ Command("created")
       ELSE Tighten({"yml"}) /\ Command("idle") /\ UNCHANGED text
  /\ UNCHANGED <<made, load, outside, deaths>>

WriteTemplate ==
  /\ \/ window.at = "created" /\ text' = [text EXCEPT !["yml"] = HalfText] /\ Command("half")
     \/ window.at = "half" /\ text' = [text EXCEPT !["yml"] = {}] /\ Command("idle")
  /\ UNCHANGED <<open, made, load, outside, deaths>>

----------------------------------------------------------------------------
(* read_config_file and write_config_file: the editor keeps what it read,  *)
(* whatever happens until the user saves.                                  *)

EditorReads ==
  /\ window.at = "idle" /\ There(ConfigPath)
  /\ window' = [window EXCEPT !.at = "opened", !.read = text[ConfigPath]]
  /\ Tighten(ConfigNames)
  /\ UNCHANGED <<text, made, load, outside, deaths>>

(* What is written is the text that was read with the edit; of a text that *)
(* is no mapping the user has to make one.                                 *)
Edited == (IF IsWhole(window.read) THEN window.read ELSE {}) \cup {window.edit}

AlwaysYaml == "yaml"  \* fault: the other name
PathToWrite == ConfigPath
Save ==
  /\ window.at = "opened"
  /\ \E e \in ConfigEdits \ made :
       window' = [window EXCEPT !.at = "toWrite", !.edit = e, !.path = PathToWrite] /\ made' = made \cup {e}
  /\ UNCHANGED <<text, open, load, outside, deaths>>

(* add_file_connection_in: a text that does not parse is an error.         *)
AddFileConnection ==
  /\ window.at = "idle" /\ IsWhole(text[ConfigPath])
  /\ \E e \in ConfigEdits \ made :
       /\ window' = [at |-> "toWrite", edit |-> e, read |-> text[ConfigPath], path |-> PathToWrite]
       /\ made' = made \cup {e}
  /\ Tighten(ConfigNames)
  /\ UNCHANGED <<text, load, outside, deaths>>

----------------------------------------------------------------------------
(* write_config_file_in *)

(* The mode only counts for a file that is created.                        *)
OpenTemp ==
  /\ window.at = "toWrite"
  /\ text' = [text EXCEPT !["tmp"] = Nothing]
  /\ open' = [open EXCEPT !["tmp"] = open["tmp"] /\ There("tmp")]
  /\ Command("temp")
  /\ UNCHANGED <<made, load, outside, deaths>>

LeaveMode == UNCHANGED open  \* fault: the mode given at the creation is taken for enough
SetMode == Tighten({"tmp"})
TempIsPrivate ==
  /\ window.at = "temp"
  /\ SetMode
  /\ Command("private")
  /\ UNCHANGED <<text, made, load, outside, deaths>>

FillConfig ==
  /\ \/ window.at = "private" /\ text' = [text EXCEPT !["tmp"] = HalfText] /\ Command("halfTemp")
     \/ window.at = "halfTemp" /\ text' = [text EXCEPT !["tmp"] = Edited] /\ Command("synced")
  /\ UNCHANGED <<open, made, load, outside, deaths>>

ReplaceConfig ==
  /\ window.at = "synced"
  /\ text' = [text EXCEPT ![window.path] = text["tmp"], !["tmp"] = Gone]
  /\ open' = [open EXCEPT ![window.path] = open["tmp"], !["tmp"] = FALSE]
  /\ window' = NoCommand
  /\ UNCHANGED <<made, load, outside, deaths>>

(* The disk is full, or the application is killed.                         *)
WriteFails ==
  /\ window.at \in {"toWrite", "temp", "private", "halfTemp", "synced"}
  /\ window' = NoCommand
  /\ UNCHANGED <<text, open, made, load, outside, deaths>>
KillApplication ==
  /\ window.at # "idle" /\ deaths < MaxDeaths
  /\ window' = NoCommand
  /\ deaths' = deaths + 1
  /\ UNCHANGED <<text, open, made, load, outside>>

----------------------------------------------------------------------------
(* AppConfig::load; `yml` and `yaml` name the file a load has tightened    *)
BeginLoad(l) ==
  /\ load[l] = "new"
  /\ load' = [load EXCEPT ![l] = IF There(ConfigPath) THEN ConfigPath ELSE "missing"]
  /\ Tighten({ConfigPath})
  /\ UNCHANGED <<text, made, window, outside, deaths>>
ReadText(l) ==
  /\ load[l] \in ConfigNames
  /\ load' = [load EXCEPT ![l] = IF IsWhole(text[load[l]]) THEN "read" ELSE "broken"]
  /\ UNCHANGED <<text, open, made, window, outside, deaths>>

(* Another program writes one of the files; it is careful to do so whole,  *)
(* and not in the instant in which the template is filled in.              *)
WriteOutside ==
  /\ window.at \notin {"created", "half"}
  /\ \E p \in ConfigNames, e \in ConfigEdits \ made, o \in BOOLEAN :
       /\ text' = [text EXCEPT ![p] = (IF IsWhole(@) THEN @ ELSE {}) \cup {e}]
       /\ open' = [open EXCEPT ![p] = o]
       /\ made' = made \cup {e}
  /\ outside' = outside + 1
  /\ UNCHANGED <<window, load, deaths>>

CfNext ==
  \/ EnsureConfigFile \/ CreateTemplate \/ WriteTemplate
  \/ EditorReads \/ Save \/ AddFileConnection
  \/ OpenTemp \/ TempIsPrivate \/ FillConfig \/ ReplaceConfig \/ WriteFails \/ KillApplication
  \/ \E l \in Loads : BeginLoad(l) \/ ReadText(l)
  \/ WriteOutside
CfSpec == CfInit /\ [][CfNext]_cfVars

----------------------------------------------------------------------------
(* Properties *)

(* "so that a failure midway does not leave the existing config            *)
(* half-written and broken": a text that was whole is followed by whole    *)
(* ones, whatever fails and dies and whoever creates a file meanwhile.     *)
ConfigSurvives ==
  [][\A p \in ConfigNames : IsWhole(text[p]) => IsWhole(text'[p])]_cfVars

(* Passwords are never written into a file that others may read, a         *)
(* temporary file that an earlier run left included.                       *)
NothingIsExposed ==
  [][\A p \in DOMAIN text :
       text'[p] \notin {text[p], Nothing} /\ open'[p] => text'[p] = Gone \/ outside' # outside]_cfVars

(* What the user saved or added is in the file that the next load reads,   *)
(* unless another program created one that goes before it.                 *)
EditedIsUsed ==
  [][window.at = "synced" /\ window' = NoCommand /\ text'["tmp"] = Gone =>
       \/ window.edit \in text'[ConfigPath']
       \/ window.path = "yaml" /\ outside # 0]_cfVars

(* The template never takes the place of a user's file: a load that finds  *)
(* a broken text finds the template's file that a killed process left, or  *)
(* one being written.                                                      *)
OnlyTemplatesBreak ==
  [](\A p \in ConfigNames : text[p] \in {Nothing, HalfText} =>
       p = "yml" /\ (window.at \in {"created", "half"} \/ deaths > 0))

(* The configuration survives whatever happens while it is written, and    *)
(* stays private.                                                          *)
ConfigPromise == ConfigSurvives /\ NothingIsExposed /\ EditedIsUsed /\ OnlyTemplatesBreak
=============================================================================
