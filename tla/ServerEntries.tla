--------------------------- MODULE ServerEntries ---------------------------
(***************************************************************************)
(* "Open SQLite / DuckDB file" (config.rs: add_file_connection_in): the    *)
(* connection that already opens the file, or one entry more at the end of *)
(* `servers`, added to the text of config.yml line by line so that         *)
(* comments and order stay.                                                *)
(*                                                                         *)
(* A line is what the code tells apart, with the two indentations a list   *)
(* may have.  Next to the line-based editing stands what YAML makes of     *)
(* such lines.                                                             *)
(***************************************************************************)
EXTENDS Naturals, Sequences, SequencesExt

CONSTANTS
  MaxLinesOfConfig,   \* bound: lines of config.yml
  Spellings, RealFile \* ways to write a path, and the file each leads to

ASSUME EntriesAssumption == MaxLinesOfConfig \in Nat /\ DOMAIN RealFile = Spellings

VARIABLES configLines, registered, chosen, edited
seVars == <<configLines, registered, chosen, edited>>

(* "key" `servers:`, "empty" `servers: []`, "flow" `servers: [...]`,       *)
(* "quoted" `"servers":`, "other" another key; a list item at column 2 or  *)
(* 0 or a line deeper than either; "scalar" such a line that starts a      *)
(* block of text, "hash" a deep line with a `#`; "blank".                  *)
Lines == {"key", "empty", "flow", "quoted", "other", "item2", "item0", "field", "scalar", "hash", "blank"}
NewEntry == {"new2", "new0"}
ItemsAt0 == {"item0", "new0"}
Items == {"item2", "new2"} \cup ItemsAt0
Engines == {"sqlite", "sqlite3", "duckdb", "mysql"}
NoPath == "none"
Registered == [engine : Engines, schema : Spellings \cup {NoPath}, host : Spellings \cup {NoPath}]

SeTypeOK ==
  /\ configLines \in Seq(Lines) /\ registered \in Seq(Registered)
  /\ chosen \in [engine : {"sqlite", "duckdb"}, path : Spellings]
  /\ edited \in BOOLEAN

----------------------------------------------------------------------------
(* What YAML makes of the lines: the value of each key, a list of items    *)
(* with the lines that belong to them.                                     *)

Unset == [is |-> "unset", items |-> <<>>]
EmptyDoc == [ok |-> TRUE, at |-> "top", text |-> FALSE,
             keys |-> [k \in {"top", "servers", "other"} |-> Unset]]
NotYaml == [EmptyDoc EXCEPT !.ok = FALSE]
KeyOf(line) == IF line = "other" THEN "other" ELSE "servers"
IsKey(line) == line \in {"key", "empty", "flow", "quoted", "other"}
ValueOfKey(line) ==
  CASE line = "empty" -> [is |-> "flow", items |-> <<>>]
    [] line = "flow" -> [is |-> "flow", items |-> <<<<"x">>>>]
    [] OTHER -> [is |-> "null", items |-> <<>>]
Deeper(items, line) == [items EXCEPT ![Len(items)] = Append(@, line)]
ReadLine(doc, line) ==
  LET value == doc.keys[doc.at]
      Becomes(v) == [doc EXCEPT !.keys[doc.at] = v, !.text = line = "scalar"] IN
  CASE ~doc.ok -> NotYaml
    [] line = "blank" \/ (line = "hash" /\ ~doc.text) -> doc
    [] line = "hash" -> [doc EXCEPT !.keys[doc.at].items = Deeper(@, line)]
    [] IsKey(line) -> IF doc.keys[KeyOf(line)] # Unset THEN NotYaml
                      ELSE [doc EXCEPT !.at = KeyOf(line), !.text = FALSE, !.keys[KeyOf(line)] = ValueOfKey(line)]
    [] doc.at = "top" -> NotYaml
    [] line \in Items -> LET is == IF line \in ItemsAt0 THEN "list0" ELSE "list2" IN
                         IF value.is \in {"null", is}
                           THEN Becomes([is |-> is, items |-> Append(value.items, <<line>>)]) ELSE NotYaml
    [] value.is \in {"list0", "list2"} -> Becomes([value EXCEPT !.items = Deeper(@, line)])
    [] value.is \in {"null", "map"} /\ line = "field" -> Becomes([value EXCEPT !.is = "map"])
    [] OTHER -> NotYaml
Parse(text) == FoldLeft(ReadLine, EmptyDoc, text)

----------------------------------------------------------------------------
(* append_server_entry *)

Dash(line) == line \in Items
Indented(line) == line \in {"item2", "field", "scalar", "hash"}
Extends(line) == line \notin {"blank", "hash"} /\ (Indented(line) \/ Dash(line))
Passed(line) == line \in {"blank", "hash"}
AlwaysAt2(ls) == "new2"  \* fault: the indentation of the first item is not looked at
EntryFor(ls) ==
  IF \E i \in DOMAIN ls : ls[i] = "item0" /\ \A j \in 1 .. i - 1 : ~Dash(ls[j]) THEN "new0" ELSE "new2"

ServersLine(text) == LET at == {i \in DOMAIN text : text[i] \in {"key", "empty", "flow"}} IN
  IF at = {} THEN 0 ELSE CHOOSE i \in at : \A j \in at : i <= j
(* The list goes on to the last line that extends it before the next key.  *)
ListEnd(text, from) ==
  LET reach == {i \in from + 1 .. Len(text) : \A j \in from + 1 .. i : Extends(text[j]) \/ Passed(text[j])} IN
  CHOOSE i \in {from} \cup reach :
    /\ i = from \/ Extends(text[i])
    /\ \A j \in reach : j > i => ~Extends(text[j])
Rewritten(text) ==
  LET at == ServersLine(text)
      end == ListEnd(text, at) IN
  CASE at = 0 -> text \o <<"key", "new2">>
    [] at # 0 /\ text[at] = "empty" -> SubSeq(text, 1, at - 1) \o <<"key", "new2">> \o SubSeq(text, at + 1, Len(text))
    [] OTHER -> InsertAt(text, end + 1, EntryFor(SubSeq(text, at + 1, end)))

(* Exactly one entry at the end of servers, and nothing else changed.      *)
OneMore(text, out) ==
  LET before == Parse(text) after == Parse(out) IN
  /\ before.ok /\ after.ok
  /\ before.keys["servers"].is # "map"
  /\ after.keys["other"] = before.keys["other"]
  /\ Len(after.keys["servers"].items) = Len(before.keys["servers"].items) + 1
  /\ Front(after.keys["servers"].items) = before.keys["servers"].items
  /\ Last(after.keys["servers"].items) \in {<<n>> : n \in NewEntry}

Refusal == <<"refused">>
AppendServerEntry(text) ==
  IF ServersLine(text) # 0 /\ text[ServersLine(text)] = "flow" THEN Refusal
  ELSE IF OneMore(text, Rewritten(text)) THEN Rewritten(text) ELSE Refusal

----------------------------------------------------------------------------
(* The connection that opens the file already: the same engine, and the    *)
(* same file however it is written.                                        *)

SameEngine(e, engine) == e = engine \/ (engine = "sqlite" /\ e = "sqlite3")
SameSpelling(s, file) == (IF s.schema # NoPath THEN s.schema ELSE s.host) = file.path  \* fault: links are not followed
Opens(s, file) ==
  LET path == IF s.schema # NoPath THEN s.schema ELSE s.host IN
  path # NoPath /\ RealFile[path] = RealFile[file.path]
Known(servers, file) == \E i \in DOMAIN servers : SameEngine(servers[i].engine, file.engine) /\ Opens(servers[i], file)
WithFileAdded(servers, file) ==
  IF Known(servers, file) THEN servers
  ELSE Append(servers, [engine |-> file.engine, schema |-> file.path, host |-> NoPath])

SeInit ==
  /\ configLines = <<>> /\ registered = <<>>
  /\ chosen = [engine |-> "sqlite", path |-> CHOOSE p \in Spellings : TRUE]
  /\ edited = FALSE
EditText ==
  /\ ~edited /\ edited' = TRUE
  /\ configLines' \in BoundedSeq(Lines, MaxLinesOfConfig)
  /\ UNCHANGED <<registered, chosen>>
ChooseFile ==
  /\ ~edited /\ edited' = TRUE
  /\ registered' \in BoundedSeq(Registered, 1)
  /\ chosen' \in [engine : {"sqlite", "duckdb"}, path : Spellings]
  /\ UNCHANGED configLines
SeNext == EditText \/ ChooseFile
SeSpec == SeInit /\ [][SeNext]_seVars

----------------------------------------------------------------------------
(* Properties *)

(* A block of text among the items in which a line looks like a comment:   *)
(* the one thing a line-based reading takes for what it is not.            *)
LooksLikeComment(text) ==
  \E i, j \in DOMAIN text : i < j /\ text[i] = "scalar" /\ text[j] = "hash"

(* "The three shapes handled": no servers key, `servers: []` and a block   *)
(* list, at either indentation, with comments, blank lines and other keys  *)
(* anywhere.  None of them is turned away, so the line-based reading finds *)
(* the end of the list that YAML finds.                                    *)
HandledShapesAreServed ==
  LET doc == Parse(configLines) IN
  /\ doc.ok /\ doc.keys["servers"].is # "map"
  /\ ToSet(configLines) \cap {"flow", "quoted"} = {} /\ ~LooksLikeComment(configLines)
  => AppendServerEntry(configLines) # Refusal

(* Choosing a file again, however its path is written, adds nothing.       *)
FileIsAddedOnce ==
  LET once == WithFileAdded(registered, chosen) IN
  \A p \in Spellings : RealFile[p] = RealFile[chosen.path] =>
    WithFileAdded(once, [chosen EXCEPT !.path = p]) = once
=============================================================================
