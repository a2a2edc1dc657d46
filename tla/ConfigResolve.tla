---------------------------- MODULE ConfigResolve ----------------------------
(***************************************************************************)
(* From the texts of the configuration to the list of connections          *)
(* (config.rs): the local file with the answer of config_override_command  *)
(* merged over it, and the entries of `servers` with their templates,      *)
(* groups and colours.                                                     *)
(***************************************************************************)
EXTENDS Naturals, Sequences, SequencesExt

VARIABLES localDoc, override, entries, templateColor
crVars == <<localDoc, override, entries, templateColor>>

----------------------------------------------------------------------------
(* YAML: a scalar or a list is its value; a mapping has a value for each   *)
(* of its keys.                                                            *)

Keys == {"ai", "limit"}
NoKeys == <<>>
Atom(v) == [is |-> v, of |-> NoKeys]
Map(f) == [is |-> "map", of |-> f]
Functions(values) == UNION {[keys -> values] : keys \in SUBSET Keys}
Atoms == {Atom("x"), Atom("list")}
Docs == {Map(f) : f \in Functions(Atoms \cup {Map(g) : g \in Functions(Atoms)})}

OverReplaces(local, over) == over  \* fault: a section is replaced, not mixed
RECURSIVE MergeMapping(_, _)
MergeMapping(local, over) ==
  Map([k \in DOMAIN local.of \cup DOMAIN over.of |->
    IF k \notin DOMAIN over.of THEN local.of[k]
    ELSE IF k \in DOMAIN local.of /\ local.of[k].is = "map" /\ over.of[k].is = "map"
           THEN MergeMapping(local.of[k], over.of[k])
    ELSE over.of[k]])

(* config_override_command: what stands under the key, and what came of    *)
(* running it (run_setting_command, run_source_command, parse_mapping).    *)
OverrideKeys == {"absent", "notText", "blank", "command"}
CommandOutcomes == {"unbalanced", "noProgram", "timeout", "exitCode", "noOutput", "notYaml", "notMapping", "oldKeys", "answers"}
Overrides == [key : OverrideKeys, outcome : CommandOutcomes, doc : Docs]
Failed == Atom("failed")
LocalOnly == localDoc  \* fault: the local file has to do
OnFailure == Failed
LoadMerged ==
  CASE override.key = "absent" -> localDoc
    [] override.key \in {"notText", "blank"} -> Failed
    [] override.outcome # "answers" -> OnFailure
    [] OTHER -> MergeMapping(localDoc, override.doc)

----------------------------------------------------------------------------
(* The entries of servers: a server, or a group of them.  "null": the key  *)
(* is written and empties what the template says; "wrong": no colour.      *)

ServerEntry == [template : {"none", "t", "unknown"}, color : {"absent", "null", "red", "wrong"}, old : BOOLEAN]
Faulty(e) == e.template = "unknown" \/ e.old
Flaws == {"none", "noName", "unknownKey", "noList", "nested"}

ValidatedColor(color) == IF color \in {"wrong", "null", "absent"} THEN "none" ELSE color
TemplateWins(e) == IF templateColor # "absent" THEN templateColor ELSE e.color  \* fault: the merge the other way round
Merged(e) == IF e.color = "absent" THEN templateColor ELSE e.color
ExpandTemplate(e) == IF e.template = "t" THEN Merged(e) ELSE e.color
GroupIfUncolored(own, group) ==  \* fault: a wrong colour is painted over
  IF ValidatedColor(own) = "none" THEN ValidatedColor(group) ELSE own
ColorInGroup(own, group) ==
  IF own \in {"absent", "null"} THEN ValidatedColor(group) ELSE ValidatedColor(own)
Rejected == [ok |-> FALSE, servers |-> <<>>]
ServersListed(servers) == [ok |-> TRUE, servers |-> servers]
ParseServer(e) ==
  IF Faulty(e) THEN Rejected ELSE ServersListed(<<[group |-> "none", color |-> ValidatedColor(ExpandTemplate(e))]>>)
ParseGroup(g) ==
  IF g.flaw # "none" \/ \E i \in DOMAIN g.servers : Faulty(g.servers[i]) THEN Rejected
  ELSE ServersListed([i \in DOMAIN g.servers |->
         [group |-> g.group, color |-> ColorInGroup(ExpandTemplate(g.servers[i]), g.color)]])
ParseServerEntries(list) ==
  LET Add(sofar, g) ==
        LET part == IF g.group = "none" THEN ParseServer(g.servers[1]) ELSE ParseGroup(g) IN
        IF sofar.ok /\ part.ok THEN ServersListed(sofar.servers \o part.servers) ELSE Rejected
  IN FoldLeft(Add, ServersListed(<<>>), list)

----------------------------------------------------------------------------
Alone(e) == [group |-> "none", color |-> "absent", flaw |-> "none", servers |-> <<e>>]
Groups(servers, flaws) ==
  [group : {"g"}, color : {"absent", "blue", "wrong"}, flaw : flaws, servers : servers]
Sound == {e \in ServerEntry : ~Faulty(e)}
Lists ==
  {<<Alone(e)>> : e \in ServerEntry}
    \cup {<<g>> : g \in Groups({<<>>} \cup {<<e>> : e \in ServerEntry}, Flaws)}
    \cup {<<g, Alone(e)>> : g \in Groups(BoundedSeq(Sound, 2), {"none"}), e \in Sound}

NoOverride == [key |-> "absent", outcome |-> "answers", doc |-> Map(NoKeys)]
CrInit ==
  /\ localDoc = Map(NoKeys) /\ entries = <<>> /\ templateColor = "absent"
  /\ override = NoOverride
Untouched == localDoc = Map(NoKeys) /\ override = NoOverride /\ entries = <<>> /\ templateColor = "absent"
ReadDocs ==
  /\ localDoc' \in Docs
  /\ override' \in [key : {"command"}, outcome : {"answers"}, doc : Docs]
                 \cup [key : OverrideKeys, outcome : CommandOutcomes, doc : {Map(NoKeys)}]
  /\ UNCHANGED <<entries, templateColor>>
ReadEntries ==
  /\ entries' \in Lists /\ templateColor' \in {"absent", "blue", "wrong"}
  /\ UNCHANGED <<localDoc, override>>
CrNext == Untouched /\ (ReadDocs \/ ReadEntries)
CrSpec == CrInit /\ [][CrNext]_crVars

CrTypeOK ==
  /\ localDoc \in Docs /\ override \in Overrides /\ templateColor \in {"absent", "blue", "wrong"}
  /\ \A i \in DOMAIN entries : entries[i].servers \in Seq(ServerEntry)

----------------------------------------------------------------------------
(* Properties *)

KeyPaths == {<<k>> : k \in Keys} \cup {<<k, m>> : k \in Keys, m \in Keys}
NoValue == Atom("nothing")
Under(v, key) == IF key \in DOMAIN v.of THEN v.of[key] ELSE NoValue
At(doc, path) == FoldLeft(Under, doc, path)
IsValue(v) == v.is \notin {"map", "nothing"}
(* The value under this path is not the override's to decide.              *)
LeftAlone(over, path) ==
  /\ At(over, path) = NoValue
  /\ ~\E n \in 1 .. Len(path) - 1 : IsValue(At(over, SubSeq(path, 1, n)))

(* What the command answers takes precedence value by value, and nothing   *)
(* else of the local file is lost or invented; if there is a command and   *)
(* it does not answer, there is no configuration at all rather than the    *)
(* local one, which lacks what the other would have said.                  *)
OverrideWins ==
  LET over == override.doc merged == LoadMerged IN
  IF override.key = "absent" THEN merged = localDoc
  ELSE IF override.key # "command" \/ override.outcome # "answers" THEN merged = Failed
  ELSE \A path \in KeyPaths :
    /\ IsValue(At(over, path)) => At(merged, path) = At(over, path)
    /\ LeftAlone(over, path) /\ IsValue(At(localDoc, path)) => At(merged, path) = At(localDoc, path)
    /\ IsValue(At(merged, path)) => At(merged, path) \in {At(over, path), At(localDoc, path)}

(* The connections are those written, in their order and groups, or there  *)
(* is an error.  A colour decides nothing but itself: a wrong one is no    *)
(* colour, never the group's, and takes no connection away.                *)
Uncolored(list) ==
  [i \in DOMAIN list |->
    [list[i] EXCEPT !.color = "absent",
                    !.servers = [j \in DOMAIN list[i].servers |-> [list[i].servers[j] EXCEPT !.color = "null"]]]]
EveryServerIsListed ==
  LET list == ParseServerEntries(entries) bare == ParseServerEntries(Uncolored(entries))
      written == FlattenSeq([i \in DOMAIN entries |->
                   [j \in DOMAIN entries[i].servers |-> [server |-> entries[i].servers[j], group |-> entries[i]]]])
      Raw(e) == IF e.color # "absent" \/ e.template = "none" THEN e.color ELSE templateColor
  IN /\ list.ok = bare.ok
     /\ list.ok => /\ Len(list.servers) = Len(written)
                   /\ \A n \in DOMAIN written :
                        LET own == Raw(written[n].server) IN
                        /\ list.servers[n].group = written[n].group.group
                        /\ list.servers[n].color # "none" =>
                             \/ list.servers[n].color = own
                             \/ list.servers[n].color = written[n].group.color /\ own \in {"absent", "null"}
                        /\ own = "red" => list.servers[n].color = "red"
=============================================================================
