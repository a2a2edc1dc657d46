------------------------------ MODULE MCRules ------------------------------
(* Instances of the rules and formats for TLC: pure decisions over every   *)
(* input of a small size.  In a behaviour one of them is asked.            *)
EXTENDS SqlGuards, DumpCommand, GlobMatch, FileNames, OpenTarget, HistoryStats, ServerEntries,
        ConfigResolve, ConnectionSettings, CellValues,
        RedisRules, ElasticRules, TsqlRules, TLC

CONSTANTS c1, c2

EngineOfConnection == (c1 :> "mysql") @@ (c2 :> Unknown)
FileOfSpelling == ("p" :> "f") @@ ("q" :> "f") @@ ("r" :> "g")

VARIABLE focus
Rules == {"guards", "dumpCommand", "glob", "names", "target", "stats", "entries", "resolve", "settings", "cells",
          "redis", "elastic", "tsql"}

RulesInit ==
  /\ SgInit /\ DcInit /\ GlInit /\ FnInit /\ HsInit /\ SeInit
  /\ CrInit /\ CsInit /\ CvInit
  /\ RdInit /\ ErInit /\ TqInit
  /\ (IF focus # "target" THEN folderOf = [s \in Servers |-> "f"] ELSE TRUE)
  /\ OtInit

OtherRulesStay ==
  /\ UNCHANGED focus
  /\ IF focus # "guards" THEN UNCHANGED sgVars ELSE TRUE
  /\ IF focus # "dumpCommand" THEN UNCHANGED dcVars ELSE TRUE
  /\ IF focus # "glob" THEN UNCHANGED glVars ELSE TRUE
  /\ IF focus # "names" THEN UNCHANGED fnVars ELSE TRUE
  /\ IF focus # "target" THEN UNCHANGED otVars ELSE TRUE
  /\ IF focus # "stats" THEN UNCHANGED hsVars ELSE TRUE
  /\ IF focus # "entries" THEN UNCHANGED seVars ELSE TRUE
  /\ IF focus # "resolve" THEN UNCHANGED crVars ELSE TRUE
  /\ IF focus # "settings" THEN UNCHANGED csVars ELSE TRUE
  /\ IF focus # "cells" THEN UNCHANGED cvVars ELSE TRUE
  /\ IF focus # "redis" THEN UNCHANGED rdVars ELSE TRUE
  /\ IF focus # "elastic" THEN UNCHANGED erVars ELSE TRUE
  /\ IF focus # "tsql" THEN UNCHANGED tqVars ELSE TRUE

RulesNext ==
  \/ focus = "guards" /\ SgNext /\ OtherRulesStay
  \/ focus = "dumpCommand" /\ DcNext /\ OtherRulesStay
  \/ focus = "glob" /\ GlNext /\ OtherRulesStay
  \/ focus = "names" /\ FnNext /\ OtherRulesStay
  \/ focus = "target" /\ AskToOpen /\ OtherRulesStay
  \/ focus = "stats" /\ CountHistory /\ OtherRulesStay
  \/ focus = "entries" /\ SeNext /\ OtherRulesStay
  \/ focus = "resolve" /\ CrNext /\ OtherRulesStay
  \/ focus = "settings" /\ CsNext /\ OtherRulesStay
  \/ focus = "cells" /\ CvNext /\ OtherRulesStay
  \/ focus = "redis" /\ RdNext /\ OtherRulesStay
  \/ focus = "elastic" /\ ErNext /\ OtherRulesStay
  \/ focus = "tsql" /\ TqNext /\ OtherRulesStay
rulesVars == <<sgVars, dcVars, glVars, fnVars, otVars, hsVars, seVars, crVars, csVars, cvVars, rdVars, erVars, tqVars>>

----------------------------------------------------------------------------
(* The properties of the rules (stated in the modules), by what they are   *)
(* for: each in the behaviours in which its rule is asked.                 *)

RulesTypeOK ==
  /\ focus = "guards" => SgTypeOK
  /\ focus = "dumpCommand" => DcTypeOK
  /\ focus = "glob" => GlTypeOK
  /\ focus = "names" => FnTypeOK
  /\ focus = "target" => OtTypeOK
  /\ focus = "stats" => HsTypeOK
  /\ focus = "entries" => SeTypeOK
  /\ focus = "resolve" => CrTypeOK
  /\ focus = "settings" => CsTypeOK
  /\ focus = "cells" => CvTypeOK
  /\ focus = "redis" => RdTypeOK
  /\ focus = "elastic" => ErTypeOK
  /\ focus = "tsql" => TqTypeOK

(* What runs on a connection is what its guards allow.                     *)
GuardsHold ==
  /\ focus = "guards" =>
       /\ ReadOnlyRunsModifyNothing /\ AgentRunsModifyNothing /\ NothingDestroyedByAccident
       /\ LimitOnlyOnReads /\ DisplayIsBounded /\ ExplainModifiesNothing
  /\ focus = "redis" => BlockingIsRefused
  /\ focus = "elastic" => RequestsDoAsJudged
  /\ focus = "tsql" => SecondStatementIsSeen /\ StateOutlivesStatement /\ TopBoundsTheResult

(* A file, a host, a folder or a request that is named is the one that is  *)
(* used.                                                                   *)
NamesMeanOneThing ==
  /\ focus = "names" =>
       NormalFormIsStable /\ OpenedIsValidated /\ OutputIsNoQuery /\ OrderIsTotal /\ NumbersInOrder
  /\ focus = "target" => OnlyStoredFilesOpen /\ ConnectionIsCertain /\ NamedFileOpens
  /\ focus = "glob" => GlobIsExact
  /\ focus = "entries" => HandledShapesAreServed /\ FileIsAddedOnce
  /\ focus = "resolve" => OverrideWins /\ EveryServerIsListed
  /\ focus = "settings" => CredentialsHaveTheirFolders /\ AccessKeysAreNotShown
  /\ focus = "redis" => ArgumentsArrive /\ LineIsItsWords
  /\ focus = "elastic" => JudgedIsSent /\ LinesBelongAbove /\ BodyIsSentAsMeant

(* What is handed to another program, or shown to the user, says what is   *)
(* so.                                                                     *)
OutputIsTrue ==
  /\ focus = "dumpCommand" => ProtectedAsConfigured /\ HoldsWhatWasAsked /\ GoesThroughTunnel
  /\ focus = "stats" => TotalsAgree /\ OutcomesAddUp /\ WeeksAreWhole
  /\ focus = "settings" =>
       ShownIsWhatConnects /\ InvalidIsMarked /\ InvalidNeverConnects /\ RootCertMeansVerified
  /\ focus = "cells" => CutIsTold /\ CellIsBounded /\ NothingRounded /\ StoredIsShown /\ ArrayIsAsSent
  /\ focus = "elastic" => EveryValueHasItsPlace
  /\ focus = "redis" => DatabasesAreListed
=============================================================================
