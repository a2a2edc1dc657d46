---------------------------- MODULE HistoryStats ----------------------------
(***************************************************************************)
(* The weekly numbers of `queryfolio --stats` (history_stats.rs), computed *)
(* from a sequence of history entries.  Days are numbers, day 0 a Monday;  *)
(* a day that is no number stands for a time that does not parse.          *)
(***************************************************************************)
EXTENDS Integers, Sequences, FiniteSets, SequencesExt, Functions

CONSTANTS
  LoggedConnections, KnownEngines, EngineOf, \* engines named by the configuration
  Unknown,
  MaxDay, MaxEntriesRead, MaxWeeks  \* bounds

ASSUME StatsAssumption ==
  /\ {MaxDay, MaxEntriesRead, MaxWeeks} \subseteq Nat /\ MaxWeeks > 0
  /\ EngineOf \in [LoggedConnections -> KnownEngines \cup {Unknown}]

VARIABLES history, today, weeks, counted
hsVars == <<history, today, weeks, counted>>

Days == 0 .. MaxDay
NoDay == MaxDay + 1
Outcomes == {"ok", "failed", "readonly", "dangerous", "newKind"}
HistoryRow == [connection : LoggedConnections, day : Days \cup {NoDay}, outcome : Outcomes]

----------------------------------------------------------------------------
WeekStart(day) == day - (day % 7)
WeekIndices == 0 .. weeks - 1

InRange(e) == e.day # NoDay /\ e.day <= today /\ WeekStart(e.day) + 7 * weeks >= WeekStart(today) + 7
WeekOf(e) == weeks - 1 - (WeekStart(today) - WeekStart(e.day)) \div 7

(* What is counted has a week to be counted in: it is an array index.      *)
HsTypeOK ==
  /\ history \in Seq(HistoryRow) /\ today \in Days /\ weeks \in 1 .. MaxWeeks /\ counted \in BOOLEAN
  /\ \A e \in ToSet(history) : InRange(e) => WeekOf(e) \in WeekIndices

(* Accumulator: add and finish *)
StopsAreFailures(o) == o # "ok"  \* fault: what a guard stopped counts as a failure too
CountsAsFailed(o) == o \in {"failed", "newKind"}  \* an unknown kind is still a failure
CountWhere(es, P(_)) == Len(SelectSeq(es, P))
Period(es) ==
  [runs |-> Len(es),
   failed |-> CountWhere(es, LAMBDA e : CountsAsFailed(e.outcome)),
   blockedReadonly |-> CountWhere(es, LAMBDA e : e.outcome = "readonly"),
   blockedDangerous |-> CountWhere(es, LAMBDA e : e.outcome = "dangerous"),
   days |-> Cardinality({e.day : e \in ToSet(es)}),
   engines |-> [g \in {EngineOf[e.connection] : e \in ToSet(es)} |->
                  Cardinality({e.connection : e \in {f \in ToSet(es) : EngineOf[f.connection] = g}})]]

WeeklyStats == [i \in WeekIndices |-> Period(SelectSeq(history, LAMBDA e : InRange(e) /\ WeekOf(e) = i))]
TotalPeriod == Period(SelectSeq(history, InRange))

----------------------------------------------------------------------------
HsInit == history = <<>> /\ today = MaxDay /\ weeks = 1 /\ counted = FALSE
CountHistory ==
  /\ ~counted /\ counted' = TRUE
  /\ history' \in BoundedSeq(HistoryRow, MaxEntriesRead)
  /\ today' \in Days /\ weeks' \in 1 .. MaxWeeks
HsSpec == HsInit /\ [][CountHistory]_hsVars

----------------------------------------------------------------------------
(* Properties *)

(* The total row is the total of the weeks: no run is lost at the edge of  *)
(* a week and none is counted in two.                                      *)
TotalsAgree ==
  LET OverWeeks(P(_)) == FoldFunctionOnSet(+, 0, [i \in WeekIndices |-> P(WeeklyStats[i])], WeekIndices) IN
  /\ TotalPeriod.runs = OverWeeks(LAMBDA w : w.runs)
  /\ TotalPeriod.failed = OverWeeks(LAMBDA w : w.failed)
  /\ TotalPeriod.days = OverWeeks(LAMBDA w : w.days)

(* "FAILED excludes the statements stopped by a guard": with the runs that *)
(* went well, the failures and the stopped runs make up all runs.          *)
OutcomesAddUp ==
  TotalPeriod.runs =
    CountWhere(history, LAMBDA e : InRange(e) /\ e.outcome = "ok")
      + TotalPeriod.failed + TotalPeriod.blockedReadonly + TotalPeriod.blockedDangerous

(* A row holds the runs of its Monday to Sunday, the oldest row included:  *)
(* it does not start on the weekday of today.                              *)
WeeksAreWhole ==
  \A i \in WeekIndices :
    LET monday == WeekStart(today) - 7 * (weeks - 1 - i) IN
    WeeklyStats[i].runs = CountWhere(history, LAMBDA e : e.day \in monday .. (monday + 6) /\ e.day <= today)
=============================================================================
