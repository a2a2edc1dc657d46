------------------------------- MODULE TsqlRules -------------------------------
(***************************************************************************)
(* What engines/mssql.rs reads in a batch of T-SQL before it runs: whether *)
(* a second statement follows without a semicolon, where a row limit goes, *)
(* and whether a statement runs as a batch or inside a procedure.  Beside  *)
(* it, what SQL Server makes of the same text.                             *)
(***************************************************************************)
EXTENDS Naturals, Sequences, SequencesExt, FiniteSets

CONSTANTS MaxWord,  \* bound: characters of a word
          TopLimit  \* auto_limit

ASSUME TsqlAssumption == MaxWord \in Nat /\ TopLimit \in Nat \ {0}

VARIABLES word, batch, select
tqVars == <<word, batch, select>>

----------------------------------------------------------------------------
(* A word outside literals and comments, in lower case.  "d" and "e" are   *)
(* hexadecimal digits, "e" begins an exponent, "g" is any other letter.    *)
(* The keywords begin as the real ones do: drop, exec, insert.             *)

DecimalDigits == {"0", "1"}
HexDigits == DecimalDigits \cup {"d", "e"}
TsqlChars == DecimalDigits \cup {"d", "e", "g", "x", "$"}
Keywords == {<<"d", "g">>, <<"e", "g">>, <<"g", "g">>}
IsKeyword(w) == w \in Keywords
Without(w, chars) ==  \* trim_start_matches
  LET run == SelectInSeq(w, LAMBDA c : c \notin chars) IN
  IF run = 0 THEN <<>> ELSE SubSeq(w, run, Len(w))
Begins(w, prefix) == Len(w) >= Len(prefix) /\ SubSeq(w, 1, Len(prefix)) = prefix
AfterChars(w, n) == SubSeq(w, n + 1, Len(w))

NoExponent(rest) == FALSE  \* fault: only the exponent with digits is thought of
EmptyExponent(rest) == Begins(rest, <<"e">>) /\ IsKeyword(Without(Tail(rest), DecimalDigits))
MoneyKept(w) == w  \* fault: $1DROP is taken for a name
WithoutMoney(w) == IF Begins(w, <<"$">>) THEN Tail(w) ELSE w
IsTrailingKeyword(w) ==
  LET v == WithoutMoney(w) rest == Without(v, DecimalDigits) IN
  CASE ~(v # <<>> /\ v[1] \in DecimalDigits) -> IsKeyword(v)
    [] Begins(v, <<"0", "x">>) -> IsKeyword(Without(AfterChars(v, 2), HexDigits))
    [] OTHER -> IsKeyword(rest) \/ EmptyExponent(rest)

(* How the server may read the word: the literal at its start, longest     *)
(* first, and the name behind it.  Whether an exponent may be empty is     *)
(* left open.                                                              *)
NumberReadings(v) ==
  LET rest == Without(v, DecimalDigits) IN
  IF Begins(v, <<"0", "x">>) THEN {Without(AfterChars(v, 2), HexDigits)}
  ELSE {rest} \cup (IF Begins(rest, <<"e">>) THEN {Without(Tail(rest), DecimalDigits)} ELSE {})
Readings(w) ==
  CASE w = <<>> -> {}
    [] w[1] = "$" -> IF Len(w) > 1 /\ w[2] \in DecimalDigits THEN {Without(Tail(w), DecimalDigits)} \cup NumberReadings(Tail(w))
                     ELSE {Tail(w)}
    [] w[1] \in DecimalDigits -> NumberReadings(w)
    [] OTHER -> {w}

----------------------------------------------------------------------------
(* A statement in words (explain: the target is stripped of it first).     *)

NoRows == {"insert", "create"}  \* of NO_ROWS_KEYWORDS, one that writes rows and one that makes things
Batches ==
  [first : NoRows \cup {"select", "set", "begin", "exec"}, temp : {"no", "#t", "[#t]"}, output : BOOLEAN]
BlankedOnly(q) == q.temp = "#t"  \* fault: brackets are blanked before the look
TempTable(q) == q.temp # "no"
IsMssqlFetch(q) == q.first \notin NoRows \/ TempTable(q) \/ q.output

(* What comes of it on the server, alone and inside a procedure, whose     *)
(* settings, transaction and temporary tables end with it.                 *)
LeavesState(q) == q.first \in {"set", "begin"} \/ (q.first = "create" /\ q.temp # "no")
MayReturnRows(q) == q.first \in {"select", "exec"} \/ (q.first = "insert" /\ q.output)

----------------------------------------------------------------------------
(* A SELECT: what stands between its verb and its columns, the clauses     *)
(* that follow, and the same for the branches of a UNION.                  *)

VetoWords == {"top", "offset", "into", "for", "union"}
Selects == [gap : BoundedSeq({"comment", "distinct", "all"}, 3), words : SUBSET VetoWords, stored : 0 .. 3]
WellFormedSelect(s) == Cardinality({i \in DOMAIN s.gap : s.gap[i] # "comment"}) <= 1
NoTop == [at |-> 0, limit |-> 0]
FirstWord(gap) == SelectInSeq(gap, LAMBDA w : w # "comment")
TopFirst(gap) == 0  \* fault: right behind SELECT, before DISTINCT
TopGoes(gap) == FirstWord(gap)
ApplyAutoTop(s) ==
  IF s.words \cap VetoWords # {} THEN NoTop ELSE [at |-> TopGoes(s.gap) + 1, limit |-> TopLimit]
(* With TOP in front of this many words of the gap, is it T-SQL?           *)
IsTsql(s, top) == top.limit = 0 \/ \A i \in top.at .. Len(s.gap) : s.gap[i] = "comment"
RowsOf(s, top) ==
  LET first == IF top.limit > 0 /\ top.limit < s.stored THEN top.limit ELSE s.stored IN
  IF "union" \in s.words THEN first + s.stored ELSE first

----------------------------------------------------------------------------
NoBatch == [first |-> "select", temp |-> "no", output |-> FALSE]
NoSelect == [gap |-> <<>>, words |-> {}, stored |-> 0]
TqInit == word = <<>> /\ batch = NoBatch /\ select = NoSelect
TqStart == word = <<>> /\ batch = NoBatch /\ select = NoSelect
ScanWord == word' \in BoundedSeq(TsqlChars, MaxWord) /\ UNCHANGED <<batch, select>>
JudgeBatch == batch' \in Batches /\ UNCHANGED <<word, select>>
LimitSelect == select' \in Selects /\ WellFormedSelect(select') /\ UNCHANGED <<word, batch>>
TqNext == TqStart /\ (ScanWord \/ JudgeBatch \/ LimitSelect)
TqSpec == TqInit /\ [][TqNext]_tqVars

TqTypeOK == word \in Seq(TsqlChars) /\ batch \in Batches /\ select \in Selects

----------------------------------------------------------------------------
(* Properties *)

(* A keyword that the server may read behind a number starts a second      *)
(* statement for the guards too, and only such a word does: names that     *)
(* contain keywords pass.                                                  *)
SecondStatementIsSeen ==
  /\ IsTrailingKeyword(word) => \E name \in Readings(word) : IsKeyword(name)
  /\ (\E name \in Readings(word) : IsKeyword(name)) => IsTrailingKeyword(word)

(* What must outlive its statement is not run inside a procedure, and no   *)
(* rows are lost for a count.                                              *)
StateOutlivesStatement == LeavesState(batch) \/ MayReturnRows(batch) => IsMssqlFetch(batch)

(* A limit keeps the statement one that SQL Server understands and bounds  *)
(* all of its rows; it is never put on one that stores what it selects.    *)
TopBoundsTheResult ==
  LET top == ApplyAutoTop(select) IN
  /\ IsTsql(select, top)
  /\ top.limit > 0 => RowsOf(select, top) <= TopLimit /\ select.words \cap {"into", "top", "for"} = {}
=============================================================================
