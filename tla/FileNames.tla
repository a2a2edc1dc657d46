----------------------------- MODULE FileNames -----------------------------
(***************************************************************************)
(* The rules for names of query files: what query_files.rs accepts and     *)
(* normalises, what the router accepts before the file is opened, what an  *)
(* output of Run and Log may be called, and the order of the FILES pane.   *)
(* A name is a sequence of characters; an extension (".sql") is one of     *)
(* them and begins with a dot.                                             *)
(***************************************************************************)
EXTENDS Naturals, Sequences, SequencesExt

CONSTANTS
  Alphabet, \* letters other than those below
  MaxName   \* bound: the length of a name

Dot == "."
Separator == "/"
Blank == " "
Hyphen == "-"
Digits == {"0", "1"}
Ext == ".sql"            \* the extension of the connection's engine
OtherExt == ".redis"     \* another engine's
MetaName == <<"_queryfolio.md">>
Extensions == {Ext, OtherExt}
Invalid == <<"invalid">>

ASSUME NameAssumption == MaxName \in Nat /\ Alphabet \subseteq STRING

VARIABLES
  names,  \* three names as they are typed
  judged  \* whether they were chosen

fnVars == <<names, judged>>

Characters ==
  Alphabet \cup Digits \cup Extensions \cup {Dot, Separator, Blank, Hyphen, MetaName[1]}
Typed == BoundedSeq(Characters, MaxName)
Stems == BoundedSeq(Digits \cup {Hyphen}, MaxName)

FnTypeOK == names \in [1 .. 3 -> Seq(Characters)] /\ judged \in BOOLEAN

----------------------------------------------------------------------------
(* validate_component and normalize_file_name *)

Trim(n) ==
  LET kept == {i \in 1 .. Len(n) : n[i] # Blank} IN
  IF kept = {} THEN <<>>
  ELSE SubSeq(n, CHOOSE i \in kept : \A j \in kept : i <= j,
                 CHOOSE i \in kept : \A j \in kept : i >= j)

BeginsWithDot(n) == n # <<>> /\ n[1] \in {Dot} \cup Extensions
EndsWith(n, exts) == n # <<>> /\ n[Len(n)] \in exts

Component(n) ==
  LET t == Trim(n) IN
  IF t = <<>> \/ BeginsWithDot(t) \/ Separator \in ToSet(t) THEN Invalid ELSE t

AlwaysAppend(n) ==  \* fault: the extension is added to a name that has it
  IF Component(n) = Invalid THEN Invalid ELSE Append(Component(n), Ext)
NormalizeFileName(n) ==
  LET c == Component(n) IN
  IF c = Invalid \/ EndsWith(c, {Ext}) THEN c ELSE Append(c, Ext)

----------------------------------------------------------------------------
(* router.rs: validate_sql_file_name, then resolve_route_target's check of *)
(* the engine's extension                                                  *)

RouterTrims(n) == ~BeginsWithDot(n) /\ Separator \notin ToSet(n) /\ EndsWith(Trim(n), {Ext})  \* fault: blanks pass
RouterAccepts(n) ==
  /\ n # <<>> /\ n = Trim(n)
  /\ ~BeginsWithDot(n) /\ Separator \notin ToSet(n)
  /\ EndsWith(n, Extensions)
  /\ EndsWith(n, {Ext})

(* run_log_output_name                                                     *)
OwnExtensionOnly(n) ==  \* fault: only the connection's own extension is refused
  IF EndsWith(Component(n), {Ext}) \/ Component(n) = MetaName THEN Invalid ELSE Component(n)
RunLogName(n) ==
  LET c == Component(n) IN IF EndsWith(c, Extensions) \/ c = MetaName THEN Invalid ELSE c

----------------------------------------------------------------------------
(* natural_cmp: -1, 0 or 1 shifted to 0, 1, 2                              *)

Code(c) == CASE c = Hyphen -> 1 [] c = Dot -> 2 [] c = "0" -> 3 [] c = "1" -> 4 [] OTHER -> 5
Compare(x, y) == IF x < y THEN 0 ELSE IF x = y THEN 1 ELSE 2
Then(ord, next) == IF ord = 1 THEN next ELSE ord

(* take_digits and what is left                                            *)
RunLength(n) == CHOOSE k \in 0 .. Len(n) :
  (\A i \in 1 .. k : n[i] \in Digits) /\ (k = Len(n) \/ n[k + 1] \notin Digits)
Significant(d) == LET one == {i \in 1 .. Len(d) : d[i] # "0"} IN
  IF one = {} THEN <<>> ELSE SubSeq(d, CHOOSE i \in one : \A j \in one : i <= j, Len(d))

Lexical(x, y) ==
  LET apart == {i \in 1 .. Len(x) : i > Len(y) \/ x[i] # y[i]} IN
  IF apart = {} THEN Compare(Len(x), Len(y))
  ELSE LET i == CHOOSE i \in apart : \A j \in apart : i <= j IN
       IF i > Len(y) THEN 2 ELSE Compare(Code(x[i]), Code(y[i]))

ZerosTie(d, e) ==  \* fault: numbers of the same value are equal
  LET s == Significant(d) t == Significant(e) IN Then(Compare(Len(s), Len(t)), Lexical(s, t))
DigitByDigit(d, e) == Then(Lexical(d, e), Compare(Len(d), Len(e)))  \* fault: runs of digits are text
CompareNumbers(d, e) ==
  LET s == Significant(d) t == Significant(e) IN
  Then(Compare(Len(s), Len(t)), Then(Lexical(s, t), Compare(Len(d), Len(e))))

RECURSIVE NaturalCmp(_, _)
NaturalCmp(a, b) ==
  CASE a = <<>> \/ b = <<>> -> Compare(Len(a), Len(b))
    [] a # <<>> /\ b # <<>> /\ a[1] \in Digits /\ b[1] \in Digits ->
         LET i == RunLength(a) j == RunLength(b) IN
         Then(CompareNumbers(SubSeq(a, 1, i), SubSeq(b, 1, j)),
              NaturalCmp(SubSeq(a, i + 1, Len(a)), SubSeq(b, j + 1, Len(b))))
    [] OTHER -> Then(Compare(Code(a[1]), Code(b[1])), NaturalCmp(Tail(a), Tail(b)))

(* list_query_file_names: newest first, whole names decide a tie           *)
ListedBefore(a, b) == Then(NaturalCmp(b, a), Lexical(b, a)) = 0

----------------------------------------------------------------------------
FnInit == names = [i \in 1 .. 3 |-> <<>>] /\ judged = FALSE
Judging == ~judged /\ judged' = TRUE
JudgeNames == Judging /\ \E n \in Typed : names' = [names EXCEPT ![1] = n]
JudgeOrder == Judging /\ \E a, b, c \in Stems : names' = <<a, b, c>>
FnNext == JudgeNames \/ JudgeOrder
FnSpec == FnInit /\ [][FnNext]_fnVars

----------------------------------------------------------------------------
(* Properties *)

(* A name that is accepted stays in its folder, shows up in the list, and  *)
(* is its own normal form: rename and create normalise it twice.           *)
NormalFormIsStable ==
  \A i \in 1 .. 3 : LET n == NormalizeFileName(names[i]) IN
    n # Invalid =>
      /\ Separator \notin ToSet(n) /\ ~BeginsWithDot(n) /\ EndsWith(n, {Ext})
      /\ NormalizeFileName(n) = n

(* The path that was checked for symbolic links is the path that is opened *)
(* ("guarantees the validated target and the opened target are the same"). *)
OpenedIsValidated == \A i \in 1 .. 3 : RouterAccepts(names[i]) => NormalizeFileName(names[i]) = names[i]

(* An output of Run and Log never shows up as a query of any engine, nor   *)
(* replaces the folder's description.                                      *)
OutputIsNoQuery ==
  \A i \in 1 .. 3 : LET n == RunLogName(names[i]) IN
    n # Invalid => ~EndsWith(n, Extensions) /\ n # MetaName /\ Separator \notin ToSet(n)

(* The list has one order: sort_unstable_by may panic on anything else.    *)
OrderIsTotal ==
  LET a == names[1] b == names[2] c == names[3] IN
  /\ NaturalCmp(a, b) + NaturalCmp(b, a) = 2
  /\ NaturalCmp(a, b) = 1 <=> a = b
  /\ NaturalCmp(a, b) = 0 /\ NaturalCmp(b, c) = 0 => NaturalCmp(a, c) = 0

RECURSIVE ValueOf(_)
ValueOf(d) == IF d = <<>> THEN 0
              ELSE 2 * ValueOf(Front(d)) + (IF Last(d) = "1" THEN 1 ELSE 0)
(* Numbers in names count as numbers: the newest of several files of the   *)
(* same minute is on top ("-10" above "-9", both above no number at all).  *)
NumbersInOrder ==
  LET a == names[1] b == names[2] c == names[3] IN
  ToSet(b) \cup ToSet(c) \subseteq Digits /\ b # <<>> /\ c # <<>>
    /\ (a = <<>> \/ a[Len(a)] \notin Digits) =>
    /\ ValueOf(b) < ValueOf(c) => ListedBefore(a \o c, a \o b)
    /\ ListedBefore(a \o <<Hyphen>> \o b, a)
=============================================================================
