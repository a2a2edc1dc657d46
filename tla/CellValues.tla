----------------------------- MODULE CellValues -----------------------------
(***************************************************************************)
(* What a stored value becomes on its way to a cell of the result table:   *)
(* which values are cut, at which limits, and which numbers travel as      *)
(* numbers.  The engines share two ways to bound a collection: one budget  *)
(* of elements for the whole cell (DuckDB, DynamoDB), or a limit for each  *)
(* collection with a note behind it (Redis in a script, Elasticsearch).    *)
(* Keys of maps are left out: a map is the values it holds.                *)
(***************************************************************************)
EXTENDS Integers, Sequences, SequencesExt, FiniteSets

CONSTANTS MaxElements,  \* MAX_COLLECTION_ELEMENTS, MAX_CELL_ELEMENTS, MAX_CELL_ITEMS, max_rows
          MaxNesting    \* MAX_NESTING_DEPTH

ASSUME CellAssumption == MaxElements \in Nat /\ MaxNesting \in Nat \ {0}

VARIABLES cell, cellEngine, wire, declared
cvVars == <<cell, cellEngine, wire, declared>>

(* "big": an integer of 64 bits beyond 2^53 - 1; "huge": one beyond 64     *)
(* bits; "exact": a decimal; "bytes": not UTF-8; "long..." more than the   *)
(* text limit.                                                             *)
Leaves == {"null", "safe", "big", "huge", "exact", "float", "nan", "text", "longText", "bytes", "longBytes"}
Leaf(k) == [is |-> k, of |-> <<>>]
Note == Leaf("note")
TooDeep == Leaf("tooDeep")
Collections == {"list", "map"}
Elements == {Leaf("safe"), Leaf("longText")}
Flat == [is : Collections, of : BoundedSeq(Elements, 3)]
Wrapped == [is : Collections \cup {"union"}, of : {<<v>> : v \in Flat}]
Nested == [is : Collections, of : BoundedSeq(Flat \cup Elements, 2)]
Deep == [is : {"list", "union"}, of : {<<v>> : v \in Wrapped} \cup {<<v, Leaf("safe")>> : v \in Wrapped}]
Stored == {Leaf(k) : k \in Leaves} \cup Flat \cup Wrapped \cup Nested \cup Deep
BudgetEngines == {"duckdb", "dynamodb"}
ListEngines == {"redis", "elasticsearch"}
FlatEngines == {"mysql", "postgres", "mssql"}  \* their JSON columns are left out
CellEngines == BudgetEngines \cup ListEngines \cup FlatEngines
Storable(e, v) ==
  /\ v.is \notin Leaves => e \notin FlatEngines
  /\ v.is = "union" => e = "duckdb"
  /\ \A i \in DOMAIN v.of : v.of[i].is = "union" => e = "duckdb"

(* json_i64, json_u64, json_number_f64: a number only if JavaScript holds  *)
(* it.                                                                     *)
NumbersAsTheyAre(k) == IF k = "nan" THEN "string" ELSE "number"  \* fault: JavaScript rounds
NumberShown(k) == IF k \in {"safe", "float"} THEN "number" ELSE "string"
Text(k) == IF k \in {"text", "longText", "bytes", "longBytes"} THEN "string" ELSE NumberShown(k)
LimitedText(k) == IF k \in {"longText", "longBytes"} THEN "cut" ELSE Text(k)
MysqlLeaf(k) == Text(k)
PostgresLeaf(k) == Text(k)
RedisLeaf(k) == Text(k)
MssqlLeaf(k) == LimitedText(k)
DuckdbLeaf(k) == LimitedText(k)
DynamoLeaf(k) == IF k = "float" THEN "string" ELSE LimitedText(k)
ElasticLeaf(k) == IF k \in {"huge", "exact"} THEN "number" ELSE LimitedText(k)
LeafShown(e, k) ==
  CASE k = "null" -> "null"
    [] e = "mysql" -> MysqlLeaf(k) [] e = "postgres" -> PostgresLeaf(k) [] e = "mssql" -> MssqlLeaf(k)
    [] e = "duckdb" -> DuckdbLeaf(k) [] e = "dynamodb" -> DynamoLeaf(k)
    [] e = "redis" -> RedisLeaf(k) [] OTHER -> ElasticLeaf(k)
Shown(e, v) == [is |-> LeafShown(e, v.is), of |-> <<v.is>>]

----------------------------------------------------------------------------
(* One budget for the cell (value_to_json_at_depth, attr_to_json).         *)

NestedKinds(e) == Collections \cup (IF e = "duckdb" THEN {"union"} ELSE {})
FreshBudget(left) == MaxElements  \* fault: every level counts for itself
Spend(left) == left - 1
RECURSIVE Budgeted(_, _, _, _)
Budgeted(e, v, depth, left) ==
  LET Add(s, item) ==
        IF s.stop \/ s.left = 0 THEN [s EXCEPT !.stop = TRUE, !.cut = TRUE]
        ELSE LET r == Budgeted(e, item, depth + 1, Spend(s.left)) IN
             [out |-> Append(s.out, r.json), left |-> r.left, cut |-> s.cut \/ r.cut, stop |-> FALSE]
      s == FoldLeft(Add, [out |-> <<>>, left |-> left, cut |-> FALSE, stop |-> FALSE], v.of)
  IN CASE depth >= MaxNesting /\ v.is \in NestedKinds(e) -> [json |-> TooDeep, left |-> left, cut |-> TRUE]
       [] v.is \in Collections -> [json |-> [is |-> v.is, of |-> s.out], left |-> s.left, cut |-> s.cut]
       [] v.is = "union" -> Budgeted(e, v.of[1], depth + 1, left)
       [] OTHER -> [json |-> Shown(e, v), left |-> left, cut |-> LeafShown(e, v.is) = "cut"]

(* A limit for each collection (value_to_json_limited of redis.rs,         *)
(* limit_cell of elasticsearch.rs).                                        *)
RECURSIVE PerCollection(_, _)
PerCollection(e, v) ==
  LET kept == SubSeq(v.of, 1, IF Len(v.of) < MaxElements THEN Len(v.of) ELSE MaxElements)
      inner == [i \in DOMAIN kept |-> PerCollection(e, kept[i])]
      over == Len(v.of) > MaxElements
  IN IF v.is \in Collections
       THEN [json |-> [is |-> v.is, of |-> [i \in DOMAIN kept |-> inner[i].json] \o (IF over THEN <<Note>> ELSE <<>>)],
             cut |-> over \/ \E i \in DOMAIN kept : inner[i].cut]
       ELSE [json |-> Shown(e, v), cut |-> LeafShown(e, v.is) = "cut"]

DuckdbCell(v) == Budgeted("duckdb", v, 0, MaxElements)
AttrToJsonCell(v) == Budgeted("dynamodb", v, 0, MaxElements)
LimitCell(v) == PerCollection("elasticsearch", v)
FlatCell(e, v) == [json |-> Shown(e, v), cut |-> LeafShown(e, v.is) = "cut"]
ToJson(e, v) ==
  CASE e = "duckdb" -> DuckdbCell(v)
    [] e = "dynamodb" -> AttrToJsonCell(v)
    [] e = "redis" -> PerCollection(e, v)
    [] e = "elasticsearch" -> LimitCell(v)
    [] OTHER -> FlatCell(e, v)

----------------------------------------------------------------------------
(* The rows of one Redis answer (shape_single of redis.rs): pairs of a     *)
(* field and a value, or one value a row.                                  *)

Firsts(items) == SubSeq(items, 1, IF Len(items) < MaxElements THEN Len(items) ELSE MaxElements)
Pairs(items) == [i \in 1 .. Len(items) \div 2 |-> <<items[2 * i - 1], items[2 * i]>>]
Rows(items, inPairs) ==
  IF inPairs /\ Len(items) % 2 = 0
    THEN [rows |-> Firsts(Pairs(items)), cut |-> Len(items) \div 2 > MaxElements]
    ELSE [rows |-> [i \in DOMAIN Firsts(items) |-> <<items[i]>>], cut |-> Len(items) > MaxElements]

----------------------------------------------------------------------------
(* An array of PostgreSQL as it is sent (pg_binary_array_to_json): words   *)
(* of 4 bytes, an element's bytes in whole words.  Header: dimensions,     *)
(* null flag, element type; for each dimension its length and first        *)
(* subscript; then each element's length (-1 for NULL) and its words.      *)

MaxDims == 6
NoArray == [ok |-> FALSE, of |-> <<>>, rest |-> <<>>]
Covered(total, rest) == total <= Len(rest)
AnyRest(rest) == TRUE  \* fault: words after the last element
Consumed(rest) == rest = <<>>
RECURSIVE BuildArray(_, _)
BuildArray(dims, words) ==
  LET Element(s) ==
        IF s.rest = <<>> \/ Head(s.rest) < -1 \/ (Head(s.rest) >= 0 /\ Head(s.rest) > Len(s.rest) - 1) THEN NoArray
        ELSE IF Head(s.rest) = -1 THEN [ok |-> TRUE, of |-> Append(s.of, <<>>), rest |-> Tail(s.rest)]
        ELSE [ok |-> TRUE, of |-> Append(s.of, SubSeq(s.rest, 1, Head(s.rest) + 1)),
              rest |-> SubSeq(s.rest, Head(s.rest) + 2, Len(s.rest))]
      Inner(s) == LET r == BuildArray(Tail(dims), s.rest) IN
        IF r.ok THEN [ok |-> TRUE, of |-> Append(s.of, r.of), rest |-> r.rest] ELSE NoArray
      Following(s, i) == IF ~s.ok THEN s ELSE IF Len(dims) = 1 THEN Element(s) ELSE Inner(s)
  IN FoldLeft(Following, [ok |-> TRUE, of |-> <<>>, rest |-> words], [i \in 1 .. Head(dims) |-> i])
DecodeArray(words) ==
  LET ndim == words[1]
      dims == [i \in 1 .. ndim |-> words[2 * i + 2]]
      rest == SubSeq(words, 2 * ndim + 4, Len(words))
      total == FoldLeft(LAMBDA a, d : a * d, 1, dims)
      built == BuildArray(dims, rest)
  IN CASE Len(words) < 3 \/ (Len(words) >= 1 /\ words[1] < 0) -> NoArray
       [] words[2] \notin {0, 1} -> NoArray
       [] ndim = 0 -> [NoArray EXCEPT !.ok = Len(words) = 3]
       [] ndim > MaxDims \/ Len(words) < 3 + 2 * ndim -> NoArray
       [] \E i \in DOMAIN dims : dims[i] <= 0 -> NoArray
       [] ~Covered(total, rest) -> NoArray
       [] built.ok /\ Consumed(built.rest) -> [built EXCEPT !.rest = dims]
       [] OTHER -> NoArray

----------------------------------------------------------------------------
(* A value of SQLite, whatever the column declares (sqlite_value_to_json): *)
(* the types that are tried, in order, and what SQLite's driver decodes.   *)

StorageClasses == {"safe", "big", "float", "nan", "text", "bytes", "null"}
DeclaredTypes == {"BOOLEAN", "INTEGER", "REAL", "TEXT", "BLOB", "NUMERIC", "other"}
ByType(type) ==
  CASE type = "BOOLEAN" -> <<"bool">> [] type = "INTEGER" -> <<"i64">> [] type = "REAL" -> <<"f64">>
    [] type = "TEXT" -> <<"string">> [] type = "BLOB" -> <<"raw">> [] type = "NUMERIC" -> <<"i64", "f64">>
    [] OTHER -> <<>>
DeclaredOnly(type) == ByType(type) \o <<"string", "raw">>  \* fault: no second try
Candidates(type) == ByType(type) \o <<"i64", "f64", "string", "raw">>
Decodes(as, stored) ==
  \/ stored = "null"
  \/ as \in {"bool", "i64"} /\ stored \in {"safe", "big"}
  \/ as = "f64" /\ stored \in {"float", "nan"}
  \/ as = "string" /\ stored = "text"
  \/ as = "raw" /\ stored \in {"text", "bytes"}
SqliteShown(type, stored) ==
  LET tried == SelectSeq(Candidates(type), LAMBDA as : Decodes(as, stored)) IN
  CASE tried = <<>> -> "undecodable"
    [] stored = "null" -> "null"
    [] tried[1] = "bool" -> "bool"
    [] tried[1] \in {"i64", "f64"} -> NumberShown(stored)
    [] OTHER -> "string"

----------------------------------------------------------------------------
CvInit ==
  /\ cell = Leaf("null") /\ cellEngine = "duckdb"
  /\ wire = <<0, 0, 25>>
  /\ declared = [type |-> "other", stored |-> "null"]
ShowCell ==
  /\ \E e \in CellEngines, v \in Stored : Storable(e, v) /\ cellEngine' = e /\ cell' = v
  /\ UNCHANGED <<wire, declared>>

(* What the server sends, whole or mangled in one word.                    *)
ElementWords == {<<-1>>, <<0>>, <<1, 7>>}
Encode(dims, elements) ==
  <<Len(dims), 0, 25>> \o FlattenSeq([i \in DOMAIN dims |-> <<dims[i], 1>>]) \o FlattenSeq(elements)
Sent == {Encode(<<>>, <<>>)}
     \cup {Encode(<<n>>, es) : n \in 1 .. 3, es \in BoundedSeq(ElementWords, 3)}
     \cup {Encode(<<n, m>>, es) : n \in 1 .. 2, m \in 1 .. 2, es \in UNION {[1 .. k -> {<<-1>>, <<1, 7>>}] : k \in 1 .. 4}}
ReceiveArray ==
  /\ \E w \in Sent :
       wire' \in {w, Front(w), Append(w, 0)} \cup {[w EXCEPT ![i] = x] : i \in DOMAIN w, x \in {-2, -1, 0, 2, 7}}
  /\ UNCHANGED <<cell, cellEngine, declared>>
ReadColumn ==
  /\ declared' \in [type : DeclaredTypes, stored : StorageClasses]
  /\ UNCHANGED <<cell, cellEngine, wire>>
CvStart == cell = Leaf("null") /\ cellEngine = "duckdb" /\ wire = <<0, 0, 25>> /\ declared.type = "other"
CvNext == CvStart /\ (ShowCell \/ ReceiveArray \/ ReadColumn)
CvSpec == CvInit /\ [][CvNext]_cvVars

CvTypeOK ==
  /\ cell \in Stored /\ cellEngine \in CellEngines /\ wire \in Seq(Int)
  /\ declared \in [type : DeclaredTypes, stored : StorageClasses]

----------------------------------------------------------------------------
(* Properties *)

RECURSIVE Whole(_, _)
Whole(e, v) ==
  CASE v.is \in Collections -> [is |-> v.is, of |-> [i \in DOMAIN v.of |-> Whole(e, v.of[i])]]
    [] v.is = "union" -> Whole(e, v.of[1])
    [] OTHER -> Shown(e, v)
IsCollection(j) == j.is \in Collections
RECURSIVE Count(_)
Count(j) == IF IsCollection(j) THEN 1 + FoldLeft(LAMBDA n, x : n + Count(x), 0, j.of) ELSE 1
RECURSIVE Height(_)
Height(j) == IF IsCollection(j) THEN 1 + FoldLeft(LAMBDA n, x : IF Height(x) > n THEN Height(x) ELSE n, 0, j.of) ELSE 0
RECURSIVE Widest(_)
Widest(j) == IF IsCollection(j)
  THEN FoldLeft(LAMBDA n, x : IF Widest(x) > n THEN Widest(x) ELSE n, Len(j.of), j.of) ELSE 0
RECURSIVE LeavesOf(_)
LeavesOf(j) == IF IsCollection(j) THEN UNION {LeavesOf(j.of[i]) : i \in DOMAIN j.of} ELSE {j}

(* The result says "truncated" exactly when the cell, or a row, lacks      *)
(* something.                                                              *)
CutIsTold ==
  LET r == ToJson(cellEngine, cell) IN
  /\ r.cut <=> (r.json # Whole(cellEngine, cell) \/ \E j \in LeavesOf(r.json) : j.is = "cut")
  /\ \A inPairs \in BOOLEAN : IsCollection(cell) =>
       LET t == Rows(cell.of, inPairs) IN
       t.cut <=> FlattenSeq(t.rows) # cell.of

(* However wide and deep the stored value is, the cell has no more than    *)
(* the budget below its root and no more levels than allowed; a limit for  *)
(* each collection bounds each of them.                                    *)
CellIsBounded ==
  LET r == ToJson(cellEngine, cell) IN
  IF cellEngine \in BudgetEngines THEN Count(r.json) <= MaxElements + 1 /\ Height(r.json) <= MaxNesting
  ELSE Widest(r.json) <= MaxElements + 1

(* "64-bit integers beyond the safe range are returned as strings": no     *)
(* integer and no decimal reaches the table rounded.  A JSON answer of     *)
(* Elasticsearch has no integers beyond 64 bits, nor decimals: they were   *)
(* floats when the answer was read.                                        *)
NothingRounded ==
  /\ \A j \in LeavesOf(ToJson(cellEngine, cell).json) :
       j.is = "number" => j.of[1] \in {"safe", "float"} \/ (cellEngine = "elasticsearch" /\ j.of[1] \in {"huge", "exact"})
  /\ SqliteShown(declared.type, declared.stored) = "number" => declared.stored \in {"safe", "float"}

(* A stored value is shown under any declared type.                        *)
StoredIsShown == SqliteShown(declared.type, declared.stored) # "undecodable"

(* An array is shown exactly if the words are the encoding of one: nothing *)
(* of a mangled message is shown as data, and every array is understood.   *)
RECURSIVE BodyWords(_, _)
BodyWords(dims, of) ==
  IF Len(dims) = 1 THEN FlattenSeq([i \in DOMAIN of |-> IF of[i] = <<>> THEN <<-1>> ELSE of[i]])
  ELSE FlattenSeq([i \in DOMAIN of |-> BodyWords(Tail(dims), of[i])])
ArrayIsAsSent ==
  LET a == DecodeArray(wire) body == SubSeq(wire, 4 + 2 * Len(a.rest), Len(wire)) IN
  /\ a.ok => IF a.rest = <<>> THEN a.of = <<>> /\ Len(wire) = 3 ELSE body = BodyWords(a.rest, a.of)
  /\ (\E n \in 1 .. 3 : \E es \in [1 .. n -> ElementWords] : wire = Encode(<<n>>, es)) => a.ok
=============================================================================
