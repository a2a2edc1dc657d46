----------------------------- MODULE ElasticRules -----------------------------
(***************************************************************************)
(* Requests to Elasticsearch from the lines of the editor to the table     *)
(* (engines/elasticsearch.rs): how the lines split into requests, what the *)
(* guards read in a path next to what is sent and what the server does     *)
(* with it, how a body is sent, and the columns of an answer; with those   *)
(* of DynamoDB's items (engines/dynamodb.rs: shape_items).                 *)
(***************************************************************************)
EXTENDS Naturals, Sequences, SequencesExt, FiniteSets

CONSTANTS MaxPieces,  \* bound: pieces of a path
          MaxTyped,   \* bound: lines of the editor
          MaxColumns  \* MAX_COLUMNS of dynamodb.rs

ASSUME ElasticAssumption == MaxPieces \in Nat /\ MaxTyped \in Nat /\ MaxColumns \in Nat \ {0}

VARIABLES path, typed, objects
erVars == <<path, typed, objects>>

----------------------------------------------------------------------------
(* A path: its pieces, the piece that has a backslash before it instead of *)
(* a slash (0: none), and whether a query follows.  A piece is the words   *)
(* it is put together of; "%2e" is an encoded dot, "%2f" a slash.          *)

Segments == {"a", "_search", "_explain", "_doc", "_delete_by_query", "_data_stream", "template"}
Pieces ==
  {<<n>> : n \in Segments}
    \cup {<<>>, <<".">>, <<".", ".">>, <<"%2e", ".">>, <<"a", ".">>, <<"a", "%2f", "_doc">>}
EsPaths == [pieces : BoundedSeq(Pieces, MaxPieces), backslash : 0 .. MaxPieces, query : BOOLEAN]
Methods == {"GET", "POST", "PUT", "DELETE"}
IsApi(segment) == segment \in {<<"_search">>, <<"_explain">>, <<"_doc">>, <<"_delete_by_query">>, <<"_data_stream">>}

Undotted(piece) == [i \in DOMAIN piece |-> IF piece[i] = "%2e" THEN "." ELSE piece[i]]
NotEmpty(piece) == piece # <<>>
PlainDots(piece) == piece \in {<<".">>, <<".", ".">>}  \* fault: encoded dots are names
Dots(piece) == Undotted(piece) \in {<<".">>, <<".", ".">>}
GuardSegments(p) ==
  IF \/ p.backslash \in DOMAIN p.pieces
     \/ \E i \in DOMAIN p.pieces : Dots(p.pieces[i]) \/ Contains(p.pieces[i], "%2f")
    THEN [ok |-> FALSE, segments |-> <<>>]
    ELSE [ok |-> TRUE, segments |-> SelectSeq(p.pieces, NotEmpty)]

FirstApi(segments) == SelectInSeq(segments, IsApi)
Behind(segments) == SubSeq(segments, FirstApi(segments) + 1, Len(segments))
SomeApi(segments) == Contains(segments, <<"_search">>)  \* fault: the API is looked for anywhere
ReadonlyPostAllowed(segments) ==
  /\ FirstApi(segments) > 0
  /\ \/ /\ segments[FirstApi(segments)] = <<"_search">>
        /\ Behind(segments) \in {<<>>, <<<<"template">>>>}
     \/ segments[FirstApi(segments)] = <<"_explain">> /\ Len(Behind(segments)) <= 1
IsReadonlyRequest(method, segments) ==
  method = "GET" \/ (method = "POST" /\ ReadonlyPostAllowed(segments))
IndexOnly(method, segments) == method = "DELETE" /\ Len(segments) = 1  \* fault: the rest deletes little
DangerousRequest(method, segments) ==
  \/ Contains(segments, <<"_delete_by_query">>)
  \/ method = "DELETE" /\ (Len(segments) = 1 \/ (segments # <<>> /\ segments[1] = <<"_data_stream">>))

(* What is sent: dots resolved, backslashes read as slashes, and, behind a *)
(* proxy that decodes, encoded slashes too.                                *)
Decoded(piece) ==
  IF Contains(piece, "%2f") THEN <<SubSeq(piece, 1, 1), SubSeq(piece, 3, Len(piece))>> ELSE <<piece>>
ResolveDots(sent, piece) ==
  CASE Undotted(piece) = <<".">> -> sent
    [] Undotted(piece) = <<".", ".">> -> IF sent = <<>> THEN sent ELSE Front(sent)
    [] OTHER -> sent \o Decoded(piece)
SentSegments(p) == SelectSeq(FoldLeft(ResolveDots, <<>>, p.pieces), NotEmpty)

(* What the server does: an index, if there is one, an API, and what       *)
(* belongs to it, a document's name among others.                          *)
ServerDoes(method, segments) ==
  LET at == FirstApi(segments) api == IF at = 0 THEN <<>> ELSE segments[at] IN
  CASE method = "GET" -> "reads"
    [] method = "DELETE" /\ (at = 0 /\ Len(segments) = 1) -> "losesIndex"
    [] method = "DELETE" /\ api = <<"_data_stream">> /\ at = 1 /\ Len(segments) = 2 -> "losesIndex"
    [] at \in {1, 2} /\ api = <<"_delete_by_query">> /\ Len(segments) = at -> "losesIndex"
    [] at = 2 /\ api = <<"_doc">> -> "writes"
    [] at \in {1, 2} /\ api \in {<<"_search">>, <<"_explain">>} /\ method = "POST" -> "reads"
    [] at = 0 /\ method = "PUT" -> "writes"
    [] OTHER -> "refuses"

----------------------------------------------------------------------------
(* The lines of the editor: a comment, nothing, a request line, one that   *)
(* lacks its path or has a word too many, and lines of a body: a document, *)
(* the two halves of one.                                                  *)

TypedLines == {"#", "blank", "request", "bulk", "bad", "json", "open", "close"}
Parse0 == [ok |-> TRUE, requests |-> <<>>]
NewRequest(line, i) == [at |-> i, bulk |-> line = "bulk", body |-> <<>>]
ParseLine(s, line, i) ==
  CASE ~s.ok \/ line \in {"#", "blank"} -> s
    [] line \in {"request", "bulk"} -> [s EXCEPT !.requests = Append(@, NewRequest(line, i))]
    [] line = "bad" \/ s.requests = <<>> -> [ok |-> FALSE, requests |-> <<>>]
    [] OTHER -> [s EXCEPT !.requests[Len(s.requests)].body = Append(@, i)]
ParseInput(lines) == FoldLeft(LAMBDA s, i : ParseLine(s, lines[i], i), Parse0, [i \in DOMAIN lines |-> i])

(* Whether a body is JSON as a whole, and line by line.                    *)
OneDocument(body) == body \in {<<"json">>, <<"open", "close">>}
EachLine(body) == \A i \in DOMAIN body : body[i] = "json"
NoneIsNdjson(request) == FALSE  \* fault: one line of _bulk is sent as JSON
PathIsNdjsonApi(request) == request.bulk
ClassifyBody(request, lines) ==
  LET body == [i \in DOMAIN request.body |-> lines[request.body[i]]] IN
  CASE body = <<>> -> "none"
    [] ~PathIsNdjsonApi(request) /\ OneDocument(body) -> "json"
    [] EachLine(body) -> "ndjson"
    [] OTHER -> "refused"

----------------------------------------------------------------------------
(* The table of an answer: objects with their keys in order, at most rows  *)
(* of them shown.  A cell names the object and the key it shows.           *)

FieldNames == {"k", "l", "_id"}
Rank == [k |-> 3, l |-> 2, _id |-> 1]
AnswerObjects == UNION {[1 .. n -> {ks \in BoundedSeq(FieldNames, 2) : IsInjective(ks)}] : n \in 0 .. 3}
Meta == <<"_index", "_id", "_score">>
AddKey(columns, key) == IF Contains(columns, key) THEN columns ELSE Append(columns, key)
FirstObject(items) == IF items = <<>> THEN <<>> ELSE items[1]  \* fault: the first one stands for all
UnionOfKeys(items) == FoldLeft(AddKey, <<>>, FlattenSeq(items))
Upto(items, n) == SubSeq(items, 1, IF Len(items) < n THEN Len(items) ELSE n)
CellOf(items, i, key) == IF Contains(items[i], key) THEN <<i, key>> ELSE <<"null">>
ShapeObjectArray(items, rows) ==
  [columns |-> UnionOfKeys(items), cut |-> Len(items) > rows,
   rows |-> [i \in DOMAIN Upto(items, rows) |->
              [c \in DOMAIN UnionOfKeys(items) |-> CellOf(items, i, UnionOfKeys(items)[c])]]]
ShapeHits(items, rows) ==
  LET source == ShapeObjectArray(items, rows) IN
  [source EXCEPT !.columns = Meta \o @,
                 !.rows = [i \in DOMAIN @ |-> [c \in 1 .. 3 |-> <<i, "meta">>] \o @[i]]]
(* The names in order, and no more than fit.                               *)
SortedKeys(items) == SortSeq(UnionOfKeys(items), LAMBDA x, y : Rank[x] < Rank[y])
ShapeItems(items, rows) ==
  LET kept == Upto(items, rows) all == SortedKeys(kept) columns == Upto(all, MaxColumns) IN
  [columns |-> columns, cut |-> Len(items) > rows \/ Len(all) > MaxColumns,
   rows |-> [i \in DOMAIN kept |-> [c \in DOMAIN columns |-> CellOf(kept, i, columns[c])]]]

----------------------------------------------------------------------------
NoEsPath == [pieces |-> <<>>, backslash |-> 0, query |-> FALSE]
NoObjects == [items |-> <<>>, rows |-> 0]
ErInit == path = NoEsPath /\ typed = <<>> /\ objects = NoObjects
ErStart == path = NoEsPath /\ typed = <<>> /\ objects = NoObjects
TypePath == path' \in EsPaths /\ UNCHANGED <<typed, objects>>
TypeRequests == typed' \in BoundedSeq(TypedLines, MaxTyped) /\ UNCHANGED <<path, objects>>
ReadAnswer == objects' \in [items : AnswerObjects, rows : 0 .. 3] /\ UNCHANGED <<path, typed>>
ErNext == ErStart /\ (TypePath \/ TypeRequests \/ ReadAnswer)
ErSpec == ErInit /\ [][ErNext]_erVars

ErTypeOK == path \in EsPaths /\ typed \in Seq(TypedLines) /\ objects.items \in AnswerObjects /\ objects.rows \in 0 .. 3

----------------------------------------------------------------------------
(* Properties *)

JudgedSegments(p) == GuardSegments(p).segments

(* "The validated path must match the actual I/O path": what the guards    *)
(* read in a path they let pass is what the server is asked for.           *)
JudgedIsSent == GuardSegments(path).ok => JudgedSegments(path) = SentSegments(path)

(* A request that is let through without the Writable switch changes       *)
(* nothing, and one that can lose an index is not let through unasked.     *)
RequestsDoAsJudged ==
  GuardSegments(path).ok => \A method \in Methods :
    /\ IsReadonlyRequest(method, JudgedSegments(path)) => ServerDoes(method, SentSegments(path)) \in {"reads", "refuses"}
    /\ ServerDoes(method, SentSegments(path)) = "losesIndex" => DangerousRequest(method, JudgedSegments(path))

(* Every line of a body belongs to the request line above it, in order;    *)
(* the input is refused exactly for a bad line or a body without request.  *)
Starts == {i \in DOMAIN typed : typed[i] \in {"request", "bulk"}}
BodyLines == {i \in DOMAIN typed : typed[i] \in {"json", "open", "close"}}
LinesBelongAbove ==
  LET s == ParseInput(typed) IN
  /\ s.ok <=> /\ ~Contains(typed, "bad")
              /\ \A i \in BodyLines : \E j \in Starts : j < i
  /\ s.ok => /\ {s.requests[n].at : n \in DOMAIN s.requests} = Starts
             /\ UNION {ToSet(s.requests[n].body) : n \in DOMAIN s.requests} = BodyLines
             /\ \A n \in DOMAIN s.requests : \A i \in ToSet(s.requests[n].body) :
                  s.requests[n].at < i /\ \A j \in Starts : j < i => j <= s.requests[n].at

(* A bulk request is sent line by line, and anything else as one document  *)
(* if it is one; what is neither does not leave the program.               *)
BodyIsSentAsMeant ==
  LET s == ParseInput(typed) IN \A n \in DOMAIN s.requests :
    LET r == s.requests[n] body == [i \in DOMAIN r.body |-> typed[r.body[i]]] sent == ClassifyBody(r, typed) IN
    /\ r.bulk => sent # "json"
    /\ sent = "json" => OneDocument(body)
    /\ sent = "ndjson" => EachLine(body) /\ (r.bulk \/ Len(body) # 1)
    /\ sent = "refused" => ~EachLine(body) /\ (OneDocument(body) => r.bulk)

(* Each value of a row that is shown stands once under its own name, and   *)
(* what is not shown is told.                                              *)
EveryValueHasItsPlace ==
  LET items == objects.items Under(t, i, key) == {c \in DOMAIN t.columns : t.columns[c] = key /\ t.rows[i][c] = <<i, key>>} IN
  /\ \A t \in {ShapeObjectArray(items, objects.rows), ShapeHits(items, objects.rows)} :
       /\ t.cut <=> Len(t.rows) < Len(items)
       /\ \A i \in DOMAIN t.rows : \A key \in ToSet(items[i]) : Cardinality(Under(t, i, key)) = 1
  /\ LET t == ShapeItems(items, objects.rows) IN
       /\ IsInjective(t.columns)
       /\ ~t.cut => Len(t.rows) = Len(items)
                    /\ \A i \in DOMAIN t.rows : \A key \in ToSet(items[i]) : Cardinality(Under(t, i, key)) = 1
=============================================================================
