------------------------------ MODULE RedisRules ------------------------------
(***************************************************************************)
(* What a line of the editor is as a command of Redis (engines/redis.rs:   *)
(* parse_command_line), and which reads would block (unsupported_reason).  *)
(*                                                                         *)
(* A character is one of a few that the rules tell apart: "a" and "1" for  *)
(* hexadecimal digits, "n" for letters that stand for a control byte       *)
(* behind a backslash, "g" for any other.  A byte is a character, or what  *)
(* an escape makes of it.                                                  *)
(***************************************************************************)
EXTENDS Integers, Sequences, SequencesExt, FiniteSets

CONSTANTS MaxLine,  \* bound: characters of a line
          MaxArgs   \* bound: arguments behind XREAD

ASSUME RedisAssumption == MaxLine \in Nat /\ MaxArgs \in Nat

VARIABLES redisLine, reads, databases
rdVars == <<redisLine, reads, databases>>

Space == " "
Double == "\""
Single == "'"
Backslash == "\\"
RedisChars == {Space, Double, Single, Backslash, "x", "n", "a", "+"}
Hex == {"a", "1"}
Ctl(c) == "ctl-" \o c
ByteOf(h, l) == "byte-" \o h \o l

----------------------------------------------------------------------------
(* The state of the scan: the arguments so far and the one being read, in  *)
(* which quotes (Space: none), and how many characters are consumed.       *)

Scan0 == [args |-> <<>>, token |-> <<>>, in |-> "gap", skip |-> 0]
NoArguments == [args |-> <<>>, token |-> <<>>, in |-> "error", skip |-> 0]
Push(s, bytes) == [s EXCEPT !.token = @ \o bytes]
Done(s) == [s EXCEPT !.args = Append(@, s.token), !.token = <<>>, !.in = "gap"]

Reads16(h, l) == l \in Hex /\ h \in Hex \cup {"+"}  \* from_str_radix takes a sign
DecodeEscape(s, line, i) ==
  LET next == line[i + 1]
      two == i + 3 <= Len(line) /\ Reads16(line[i + 2], line[i + 3])
  IN CASE next = "n" \/ next = "a" -> Push([s EXCEPT !.skip = 1], <<Ctl(next)>>)
       [] next = "x" /\ two ->
            Push([s EXCEPT !.skip = 3], <<ByteOf(IF line[i + 2] = "+" THEN "" ELSE line[i + 2], line[i + 3])>>)
       [] OTHER -> Push([s EXCEPT !.skip = 1], <<next>>)
InDouble(s, line, i) ==
  CASE line[i] = Backslash /\ i < Len(line) -> DecodeEscape(s, line, i)
    [] line[i] = Double -> [s EXCEPT !.in = "closed"]
    [] OTHER -> Push(s, <<line[i]>>)
InSingle(s, line, i) ==
  CASE line[i] = Backslash /\ i < Len(line) /\ line[i + 1] \in {Single, Backslash} ->
         Push([s EXCEPT !.skip = 1], <<line[i + 1]>>)
    [] line[i] = Single -> [s EXCEPT !.in = "closed"]
    [] OTHER -> Push(s, <<line[i]>>)
OpensToken(s, c) ==
  CASE c = Space -> s
    [] c = Double -> [s EXCEPT !.in = "double"]
    [] c = Single -> [s EXCEPT !.in = "single"]
    [] OTHER -> Push([s EXCEPT !.in = "bare"], <<c>>)
Joined(s, line, i) == OpensToken(Done(s), line[i])  \* fault: a closing quote ends the argument by itself
AfterQuote(s, line, i) == IF line[i] = Space THEN Done(s) ELSE NoArguments
ReadChar(s, line, i) ==
  CASE s.skip > 0 -> [s EXCEPT !.skip = @ - 1]
    [] s.in = "error" -> s
    [] s.in = "gap" -> OpensToken(s, line[i])
    [] s.in = "bare" -> IF line[i] = Space THEN Done(s) ELSE Push(s, <<line[i]>>)
    [] s.in = "double" -> InDouble(s, line, i)
    [] s.in = "single" -> InSingle(s, line, i)
    [] OTHER -> AfterQuote(s, line, i)
ParseCommandLine(line) ==
  LET s == FoldLeft(LAMBDA t, i : ReadChar(t, line, i), Scan0, [i \in DOMAIN line |-> i]) IN
  CASE s.in \in {"error", "double", "single"} -> NoArguments
    [] s.in = "gap" -> s
    [] OTHER -> Done(s)

----------------------------------------------------------------------------
(* XREAD and XREADGROUP: an option BLOCK before STREAMS.                   *)

Options(r) ==
  IF r.group /\ Len(r.args) >= 3 /\ r.args[1] = "GROUP" THEN SubSeq(r.args, 4, Len(r.args)) ELSE r.args
BeforeStreams(args) ==
  LET at == {i \in DOMAIN args : args[i] = "STREAMS"} IN
  IF at = {} THEN args ELSE SubSeq(args, 1, (CHOOSE i \in at : \A j \in at : i <= j) - 1)
Anywhere(r) == Contains(r.args, "BLOCK")  \* fault: names are searched as well
WouldBlock(r) == Contains(BeforeStreams(Options(r)), "BLOCK")

(* What Redis makes of the arguments: the options in their order, and the  *)
(* names and IDs behind STREAMS.                                           *)
Redis0 == [blocks |-> FALSE, skip |-> 0, is |-> "options"]
RedisOption(s, args, i) ==
  LET left == Len(args) - i IN
  CASE s.skip > 0 -> [s EXCEPT !.skip = @ - 1]
    [] s.is # "options" -> s
    [] args[i] = "BLOCK" /\ left >= 1 -> [s EXCEPT !.blocks = TRUE, !.skip = 1]
    [] args[i] = "GROUP" /\ left >= 2 -> [s EXCEPT !.skip = 2]
    [] args[i] = "STREAMS" /\ left >= 2 /\ left % 2 = 0 -> [s EXCEPT !.is = "streams"]
    [] OTHER -> [s EXCEPT !.is = "error"]
RedisReads(r) == FoldLeft(LAMBDA s, i : RedisOption(s, r.args, i), Redis0, [i \in DOMAIN r.args |-> i])

(* CONFIG GET databases, or the default; -1: no answer (list_databases).   *)
DefaultDatabases == 16
MaxDatabases == 1024
AsAnswered(count) == count  \* fault: the server's number as it is
DatabaseNames(count) ==
  CASE count <= 0 -> DefaultDatabases [] count > MaxDatabases -> MaxDatabases [] OTHER -> count
ListDatabases(answer) == DatabaseNames(answer)

----------------------------------------------------------------------------
RdInit == redisLine = <<>> /\ reads = [group |-> FALSE, args |-> <<>>] /\ databases = -1
RdStart == redisLine = <<>> /\ reads.args = <<>> /\ databases = -1
TypeLine == redisLine' \in BoundedSeq(RedisChars, MaxLine) /\ UNCHANGED <<reads, databases>>
TypeRead ==
  /\ reads' \in [group : BOOLEAN, args : BoundedSeq({"BLOCK", "GROUP", "STREAMS", "k"}, MaxArgs)]
  /\ UNCHANGED <<redisLine, databases>>
AskDatabases == databases' \in {-5, 0, 1, 15, 16, 1024, 1025, 9999} /\ UNCHANGED <<redisLine, reads>>
RdNext == RdStart /\ (TypeLine \/ TypeRead \/ AskDatabases)
RdSpec == RdInit /\ [][RdNext]_rdVars

RdTypeOK ==
  /\ redisLine \in Seq(RedisChars) /\ reads.group \in BOOLEAN /\ databases \in Int
  /\ reads.args \in Seq({"BLOCK", "GROUP", "STREAMS", "k"})

----------------------------------------------------------------------------
(* Properties *)

(* Every sequence of characters can be written as an argument, in either   *)
(* quotes, and arrives as it is, and so can every byte; two arguments      *)
(* written with a space between them arrive as two, without it as none.    *)
Escaped(token, quote) ==
  FlattenSeq([i \in DOMAIN token |->
    IF token[i] \in {quote, Backslash} THEN <<Backslash, token[i]>> ELSE <<token[i]>>])
Quoted(token, quote) == <<quote>> \o Escaped(token, quote) \o <<quote>>
HexEscape(h, l) == <<Double, Backslash, "x", h, l, Double>>
ArgumentsArrive ==
  /\ \A h, l \in Hex : ParseCommandLine(HexEscape(h, l)).args = <<<<ByteOf(h, l)>>>>
  /\ \A p, q \in {Double, Single} :
       LET one == Quoted(redisLine, p) IN
       /\ ParseCommandLine(one) = [Scan0 EXCEPT !.args = <<redisLine>>]
       /\ ParseCommandLine(one \o <<Space>> \o Quoted(<<"g">>, q)).args = <<redisLine, <<"g">>>>
       /\ ParseCommandLine(one \o Quoted(<<"g">>, q)) = NoArguments

(* An unquoted line means its words; nothing of any line is dropped, and   *)
(* no more arguments come out than the line has room for.                  *)
LineIsItsWords ==
  LET s == ParseCommandLine(redisLine) plain == {Double, Single} \cap ToSet(redisLine) = {} IN
  /\ plain => s.in = "gap" /\ FlattenSeq(s.args) = SelectSeq(redisLine, LAMBDA c : c # Space)
  /\ plain => \A i \in DOMAIN s.args : s.args[i] # <<>> /\ ~Contains(s.args[i], Space)
  /\ s.in = "gap" => 2 * Len(s.args) <= Len(redisLine) + 1

(* A read that would block its connection is turned away, and a stream, a  *)
(* group or a consumer may be called BLOCK: for XREADGROUP if its GROUP is *)
(* written first.                                                          *)
BlockingIsRefused ==
  LET r == RedisReads(reads) usual == reads.group <=> (reads.args # <<>> /\ reads.args[1] = "GROUP") IN
  usual /\ r.is = "streams" /\ (\A i \in 4 .. Len(reads.args) : reads.group => reads.args[i] # "GROUP")
  /\ (~reads.group => ~Contains(reads.args, "GROUP"))
  => (WouldBlock(reads) <=> r.blocks)

(* The list of databases is neither empty nor beyond its bound, and says   *)
(* what the server says where it can.                                      *)
DatabasesAreListed ==
  LET n == ListDatabases(databases) IN
  n \in 1 .. MaxDatabases /\ (databases \in 1 .. MaxDatabases => n = databases)
=============================================================================
