------------------------------- MODULE Records -------------------------------
(***************************************************************************)
(* What a store does to values: the filter language (store/filter.rs),     *)
(* validation (store/record.rs), the Arrow columns (arrow/codec.rs,        *)
(* schema.rs, filter.rs) and reductions (arrow/aggregate.rs).              *)
(*                                                                         *)
(* Text is a sequence of tokens: AND and OR stand for the letters of these *)
(* words.  The integer widths are small: W64 is the number of values of an *)
(* i64 and of a u64, W32 of an i32, and an f64 holds every integer up to   *)
(* F53 (2^53).  The column a holds text, b integers; there is no other.    *)
(***************************************************************************)
EXTENDS Integers, Sequences, FiniteSets, SequencesExt, FiniteSetsExt, Functions

CONSTANTS
  Words,      \* tokens a value or a column may hold
  MaxValue,   \* bound: tokens of a value
  W64, W32, F53,   \* widths
  MaxRows,    \* bound: rows reduced
  Widths      \* bucket widths

VARIABLES in, out

Ok(v) == [ok |-> TRUE, v |-> v]
Err == [ok |-> FALSE, v |-> <<>>]

-----------------------------------------------------------------------------
(* The filter language *)

Quotes == {"dq", "sq"}
\* Which tokens are outside quotes.
unquoted(s) ==
  LET Step(acc, c) ==
        CASE acc.q # "" -> [q |-> IF c = acc.q THEN "" ELSE acc.q, free |-> Append(acc.free, FALSE)]
          [] acc.q = "" /\ c \in Quotes -> [q |-> c, free |-> Append(acc.free, FALSE)]
          [] OTHER -> [acc EXCEPT !.free = Append(@, TRUE)] IN
  FoldLeft(Step, [q |-> "", free |-> <<>>], s).free

word_at(s, i, word) ==
  s[i] = word /\ (i > 1 => s[i - 1] = " ") /\ (i < Len(s) => s[i + 1] = " ")
bare_word(s, word) == LET free == unquoted(s) IN \E i \in DOMAIN s : free[i] /\ word_at(s, i, word)

trim(s) ==
  LET solid == {i \in DOMAIN s : s[i] # " "} IN
  IF solid = {} THEN <<>> ELSE SubSeq(s, Min(solid), Max(solid))

\* Mutant: AND is looked for inside quotes too.
SplitAnywhere(s) ==
  LET Step(acc, i) == IF word_at(s, i, "AND") THEN Append(acc, <<>>) ELSE [acc EXCEPT ![Len(acc)] = Append(@, s[i])]
      parts == FoldLeft(Step, <<<<>>>>, [i \in DOMAIN s |-> i]) IN
  SelectSeq([i \in DOMAIN parts |-> trim(parts[i])], LAMBDA c : c # <<>>)
split_and(s) ==
  LET free == unquoted(s)
      Step(acc, i) == IF free[i] /\ word_at(s, i, "AND") THEN Append(acc, <<>>)
                      ELSE [acc EXCEPT ![Len(acc)] = Append(@, s[i])]
      parts == FoldLeft(Step, <<<<>>>>, [i \in DOMAIN s |-> i]) IN
  SelectSeq([i \in DOMAIN parts |-> trim(parts[i])], LAMBDA c : c # <<>>)

\* Two-token operators come first in the table.
OPERATORS == <<<<">", "=">>, <<"<", "=">>, <<"!", "=">>, <<"=">>, <<">">>, <<"<">>>>
OpAt(s, i) == {n \in DOMAIN OPERATORS : IsPrefix(OPERATORS[n], SubSeq(s, i, Len(s)))}
unquote(s) ==
  IF Len(s) >= 2 /\ s[1] \in Quotes /\ s[1] = s[Len(s)] THEN SubSeq(s, 2, Len(s) - 1) ELSE s

clause_parts(s) ==
  LET free == unquoted(s)
      at == {i \in 2..Len(s) : free[i] /\ OpAt(s, i) # {}} IN
  IF at = {} THEN Err
  ELSE LET i == Min(at)
           op == OPERATORS[Min(OpAt(s, i))]
           column == trim(SubSeq(s, 1, i - 1))
           raw == trim(SubSeq(s, i + Len(op), Len(s))) IN
       IF column = <<>> \/ raw = <<>> THEN Err ELSE Ok(<<column, op, unquote(raw)>>)

I64 == (-(W64 \div 2))..((W64 \div 2) - 1)
U64 == 0..(W64 - 1)
I32 == (-(W32 \div 2))..((W32 \div 2) - 1)

\* What the numerals denote: one with a leading zero, and one beyond the width.
Numeral == [d \in {"0", "03", "big"} |-> CASE d = "0" -> 0 [] d = "03" -> 3 [] d = "big" -> W64]
\* The value as its column's kind.
coerce(column, raw) ==
  CASE column = <<"a">> -> Ok(raw)
    [] column = <<"b">> /\ Len(raw) = 1 /\ raw[1] \in DOMAIN Numeral ->
         IF Numeral[raw[1]] \in I64 THEN Ok(Numeral[raw[1]]) ELSE Err
    [] OTHER -> Err

predicates(s) ==
  LET clauses == split_and(s)
      parts == [i \in DOMAIN clauses |-> clause_parts(clauses[i])]
      typed(p) == coerce(p.v[1], p.v[3]) IN
  IF trim(s) = <<>> THEN Ok(<<>>)
  ELSE IF bare_word(s, "OR") \/ \E i \in DOMAIN parts : ~parts[i].ok \/ ~typed(parts[i]).ok THEN Err
  ELSE Ok([i \in DOMAIN parts |-> <<parts[i].v[1], parts[i].v[2], typed(parts[i]).v>>])

\* How a caller writes a clause: the value in a quote it does not hold.
Render(c) == c.column \o c.op \o <<" ", c.quote>> \o c.value \o <<c.quote>>
RenderAll(cs) ==
  FlattenSeq([i \in DOMAIN cs |-> IF i = 1 THEN Render(cs[i]) ELSE <<" ", "AND", " ">> \o Render(cs[i])])

-----------------------------------------------------------------------------
(* Values, columns and their Arrow types *)

Kinds == {"String", "Int", "Uint", "Float", "Bool", "Timestamp", "Enum"}
\* The float nearest to n: every integer up to F53, then every second, every fourth, and of
\* two as near the even one.
Nearest(n) ==
  LET a == IF n < 0 THEN -n ELSE n
      unit == Min({u \in {2 ^ k : k \in 0..4} : a <= F53 * u})
      down == a \div unit
      up == 2 * (a % unit) > unit \/ (2 * (a % unit) = unit /\ down % 2 = 1)
      near == (IF up THEN down + 1 ELSE down) * unit IN
  IF n < 0 THEN -near ELSE near

\* A JSON number is an i64 or u64 integer, or a float.
Json == [t : {"int"}, n : I64 \cup U64] \cup [t : {"float"}, n : {n \in I64 \cup U64 : Nearest(n) = n}] \cup [t : {"nan", "str", "null"}, n : {0}] \cup [t : {"bool"}, n : {0, 1}]
as_i64(v) == v.t = "int" /\ v.n \in I64
as_u64(v) == v.t = "int" /\ v.n \in U64
as_f64(v) == v.t \in {"int", "float"}
\* The number that a column of this kind takes a value for.
number(kind, v) == IF kind = "Float" THEN Nearest(v.n) ELSE v.n

validate_value(kind, v) ==
  CASE kind = "String" -> v.t = "str"
    [] kind \in {"Int", "Timestamp"} -> as_i64(v)
    [] kind = "Enum" -> as_i64(v) /\ v.n \in I32
    [] kind = "Uint" -> as_u64(v)
    [] kind = "Float" -> as_f64(v)
    [] kind = "Bool" -> v.t = "bool"

data_type(kind) ==
  CASE kind = "String" -> "Utf8" [] kind = "Int" -> "Int64" [] kind = "Enum" -> "Int32" [] kind = "Uint" -> "UInt64"
    [] kind = "Float" -> "Float64" [] kind = "Bool" -> "Boolean" [] kind = "Timestamp" -> "TimestampNanosecond"
from_schema(type) == CHOOSE k \in Kinds : data_type(k) = type

\* The column's cell: a value of another type becomes the default.
encode(kind, v) ==
  CASE kind \in {"Int", "Timestamp"} -> IF as_i64(v) THEN v.n ELSE 0
    [] kind = "Enum" -> IF as_i64(v) /\ v.n \in I32 THEN v.n ELSE 0
    [] kind = "Uint" -> IF as_u64(v) THEN v.n ELSE 0
    [] kind = "Float" -> IF as_f64(v) THEN number(kind, v) ELSE 0
    [] kind = "Bool" -> IF v.t = "bool" THEN v.n ELSE 0
    [] kind = "String" -> 0
decode_rows(type, cell) ==
  [t |-> CASE type \in {"Int64", "Int32", "UInt64", "TimestampNanosecond"} -> "int"
           [] type = "Float64" -> "float" [] type = "Boolean" -> "bool" [] type = "Utf8" -> "str", n |-> cell]

\* Rows are compared with a predicate's value as the column's kind.
compare(kind, a, b) ==
  IF ~(validate_value(kind, a) /\ validate_value(kind, b)) THEN "none"
  ELSE LET x == number(kind, a) y == number(kind, b) IN
       IF x < y THEN "less" ELSE IF x = y THEN "equal" ELSE "greater"

-----------------------------------------------------------------------------
(* Reductions: integers are summed exactly, and a caller is given the float of the result *)

\* The start of a bucket is an i64: below the least of them it wraps, or panics where
\* overflow is checked.
Start(t, width) == (t \div width) * width
Bucket(t, width) == ((Start(t, width) + W64 \div 2) % W64) - (W64 \div 2)
Acc(kind, rows) == [count |-> Len(rows), sum |-> FoldLeft(LAMBDA a, r : a + r.v, 0, rows),
                    min |-> Min({r.v : r \in ToSet(rows)}), max |-> Max({r.v : r \in ToSet(rows)})]
Exact(kind, n) == IF n \in (IF kind = "Uint" THEN U64 ELSE I64) THEN [t |-> "int", n |-> n] ELSE [t |-> "float", n |-> Nearest(n)]
finish(kind, rows, function) ==
  IF function = "count" THEN [t |-> "int", n |-> Len(rows)] ELSE Exact(kind, Acc(kind, rows)[function])
Groups(rows, width) ==
  [b \in {Bucket(r.time, width) : r \in ToSet(rows)} |-> SelectSeq(rows, LAMBDA r : Bucket(r.time, width) = b)]
Reduced(kind, rows, width) ==
  [b \in DOMAIN Groups(rows, width) |->
     [f \in {"count", "sum", "min", "max"} |-> finish(kind, Groups(rows, width)[b], f)]]
\* What Aggregate::buckets gives to the caller.
buckets(reduced) == [b \in DOMAIN reduced |-> [f \in DOMAIN reduced[b] |-> Nearest(reduced[b][f].n)]]

-----------------------------------------------------------------------------
Texts == UNION {[1..n -> Words] : n \in 0..MaxValue}
Clauses ==
  {c \in [column : {<<"a">>}, op : Range(OPERATORS), quote : Quotes, value : Texts] :
     c.quote \notin ToSet(c.value) /\ (Len(c.value) > 1 => c.op = <<"=">>)}
    \cup [column : {<<"b">>, <<"c">>}, op : {<<"=">>, <<">", "=">>}, quote : {"sq"}, value : {<<d>> : d \in {"OR"} \cup DOMAIN Numeral}]
RowSeqs(kind) == UNION {[1..n -> [time : {-4, -3, 0, 2}, v : IF kind = "Uint" THEN U64 ELSE I64]] : n \in 1..MaxRows}

RInit == in = [do |-> "none"] /\ out = <<>>

Parse(cs) ==
  /\ in' = [do |-> "parse", cs |-> cs]
  /\ out' = predicates(RenderAll(cs))
Store(kind, v, w) ==
  /\ validate_value(kind, v) /\ validate_value(kind, w)
  /\ in' = [do |-> "store", kind |-> kind, v |-> v, w |-> w]
  /\ out' = LET read == decode_rows(data_type(kind), encode(kind, v)) IN
            [value |-> read, order |-> compare(from_schema(data_type(kind)), read, w)]
Reduce(kind, rows, width) ==
  /\ in' = [do |-> "reduce", kind |-> kind, rows |-> rows, width |-> width]
  /\ \/ out' = [panicked |-> FALSE, rows |-> buckets(Reduced(kind, rows, width))]
     \/ (\E r \in ToSet(rows) : Start(r.time, width) \notin I64) /\ out' = [panicked |-> TRUE, rows |-> <<>>]
Again == in.do # "none" /\ in' = [do |-> "none"] /\ out' = <<>>

RNext ==
  \/ /\ in.do = "none"
     /\ \/ \E a \in Clauses : Parse(<<a>>) \/ \E b \in Clauses : b.op = <<"=">> /\ Len(b.value) <= 1 /\ Parse(<<a, b>>)
        \/ \E kind \in Kinds, v, w \in Json : Store(kind, v, w)
        \/ \E kind \in {"Int", "Uint"}, width \in Widths : \E rows \in RowSeqs(kind) : Reduce(kind, rows, width)
  \/ Again

RSpec == RInit /\ [][RNext]_<<in, out>>

-----------------------------------------------------------------------------
(* Properties *)

\* A filter means the clauses it was written from, typed by their columns, whatever operators,
\* quotes and words AND and OR stand inside quoted values; it is refused where a column is
\* unknown or a value is none of its kind (filter.rs predicates).
FilterExact ==
  LET typed(i) == coerce(in.cs[i].column, in.cs[i].value) IN
  in.do = "parse" =>
    out = IF \A i \in DOMAIN in.cs : typed(i).ok
          THEN Ok([i \in DOMAIN in.cs |-> <<in.cs[i].column, in.cs[i].op, typed(i).v>>])
          ELSE Err

\* A validated value is read back as the same number, in a float column as the float nearest
\* to it, and compares with a predicate as it did when written, at the ends of every width.
\* A row whose bucket begins at an i64 is in it, before the epoch too, and what the caller is
\* given is the float nearest to the exact result, however far the sum leaves its width and in
\* whatever order the rows came (record.rs, codec.rs, aggregate.rs, reduce.rs).
ValuesExact ==
  /\ in.do = "store" =>
       /\ IF in.kind = "Float" THEN out.value.n = Nearest(in.v.n) ELSE out.value = in.v
       /\ out.order = compare(in.kind, in.v, in.w)
  /\ in.do = "reduce" /\ ~out.panicked =>
       /\ \A r \in ToSet(in.rows) : Start(r.time, in.width) \in I64 =>
            \E b \in DOMAIN out.rows : b <= r.time /\ r.time < b + in.width
       /\ \A b \in DOMAIN out.rows : b % in.width = 0 =>
            LET mine == {i \in DOMAIN in.rows : b <= in.rows[i].time /\ in.rows[i].time < b + in.width}
                least == Min({in.rows[i].v : i \in mine}) most == Max({in.rows[i].v : i \in mine}) IN
            /\ out.rows[b]["count"] = Cardinality(mine)
            /\ out.rows[b]["sum"] = Nearest(MapThenSumSet(LAMBDA i : in.rows[i].v, mine))
            /\ out.rows[b]["min"] = Nearest(least) /\ out.rows[b]["max"] = Nearest(most)
=============================================================================
