----------------------------- MODULE JsonValue -----------------------------
(***************************************************************************)
(* Json::Value (jsoncpp.cpp): the tree a parser fills, a writer prints and *)
(* read_schema reads.  A character is its code, a text a sequence of them; *)
(* an array index i is the key <<i>>.  A number is counted in tenths, so   *)
(* that a real may have a fraction.  The limits of the integer types are   *)
(* constants.  A method that throws (JSON_ASSERT, JSON_FAIL_MESSAGE)       *)
(* returns Throws.                                                         *)
(***************************************************************************)
EXTENDS Integers, Sequences, FiniteSets, FiniteSetsExt, TLC

CONSTANTS
  MaxInt, MaxUInt,                 \* of Int and UInt
  MaxLargestInt, MaxLargestUInt    \* of the 64-bit types

MinInt == -MaxInt - 1

MinLargestInt == -MaxLargestInt - 1

Types == {"null", "int", "uint", "real", "string", "boolean", "array", "object"}

Placements == {"before", "same", "after"}

NoComments == [p \in Placements |-> <<>>]

(* Value(ValueType): tenths of a number, 1 for true, the text, the map. *)
Value(type) == [type |-> type, num |-> 0, text |-> <<>>, kids |-> << >>, com |-> NoComments]

Null == Value("null")

Number(type, tenths) == [Value(type) EXCEPT !.num = tenths]

Text(s) == [Value("string") EXCEPT !.text = s]

(* What a member function that throws std::runtime_error returns. *)
Throws == [Value("null") EXCEPT !.type = "throws"]

Container(v) == v.type \in {"array", "object"}

(* operator= swaps type and content and leaves the comments where they are. *)
Assign(old, new) == [new EXCEPT !.com = old.com]

(* size: the map of an array may have holes; its last key tells the size. *)
Size(v) ==
  CASE v.type = "array"  -> IF DOMAIN v.kids = {} THEN 0 ELSE 1 + Max({k[1] : k \in DOMAIN v.kids})
    [] v.type = "object" -> Cardinality(DOMAIN v.kids)
    [] OTHER             -> 0

Clear(v) == IF Container(v) \/ v.type = "null" THEN [v EXCEPT !.kids = << >>] ELSE Throws

(* operator[] and resolveReference: a null becomes a container of the right *)
(* kind, a missing entry is created with null.                              *)
Entry(v, kind, key) ==
  IF v.type \notin {"null", kind} THEN Throws
  ELSE [v EXCEPT !.type = kind, !.kids = @ @@ (key :> Null)]

SetEntry(v, kind, key, new) ==
  LET e == Entry(v, kind, key)
  IN  IF e = Throws THEN Throws
      ELSE [e EXCEPT !.kids[key] = Assign(@, new)]

(* resize: growing touches the last index only; shrinking erases from the   *)
(* new size on.                                                             *)
Resize(v, n) ==
  IF v.type \notin {"null", "array"} THEN Throws
  ELSE LET a == [v EXCEPT !.type = "array"]
       IN  CASE n = 0       -> Clear(a)
             [] n > Size(v) -> Entry(a, "array", <<n - 1>>)
             [] OTHER       -> [a EXCEPT !.kids =
                                  [k \in {j \in DOMAIN @ : j[1] < n} |-> @[k]]]

Append_(v, new) == SetEntry(v, "array", <<Size(v)>>, new)

RemoveMember(v, key) ==
  IF v.type \notin {"null", "object"} THEN Throws
  ELSE [v EXCEPT !.kids = [k \in DOMAIN @ \ {key} |-> @[k]]]

IsMember(v, key) == key \in DOMAIN v.kids

(* get(index, default) and get(key, default). *)
Get(v, kind, key, default) ==
  CASE v.type \notin {"null", kind} -> Throws
    [] IsMember(v, key)             -> v.kids[key]
    [] OTHER                        -> default

(* getMemberNames and the iterators: in the order of the keys, which is     *)
(* numeric for indices and strcmp's for names.                              *)
Before(a, b) ==
  \E i \in 1 .. Len(b) :
    /\ \A j \in 1 .. i - 1 : j <= Len(a) /\ a[j] = b[j]
    /\ i > Len(a) \/ a[i] < b[i]

Keys(v) ==
  LET rank(k) == Cardinality({j \in DOMAIN v.kids : Before(j, k)})
  IN  [i \in 1 .. Cardinality(DOMAIN v.kids) |-> CHOOSE k \in DOMAIN v.kids : rank(k) = i - 1]

(***************************************************************************)
(* Numbers.  isInt ... isNumeric and the conversions asInt ... asString.   *)
(***************************************************************************)
IsIntegral_(tenths) == tenths % 10 = 0

Within(v, low, high) ==
  /\ v.type \in {"int", "uint", "real"}
  /\ v.num >= 10 * low /\ v.num <= 10 * high
  /\ v.type = "real" => IsIntegral_(v.num)

IsInt(v) == Within(v, MinInt, MaxInt)

IsUInt(v) == Within(v, 0, MaxUInt)

IsInt64(v) == Within(v, MinLargestInt, MaxLargestInt)

IsUInt64(v) == Within(v, 0, MaxLargestUInt)

IsIntegral(v) == IsInt64(v) \/ IsUInt64(v)

IsDouble(v) == v.type = "real" \/ IsIntegral(v)

IsNumeric(v) == IsIntegral(v) \/ IsDouble(v)

(* The conversion of a double to an integer type drops the fraction. *)
Truncated(tenths) == IF tenths < 0 THEN -((-tenths) \div 10) ELSE tenths \div 10

(* InRange: both limits are converted to double, which rounds the largest   *)
(* 64-bit integers up to the next power of two.                             *)
AsDoubleLimit(n) == IF n \in {MaxLargestInt, MaxLargestUInt} THEN n + 1 ELSE n

InRange(tenths, low, high) == 10 * low <= tenths /\ tenths <= 10 * AsDoubleLimit(high)

(* asInt, asUInt, asInt64, asUInt64: an integer must be representable, a    *)
(* real within the limits, and is then truncated.                           *)
AsInteger(v, low, high, representable) ==
  CASE v.type \in {"int", "uint"} -> IF representable THEN Number("int", v.num) ELSE Throws
    [] v.type = "real"            -> IF InRange(v.num, low, high)
                                     THEN Number("int", 10 * Truncated(v.num)) ELSE Throws
    [] v.type = "null"            -> Number("int", 0)
    [] v.type = "boolean"         -> Number("int", 10 * v.num)
    [] OTHER                      -> Throws

AsInt(v) == AsInteger(v, MinInt, MaxInt, IsInt(v))

AsUInt(v) == AsInteger(v, 0, MaxUInt, IsUInt(v))

AsInt64(v) == AsInteger(v, MinLargestInt, MaxLargestInt, IsInt64(v))

AsUInt64(v) == AsInteger(v, 0, MaxLargestUInt, IsUInt64(v))

AsDouble(v) ==
  CASE v.type \in {"int", "uint", "real"} -> Number("real", v.num)
    [] v.type = "null"                    -> Number("real", 0)
    [] v.type = "boolean"                 -> Number("real", 10 * v.num)
    [] OTHER                              -> Throws

AsBool(v) ==
  CASE v.type = "boolean"                 -> v
    [] v.type = "null"                    -> Number("boolean", 0)
    [] v.type \in {"int", "uint", "real"} -> Number("boolean", IF v.num # 0 THEN 1 ELSE 0)
    [] OTHER                              -> Throws

(* Decimal digits of n, most significant first: uintToString. *)
RECURSIVE Digits(_)
Digits(n) == (IF n < 10 THEN <<>> ELSE Digits(n \div 10)) \o <<48 + (n % 10)>>

Minus == 45
Point == 46

(* valueToString: of an integer; of a double with %.16g, which prints an    *)
(* integral double as an integer.                                           *)
NumberText(tenths) ==
  LET abs == IF tenths < 0 THEN -tenths ELSE tenths
  IN  (IF tenths < 0 THEN <<Minus>> ELSE <<>>) \o Digits(abs \div 10)
      \o (IF abs % 10 = 0 THEN <<>> ELSE <<Point, 48 + (abs % 10)>>)

True_ == <<116, 114, 117, 101>>
False_ == <<102, 97, 108, 115, 101>>
Null_ == <<110, 117, 108, 108>>

AsString(v) ==
  CASE v.type = "null"                    -> Text(<<>>)
    [] v.type = "string"                  -> Text(v.text)
    [] v.type = "boolean"                 -> Text(IF v.num = 1 THEN True_ ELSE False_)
    [] v.type \in {"int", "uint", "real"} -> Text(NumberText(v.num))
    [] OTHER                              -> Throws

AsCString(v) == IF v.type = "string" THEN v ELSE Throws

(* isConvertibleTo, one line per target type. *)
IsConvertibleTo(v, other) ==
  LET real(low, high) == v.type = "real" /\ InRange(v.num, low, high)
  IN  CASE other = "null"    -> \/ IsNumeric(v) /\ v.num = 0
                                \/ v.type = "boolean" /\ v.num = 0
                                \/ v.type = "string" /\ v.text = <<>>
                                \/ Container(v) /\ DOMAIN v.kids = {}
                                \/ v.type = "null"
        [] other = "int"     -> IsInt(v) \/ real(MinInt, MaxInt) \/ v.type \in {"boolean", "null"}
        [] other = "uint"    -> IsUInt(v) \/ real(0, MaxUInt) \/ v.type \in {"boolean", "null"}
        [] other \in {"real", "boolean"} -> IsNumeric(v) \/ v.type \in {"boolean", "null"}
        [] other = "string"  -> IsNumeric(v) \/ v.type \in {"boolean", "string", "null"}
        [] OTHER             -> v.type \in {other, "null"}

(* operator== and operator<: by type, then content; containers by size,    *)
(* then entry by entry in the order of the keys.                            *)
RECURSIVE Equal(_, _), Less(_, _)

Equal(a, b) ==
  /\ a.type = b.type /\ a.num = b.num /\ a.text = b.text
  /\ DOMAIN a.kids = DOMAIN b.kids
  /\ \A k \in DOMAIN a.kids : Equal(a.kids[k], b.kids[k])

TypeRank(v) ==
  [null |-> 0, int |-> 1, uint |-> 2, real |-> 3, string |-> 4, boolean |-> 5, array |-> 6, object |-> 7][v.type]

EntryLess(a, i, b, j) ==
  LET p == Keys(a)[i]
      q == Keys(b)[j]
  IN  Before(p, q) \/ (p = q /\ Less(a.kids[p], b.kids[q]))

Less(a, b) ==
  IF a.type # b.type THEN TypeRank(a) < TypeRank(b)
  ELSE CASE a.type \in {"int", "uint", "real", "boolean"} -> a.num < b.num
         [] a.type = "string" -> Before(a.text, b.text)
         [] Container(a) ->
              LET n == Cardinality(DOMAIN a.kids)
                  m == Cardinality(DOMAIN b.kids)
              IN  \/ n < m
                  \/ n = m /\ \E i \in 1 .. n :
                                /\ EntryLess(a, i, b, i)
                                /\ \A j \in 1 .. i - 1 : ~EntryLess(b, j, a, j)
         [] OTHER -> FALSE

(***************************************************************************)
(* Path: the entries that a path names, one after the other.               *)
(***************************************************************************)
Kind(key) == IF Len(key) = 1 /\ key[1] < 32 THEN "array" ELSE "object"

RECURSIVE Resolve(_, _, _), Make(_, _, _)

(* Path::resolve with a default: the default for a node of another type, an *)
(* index past the end or a missing member; a hole of an array is null.      *)
Resolve(v, path, default) ==
  IF path = <<>> THEN v
  ELSE LET key == Head(path)
       IN  IF \/ v.type # Kind(key)
              \/ v.type = "array" /\ key[1] >= Size(v)
              \/ v.type = "object" /\ ~IsMember(v, key)
           THEN default
           ELSE Resolve(Get(v, v.type, key, Null), Tail(path), default)

(* Path::make, then an assignment of new to the node it returns. *)
Make(v, path, new) ==
  IF path = <<>> THEN Assign(v, new)
  ELSE LET e == Entry(v, Kind(Head(path)), Head(path))
           kid == IF e = Throws THEN Throws ELSE Make(e.kids[Head(path)], Tail(path), new)
       IN  IF Throws \in {e, kid} THEN Throws ELSE [e EXCEPT !.kids[Head(path)] = kid]
=============================================================================
