-------------------------------- MODULE Json --------------------------------
(***************************************************************************)
(* jsoncpp at work: a document is typed piece by piece and every prefix is *)
(* parsed, printed and parsed again; a value is edited by the methods of   *)
(* Json::Value.                                                            *)
(***************************************************************************)
EXTENDS JsonReader

CONSTANTS Scripts,    \* what may be typed: [opening, pieces, max]
          Scalars,    \* the scalars that are stored
          Elements,   \* those that are stored in a container
          MaxSize     \* the largest size of an array

VARIABLES script,     \* what is typed: an opening, then up to max of the pieces
          doc,        \* the document
          typed,      \* how many pieces were typed
          val         \* the value that is edited, while no document is typed

vars == <<script, doc, typed, val>>

Init == script \in Scripts /\ doc = script.opening /\ typed = 0 /\ val = Null

Type == /\ typed < script.max
        /\ \E p \in script.pieces : doc' = doc \o p
        /\ typed' = typed + 1
        /\ UNCHANGED <<script, val>>

Keys_ == {<<97>>, <<98>>}

Edited(new) == script.max = 0 /\ new # Throws /\ val' = new /\ UNCHANGED <<script, doc, typed>>

SetIndex == \E i \in 0 .. MaxSize - 1, s \in Elements : Edited(SetEntry(val, "array", <<i>>, s))

SetMember == \E k \in Keys_, s \in Elements : Edited(SetEntry(val, "object", k, s))

AppendValue == \E s \in Elements : Size(val) < MaxSize /\ Edited(Append_(val, s))

ResizeTo == \E n \in 0 .. MaxSize : Edited(Resize(val, n))

Remove == \E k \in Keys_ : Edited(RemoveMember(val, k))

ClearAll == Edited(Clear(val))

MakePath == \E k \in Keys_, i \in 0 .. MaxSize - 1, s \in Elements : Edited(Make(val, <<k, <<i>>>>, s))

Store == \E s \in Scalars : val = Null /\ Edited(Assign(val, s))

Next == Type \/ SetIndex \/ SetMember \/ AppendValue \/ ResizeTo \/ Remove \/ ClearAll \/ MakePath \/ Store

Spec == Init /\ [][Next]_vars

-----------------------------------------------------------------------------
RECURSIVE SameValue(_, _)

(* Equal up to holes (null), comments, and the type of an integral number. *)
SameValue(a, b) ==
  /\ a.num = b.num /\ a.text = b.text /\ Size(a) = Size(b)
  /\ a.type = b.type \/ {a.type, b.type} \subseteq {"int", "uint", "real"}
  /\ a.type = "array" => \A i \in 1 .. Size(a) : SameValue(Element(a, i), Element(b, i))
  /\ a.type = "object" => /\ DOMAIN a.kids = DOMAIN b.kids
                          /\ \A k \in DOMAIN a.kids : SameValue(a.kids[k], b.kids[k])

Reads(r, v) == r.ok /\ r.errors = 0 /\ SameValue(r.root, v)

PrintsBack(v) == \A text \in {Fast(v), Styled(v), StyledStream(v)} : Reads(Parse(text, TRUE), v)

ReadThenPrinted(r) == IF val = Null THEN r.ok => PrintsBack(r.root) ELSE PrintsBack(val)

\* What the three writers print of a value, with the comments the reader has
\* attached to it, is a document with that value: no comment swallows what
\* follows it, and no escape or number changes its meaning.
PrintedIsReadBack == ReadThenPrinted(Parse(doc, TRUE))

FailsOpenly(r, s) ==
  /\ ~r.misused
  /\ r.ok <=> r.errors = 0
  /\ r.ok <=> s.ok
  /\ r.ok => Equal(r.root, s.root)

\* A parse fails exactly if it reports an error, though recovery discards the
\* errors it meets; collecting comments neither changes the value nor touches a
\* value that was destroyed (a member whose name comes twice).
FailuresAreReported ==
  val = Null => FailsOpenly(Parse(doc, TRUE), Parse(doc, FALSE))

\* A number that is only digits has exactly their value, up to and over every
\* limit: it is an int or uint as long as it fits, and a real from then on; the
\* accumulator of decodeNumber never wraps around.
NumbersAreExact ==
  LET neg    == doc # <<>> /\ doc[1] = Minus
      digits == IF neg THEN Tail(doc) ELSE doc
      exact  == NumberOf(digits)
      limit  == IF neg THEN -MinLargestInt ELSE MaxLargestUInt
  IN  digits # <<>> /\ (\A i \in DOMAIN digits : digits[i] \in DigitChars) =>
        \E r \in {Parse(doc, FALSE)} :
          /\ r.ok /\ r.root.num = 10 * (IF neg THEN -exact ELSE exact)
          /\ r.root.type = "real" <=> exact > limit
          /\ r.root.type = "int" <=> exact <= limit /\ (neg \/ exact <= MaxInt)

\* isConvertibleTo says exactly when a conversion does not throw, and what is
\* converted fits its type, except that a double of 2^63 (2^64) passes for an
\* Int64 (UInt64).  Exactly one of <, == and > holds of two values.  resize
\* gives the size asked for unless it cuts an array behind a hole.  A path
\* resolves to what was stored at it.
ValuesAgree ==
  /\ \A conv \in {<<"int", AsInt(val)>>, <<"uint", AsUInt(val)>>, <<"real", AsDouble(val)>>,
                  <<"boolean", AsBool(val)>>, <<"string", AsString(val)>>} :
       IsConvertibleTo(val, conv[1]) <=> conv[2] # Throws
  /\ AsInt(val) # Throws => IsInt(AsInt(val))
  /\ AsUInt(val) # Throws => IsUInt(AsUInt(val))
  /\ AsInt64(val) # Throws => IsInt64(AsInt64(val)) \/ val.num = 10 * MaxLargestInt + 10
  /\ AsUInt64(val) # Throws => IsUInt64(AsUInt64(val)) \/ val.num = 10 * MaxLargestUInt + 10
  /\ \A s \in Scalars \cup {Append_(Value("array"), s) : s \in Scalars} :
       Cardinality({c \in 1 .. 3 : <<Less(val, s), Equal(val, s), Less(s, val)>>[c]}) = 1
  /\ \A n \in 1 .. MaxSize :
       Resize(val, n) # Throws =>
         (Size(Resize(val, n)) = n <=> n > Size(val) \/ IsMember(val, <<n - 1>>))
  /\ \A s \in Elements : LET path == <<<<97>>, <<1>>>>
                            made == Make(val, path, s)
                        IN  made # Throws => Equal(Resolve(made, path, Throws), s)

=============================================================================
