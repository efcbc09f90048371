----------------------------- MODULE JsonReader -----------------------------
(***************************************************************************)
(* Json::Reader and the three writers (jsoncpp.cpp), and how read_schema   *)
(* (library.cc) reads the tree.  The reader is a record:                   *)
(*   doc, cur   the document and the number of characters consumed;        *)
(*   tok, ok    the last token; what the last method returned;             *)
(*   root       the tree; nodes, the stack of nodes, is the path of keys   *)
(*              to its top;                                                *)
(*   errors     the number of errors;                                      *)
(*   before, lastEnd, last   commentsBefore_, lastValueEnd_ (-1 for 0) and *)
(*              lastValue_, a path, or Dangling once the node is freed;    *)
(*   misused    a comment was attached through a freed lastValue_.         *)
(* Characters are their codes.  Messages and offsets are left out.         *)
(***************************************************************************)
EXTENDS JsonValue

CONSTANTS
  Features,          \* the record of Features: comments, strictRoot, droppedNulls, numericKeys
  RightMargin, IndentSize

LBrace == 123
RBrace == 125
LBracket == 91
RBracket == 93
Comma == 44
Colon == 58
Quote == 34
Backslash == 92
Slash == 47
Star == 42
Space == 32
NewLine == 10
Return_ == 13

Dangling == <<<<-1>>>>

RECURSIVE NodeAt(_, _), PutAt(_, _, _)

NodeAt(v, path) == IF path = <<>> THEN v ELSE NodeAt(v.kids[Head(path)], Tail(path))

PutAt(v, path, node) ==
  IF path = <<>> THEN node
  ELSE [v EXCEPT !.kids[Head(path)] = PutAt(@, Tail(path), node)]

Current(r) == NodeAt(r.root, r.nodes)

(* currentValue() = new: the entries the node had are destroyed. *)
SetCurrent(r, new) ==
  LET below == Len(r.last) > Len(r.nodes) /\ SubSeq(r.last, 1, Len(r.nodes)) = r.nodes
  IN  [r EXCEPT !.root = PutAt(@, r.nodes, Assign(Current(r), new)),
                !.last = IF r.lastEnd >= 0 /\ below THEN Dangling ELSE @]

(* nodes_.push(&currentValue()[key]) and nodes_.pop(). *)
Push(r, kind, key) ==
  [r EXCEPT !.root = PutAt(@, r.nodes, Entry(Current(r), kind, key)), !.nodes = Append(@, key)]

Pop(r) == [r EXCEPT !.nodes = SubSeq(@, 1, Len(@) - 1)]

(* addError: every caller returns the false it returns. *)
AddError(r) == [r EXCEPT !.errors = @ + 1, !.ok = FALSE]

Good(r) == [r EXCEPT !.ok = TRUE]

(***************************************************************************)
(* Tokens.                                                                 *)
(***************************************************************************)
CharAt(r, i) == IF i < Len(r.doc) THEN r.doc[i + 1] ELSE 0

(* The first position from i on with a character in S, or the end. *)
Find(r, i, S) == Min({Len(r.doc)} \cup {j \in i .. Len(r.doc) - 1 : CharAt(r, j) \in S})

FindNot(r, i, S) == Min({Len(r.doc)} \cup {j \in i .. Len(r.doc) - 1 : CharAt(r, j) \notin S})

SkipSpaces(r) == [r EXCEPT !.cur = FindNot(r, @, {Space, 9, Return_, NewLine})]

ContainsNewLine(r, i, j) == \E k \in i .. j - 1 : CharAt(r, k) \in {NewLine, Return_}

(* readCStyleComment and readCppStyleComment, from i on: the position they  *)
(* stop at and whether the comment is complete.                             *)
CommentEnd(r, i) ==
  LET ends == {j \in i + 1 .. Len(r.doc) - 2 : CharAt(r, j) = Star /\ CharAt(r, j + 1) = Slash}
      line == Find(r, i + 1, {NewLine, Return_})
  IN  CASE CharAt(r, i) = Star  -> IF ends = {} THEN [at |-> Len(r.doc), ok |-> FALSE]
                                   ELSE [at |-> Min(ends) + 2, ok |-> TRUE]
        [] CharAt(r, i) = Slash -> [at |-> Min({Len(r.doc), line + 1}), ok |-> TRUE]
        [] OTHER                -> [at |-> Min({Len(r.doc), i + 1}), ok |-> FALSE]

SetComment(r, path, place, text) == [r EXCEPT !.root = PutAt(@, path, [NodeAt(@, path) EXCEPT !.com[place] = text])]

(* addComment: to the last value if it is on the same line, or kept for the *)
(* next one.                                                                *)
AddComment(r, begin, end) ==
  LET text == SubSeq(r.doc, begin + 1, end)
      same == /\ r.lastEnd >= 0
              /\ ~ContainsNewLine(r, r.lastEnd, begin)
              /\ CharAt(r, begin + 1) = Star => ~ContainsNewLine(r, begin, end)
  IN  CASE same /\ r.last = Dangling -> [r EXCEPT !.misused = TRUE]
        [] same                      -> SetComment(r, r.last, "same", text)
        [] OTHER                     -> [r EXCEPT !.before = @ \o (IF @ = <<>> THEN <<>> ELSE <<NewLine>>) \o text]

EndComment(r, start, ok) ==
  IF ~ok THEN [r EXCEPT !.tok.type = "error"]
  ELSE IF r.collect THEN AddComment(r, start, r.cur) ELSE r

ReadComment(r, start) ==
  LET end == CommentEnd(r, start + 1) IN EndComment([r EXCEPT !.cur = end.at], start, end.ok)

(* readString: the position after the closing quote, or the end.            *)
RECURSIVE StringEnd(_, _)

StringEnd(r, i) ==
  CASE i >= Len(r.doc)            -> [at |-> Len(r.doc), ok |-> FALSE]
    [] CharAt(r, i) = Quote       -> [at |-> i + 1, ok |-> TRUE]
    [] CharAt(r, i) = Backslash   -> StringEnd(r, i + 2)
    [] OTHER                      -> StringEnd(r, i + 1)

DigitChars == 48 .. 57

Words == [true |-> True_, false |-> False_, null |-> Null_]

Punctuation == LBrace :> "{" @@ RBrace :> "}" @@ LBracket :> "[" @@ RBracket :> "]"
               @@ Comma :> "," @@ Colon :> ":"

(* The token that starts at s.  A word that does not match is an error      *)
(* token of one character.                                                  *)
TokenAt(r, s) ==
  LET c     == CharAt(r, s)
      upTo(i, type) == [r EXCEPT !.cur = i, !.tok = [type |-> type, start |-> s, end |-> i]]
      words == {w \in DOMAIN Words : SubSeq(r.doc, s + 1, Min({Len(r.doc), s + Len(Words[w])})) = Words[w]}
  IN  CASE s = Len(r.doc)               -> upTo(s, "eos")
        [] c \in DOMAIN Punctuation     -> upTo(s + 1, Punctuation[c])
        [] c = Quote                    -> LET e == StringEnd(r, s + 1)
                                           IN  upTo(e.at, IF e.ok THEN "string" ELSE "error")
        [] c = Slash                    -> ReadComment(upTo(s + 1, "comment"), s)
        [] c \in DigitChars \cup {Minus} ->
             upTo(FindNot(r, s + 1, DigitChars \cup {Point, 101, 69, 43, Minus}), "number")
        [] words # {}                   -> LET w == CHOOSE w \in words : TRUE IN upTo(s + Len(Words[w]), w)
        [] OTHER                        -> upTo(s + 1, "error")

ReadToken(r) == TokenAt(r, SkipSpaces(r).cur)

(* The loops that pass over comments, with the last token read. *)
RECURSIVE Uncommented(_)
Uncommented(r) == IF r.tok.type = "comment" THEN Uncommented(ReadToken(r)) ELSE r

PastComments(r) == Uncommented(ReadToken(r))

SkipCommentTokens(r) == IF Features.comments THEN PastComments(r) ELSE ReadToken(r)

RECURSIVE SkipUntil(_, _)
SkipUntil(r, type) ==
  IF r.tok.type \in {type, "eos"} THEN r ELSE SkipUntil(ReadToken(r), type)

(* recoverFromError: passes over tokens up to type; the result is false. *)
RecoverFromError(r, type) == [SkipUntil(ReadToken(r), type) EXCEPT !.ok = FALSE]

(***************************************************************************)
(* Numbers and strings.                                                    *)
(***************************************************************************)
TokenText(r) == SubSeq(r.doc, r.tok.start + 1, r.tok.end)

RECURSIVE NumberOf(_)
NumberOf(digits) == IF digits = <<>> THEN 0
                    ELSE 10 * NumberOf(SubSeq(digits, 1, Len(digits) - 1)) + digits[Len(digits)] - 48

(* sscanf "%lf": the longest prefix that is a number, in tenths; a text     *)
(* without a digit there is not a number.                                   *)
ScanDouble(text) ==
  LET neg   == text[1] = Minus
      body  == IF neg THEN Tail(text) ELSE text
      span(s) == SubSeq(s, 1, Min({Len(s)} \cup {i - 1 : i \in {j \in 1 .. Len(s) : s[j] \notin DigitChars}}))
      whole == span(body)
      frac  == IF Len(body) > Len(whole) /\ body[Len(whole) + 1] = Point
               THEN span(SubSeq(body, Len(whole) + 2, Len(body))) ELSE <<>>
      abs   == 10 * NumberOf(whole) + (IF frac = <<>> THEN 0 ELSE frac[1] - 48)
  IN  IF whole = <<>> /\ frac = <<>> THEN Throws ELSE Number("real", IF neg THEN -abs ELSE abs)

(* Deviation: the last digit is never allowed to use up the rounding. *)
DevNoRoundingDelta(value, digit, last, max) == value < max \div 10

(* The check of decodeNumber that value * 10 + digit does not pass max. *)
DigitFits(value, digit, last, max) ==
  \/ value < max \div 10
  \/ value = max \div 10 /\ last /\ digit <= max % 10

RECURSIVE Accumulate(_, _, _)

(* The loop of decodeNumber: the value, -1 for a character that is no       *)
(* digit, -2 for a number that is read as a double instead.                 *)
Accumulate(value, digits, max) ==
  CASE digits = <<>> -> value
    [] Head(digits) \notin DigitChars -> -1
    [] ~DigitFits(value, Head(digits) - 48, Len(digits) = 1, max) -> -2
    [] OTHER -> Accumulate(10 * value + Head(digits) - 48, Tail(digits), max)

(* decodeNumber: the value of the number, Throws for an error. *)
Decoded(text, value) ==
  CASE value = -1                            -> Throws
    [] value = -2                            -> ScanDouble(text)
    [] value >= 0 /\ text[1] = Minus         -> Number("int", -10 * value)
    [] value \in 0 .. MaxInt /\ text[1] # Minus -> Number("int", 10 * value)
    [] OTHER                                 -> Number("uint", 10 * value)

DecodeNumber(text) ==
  LET double == \E i \in DOMAIN text : text[i] \in {Point, 101, 69, 43} \/ (text[i] = Minus /\ i > 1)
  IN  Decoded(text, IF double THEN -2
                    ELSE IF text[1] = Minus THEN Accumulate(0, Tail(text), -MinLargestInt)
                    ELSE Accumulate(0, text, MaxLargestUInt))

(* codePointToUTF8 *)
CodePointToUTF8(cp) ==
  LET six(n) == 128 + ((cp \div n) % 64)
  IN  CASE cp <= 127     -> <<cp>>
        [] cp <= 2047    -> <<192 + (cp \div 64), six(1)>>
        [] cp <= 65535   -> <<224 + (cp \div 4096), six(64), six(1)>>
        [] cp <= 1114111 -> <<240 + (cp \div 262144), six(4096), six(64), six(1)>>
        [] OTHER         -> <<>>

HexDigit(c) == CASE c \in DigitChars -> c - 48
                 [] c \in 97 .. 102  -> c - 87
                 [] c \in 65 .. 70   -> c - 55
                 [] OTHER            -> -1

(* decodeUnicodeEscapeSequence: four hexadecimal digits of s from i on. *)
HexAt(s, i) ==
  IF Len(s) < i + 3 \/ \E j \in i .. i + 3 : HexDigit(s[j]) = -1 THEN -1
  ELSE 4096 * HexDigit(s[i]) + 256 * HexDigit(s[i + 1]) + 16 * HexDigit(s[i + 2]) + HexDigit(s[i + 3])

(* decodeUnicodeCodePoint: the code point (-1 for an error) and the position *)
(* after it; the first half of a surrogate pair needs the second one.        *)
CodePointAt(s, i) ==
  LET unicode == HexAt(s, i)
      second  == IF Len(s) >= i + 9 /\ s[i + 4] = Backslash /\ s[i + 5] = 117 THEN HexAt(s, i + 6) ELSE -1
  IN  CASE unicode \notin 55296 .. 56319 -> [cp |-> unicode, at |-> i + 4]
        [] second = -1                   -> [cp |-> -1, at |-> i]
        [] OTHER -> [cp |-> 65536 + 1024 * (unicode % 1024) + (second % 1024), at |-> i + 10]

Escapes == Quote :> Quote @@ Slash :> Slash @@ Backslash :> Backslash
           @@ 98 :> 8 @@ 102 :> 12 @@ 110 :> NewLine @@ 114 :> Return_ @@ 116 :> 9

BadString == <<-1>>

RECURSIVE Unescape(_, _, _)

(* The loop of decodeString over the text between the quotes. *)
Unescape(s, i, done) ==
  CASE i > Len(s)         -> done
    [] s[i] # Backslash   -> Unescape(s, i + 1, Append(done, s[i]))
    [] i = Len(s)         -> BadString
    [] s[i + 1] = 117     -> LET u == CodePointAt(s, i + 2)
                             IN  IF u.cp = -1 THEN BadString
                                 ELSE Unescape(s, u.at, done \o CodePointToUTF8(u.cp))
    [] s[i + 1] \in DOMAIN Escapes -> Unescape(s, i + 2, Append(done, Escapes[s[i + 1]]))
    [] OTHER              -> BadString

(* A std::string that becomes a Value or a key is cut at its first 0. *)
CString(s) == SubSeq(s, 1, Min({Len(s)} \cup {i - 1 : i \in {j \in 1 .. Len(s) : s[j] = 0}}))

DecodeString(text) == Unescape(SubSeq(text, 2, Len(text) - 1), 1, <<>>)

(***************************************************************************)
(* Values.                                                                 *)
(***************************************************************************)
RECURSIVE ReadValue(_), ReadMembers(_, _), ReadElements(_, _)

(* decodeNumber(token) and decodeString(token): store what the token says. *)
Stored(r, v, error) == IF v = error THEN AddError(r) ELSE Good(SetCurrent(r, v))

StoreNumber(r) == Stored(r, DecodeNumber(TokenText(r)), Throws)

StoreString(r) == Stored(r, Text(CString(DecodeString(TokenText(r)))), Text(BadString))

(* The name of a member, BadString for a token that is not a name. *)
NameOf(r) ==
  CASE r.tok.type = "string" -> DecodeString(TokenText(r))
    [] r.tok.type = "number" /\ Features.numericKeys -> AsString(DecodeNumber(TokenText(r))).text
    [] OTHER -> BadString

(* readObject: a turn of its loop, from the token that should be a name; one *)
(* operator for each token it reads.  name is the last member's.  A closing  *)
(* brace is the end of the object while name is empty.  After a comment any  *)
(* token but a brace counts as a comma.                                      *)
AfterComma(r, name) == IF r.tok.type = "}" THEN Good(r) ELSE ReadMembers(PastComments(r), name)

AfterValue(r, name) ==
  IF r.tok.type \notin {"}", ",", "comment"} THEN RecoverFromError(AddError(r), "}")
  ELSE AfterComma(Uncommented(r), name)

AfterColon(r, name) == IF r.ok THEN AfterValue(ReadToken(r), name) ELSE RecoverFromError(r, "}")

AfterName(r, name) ==
  IF r.tok.type # ":" THEN RecoverFromError(AddError(r), "}")
  ELSE AfterColon(Pop(ReadValue(Push(r, "object", CString(name)))), name)

Named(r, name) ==
  IF name = BadString THEN RecoverFromError(AddError(r), "}") ELSE AfterName(ReadToken(r), name)

ReadMembers(r, name) ==
  IF r.tok.type = "}" /\ name = <<>> THEN Good(r) ELSE Named(r, NameOf(r))

(* readArray after the bracket, from element index on. *)
AfterElementToken(r, index) ==
  CASE r.tok.type \notin {",", "]"} -> RecoverFromError(AddError(r), "]")
    [] r.tok.type = "]"             -> Good(r)
    [] OTHER                        -> ReadElements(r, index + 1)

AfterElement(r, index) ==
  IF r.ok THEN AfterElementToken(PastComments(r), index) ELSE RecoverFromError(r, "]")

ReadElements(r, index) ==
  AfterElement(Pop(ReadValue(Push(r, "array", <<index>>))), index)

Elements0(r) == IF CharAt(r, r.cur) = RBracket THEN Good(ReadToken(r)) ELSE ReadElements(r, 0)

ReadArray(r) == Elements0(SkipSpaces(SetCurrent(r, Value("array"))))

StripNewLines(s) == SubSeq(s, 1, Max({0} \cup {i \in 1 .. Len(s) : s[i] \notin {NewLine, Return_}}))

(* The end of readValue: the next comment on this line is about this value. *)
Remember(r) == IF r.collect THEN [r EXCEPT !.lastEnd = r.cur, !.last = r.nodes] ELSE r

(* The comments in front of a value become its own. *)
TakeComments(r) ==
  IF r.collect /\ r.before # <<>>
  THEN [SetComment(r, r.nodes, "before", StripNewLines(r.before)) EXCEPT !.before = <<>>]
  ELSE r

ValueOfToken(r) ==
  CASE r.tok.type = "{"      -> Remember(ReadMembers(PastComments(SetCurrent(r, Value("object"))), <<>>))
    [] r.tok.type = "["      -> Remember(ReadArray(r))
    [] r.tok.type = "number" -> Remember(StoreNumber(r))
    [] r.tok.type = "string" -> Remember(StoreString(r))
    [] r.tok.type = "true"   -> Remember(Good(SetCurrent(r, Number("boolean", 1))))
    [] r.tok.type = "false"  -> Remember(Good(SetCurrent(r, Number("boolean", 0))))
    [] r.tok.type = "null"   -> Remember(Good(SetCurrent(r, Null)))
    [] r.tok.type = "," /\ Features.droppedNulls ->
         Remember(Good([SetCurrent(r, Null) EXCEPT !.cur = @ - 1]))
    [] OTHER                 -> AddError(r)

ReadValue(r) == ValueOfToken(TakeComments(SkipCommentTokens(r)))

Reader(doc, collect) ==
  [doc |-> doc, cur |-> 0, tok |-> [type |-> "eos", start |-> 0, end |-> 0], ok |-> TRUE,
   root |-> Null, nodes |-> <<>>, errors |-> 0, collect |-> collect /\ Features.comments,
   before |-> <<>>, lastEnd |-> -1, last |-> <<>>, misused |-> FALSE]

(* parse.  What follows the root value is read as one token and otherwise   *)
(* ignored.                                                                 *)
AfterRoot(r) == IF r.collect /\ r.before # <<>> THEN SetComment(r, <<>>, "after", r.before) ELSE r

Rooted(r) == IF Features.strictRoot /\ ~Container(r.root) THEN AddError(r) ELSE r

Parse(doc, collect) == Rooted(AfterRoot(SkipCommentTokens(ReadValue(Reader(doc, collect)))))

(***************************************************************************)
(* Writers.                                                                *)
(***************************************************************************)
RECURSIVE Flat(_), Fast(_)

Flat(seqs) == IF seqs = <<>> THEN <<>> ELSE Head(seqs) \o Flat(Tail(seqs))

Hex4(n) == LET hex(d) == IF d < 10 THEN 48 + d ELSE 55 + d
           IN  <<48, 48, hex(n \div 16), hex(n % 16)>>

(* Deviation: a backslash is printed as it is. *)
DevKeepsBackslash(c) ==
  IF c \in {Quote} \cup (8 .. 10) \cup {12, Return_}
  THEN <<Backslash, CHOOSE e \in DOMAIN Escapes : Escapes[e] = c>> ELSE <<c>>

(* One character of valueToQuotedString. *)
Quoted1(c) ==
  CASE c \in {Quote, Backslash, 8, 9, NewLine, 12, Return_} ->
         <<Backslash, CHOOSE e \in DOMAIN Escapes : Escapes[e] = c>>
    [] c \in 1 .. 31 -> <<Backslash, 117>> \o Hex4(c)
    [] OTHER -> <<c>>

Quoted(s) == <<Quote>> \o Flat([i \in DOMAIN s |-> Quoted1(s[i])]) \o <<Quote>>

Scalar(v) ==
  CASE v.type = "null"    -> Null_
    [] v.type = "boolean" -> IF v.num = 1 THEN True_ ELSE False_
    [] v.type = "string"  -> Quoted(v.text)
    [] OTHER              -> NumberText(v.num)

(* value[index] of a const array: null in a hole. *)
Element(v, i) == Get(v, "array", <<i - 1>>, Null)

(* FastWriter::writeValue *)
Fast(v) ==
  CASE v.type = "array" ->
         <<LBracket>> \o Flat([i \in 1 .. Size(v) |->
                                 (IF i > 1 THEN <<Comma>> ELSE <<>>) \o Fast(Element(v, i))]) \o <<RBracket>>
    [] v.type = "object" ->
         <<LBrace>> \o Flat([i \in 1 .. Size(v) |->
                               (IF i > 1 THEN <<Comma>> ELSE <<>>) \o Quoted(Keys(v)[i])
                               \o <<Colon>> \o Fast(v.kids[Keys(v)[i]])]) \o <<RBrace>>
    [] OTHER -> Scalar(v)

(* normalizeEOL *)
NormalizeEOL(s) ==
  Flat([i \in DOMAIN s |-> CASE s[i] = Return_ -> <<NewLine>>
                             [] s[i] = NewLine /\ i > 1 /\ s[i - 1] = Return_ -> <<>>
                             [] OTHER -> <<s[i]>>])

Spaces(n) == [i \in 1 .. n |-> Space]

Put(w, text) == [w EXCEPT !.doc = @ \o text]

(* writeIndent: of StyledWriter, which looks at the last character, and of  *)
(* StyledStreamWriter, which always starts a line.                          *)
WriteIndent(w) ==
  LET last == IF w.doc = <<>> THEN 0 ELSE w.doc[Len(w.doc)]
  IN  CASE w.stream                        -> Put(w, <<NewLine>> \o Spaces(w.indent))
        [] ~w.stream /\ last = Space       -> w
        [] ~w.stream /\ last \in {0, NewLine} -> Put(w, Spaces(w.indent))
        [] OTHER                           -> Put(w, <<NewLine>> \o Spaces(w.indent))

RECURSIVE PutComment(_, _)

(* The loop over a comment: a line that starts with / is indented. *)
PutComment(w, s) ==
  IF s = <<>> THEN w
  ELSE LET p == Put(w, <<Head(s)>>)
       IN  PutComment(IF Head(s) = NewLine /\ Len(s) > 1 /\ s[2] = Slash THEN WriteIndent(p) ELSE p, Tail(s))

WriteCommentBefore(w, v) ==
  LET text == NormalizeEOL(v.com["before"])
  IN  CASE text = <<>> -> w
        [] text # <<>> /\ w.stream -> Put(w, text \o <<NewLine>>)
        [] OTHER -> Put(PutComment(WriteIndent(Put(w, <<NewLine>>)), text), <<NewLine>>)

WriteCommentAfter(w, v) ==
  LET on   == v.com["same"]
      next == v.com["after"]
      p    == IF on = <<>> THEN w ELSE Put(w, <<Space>> \o NormalizeEOL(on))
  IN  IF next = <<>> THEN p ELSE Put(p, <<NewLine>> \o NormalizeEOL(next) \o <<NewLine>>)

Indent(w) == [w EXCEPT !.indent = @ + IndentSize]

Unindent(w) == [w EXCEPT !.indent = @ - IndentSize]

(* What isMultineArray collects: the texts of elements that are short. *)
ChildText(v) == CASE v.type = "array" -> <<LBracket, RBracket>>
                  [] v.type = "object" -> <<LBrace, RBrace>>
                  [] OTHER -> Scalar(v)

IsMultilineArray(v) ==
  LET n == Size(v)
  IN  \/ 3 * n >= RightMargin
      \/ \E i \in 1 .. n : Container(Element(v, i)) /\ Size(Element(v, i)) > 0
      \/ 2 + 2 * n + Len(Flat([i \in 1 .. n |-> ChildText(Element(v, i))])) >= RightMargin

RECURSIVE WriteValue(_, _), WriteEntries(_, _, _)

(* The loop over the elements of a multi-line array or the members of an    *)
(* object, from the i-th on.                                                *)
WriteEntries(w, v, i) ==
  LET kid  == IF v.type = "array" THEN Element(v, i) ELSE v.kids[Keys(v)[i]]
      head == WriteIndent(WriteCommentBefore(w, kid))
      body == IF v.type = "array" THEN WriteValue(head, kid)
              ELSE WriteValue(Put(head, Quoted(Keys(v)[i]) \o <<Space, Colon, Space>>), kid)
  IN  IF i = Size(v) THEN WriteCommentAfter(body, kid)
      ELSE WriteEntries(WriteCommentAfter(Put(body, <<Comma>>), kid), v, i + 1)

(* writeValue and writeArrayValue of both styled writers. *)
WriteValue(w, v) ==
  LET open  == IF v.type = "array" THEN LBracket ELSE LBrace
      close == IF v.type = "array" THEN RBracket ELSE RBrace
      line  == Flat([i \in 1 .. Size(v) |->
                       (IF i > 1 THEN <<Comma, Space>> ELSE <<>>) \o ChildText(Element(v, i))])
  IN  CASE ~Container(v) \/ Size(v) = 0 -> Put(w, ChildText(v))
        [] v.type = "array" /\ Size(v) > 0 /\ ~IsMultilineArray(v) ->
             Put(w, <<LBracket, Space>> \o line \o <<Space, RBracket>>)
        [] OTHER -> Put(WriteIndent(Unindent(WriteEntries(Indent(Put(WriteIndent(w), <<open>>)), v, 1))), <<close>>)

Write(v, stream) ==
  LET w == WriteCommentBefore([doc |-> <<>>, indent |-> 0, stream |-> stream], v)
  IN  WriteCommentAfter(WriteValue(w, v), v).doc \o <<NewLine>>

(* StyledWriter::write; StyledStreamWriter is the same code but for the two *)
(* places where w.stream is looked at.                                      *)
Styled(v) == Write(v, FALSE)

StyledStream(v) == Write(v, TRUE)

(***************************************************************************)
(* read_schema (library.cc) on the file doc.                               *)
(***************************************************************************)
NameKey == <<110, 97, 109, 101>>
TypeKey == <<116, 121, 112, 101>>
LengthKey == <<108, 101, 110, 103, 116, 104>>

Unreadable == <<[name |-> <<-1>>, length |-> 0]>>

(* Deviation: the name is looked for under "type". *)
DevNameIsType(v) ==
  [name |-> AsCString(Get(v, "object", TypeKey, Text(<<>>))).text,
   length |-> AsInt(Get(v, "object", LengthKey, Number("int", 0))).num \div 10]

(* A turn of its loop: Throws unless name and type (if any) are strings and *)
(* length (if any) converts to int.                                         *)
AttributeOf(v) ==
  LET name   == AsCString(Get(v, "object", NameKey, Text(<<>>)))
      type   == AsCString(Get(v, "object", TypeKey, Text(<<>>)))
      length == AsInt(Get(v, "object", LengthKey, Number("int", 0)))
  IN  IF Throws \in {name, type, length} THEN [name |-> <<>>, length |-> -1]
      ELSE [name |-> name.text, length |-> length.num \div 10]

Attributes(r) ==
  IF ~r.ok THEN Unreadable ELSE [i \in 1 .. Size(r.root) |-> AttributeOf(Element(r.root, i))]

ReadSchema(doc) == Attributes(Parse(doc, FALSE))
=============================================================================
