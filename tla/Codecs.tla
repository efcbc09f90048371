------------------------------- MODULE Codecs -------------------------------
(***************************************************************************)
(* The encodings that LevelDB writes to disk: numbers and slices           *)
(* (util/coding.cc), write batches (db/write_batch.cc), version edits      *)
(* (db/version_edit.cc), the footer of a table (table/format.cc) and file  *)
(* names (db/filename.cc).  A byte is a number below 2 * B, where B, the   *)
(* radix of a varint, is 128 in the code; words are reduced with it.       *)
(* What is decoded is [ok, val, rest].                                     *)
(***************************************************************************)
EXTENDS Integers, Sequences, FiniteSets, SequencesExt

CONSTANTS B,
          Word32, Word64,          \* 2^32 and 2^64
          Varint32Max, Varint64Max, \* the longest varints: 5 and 10 bytes
          Fixed32Len, Fixed64Len,  \* 4 and 8 bytes
          kNumLevels, kTableMagicNumber,
          Padding                  \* the digits of "%06llu"

Bad == [ok |-> FALSE, val |-> 0, rest |-> <<>>]

Drop(s, n) == SubSeq(s, n + 1, Len(s))

RECURSIVE Fixed(_, _), FromDigits(_, _)

(* EncodeFixed32, EncodeFixed64: n bytes, the low one first. *)
Fixed(v, n) == IF n = 0 THEN <<>> ELSE <<v % (2 * B)>> \o Fixed(v \div (2 * B), n - 1)

(* The number with these digits, the low one first. *)
FromDigits(s, radix) == IF s = <<>> THEN 0 ELSE Head(s) + radix * FromDigits(Tail(s), radix)

DecodeFixed(s, word) == FromDigits(s, 2 * B) % word

RECURSIVE Varint(_)

(* EncodeVarint32, EncodeVarint64 *)
Varint(v) == IF v < B THEN <<v>> ELSE <<B + (v % B)>> \o Varint(v \div B)

(* Deviation: the loop runs once more, shift <= 35 and <= 70. *)
DevOneByteMore(in, longest, word) ==
  LET ends == {i \in 1 .. longest + 1 : i <= Len(in) /\ in[i] < B /\ \A j \in 1 .. i - 1 : in[j] >= B}
  IN  IF ends = {} THEN Bad
      ELSE LET n == CHOOSE i \in ends : TRUE
           IN  [ok |-> TRUE, val |-> FromDigits([i \in 1 .. n |-> in[i] % B], B) % word, rest |-> Drop(in, n)]

(* GetVarint32, GetVarint64: the first byte below B ends the number, which  *)
(* must come among the first few; what shifts out of the word is lost.      *)
GetVarint(in, longest, word) ==
  LET ends == {i \in 1 .. longest : i <= Len(in) /\ in[i] < B /\ \A j \in 1 .. i - 1 : in[j] >= B}
  IN  IF ends = {} THEN Bad
      ELSE LET n == CHOOSE i \in ends : TRUE
           IN  [ok |-> TRUE, val |-> FromDigits([i \in 1 .. n |-> in[i] % B], B) % word, rest |-> Drop(in, n)]

PutLengthPrefixedSlice(s) == Varint(Len(s)) \o s

GetLengthPrefixedSlice(in) ==
  LET len == GetVarint(in, Varint32Max, Word32)
  IN  IF ~len.ok \/ Len(len.rest) < len.val THEN Bad
      ELSE [ok |-> TRUE, val |-> SubSeq(len.rest, 1, len.val), rest |-> Drop(len.rest, len.val)]

(***************************************************************************)
(* A list of fields of given kinds.                                        *)
(***************************************************************************)
PutField(kind, x) == IF kind = "slice" THEN PutLengthPrefixedSlice(x) ELSE Varint(x)

GetField(kind, in) ==
  CASE kind = "slice" -> GetLengthPrefixedSlice(in)
    [] kind = "v64"   -> GetVarint(in, Varint64Max, Word64)
    [] kind = "level" -> LET v == GetVarint(in, Varint32Max, Word32)
                         IN  IF v.ok /\ v.val < kNumLevels THEN v ELSE Bad

PutFields(kinds, xs) == FlattenSeq([i \in DOMAIN kinds |-> PutField(kinds[i], xs[i])])

RECURSIVE GetFields(_, _)
GetFields(kinds, in) ==
  IF kinds = <<>> THEN [ok |-> TRUE, val |-> <<>>, rest |-> in]
  ELSE LET x  == GetField(Head(kinds), in)
           xs == GetFields(Tail(kinds), x.rest)
       IN  IF ~x.ok THEN Bad ELSE [xs EXCEPT !.val = IF xs.ok THEN <<x.val>> \o @ ELSE @]

(***************************************************************************)
(* WriteBatch: a sequence number, a count and the operations.              *)
(***************************************************************************)
kHeader == Fixed64Len + Fixed32Len

NewBatch == [i \in 1 .. kHeader |-> 0]

Sequence(rep) == DecodeFixed(SubSeq(rep, 1, Fixed64Len), Word64)

SetSequence(rep, seq) == Fixed(seq, Fixed64Len) \o Drop(rep, Fixed64Len)

Count(rep) == DecodeFixed(SubSeq(rep, Fixed64Len + 1, kHeader), Word32)

SetCount(rep, n) == SubSeq(rep, 1, Fixed64Len) \o Fixed(n, Fixed32Len) \o Drop(rep, kHeader)

kTypeDeletion == 0
kTypeValue == 1

Kinds(type) == IF type = kTypeValue THEN <<"slice", "slice">> ELSE <<"slice">>

(* Put and Delete: op is <<type, key>> or <<type, key, value>>. *)
Added(rep, op) == SetCount(rep, Count(rep) + 1) \o <<Head(op)>> \o PutFields(Kinds(Head(op)), Tail(op))

AppendBatch(dst, src) == SetCount(dst, Count(dst) + Count(src)) \o Drop(src, kHeader)

RECURSIVE Replay(_, _)

(* The loop of Iterate: the operations handed on before the end or the      *)
(* first one that cannot be read.                                           *)
ReplayRest(tag, xs, ops) ==
  IF xs.ok THEN Replay(xs.rest, Append(ops, <<tag>> \o xs.val)) ELSE [ok |-> FALSE, ops |-> ops]

Replay(in, ops) ==
  IF in = <<>> THEN [ok |-> TRUE, ops |-> ops]
  ELSE IF Head(in) \notin {kTypeDeletion, kTypeValue} THEN [ok |-> FALSE, ops |-> ops]
  ELSE ReplayRest(Head(in), GetFields(Kinds(Head(in)), Tail(in)), ops)

Counted(r, count) == [r EXCEPT !.ok = @ /\ Len(r.ops) = count]

(* Deviation: the count is not looked at. *)
DevNoCount(rep) == IF Len(rep) < kHeader THEN [ok |-> FALSE, ops |-> <<>>] ELSE Replay(Drop(rep, kHeader), <<>>)

Iterate(rep) ==
  IF Len(rep) < kHeader THEN [ok |-> FALSE, ops |-> <<>>]
  ELSE Counted(Replay(Drop(rep, kHeader), <<>>), Count(rep))

(* InsertInto: what is added to the memtable, with its sequence numbers. *)
Inserted(ops, seq) == [i \in DOMAIN ops |-> [seq |-> seq + i - 1, op |-> ops[i]]]

InsertInto(rep) == Inserted(Iterate(rep).ops, Sequence(rep))

(***************************************************************************)
(* VersionEdit: one maps the tag of a value that is set to its fields; the *)
(* others are lists of fields (deleted files: a set).                      *)
(***************************************************************************)
kComparator == 1
kLogNumber == 2
kNextFileNumber == 3
kLastSequence == 4
kCompactPointer == 5
kDeletedFile == 6
kNewFile == 7
kPrevLogNumber == 9

Format(tag) ==
  CASE tag = kComparator     -> <<"slice">>
    [] tag = kCompactPointer -> <<"level", "slice">>
    [] tag = kDeletedFile    -> <<"level", "v64">>
    [] tag = kNewFile        -> <<"level", "v64", "v64", "slice", "slice">>
    [] OTHER                 -> <<"v64">>

NewEdit == [one |-> << >>, pointers |-> <<>>, deleted |-> {}, files |-> <<>>]

(* Clear forgets everything but compact_pointers_. *)
ClearEdit(e) == [NewEdit EXCEPT !.pointers = e.pointers]

(* SetComparatorName ... AddFile *)
WithEntry(e, tag, xs) ==
  CASE tag = kCompactPointer -> [e EXCEPT !.pointers = Append(@, xs)]
    [] tag = kDeletedFile    -> [e EXCEPT !.deleted = @ \cup {xs}]
    [] tag = kNewFile        -> [e EXCEPT !.files = Append(@, xs)]
    [] OTHER                 -> [e EXCEPT !.one = [t \in DOMAIN @ \cup {tag} |-> IF t = tag THEN xs ELSE @[t]]]

(* The entries in the order in which EncodeTo writes them. *)
Entries(e) ==
  LET once == SelectSeq(<<kComparator, kLogNumber, kPrevLogNumber, kNextFileNumber, kLastSequence>>,
                        LAMBDA t : t \in DOMAIN e.one)
      dels == SetToSortSeq(e.deleted, LAMBDA x, y : x[1] < y[1] \/ (x[1] = y[1] /\ x[2] < y[2]))
      With(tag, list) == [i \in DOMAIN list |-> <<tag, list[i]>>]
  IN  [i \in DOMAIN once |-> <<once[i], e.one[once[i]]>>]
      \o With(kCompactPointer, e.pointers) \o With(kDeletedFile, dels) \o With(kNewFile, e.files)

EncodeTo(e) ==
  FlattenSeq([i \in DOMAIN Entries(e) |->
    Varint(Entries(e)[i][1]) \o PutFields(Format(Entries(e)[i][1]), Entries(e)[i][2])])

RECURSIVE DecodeEntries(_, _)

(* The loop of DecodeFrom; ok is "msg == NULL". *)
DecodeRest(e, tag, xs) ==
  IF xs.ok THEN DecodeEntries(WithEntry(e, tag, xs.val), xs.rest) ELSE [ok |-> FALSE, edit |-> e]

DecodeEntries(e, in) ==
  LET tag == GetVarint(in, Varint32Max, Word32)
  IN  IF ~tag.ok THEN [ok |-> in = <<>>, edit |-> e]
      ELSE IF tag.val \notin (1 .. 7) \cup {9} THEN [ok |-> FALSE, edit |-> e]
      ELSE DecodeRest(e, tag.val, GetFields(Format(tag.val), tag.rest))

DecodeFrom(e, src) == DecodeEntries(ClearEdit(e), src)

(***************************************************************************)
(* Footer: two block handles <<offset, size>>, padded, and a magic number. *)
(***************************************************************************)
kMaxEncodedLength == 2 * Varint64Max

Magic == Fixed(kTableMagicNumber % Word32, Fixed32Len) \o Fixed(kTableMagicNumber \div Word32, Fixed32Len)

kEncodedLength == 2 * kMaxEncodedLength + Len(Magic)

EncodeFooter(metaindex, index) ==
  LET handles == PutFields(<<"v64", "v64", "v64", "v64">>, metaindex \o index)
  IN  [i \in 1 .. 2 * kMaxEncodedLength |-> IF i <= Len(handles) THEN handles[i] ELSE 0] \o Magic

DecodeFooter(in) ==
  IF SubSeq(in, kEncodedLength - Len(Magic) + 1, kEncodedLength) # Magic THEN Bad
  ELSE [GetFields(<<"v64", "v64", "v64", "v64">>, in) EXCEPT !.rest = Drop(in, kEncodedLength)]

(***************************************************************************)
(* File names: letters, decimal digits, letters.                           *)
(***************************************************************************)
RECURSIVE Decimal(_)
Decimal(n) == IF n < 10 THEN <<n>> ELSE Append(Decimal(n \div 10), n % 10)

(* "%06llu" *)
Padded(n) == LET d == Decimal(n) IN [i \in 1 .. Padding - Len(d) |-> 0] \o d

MakeFileName(n, suffix) == [head |-> "", digits |-> Padded(n), tail |-> suffix]

DescriptorFileName(n) == [head |-> "MANIFEST-", digits |-> Padded(n), tail |-> ""]

(* The test for overflow in ConsumeDecimalNumber. *)
DigitFits(v, delta) ==
  ~ \/ v > (Word64 - 1) \div 10
    \/ v = (Word64 - 1) \div 10 /\ delta > (Word64 - 1) % 10

RECURSIVE ConsumeDecimalNumber(_, _)
ConsumeDecimalNumber(digits, v) ==
  IF digits = <<>> THEN [ok |-> TRUE, val |-> v]
  ELSE IF DigitFits(v, Head(digits)) THEN ConsumeDecimalNumber(Tail(digits), (v * 10 + Head(digits)) % Word64)
  ELSE [ok |-> FALSE, val |-> v]

Types == {<<"CURRENT", "", "current">>, <<"LOCK", "", "lock">>, <<"LOG", "", "info">>, <<"LOG.old", "", "info">>,
          <<"MANIFEST-", "", "descriptor">>, <<"", ".log", "log">>, <<"", ".sst", "table">>, <<"", ".ldb", "table">>,
          <<"", ".dbtmp", "temp">>}

(* ParseFileName: the type and number, or <<"none", 0>>. *)
ParseFileName(name) ==
  LET types == {t \in Types : t[1] = name.head /\ t[2] = name.tail}
      num   == ConsumeDecimalNumber(name.digits, 0)
  IN  IF types = {} \/ ((name.head \in {"", "MANIFEST-"}) # (name.digits # <<>>)) \/ ~num.ok THEN <<"none", 0>>
      ELSE <<(CHOOSE t \in types : TRUE)[3], num.val>>
=============================================================================
