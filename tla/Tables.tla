------------------------------- MODULE Tables -------------------------------
(***************************************************************************)
(* Table files (leveldb-1.15.0: table/block_builder.cc, filter_block.cc,   *)
(* table_builder.cc, format.cc, table.cc, util/bloom.cc,                   *)
(* util/comparator.cc, db/dbformat.cc): how sorted entries are cut into    *)
(* blocks with shared prefixes, an index of separators and filters.        *)
(*                                                                         *)
(* A user key is a sequence of bytes and an internal key is a user key     *)
(* followed by its tag, which stands for the last eight bytes.  The value  *)
(* of an entry is its key.  A position in a block counts entries, a        *)
(* position in a file counts bytes.  NULL is no value.                     *)
(***************************************************************************)
EXTENDS Integers, Sequences, FiniteSets, TLC

LOCAL INSTANCE SequencesExt

CONSTANTS
    NULL,
    MaxByte,          \* 0xff
    MaxSequence,      \* kMaxSequenceNumber
    BlockSize, RestartInterval, HasFilter,  \* Options
    kFilterBase,
    BitsPerKey, MinBits, Probes,            \* BloomFilterPolicy
    HashBits, BloomHash(_)                  \* Hash(user key), a number of HashBits bits

Largest(S) == CHOOSE x \in S : \A y \in S : y <= x
Smallest(S) == CHOOSE x \in S : \A y \in S : x <= y

\* The length of the longest prefix that a and b share.
SharedLength(a, b) ==
    Cardinality({n \in DOMAIN a \intersect DOMAIN b : \A m \in 1 .. n : a[m] = b[m]})

-----------------------------------------------------------------------------
(* Comparators.                                                            *)

\* Slice::compare(a, b) < 0
BytesLess(a, b) ==
    LET n == SharedLength(a, b)
    IN n < Len(b) /\ (n < Len(a) => a[n + 1] < b[n + 1])

kTypeDeletion == 0
kTypeValue == 1
PackSequenceAndType(seq, type) == 2 * seq + type
UserKey(k) == Front(k)
Sequence(k) == Last(k) \div 2
ValueType(k) == Last(k) % 2
InternalKey(user, seq, type) == Append(user, PackSequenceAndType(seq, type))

\* InternalKeyComparator::Compare(a, b) < 0
KeyLess(a, b) ==
    \/ BytesLess(UserKey(a), UserKey(b))
    \/ UserKey(a) = UserKey(b) /\ Last(a) > Last(b)

\* BytewiseComparatorImpl.
ShortestSeparator(start, limit) ==
    LET n == SharedLength(start, limit) + 1
    IN IF n <= Len(start) /\ n <= Len(limit) /\ start[n] < MaxByte /\ start[n] + 1 < limit[n]
       THEN Append(SubSeq(start, 1, n - 1), start[n] + 1)
       ELSE start

ShortSuccessor(key) ==
    LET free == {i \in DOMAIN key : key[i] # MaxByte}
    IN IF free = {} THEN key
       ELSE Append(SubSeq(key, 1, Smallest(free) - 1), key[Smallest(free)] + 1)

\* InternalKeyComparator takes the shorter user key only if it is greater.
Shortened(key, tmp) ==
    IF Len(tmp) < Len(UserKey(key)) /\ BytesLess(UserKey(key), tmp)
    THEN InternalKey(tmp, MaxSequence, kTypeValue)
    ELSE key

FindShortestSeparator(start, limit) ==
    Shortened(start, ShortestSeparator(UserKey(start), UserKey(limit)))

FindShortSuccessor(key) == Shortened(key, ShortSuccessor(UserKey(key)))

-----------------------------------------------------------------------------
(* BlockBuilder.                                                           *)

NewBlock == [entries |-> <<>>, restarts |-> <<0>>, counter |-> 0, last_key |-> <<>>]

\* BlockBuilder::Add.
AddEntry(b, key, value, interval) ==
    LET restart == b.counter >= interval
        shared == IF restart THEN 0 ELSE SharedLength(b.last_key, key)
    IN [entries |-> Append(b.entries, [shared |-> shared, value |-> value,
                                       delta |-> SubSeq(key, shared + 1, Len(key))]),
        restarts |-> IF restart THEN Append(b.restarts, Len(b.entries)) ELSE b.restarts,
        counter |-> (IF restart THEN 0 ELSE b.counter) + 1,
        last_key |-> key]

\* An entry is three lengths, the rest of the key and the value, each value one byte.
CurrentSizeEstimate(b) ==
    FoldLeft(LAMBDA n, e : n + 3 + Len(e.delta) + 1, 4 * Len(b.restarts) + 4, b.entries)

-----------------------------------------------------------------------------
(* Filters.                                                                *)

\* The bits that a key sets in a filter of n bits: h, h + delta, h + 2 delta, ...
BitPositions(key, n, k) ==
    LET h == BloomHash(key)
        half == 2 ^ (HashBits \div 2)
        delta == (h \div half) + (h % half) * (2 ^ HashBits \div half)
    IN {((h + j * delta) % 2 ^ HashBits) % n : j \in 0 .. k - 1}

\* BloomFilterPolicy::CreateFilter, of the user keys.
CreateFilter(keys) ==
    LET bits == Largest({Len(keys) * BitsPerKey, MinBits})
        n == ((bits + 7) \div 8) * 8
    IN [size |-> n, k |-> Probes,
        bits |-> UNION {BitPositions(UserKey(keys[i]), n, Probes) : i \in DOMAIN keys}]

\* BloomFilterPolicy::KeyMayMatch; the empty filter is NULL.
MayMatch(filter, key) ==
    filter # NULL /\ BitPositions(UserKey(key), filter.size, filter.k) \subseteq filter.bits

\* FilterBlockBuilder.
NewFilters == [keys |-> <<>>, filters |-> <<>>]

GenerateFilter(f) ==
    [keys |-> <<>>,
     filters |-> Append(f.filters, IF f.keys = <<>> THEN NULL ELSE CreateFilter(f.keys))]

RECURSIVE StartBlock(_, _)
StartBlock(f, offset) ==
    IF offset \div kFilterBase > Len(f.filters) THEN StartBlock(GenerateFilter(f), offset) ELSE f

FinishFilters(f) == (IF f.keys = <<>> THEN f ELSE GenerateFilter(f)).filters

\* A deviation: the position is rounded up.
DevRoundsUp(filters, offset, key) ==
    LET index == (offset + kFilterBase - 1) \div kFilterBase
    IN index < Len(filters) => MayMatch(filters[index + 1], key)

\* FilterBlockReader::KeyMayMatch.
KeyMayMatch(filters, offset, key) ==
    LET index == offset \div kFilterBase
    IN index < Len(filters) => MayMatch(filters[index + 1], key)

-----------------------------------------------------------------------------
(* TableBuilder.  fail is the number of the write or flush that fails.     *)

NewTable(fail) ==
    [ok |-> TRUE, writes |-> 0, fail |-> fail, offset |-> 0, file |-> <<>>, data |-> NewBlock,
     index |-> NewBlock, last_key |-> <<>>, pending |-> NULL, filter |-> NewFilters]

\* WriteBlock, WriteRawBlock: the contents and a trailer of five bytes at offset.
WriteRawBlock(r, contents, size) ==
    IF r.writes + 1 = r.fail THEN [r EXCEPT !.writes = @ + 1, !.ok = FALSE]
    ELSE [r EXCEPT !.writes = @ + 1, !.ok = TRUE, !.offset = @ + size + 5,
                   !.file = Append(@, [offset |-> r.offset, contents |-> contents])]

WriteBlock(r, b) == WriteRawBlock(r, b, CurrentSizeEstimate(b))

\* WritableFile::Flush, once the block at handle is written.
FlushFile(w, handle) ==
    IF ~w.ok THEN w ELSE [w EXCEPT !.pending = handle, !.writes = @ + 1, !.ok = w.writes + 1 # w.fail]

NextBlock(r) == [r EXCEPT !.data = NewBlock, !.filter = StartBlock(@, r.offset)]

Flush(r) ==
    IF ~r.ok \/ r.data.entries = <<>> THEN r
    ELSE NextBlock(FlushFile(WriteBlock(r, r.data), r.offset))

IndexEntry(r, key) ==
    IF r.pending = NULL THEN r
    ELSE [r EXCEPT !.index = AddEntry(@, key, r.pending, 1), !.pending = NULL]

FlushIfFull(r) == IF CurrentSizeEstimate(r.data) >= BlockSize THEN Flush(r) ELSE r

\* TableBuilder::Add.
AddKey(r, key) ==
    IF ~r.ok THEN r
    ELSE FlushIfFull([IndexEntry(r, FindShortestSeparator(r.last_key, key)) EXCEPT
                         !.filter.keys = Append(@, key), !.last_key = key,
                         !.data = AddEntry(@, key, key, RestartInterval)])

\* TableBuilder::Finish: the filter, the block that names it, the index and the footer,
\* each if what was before it is written.
WriteFooter(r, index, metaindex) ==
    IF r.ok THEN WriteRawBlock(r, [index |-> index, metaindex |-> metaindex], 43) ELSE r

WriteIndex(r, metaindex) == WriteFooter(WriteBlock(r, r.index), r.offset, metaindex)

WithLastEntry(r) == IndexEntry(r, FindShortSuccessor(r.last_key))

AfterMetaindex(r, metaindex) == IF r.ok THEN WriteIndex(WithLastEntry(r), metaindex) ELSE r

WriteMetaindex(r, filter) ==
    IF r.ok THEN AfterMetaindex(WriteRawBlock(r, filter, 8), r.offset) ELSE r

WriteFilter(r) ==
    WriteMetaindex(IF r.ok /\ HasFilter THEN WriteRawBlock(r, FinishFilters(r.filter), 5) ELSE r,
                   r.offset)

Finish(r) == WriteFilter(Flush(r))

\* Table::Open and ReadMeta.  bad is the set of positions that cannot be read; what cannot
\* be read of the filter does not matter.
OpenTable(r, bad) ==
    LET At(offset) == LET i == CHOOSE i \in DOMAIN r.file : r.file[i].offset = offset
                      IN r.file[i].contents
        footer == Last(r.file).contents
    IN IF footer.index \in bad THEN NULL
       ELSE [index |-> At(footer.index), metaindex |-> footer.metaindex,
             filter |-> IF ~HasFilter \/ footer.metaindex \in bad
                           \/ At(footer.metaindex) \in bad
                        THEN NULL ELSE At(At(footer.metaindex)),
             blocks |-> [o \in {r.file[i].offset : i \in DOMAIN r.file} |-> At(o)],
             bad |-> bad]

BuildTable(keys) == Finish(FoldLeft(AddKey, NewTable(0), keys))
=============================================================================
