------------------------------ MODULE Versions ------------------------------
(***************************************************************************)
(* The levels of table files of a LevelDB database                         *)
(* (leveldb-1.15.0/db/version_set.cc): where a key is looked up, where a   *)
(* new table goes, what is compacted next and with which other files.      *)
(*                                                                         *)
(* A table is [number, size, entries, smallest, largest]; entries is the   *)
(* set of its internal keys and size their number.  A version is a         *)
(* function from levels to sequences of tables.  NULL bounds of a range    *)
(* are the user keys NoBegin, before every key, and NoEnd, after every key.*)
(***************************************************************************)
EXTENDS InternalKeys, Sequences, FiniteSets, TLC

CONSTANTS
    kNumLevels, kL0_CompactionTrigger, kMaxMemCompactLevel,
    kMaxGrandParentOverlapBytes, kExpandedCompactionByteSizeLimit,
    MaxFileSize,          \* kTargetFileSize
    MaxBytesForLevel(_),  \* the size above which a level is compacted
    NoBegin, NoEnd,
    kMaxSequenceNumber,
    NULL

Levels == 0 .. kNumLevels - 1

NoFiles == [l \in Levels |-> <<>>]

Range(s) == {s[i] : i \in DOMAIN s}

\* The members of a finite set in a strict total order.
SortedBy(S, Before(_, _)) ==
    [i \in 1 .. Cardinality(S) |->
        CHOOSE x \in S : Cardinality({y \in S : Before(y, x)}) = i - 1]

Sorted(S) == SortedBy(S, InternalBefore)

FileMetaData(n, S) ==
    [number |-> n, size |-> Cardinality(S), entries |-> S,
     smallest |-> Sorted(S)[1], largest |-> Sorted(S)[Cardinality(S)]]

RECURSIVE TotalFileSize(_)
TotalFileSize(s) == IF s = <<>> THEN 0 ELSE Head(s).size + TotalFileSize(Tail(s))

FilesOf(v) == UNION {{f.number : f \in Range(v[l])} : l \in Levels}

-----------------------------------------------------------------------------
(* Looking for files.                                                      *)

\* The first file that does not end before the internal key, found by bisection.
FindFile(files, key) ==
    LET Bisect[left \in 0 .. Len(files), right \in 0 .. Len(files)] ==
            LET mid == (left + right) \div 2
            IN IF left >= right THEN right
               ELSE IF InternalBefore(files[mid + 1].largest, key)
                    THEN Bisect[mid + 1, right]
                    ELSE Bisect[left, mid]
    IN Bisect[0, Len(files)] + 1

AfterFile(u, f) == UserLess(f.largest.user, u)
BeforeFile(u, f) == UserLess(u, f.smallest.user)

\* Files of levels above 0 are disjoint and sorted: one bisection is enough.
OverlapInLevel(v, l, begin, end) ==
    IF l = 0
    THEN \E f \in Range(v[0]) : ~AfterFile(begin, f) /\ ~BeforeFile(end, f)
    ELSE LET i == FindFile(v[l], InternalKey(begin, kMaxSequenceNumber, kValueTypeForSeek))
         IN i <= Len(v[l]) /\ ~BeforeFile(end, v[l][i])

InRange(files, begin, end) ==
    SelectSeq(files, LAMBDA f : ~AfterFile(begin, f) /\ ~BeforeFile(end, f))

Least(S) == CHOOSE u \in S : \A w \in S : ~UserLess(w, u)
Greatest(S) == CHOOSE u \in S : \A w \in S : ~UserLess(u, w)

\* Files of level 0 may overlap each other: the range grows until it cuts none.
RECURSIVE GetOverlappingInputs(_, _, _, _)
GetOverlappingInputs(v, l, begin, end) ==
    LET found == InRange(v[l], begin, end)
        start == Least({begin} \cup {f.smallest.user : f \in Range(found)})
        limit == Greatest({end} \cup {f.largest.user : f \in Range(found)})
    IN IF l > 0 \/ (start = begin /\ limit = end) THEN found
       ELSE GetOverlappingInputs(v, l, start, limit)

-----------------------------------------------------------------------------
(* Reading.                                                                *)

NewestFirst(f, g) == f.number > g.number

Covers(f, u) == ~BeforeFile(u, f) /\ ~AfterFile(u, f)

\* The files of a level that may hold the key, in the order they are searched.
Candidates(v, l, key) ==
    IF l = 0
    THEN SortSeq(SelectSeq(v[0], LAMBDA f : Covers(f, key.user)), NewestFirst)
    ELSE LET i == FindFile(v[l], key)
         IN IF i > Len(v[l]) \/ BeforeFile(key.user, v[l][i]) THEN <<>> ELSE <<v[l][i]>>

ForEachOverlapping(v, key) ==
    LET From[l \in 0 .. kNumLevels] ==
            IF l = kNumLevels THEN <<>>
            ELSE LET c == Candidates(v, l, key)
                 IN [i \in DOMAIN c |-> [level |-> l, file |-> c[i]]] \o From[l + 1]
    IN From[0]

\* What a lookup finds in a set of entries: the first entry at or after the
\* internal key, when it has the same user key (SaveValue); else nothing.
Lookup(S, key) ==
    LET after == {e \in S : ~InternalBefore(e, key)}
        e == CHOOSE x \in after : \A y \in after : ~InternalBefore(y, x)
    IN IF after = {} \/ e.user # key.user THEN NULL ELSE e

\* Files are searched until one has an answer.  When two or more are read, the
\* first is charged with a seek.
VersionGet(v, key) ==
    LET all == ForEachOverlapping(v, key)
        hits == {i \in DOMAIN all : Lookup(all[i].file.entries, key) # NULL}
        hit == CHOOSE i \in hits : \A j \in hits : i <= j
        reads == IF hits = {} THEN Len(all) ELSE hit
    IN [entry |-> IF hits = {} THEN NULL ELSE Lookup(all[hit].file.entries, key),
        seek_file |-> IF reads >= 2 THEN all[1] ELSE NULL]

\* A sample taken by an iterator charges the first of two files that overlap.
RecordReadSample(v, key) ==
    LET all == ForEachOverlapping(v, key)
    IN IF Len(all) >= 2 THEN all[1] ELSE NULL

-----------------------------------------------------------------------------
(* The level of a flushed memtable.                                        *)

GrandparentsAllow(v, l, begin, end) ==
    \/ l >= kNumLevels
    \/ TotalFileSize(GetOverlappingInputs(v, l, begin, end)) <= kMaxGrandParentOverlapBytes

\* It sinks as long as nothing overlaps it in the level it enters and in level 0.
PickLevelForMemTableOutput(v, begin, end) ==
    CHOOSE l \in 0 .. kMaxMemCompactLevel :
        LET Sinks(k) == /\ ~OverlapInLevel(v, 0, begin, end)
                        /\ ~OverlapInLevel(v, k + 1, begin, end)
                        /\ GrandparentsAllow(v, k + 2, begin, end)
        IN /\ \A k \in 0 .. l - 1 : Sinks(k)
           /\ l = kMaxMemCompactLevel \/ ~Sinks(l)

-----------------------------------------------------------------------------
(* Choosing a compaction.                                                  *)

\* The fraction of its limit that a level holds, as numerator and denominator.
Score(v, l) ==
    IF l = 0 THEN <<Len(v[0]), kL0_CompactionTrigger>>
    ELSE <<TotalFileSize(v[l]), MaxBytesForLevel(l)>>

Exceeds(a, b) == a[1] * b[2] > b[1] * a[2]

\* The first level with the best score; the last level is never compacted.
Finalize(v) ==
    CHOOSE l \in 0 .. kNumLevels - 2 :
        /\ \A k \in 0 .. kNumLevels - 2 : ~Exceeds(Score(v, k), Score(v, l))
        /\ \A k \in 0 .. l - 1 : Exceeds(Score(v, l), Score(v, k))

SizeCompaction(v) == Score(v, Finalize(v))[1] >= Score(v, Finalize(v))[2]

Hull(files) ==
    [begin |-> Least({f.smallest.user : f \in Range(files)}),
     end |-> Greatest({f.largest.user : f \in Range(files)})]

LargestOf(files) ==
    CHOOSE k \in {f.largest : f \in Range(files)} :
        \A f \in Range(files) : ~InternalBefore(k, f.largest)

\* A deviation: a manual compaction stops one file early.
DevSkipsLast(v, l, begin, end) ==
    LET over == GetOverlappingInputs(v, l, begin, end)
    IN IF Len(over) <= 1 THEN NULL
       ELSE [level |-> l, inputs |-> <<SubSeq(over, 1, 1), <<>>>>, pointer |-> over[1].largest,
             grandparents |-> <<>>]

\* The files of the next level that overlap the inputs, more files of this level
\* when that adds none to the next, and the files of the level after next.
SetupOtherInputs(v, l, inputs0) ==
    LET Over(k, r) == GetOverlappingInputs(v, k, r.begin, r.end)
        inputs1 == Over(l + 1, Hull(inputs0))
        expanded0 == Over(l, Hull(inputs0 \o inputs1))
        expands == /\ inputs1 # <<>>
                   /\ Len(expanded0) > Len(inputs0)
                   /\ TotalFileSize(inputs1) + TotalFileSize(expanded0)
                         < kExpandedCompactionByteSizeLimit
                   /\ Len(Over(l + 1, Hull(expanded0))) = Len(inputs1)
        in0 == IF expands THEN expanded0 ELSE inputs0
        in1 == IF expands THEN Over(l + 1, Hull(expanded0)) ELSE inputs1
    IN [level |-> l, inputs |-> <<in0, in1>>, pointer |-> LargestOf(in0),
        grandparents |-> IF l + 2 < kNumLevels THEN Over(l + 2, Hull(in0 \o in1)) ELSE <<>>]

\* The first file after the pointer of its level, which wraps around, or the file
\* that was charged too many seeks.
PickCompaction(v, pointers, seek) ==
    LET size == SizeCompaction(v)
        l == IF size THEN Finalize(v) ELSE seek.level
        after == SelectSeq(v[l], LAMBDA f :
                     pointers[l] = NULL \/ InternalBefore(pointers[l], f.largest))
        first == IF ~size THEN seek.file
                 ELSE IF after = <<>> THEN v[l][1] ELSE after[1]
        h == Hull(<<first>>)
    IN IF ~size /\ seek = NULL THEN NULL
       ELSE SetupOtherInputs(v, l,
                IF l = 0 THEN GetOverlappingInputs(v, 0, h.begin, h.end) ELSE <<first>>)

\* Above level 0 a manual compaction takes files until they reach MaxFileSize.
CompactRange(v, l, begin, end) ==
    LET over == GetOverlappingInputs(v, l, begin, end)
        reach == {i \in DOMAIN over : TotalFileSize(SubSeq(over, 1, i)) >= MaxFileSize}
        n == IF l = 0 \/ reach = {} THEN Len(over)
             ELSE CHOOSE i \in reach : \A j \in reach : i <= j
    IN IF over = <<>> THEN NULL ELSE SetupOtherInputs(v, l, SubSeq(over, 1, n))

IsTrivialMove(c) ==
    /\ Len(c.inputs[1]) = 1 /\ c.inputs[2] = <<>>
    /\ TotalFileSize(c.grandparents) <= kMaxGrandParentOverlapBytes

\* No level below the output's has a file around the user key.  (level_ptrs_ stands
\* at the first file that does not end before it: keys come in order.)
IsBaseLevelForKey(v, c, u) ==
    \A l \in c.level + 2 .. kNumLevels - 1 :
        LET after == SelectSeq(v[l], LAMBDA f : ~AfterFile(u, f))
        IN after = <<>> \/ BeforeFile(u, after[1])

-----------------------------------------------------------------------------
(* A version and an edit make the next version.                            *)

\* A deviation: every level is kept in the order of level 0.
DevByNumber(f, g) == f.number < g.number

BySmallestKey(f, g) ==
    \/ InternalBefore(f.smallest, g.smallest)
    \/ f.smallest = g.smallest /\ f.number < g.number

\* deleted and added are functions from levels to sets of numbers and of files.
SaveTo(v, deleted, added) ==
    [l \in Levels |->
        SortedBy({f \in Range(v[l]) : f.number \notin deleted[l]} \cup added[l], BySmallestKey)]
=============================================================================
