----------------------------- MODULE MCReading -----------------------------
(***************************************************************************)
(* What LevelDB reads through, one part in each behaviour: the iterators   *)
(* over tables, memtables and versions, the caches of tables and blocks,   *)
(* and the file system in memory.  The variables of the others stay as     *)
(* they are.                                                               *)
(***************************************************************************)
EXTENDS Iterators

LOCAL INSTANCE SequencesExt

CONSTANTS Address, Thread, MaxId,       \* of TableCache
          Name, Handle, State, MaxSize  \* of MemEnv

VARIABLES reading,  \* the part: "iterators", "cache" or "files"
          tables, blocks, last_id, files, pc, want, th, bh,
          file_map, refs, f_blocks, size, open, content

MCUserKeys == {<<0>>, <<0, 3>>, <<1>>, <<3>>, <<3, 3>>, <<3, 3, 0>>}
MCBloomHash(u) == (FoldLeft(LAMBDA h, b : 7 * h + b + 1, 5, u)) % 16

Fresh == [kind |-> "table", mem |-> <<>>, imm |-> NULL, zero |-> <<>>, one |-> <<>>,
          bad |-> {}, snapshot |-> MaxSequence]

\* Tables of up to ten entries, one block of each unreadable.
Entries == {InternalKey(u, s, kTypeValue) : u \in MCUserKeys \ {<<3, 3, 0>>}, s \in {1, 2}}
TableContents ==
    {[Fresh EXCEPT !.zero = <<InOrder(S)>>, !.bad = b] :
        S \in {X \in SUBSET Entries : Cardinality(X) \in {1, 9, 10}},
        b \in {{}, {<<1, 1>>}, {<<1, 2>>}, {<<1, 3>>}}}

\* The entries of writes 1, 2, ..., the oldest of them in two files of level 1, the next
\* in a file of level 0, then in imm and in mem.
Written(w, from, to) == InOrder({InternalKey(w[s][1], s, w[s][2]) : s \in from .. to})
Split(keys) ==
    IF keys = <<>> THEN <<>>
    ELSE IF Len(keys) = 1 THEN <<keys>>
    ELSE <<SubSeq(keys, 1, 1), SubSeq(keys, 2, Len(keys))>>

Placed(kind, w, cut, bad, snapshot) ==
    [kind |-> kind, one |-> Split(Written(w, 1, cut[1])),
     zero |-> IF cut[1] = cut[2] THEN <<>> ELSE <<Written(w, cut[1] + 1, cut[2])>>,
     imm |-> IF cut[2] = cut[3] THEN NULL ELSE Written(w, cut[2] + 1, cut[3]),
     mem |-> Written(w, cut[3] + 1, Len(w)), bad |-> bad, snapshot |-> snapshot]

Writes(n, users) == [1 .. n -> users \X {kTypeDeletion, kTypeValue}]

UserContents ==
    {Placed("user", w, cut, {}, s) : w \in Writes(4, {<<0>>, <<0, 3>>}),
        cut \in {<<2, 3, 3>>, <<0, 2, 3>>}, s \in {3, 4}}

BrokenContents ==
    {Placed("user", w, <<3, 4, 4>>, {b}, 4) : w \in Writes(4, {<<3>>, <<0, 3>>}),
        b \in {<<1, 1>>, <<3, 1>>, <<2, 4>>}}

InternalContents ==
    {Placed("internal", w, cut, {}, 7) : w \in Writes(3, {<<0>>, <<1>>, <<3>>}),
        cut \in {<<1, 2, 2>>, <<2, 2, 3>>}}

MCContents == TableContents \union UserContents \union BrokenContents \union InternalContents

(* Two files of two blocks; a cache of one table, one of one or two blocks. *)
MCHash(key) == IF Len(key) = 1 THEN key[1] % 2 ELSE key[1] + 3 * key[2]
MCCharge(offset) == 1 + offset
TC == INSTANCE TableCache WITH Hash <- MCHash, kNumShards <- 1, InitialLength <- 1, File <- {1, 2},
        Offset <- {0, 1}, TableCapacity <- 1, BlockCapacity <- 2, BlockSize <- MCCharge

(* Blocks of two bytes. *)
ME == INSTANCE MemEnv WITH blocks <- f_blocks, kBlockSize <- 2, MaxAppend <- 3

-----------------------------------------------------------------------------
cacheVars == <<tables, blocks, last_id, files, pc, want, th, bh>>
fileVars == <<file_map, refs, f_blocks, size, open, content>>
readingVars == <<reading, vars, cacheVars, fileVars>>

NoIterator == /\ contents = [Fresh EXCEPT !.kind = "internal"]
              /\ shown = <<>> /\ it = NewIterator(contents, <<>>) /\ call = NULL
NoCache == /\ tables = NULL /\ blocks = NULL /\ last_id = NULL /\ files = NULL
           /\ pc = NULL /\ want = NULL /\ th = NULL /\ bh = NULL
NoFiles == /\ file_map = NULL /\ refs = NULL /\ f_blocks = NULL
           /\ size = NULL /\ open = NULL /\ content = NULL

ReadingInit ==
    \/ reading = "iterators" /\ Init /\ NoCache /\ NoFiles
    \/ reading = "cache" /\ NoIterator /\ TC!Init /\ NoFiles
    \/ reading = "files" /\ NoIterator /\ NoCache /\ ME!Init

IteratorsNext == reading = "iterators" /\ Next /\ UNCHANGED <<reading, cacheVars, fileVars>>
CacheNext == reading = "cache" /\ TC!Next /\ UNCHANGED <<reading, vars, fileVars>>
FilesNext == reading = "files" /\ ME!Next /\ UNCHANGED <<reading, vars, cacheVars>>

ReadingNext == IteratorsNext \/ CacheNext \/ FilesNext

ReadingSpec == ReadingInit /\ [][ReadingNext]_readingVars

-----------------------------------------------------------------------------
\* Table::InternalGet finds the newest entry though filters and separators keep it
\* from most blocks; a table built with a failed write is refused (see GetFindsNewest,
\* OffsetsGrow and FailedBuildIsReported).
TablesAreSound == GetFindsNewest /\ OffsetsGrow /\ FailedBuildIsReported

\* Tables and blocks read through the caches are those asked for, and live exactly as
\* long as a reader or a cache holds them (see CachesAreSound, HandlesAreCounted and
\* ReadsItsFile of TableCache).
CachedReads == reading = "cache" => TC!CachesAreSound /\ TC!HandlesAreCounted /\ TC!ReadsItsFile

\* A file in memory keeps its bytes while it has a name or is open (see FilesAreKept
\* of MemEnv).
OpenFilesAreKept == reading = "files" => ME!FilesAreKept
=============================================================================
