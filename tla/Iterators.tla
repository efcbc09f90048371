------------------------------ MODULE Iterators ------------------------------
(***************************************************************************)
(* Iterators (leveldb-1.15.0: table/block.cc, two_level_iterator.cc,       *)
(* merger.cc, iterator.cc, db/db_iter.cc, db/version_set.cc): the one that *)
(* a user of the database moves is a tree of iterators.                    *)
(*                                                                         *)
(* An iterator is a record; its field class says whose methods Do, Valid,  *)
(* KeyOf, ValueOf and Ok are, as a virtual call does.  The value of an     *)
(* entry of a data block is its key, that of an entry of an index is the   *)
(* position of a block or a file.  The state of the program is one         *)
(* iterator over contents that do not change.                              *)
(***************************************************************************)
EXTENDS Tables

LOCAL INSTANCE SequencesExt

CONSTANTS
    Contents,   \* what the iterators are over
    UserKeys    \* the keys to look for

(***************************************************************************)
(* A member of Contents has                                                *)
(*   kind:     "table" for an iterator over the only file, "internal" for  *)
(*             one over everything and "user" for a DBIter                 *)
(*   mem, imm: the keys of the memtables, in order; imm may be NULL        *)
(*   zero:     the keys of each file of level 0                            *)
(*   one:      the keys of each file of level 1                            *)
(*   bad:      the blocks <<file, n>> that cannot be read; files are       *)
(*             numbered from level 0 on                                    *)
(*   snapshot: the sequence number to read at                              *)
(***************************************************************************)
VARIABLES
    contents,
    shown,      \* the entries that the iterator is to show
    it,         \* the iterator
    call        \* the call <<operation, target>> in progress, or NULL

vars == <<contents, shown, it, call>>

RECURSIVE Do(_, _, _)
RECURSIVE Valid(_)
RECURSIVE KeyOf(_)
RECURSIVE ValueOf(_)
RECURSIVE Ok(_)

-----------------------------------------------------------------------------
(* EmptyIterator.                                                          *)

ErrorIterator == [class |-> "empty", ok |-> FALSE]
EmptyIterator == [class |-> "empty", ok |-> TRUE]

-----------------------------------------------------------------------------
(* A memtable's iterator; SkipList shows that its position is the one      *)
(* asked for.                                                              *)

MemTableIterator(keys) == [class |-> "mem", keys |-> keys, pos |-> 0]

DoMemTable(m, op, t) ==
    LET n == Len(m.keys)
        to == CASE op = "first" -> 1
                [] op = "last" -> n
                [] op = "next" -> m.pos + 1
                [] op = "prev" -> m.pos - 1
                [] op = "seek" -> Cardinality({i \in 1 .. n : KeyLess(m.keys[i], t)}) + 1
    IN [m EXCEPT !.pos = IF to \in 1 .. n THEN to ELSE 0]

-----------------------------------------------------------------------------
(* Block::Iter.  next is NextEntryOffset.                                  *)

BlockIterator(b) ==
    [class |-> "block", block |-> b, current |-> Len(b.entries),
     restart_index |-> Len(b.restarts), key |-> <<>>, next |-> 0, ok |-> TRUE]

NumRestarts(i) == Len(i.block.restarts)
RestartPoint(i, index) == i.block.restarts[index + 1]

SeekToRestartPoint(i, index) ==
    [i EXCEPT !.key = <<>>, !.restart_index = index, !.next = RestartPoint(i, index)]

Ended(i) == [i EXCEPT !.current = Len(i.block.entries), !.restart_index = NumRestarts(i)]

CorruptionError(i) == [Ended(i) EXCEPT !.ok = FALSE, !.key = <<>>]

ParseNextKey(i) ==
    IF i.next >= Len(i.block.entries) THEN Ended(i)
    ELSE LET e == i.block.entries[i.next + 1]
             before == {r \in i.restart_index .. NumRestarts(i) - 1 :
                           r = i.restart_index \/ RestartPoint(i, r) < i.next}
         IN IF Len(i.key) < e.shared THEN CorruptionError(i)
            ELSE [i EXCEPT !.current = i.next, !.next = @ + 1,
                           !.key = SubSeq(@, 1, e.shared) \o e.delta,
                           !.restart_index = Largest(before)]

BlockValid(i) == i.current < Len(i.block.entries)

\* Parses one entry, and goes on while the next one starts before limit.
RECURSIVE ParseUpTo(_, _)
ParseUpTo(i, limit) ==
    LET n == ParseNextKey(i)
    IN IF BlockValid(n) /\ n.next < limit THEN ParseUpTo(n, limit) ELSE n

\* Parses until a key is not before t.
RECURSIVE ParseKeysBefore(_, _)
ParseKeysBefore(i, t) ==
    LET n == ParseNextKey(i)
    IN IF BlockValid(n) /\ KeyLess(n.key, t) THEN ParseKeysBefore(n, t) ELSE n

BlockPrev(i) ==
    LET before == {r \in 0 .. i.restart_index : RestartPoint(i, r) < i.current}
    IN IF before = {} THEN Ended(i)
       ELSE ParseUpTo(SeekToRestartPoint(i, Largest(before)), i.current)

\* The last restart point with a key before t, by bisection.
RestartBefore(i, t) ==
    LET Bisect[left, right \in 0 .. NumRestarts(i)] ==
            LET mid == (left + right + 1) \div 2
            IN IF left >= right THEN left
               ELSE IF KeyLess(i.block.entries[RestartPoint(i, mid) + 1].delta, t)
                    THEN Bisect[mid, right]
                    ELSE Bisect[left, mid - 1]
    IN Bisect[0, NumRestarts(i) - 1]

BlockSeek(i, t) ==
    ParseKeysBefore(SeekToRestartPoint(i, RestartBefore(i, t)), t)

DoBlock(i, op, t) ==
    CASE op = "first" -> ParseNextKey(SeekToRestartPoint(i, 0))
      [] op = "last" -> ParseUpTo(SeekToRestartPoint(i, NumRestarts(i) - 1), Len(i.block.entries))
      [] op = "next" -> ParseNextKey(i)
      [] op = "prev" -> BlockPrev(i)
      [] op = "seek" -> BlockSeek(i, t)

-----------------------------------------------------------------------------
(* LevelFileNumIterator, over the files of a level.                        *)

FilesIterator(files) == [class |-> "files", files |-> files, index |-> Len(files)]

DoFiles(f, op, t) ==
    LET n == Len(f.files)
    IN [f EXCEPT !.index =
           CASE op = "first" -> 0
             [] op = "last" -> IF n = 0 THEN 0 ELSE n - 1
             [] op = "next" -> f.index + 1
             [] op = "prev" -> IF f.index = 0 THEN n ELSE f.index - 1
             [] op = "seek" -> Cardinality({i \in 1 .. n : KeyLess(f.files[i].largest, t)})]

-----------------------------------------------------------------------------
(* TwoLevelIterator, over the blocks of a table or the files of a level.   *)

TwoLevelIterator(index, source) ==
    [class |-> "two", index |-> index, source |-> source, data |-> NULL, handle |-> NULL,
     ok |-> TRUE]

TableIterator(t) ==
    IF t = NULL THEN ErrorIterator ELSE TwoLevelIterator(BlockIterator(t.index), t)

ConcatenatingIterator(files) == TwoLevelIterator(FilesIterator(files), files)

\* Table::BlockReader and GetFileIterator.
BlockFunction(two, handle) ==
    IF two.index.class = "files" THEN TableIterator(two.source[handle + 1].table)
    ELSE IF handle \in two.source.bad THEN ErrorIterator
    ELSE BlockIterator(two.source.blocks[handle])

SetDataIterator(two, data) ==
    [two EXCEPT !.data = data,
                !.ok = @ /\ (two.data # NULL => Ok(two.data))]

InitDataBlock(two) ==
    IF ~Valid(two.index) THEN SetDataIterator(two, NULL)
    ELSE LET handle == ValueOf(two.index)
         IN IF two.data # NULL /\ handle = two.handle THEN two
            ELSE [SetDataIterator(two, BlockFunction(two, handle)) EXCEPT !.handle = handle]

\* SkipEmptyDataBlocksForward and -Backward.
RECURSIVE SkipEmptyDataBlocks(_, _, _)
SkipEmptyDataBlocks(two, step, from) ==
    IF two.data # NULL /\ Valid(two.data) THEN two
    ELSE IF ~Valid(two.index) THEN SetDataIterator(two, NULL)
    ELSE LET d == InitDataBlock([two EXCEPT !.index = Do(@, step, NULL)])
         IN SkipEmptyDataBlocks(
                IF d.data = NULL THEN d ELSE [d EXCEPT !.data = Do(@, from, NULL)], step, from)

\* A deviation: Seek, SeekToFirst and SeekToLast start with a good status.
DevSeekClears(two, op, t) ==
    LET moved == IF op \in {"next", "prev"} THEN two
                 ELSE InitDataBlock([two EXCEPT !.index = Do(@, op, t), !.ok = TRUE])
        placed == IF moved.data = NULL THEN moved ELSE [moved EXCEPT !.data = Do(@, op, t)]
    IN IF op \in {"last", "prev"} THEN SkipEmptyDataBlocks(placed, "prev", "last")
       ELSE SkipEmptyDataBlocks(placed, "next", "first")

DoTwoLevel(two, op, t) ==
    LET moved == IF op \in {"next", "prev"} THEN two
                 ELSE InitDataBlock([two EXCEPT !.index = Do(@, op, t)])
        placed == IF moved.data = NULL THEN moved ELSE [moved EXCEPT !.data = Do(@, op, t)]
    IN IF op \in {"last", "prev"} THEN SkipEmptyDataBlocks(placed, "prev", "last")
       ELSE SkipEmptyDataBlocks(placed, "next", "first")

-----------------------------------------------------------------------------
(* MergingIterator.                                                        *)

MergingIterator(children) ==
    CASE Len(children) = 0 -> EmptyIterator
      [] Len(children) = 1 -> children[1]
      [] OTHER -> [class |-> "merge", children |-> children, current |-> 0,
                   direction |-> "next"]

ValidChildren(m) == {i \in DOMAIN m.children : Valid(m.children[i])}

\* The first of the smallest children, and the last of the largest.
FindSmallest(m) ==
    LET Key(i) == KeyOf(m.children[i])
        V == ValidChildren(m)
    IN [m EXCEPT !.current =
           IF V = {} THEN 0
           ELSE CHOOSE i \in V : \A j \in V : ~KeyLess(Key(j), Key(i))
                                              /\ (j < i => KeyLess(Key(i), Key(j)))]

FindLargest(m) ==
    LET Key(i) == KeyOf(m.children[i])
        V == ValidChildren(m)
    IN [m EXCEPT !.current =
           IF V = {} THEN 0
           ELSE CHOOSE i \in V : \A j \in V : ~KeyLess(Key(i), Key(j))
                                              /\ (j > i => KeyLess(Key(j), Key(i)))]

\* The children other than the current one after its key, or before it.
AfterKey(c, key) ==
    LET s == Do(c, "seek", key)
    IN IF Valid(s) /\ KeyOf(s) = key THEN Do(s, "next", NULL) ELSE s

BeforeKey(c, key) ==
    LET s == Do(c, "seek", key)
    IN IF Valid(s) THEN Do(s, "prev", NULL) ELSE Do(s, "last", NULL)

\* A deviation: the other children stay where they are.
DevNoTurn(m, direction) == [m EXCEPT !.direction = direction]

TurnedTo(m, direction) ==
    LET key == KeyOf(m.children[m.current])
        Placed(c) == IF direction = "next" THEN AfterKey(c, key) ELSE BeforeKey(c, key)
    IN IF m.direction = direction THEN m
       ELSE [m EXCEPT !.direction = direction,
                !.children = [i \in DOMAIN @ |-> IF i = m.current THEN @[i] ELSE Placed(@[i])]]

DoMerge(m, op, t) ==
    LET all == [m EXCEPT !.children = [i \in DOMAIN @ |-> Do(@[i], op, t)],
                         !.direction = IF op = "last" THEN "prev" ELSE "next"]
        turned == TurnedTo(m, op)
        moved == [turned EXCEPT !.children[m.current] = Do(@, op, NULL)]
    IN CASE op \in {"first", "seek"} -> FindSmallest(all)
         [] op = "last" -> FindLargest(all)
         [] op = "next" -> FindSmallest(moved)
         [] op = "prev" -> FindLargest(moved)

-----------------------------------------------------------------------------
(* DBIter.  NULL is a cleared saved_key_.                                  *)

DBIterator(iter, sequence) ==
    [class |-> "db", iter |-> iter, sequence |-> sequence, direction |-> "next",
     saved_key |-> NULL, saved_value |-> NULL, valid |-> FALSE]

\* A cleared string is before every other.
UserAtMost(u, skip) == skip # NULL /\ ~BytesLess(skip, u)

RECURSIVE FindNextUserEntry(_, _)
FindNextUserEntry(d, skip) ==
    LET k == KeyOf(d.iter)
        seen == Sequence(k) <= d.sequence
        on == [d EXCEPT !.iter = Do(@, "next", NULL)]
        then == IF seen /\ ValueType(k) = kTypeDeletion THEN UserKey(k) ELSE skip
    IN IF seen /\ ValueType(k) = kTypeValue /\ ~UserAtMost(UserKey(k), skip)
       THEN [d EXCEPT !.valid = TRUE, !.saved_key = NULL]
       ELSE IF Valid(on.iter) THEN FindNextUserEntry(on, then)
       ELSE [on EXCEPT !.valid = FALSE, !.saved_key = NULL]

\* found is whether value_type is that of a value.
RECURSIVE PrevUserEntry(_, _)
PrevUserEntry(d, found) ==
    IF ~Valid(d.iter) THEN <<d, found>>
    ELSE LET k == KeyOf(d.iter)
             back == [d EXCEPT !.iter = Do(@, "prev", NULL)]
         IN IF Sequence(k) > d.sequence THEN PrevUserEntry(back, found)
            ELSE IF found /\ BytesLess(UserKey(k), d.saved_key) THEN <<d, found>>
            ELSE IF ValueType(k) = kTypeDeletion
                 THEN PrevUserEntry([back EXCEPT !.saved_key = NULL, !.saved_value = NULL], FALSE)
                 ELSE PrevUserEntry([back EXCEPT !.saved_key = UserKey(k),
                                                 !.saved_value = ValueOf(d.iter)], TRUE)

FindPrevUserEntry(d) ==
    LET r == PrevUserEntry(d, FALSE)
    IN IF r[2] THEN [r[1] EXCEPT !.valid = TRUE]
       ELSE [r[1] EXCEPT !.valid = FALSE, !.saved_key = NULL, !.saved_value = NULL,
                         !.direction = "next"]

DBNext(d) ==
    LET turned == [d EXCEPT !.direction = "next",
                      !.iter = IF Valid(@) THEN Do(@, "next", NULL) ELSE Do(@, "first", NULL)]
    IN IF d.direction = "next" THEN FindNextUserEntry(d, UserKey(KeyOf(d.iter)))
       ELSE IF ~Valid(turned.iter) THEN [turned EXCEPT !.valid = FALSE, !.saved_key = NULL]
       ELSE FindNextUserEntry(turned, d.saved_key)

\* Back to an entry of another user key.
RECURSIVE BeforeUserKey(_, _)
BeforeUserKey(iter, user) ==
    LET back == Do(iter, "prev", NULL)
    IN IF Valid(back) /\ ~BytesLess(UserKey(KeyOf(back)), user)
       THEN BeforeUserKey(back, user) ELSE back

DBPrev(d) ==
    LET user == UserKey(KeyOf(d.iter))
        turned == [d EXCEPT !.iter = BeforeUserKey(@, user), !.saved_key = user,
                            !.direction = "prev"]
    IN IF d.direction = "prev" THEN FindPrevUserEntry(d)
       ELSE IF ~Valid(turned.iter)
            THEN [turned EXCEPT !.valid = FALSE, !.saved_key = NULL, !.saved_value = NULL,
                                !.direction = d.direction]
       ELSE FindPrevUserEntry(turned)

DoDB(d, op, t) ==
    LET fresh == [d EXCEPT !.direction = "next", !.saved_value = NULL,
                     !.iter = IF op = "seek"
                              THEN Do(@, op, InternalKey(UserKey(t), d.sequence, kTypeValue))
                              ELSE Do(@, op, t)]
    IN CASE op = "next" -> DBNext(d)
         [] op = "prev" -> DBPrev(d)
         [] op = "last" -> FindPrevUserEntry([fresh EXCEPT !.direction = "prev"])
         [] OTHER -> IF Valid(fresh.iter) THEN FindNextUserEntry(fresh, NULL)
                     ELSE [fresh EXCEPT !.valid = FALSE]

-----------------------------------------------------------------------------
(* Virtual calls.                                                          *)

Do(i, op, t) ==
    CASE i.class = "empty" -> i
      [] i.class = "mem" -> DoMemTable(i, op, t)
      [] i.class = "block" -> DoBlock(i, op, t)
      [] i.class = "files" -> DoFiles(i, op, t)
      [] i.class = "two" -> DoTwoLevel(i, op, t)
      [] i.class = "merge" -> DoMerge(i, op, t)
      [] i.class = "db" -> DoDB(i, op, t)

Valid(i) ==
    CASE i.class = "empty" -> FALSE
      [] i.class = "mem" -> i.pos # 0
      [] i.class = "block" -> BlockValid(i)
      [] i.class = "files" -> i.index < Len(i.files)
      [] i.class = "two" -> i.data # NULL /\ Valid(i.data)
      [] i.class = "merge" -> i.current # 0
      [] i.class = "db" -> i.valid

\* The key of a DBIter is a user key; it gets the tag 0.
KeyOf(i) ==
    CASE i.class = "mem" -> i.keys[i.pos]
      [] i.class = "block" -> i.key
      [] i.class = "files" -> i.files[i.index + 1].largest
      [] i.class = "two" -> KeyOf(i.data)
      [] i.class = "merge" -> KeyOf(i.children[i.current])
      [] i.class = "db" -> Append(IF i.direction = "next" THEN UserKey(KeyOf(i.iter))
                                  ELSE i.saved_key, 0)

ValueOf(i) ==
    CASE i.class = "mem" -> i.keys[i.pos]
      [] i.class = "block" -> i.block.entries[i.current + 1].value
      [] i.class = "files" -> i.index
      [] i.class = "two" -> ValueOf(i.data)
      [] i.class = "merge" -> ValueOf(i.children[i.current])
      [] i.class = "db" -> IF i.direction = "next" THEN ValueOf(i.iter) ELSE i.saved_value

\* status().ok()
Ok(i) ==
    CASE i.class \in {"empty", "block"} -> i.ok
      [] i.class \in {"mem", "files"} -> TRUE
      [] i.class = "two" -> Ok(i.index) /\ (i.data # NULL => Ok(i.data)) /\ i.ok
      [] i.class = "merge" -> \A n \in DOMAIN i.children : Ok(i.children[n])
      [] i.class = "db" -> Ok(i.iter)

-----------------------------------------------------------------------------
(* Table::InternalGet, ApproximateOffsetOf.                                *)

\* The entry given to the saver, or NULL, and whether the status is ok.
Saved(block, index) ==
    [key |-> IF Valid(block) THEN KeyOf(block) ELSE NULL, ok |-> Ok(block) /\ Ok(index)]

GetThrough(index, t, k) ==
    IF ~Valid(index) \/ (t.filter # NULL /\ ~KeyMayMatch(t.filter, ValueOf(index), k))
    THEN [key |-> NULL, ok |-> Ok(index)]
    ELSE Saved(Do(BlockFunction([index |-> index, source |-> t], ValueOf(index)), "seek", k),
               index)

InternalGet(t, k) == GetThrough(BlockSeek(BlockIterator(t.index), k), t, k)

OffsetIn(index, t) == IF Valid(index) THEN ValueOf(index) ELSE t.metaindex

ApproximateOffsetOf(t, k) == OffsetIn(BlockSeek(BlockIterator(t.index), k), t)

-----------------------------------------------------------------------------
(* One iterator, moved in every way.                                       *)

Files(c) == c.zero \o c.one

\* The table in a file, some blocks of which cannot be read.
Opened(r, unread) == OpenTable(r, {r.file[b].offset : b \in unread})

TableOf(c, f) == Opened(BuildTable(Files(c)[f]), {b[2] : b \in {b \in c.bad : b[1] = f}})

TablesOf(c) == [f \in DOMAIN Files(c) |-> TableOf(c, f)]

\* Version::AddIterators
VersionIterators(c, table) ==
    LET File(f) == [table |-> table[f], largest |-> Last(Files(c)[f])]
    IN [f \in DOMAIN c.zero |-> TableIterator(table[f])]
       \o IF c.one = <<>> THEN <<>>
          ELSE <<ConcatenatingIterator([f \in DOMAIN c.one |-> File(Len(c.zero) + f)])>>

NewInternalIterator(c, table) ==
    MergingIterator(<<MemTableIterator(c.mem)>>
                    \o (IF c.imm = NULL THEN <<>> ELSE <<MemTableIterator(c.imm)>>)
                    \o VersionIterators(c, table))

NewIterator(c, table) ==
    CASE c.kind = "table" -> TableIterator(table[1])
      [] c.kind = "internal" -> NewInternalIterator(c, table)
      [] c.kind = "user" -> DBIterator(NewInternalIterator(c, table), c.snapshot)

Targets == {InternalKey(u, MaxSequence, kTypeValue) : u \in UserKeys}

AllKeys(c) ==
    UNION {ToSet(s) : s \in ToSet(Files(c)) \union {c.mem} \union ({c.imm} \ {NULL})}

\* The keys of S as a sequence.
InOrder(S) ==
    [n \in 1 .. Cardinality(S) |->
        CHOOSE k \in S : Cardinality({j \in S : KeyLess(j, k)}) = n - 1]

\* The entries that an iterator is to show: all of them, or the newest of each user key
\* at the snapshot unless it is a deletion.
Shown(c) ==
    LET all == AllKeys(c)
        seen == {k \in all : Sequence(k) <= c.snapshot}
        newest == {k \in seen : ~\E j \in seen : UserKey(j) = UserKey(k) /\ Last(j) > Last(k)}
    IN InOrder(IF c.kind # "user" THEN all ELSE {k \in newest : ValueType(k) = kTypeValue})

Init ==
    /\ contents \in Contents
    /\ shown = Shown(contents)
    /\ it = NewIterator(contents, TablesOf(contents))
    /\ call = NULL

Call(op, t) ==
    /\ call = NULL
    /\ op \in {"next", "prev"} => Valid(it)
    /\ call' = <<op, t>>
    /\ UNCHANGED <<contents, shown, it>>

Return ==
    /\ call # NULL
    /\ it' = Do(it, call[1], call[2])
    /\ call' = NULL
    /\ UNCHANGED <<contents, shown>>

Next ==
    \/ \E op \in {"first", "last", "next", "prev"} : Call(op, NULL)
    \/ \E t \in Targets : Call("seek", t)
    \/ Return

Spec == Init /\ [][Next]_vars

-----------------------------------------------------------------------------
(* Properties.                                                             *)

Position ==
    LET same == {i \in DOMAIN shown :
                    /\ ValueOf(it) = shown[i]
                    /\ KeyOf(it) = IF contents.kind = "user" THEN Append(UserKey(shown[i]), 0)
                                   ELSE shown[i]}
    IN IF ~Valid(it) THEN 0 ELSE IF same = {} THEN -1 ELSE CHOOSE i \in same : TRUE

C == INSTANCE Cursor WITH data <- shown, pos <- Position, Before <- KeyLess

\* An iterator over blocks, files, memtables and versions moves as a cursor over the
\* entries it is to show, with their values, whatever the calls and their directions,
\* unless its status reports an error.
MovesAsCursor == [][C!Next \/ ~Ok(it')]_vars

\* The status of an iterator is an error only if a block cannot be read, and then stays one,
\* whatever the calls that follow (that the call which skips a block has an error to report
\* is in MovesAsCursor).
ErrorsAreKept ==
    [][/\ ~Ok(it') => contents.bad # {}
       /\ ~Ok(it) => ~Ok(it')]_vars

\* States with a table and nothing else to look at.
JustOneTable == contents.kind = "table" /\ call = NULL /\ ~Valid(it)

IsNewest(got, u, keys) ==
    got.ok => IF keys = {} THEN got.key = NULL \/ UserKey(got.key) # u
              ELSE got.key = CHOOSE k \in keys : \A j \in keys : Last(j) <= Last(k)

\* Table::InternalGet gives the newest entry of a user key at a sequence number to its
\* saver, though separators and filters have kept it from looking at most blocks, unless
\* it reports an error.
GetFindsNewest ==
    JustOneTable => \A table \in {TableOf(contents, 1)} \ {NULL} :
    \A u \in UserKeys, s \in 0 .. 3 :
        LET keys == {k \in AllKeys(contents) : UserKey(k) = u /\ Sequence(k) <= s}
        IN IsNewest(InternalGet(table, InternalKey(u, s, kTypeValue)), u, keys)

\* The approximate position of a key in a file grows with the key, and that of a key in
\* the file is the position of the block which holds it.
OffsetsGrow ==
    JustOneTable => \A t \in {TableOf(contents, 1)} \ {NULL} :
        /\ \A a, b \in AllKeys(contents) \union Targets :
              KeyLess(a, b) => ApproximateOffsetOf(t, a) <= ApproximateOffsetOf(t, b)
        /\ \A k \in AllKeys(contents) :
              \E e \in ToSet(t.blocks[ApproximateOffsetOf(t, k)].entries) : e.value = k

\* A table is finished without an error only if every write succeeded: an error in an early
\* block is not covered up by later ones.
FailedBuildIsReported ==
    JustOneTable =>
    LET Built(fail) == Finish(FoldLeft(AddKey, NewTable(fail), shown))
    IN Built(0).ok /\ \A fail \in 1 .. Built(0).writes : ~Built(fail).ok
=============================================================================
