----------------------------- MODULE TableCache -----------------------------
(***************************************************************************)
(* db/table_cache.cc and Table::BlockReader (table/table.cc): threads read *)
(* blocks of table files through the cache of open tables and the cache of *)
(* blocks.  Between a lookup that misses and the insertion the cache is    *)
(* not locked, so two threads may open one file and read one block.        *)
(***************************************************************************)
EXTENDS LRUCache

CONSTANTS Thread, File, MaxId,
          Offset,          \* the offsets of a table's blocks
          TableCapacity, BlockCapacity,
          BlockSize(_)     \* the charge of the block at an offset

VARIABLES tables, blocks,  \* the two caches
          last_id,         \* last_id_ of the block cache: NewId
          files,           \* the files that exist
          pc, want,        \* where a thread is, and the file and offset it reads
          th, bh           \* its handle of a table, and of a block (or the block itself)

vars == <<tables, blocks, last_id, files, pc, want, th, bh>>

Init ==
  /\ tables = NewCache /\ blocks = NewCache /\ last_id = 0 /\ files = File
  /\ pc = [t \in Thread |-> "idle"] /\ want = [t \in Thread |-> NULL]
  /\ th = [t \in Thread |-> NULL] /\ bh = [t \in Thread |-> NULL]

(* The key of a table: its number, encoded. *)
FileKey(f) == <<f>>

Go(t, label) == pc' = [pc EXCEPT ![t] = label]

TableOf(t) == tables[Shard(FileKey(want[t].file))].entries[th[t]].value

BlockKey(t) == <<TableOf(t).id, want[t].offset>>

(* FindTable: the file number is looked up.  Only files of live versions    *)
(* are read, and these exist.                                               *)
FindTable(t) ==
  /\ pc[t] = "idle"
  /\ \E f \in files, o \in Offset :
       /\ want' = [want EXCEPT ![t] = [file |-> f, offset |-> o]]
       /\ tables' = [tables EXCEPT ![Shard(FileKey(f))] = LRULookup(@, FileKey(f))]
       /\ th' = [th EXCEPT ![t] = Found(tables[Shard(FileKey(f))], FileKey(f))]
       /\ Go(t, IF Found(tables[Shard(FileKey(f))], FileKey(f)) = NULL THEN "open" ELSE "block")
  /\ UNCHANGED <<blocks, last_id, files, bh>>

(* Cache::NewId *)
NewId == last_id + 1

(* The file is opened, both names tried; an error is not cached. *)
OpenTable(t) ==
  /\ pc[t] = "open"
  /\ \/ Go(t, "idle") /\ want' = [want EXCEPT ![t] = NULL] /\ UNCHANGED <<tables, last_id, th>>
     \/ LET f == want[t].file
        IN  /\ last_id < MaxId
            /\ last_id' = last_id + 1
            /\ tables' = [tables EXCEPT ![Shard(FileKey(f))] =
                            LRUInsert(@, FileKey(f), [file |-> f, id |-> NewId], 1, PerShard(TableCapacity))]
            /\ th' = [th EXCEPT ![t] = FreeAddress(tables[Shard(FileKey(f))])]
            /\ Go(t, "block")
            /\ UNCHANGED want
  /\ UNCHANGED <<blocks, files, bh>>

(* BlockReader: the block is looked up under the table's id and the offset. *)
BlockReader(t) ==
  /\ pc[t] = "block"
  /\ LET key == BlockKey(t)
         s   == Shard(key)
     IN  /\ blocks' = [blocks EXCEPT ![s] = LRULookup(@, key)]
         /\ bh' = [bh EXCEPT ![t] = IF Found(blocks[s], key) = NULL THEN NULL ELSE [at |-> Found(blocks[s], key), key |-> key]]
         /\ Go(t, IF Found(blocks[s], key) = NULL THEN "read" ELSE "use")
  /\ UNCHANGED <<tables, last_id, files, want, th>>

(* It is read, and kept in the cache unless it may not be (mmap, or         *)
(* fill_cache is false); a read error releases the table.                   *)
ReadBlock(t) ==
  /\ pc[t] = "read"
  /\ LET key   == BlockKey(t)
         s     == Shard(key)
         block == [file |-> TableOf(t).file, offset |-> want[t].offset]
     IN  \/ /\ blocks' = [blocks EXCEPT ![s] =
                            LRUInsert(@, key, block, BlockSize(want[t].offset), PerShard(BlockCapacity))]
            /\ bh' = [bh EXCEPT ![t] = [at |-> FreeAddress(blocks[s]), key |-> key]]
            /\ Go(t, "use")
         \/ Go(t, "use") /\ UNCHANGED <<blocks, bh>>     \* DeleteBlock when done
         \/ Go(t, "done") /\ UNCHANGED <<blocks, bh>>
  /\ UNCHANGED <<tables, last_id, files, want, th>>

(* The iterator is deleted: its cleanup, ReleaseBlock. *)
ReleaseBlock(t) ==
  /\ pc[t] = "use"
  /\ blocks' = IF bh[t] = NULL THEN blocks
               ELSE [blocks EXCEPT ![Shard(bh[t].key)] = Unref(@, bh[t].at)]
  /\ bh' = [bh EXCEPT ![t] = NULL]
  /\ Go(t, "done")
  /\ UNCHANGED <<tables, last_id, files, want, th>>

(* UnrefEntry, or the end of Get. *)
UnrefEntry(t) ==
  /\ pc[t] = "done"
  /\ tables' = [tables EXCEPT ![Shard(FileKey(want[t].file))] = Unref(@, th[t])]
  /\ th' = [th EXCEPT ![t] = NULL]
  /\ want' = [want EXCEPT ![t] = NULL]
  /\ Go(t, "idle")
  /\ UNCHANGED <<blocks, last_id, files, bh>>

(* DeleteObsoleteFiles: a file no version needs is evicted and deleted. *)
Evict(f) ==
  /\ f \in files
  /\ \A t \in Thread : want[t] # NULL => want[t].file # f
  /\ tables' = [tables EXCEPT ![Shard(FileKey(f))] = LRUErase(@, FileKey(f))]
  /\ files' = files \ {f}
  /\ UNCHANGED <<blocks, last_id, pc, want, th, bh>>

Next ==
  \/ \E t \in Thread : \/ FindTable(t) \/ OpenTable(t) \/ BlockReader(t)
                       \/ ReadBlock(t) \/ ReleaseBlock(t) \/ UnrefEntry(t)
  \/ \E f \in File : Evict(f)

Spec == Init /\ [][Next]_vars

-----------------------------------------------------------------------------
Holders(a, s) == {t \in Thread : th[t] = a /\ want[t] # NULL /\ Shard(FileKey(want[t].file)) = s}

BlockHolders(a, s) == {t \in Thread : bh[t] # NULL /\ bh[t].at = a /\ Shard(bh[t].key) = s}

Sum(S, F(_)) == FoldSet(LAMBDA x, acc : F(x) + acc, 0, S)

\* A shard agrees with itself: the list and the hash table hold the same
\* entries, each in its bucket and no key twice; usage_ and elems_ are counted
\* right; a cache over its capacity has nothing left to evict.
ShardIsSound(c, capacity) ==
  /\ IsInjective(c.lru)
  /\ \A b \in DOMAIN c.list : \A i \in DOMAIN c.list[b] :
       c.list[b][i] \in ToSet(c.lru) /\ Hash2(c.entries[c.list[b][i]].key) % Cardinality(DOMAIN c.list) = b
  /\ \A a \in ToSet(c.lru) : Found(c, c.entries[a].key) = a
  /\ c.elems = Len(c.lru)
  /\ c.usage = Sum(DOMAIN c.entries, LAMBDA a : c.entries[a].charge)
  /\ c.usage > PerShard(capacity) => c.lru = <<>>

\* Both caches are sound whatever threads miss, open and insert at the same time.
CachesAreSound == \A s \in DOMAIN tables : ShardIsSound(tables[s], TableCapacity) /\ ShardIsSound(blocks[s], BlockCapacity)

\* Every handle counts the readers that hold it and the cache, so that a table or
\* block that is replaced, evicted or erased lives as long as somebody reads it,
\* and no longer.
HandlesAreCounted ==
  \A s \in DOMAIN tables :
    /\ \A a \in DOMAIN tables[s].entries :
         /\ tables[s].entries[a].refs = Cardinality(Holders(a, s)) + (IF a \in ToSet(tables[s].lru) THEN 1 ELSE 0)
         /\ tables[s].entries[a].refs > 0
    /\ \A a \in DOMAIN blocks[s].entries :
         /\ blocks[s].entries[a].refs = Cardinality(BlockHolders(a, s)) + (IF a \in ToSet(blocks[s].lru) THEN 1 ELSE 0)
         /\ blocks[s].entries[a].refs > 0
    /\ \A t \in Thread : /\ th[t] # NULL => th[t] \in DOMAIN tables[Shard(FileKey(want[t].file))].entries
                         /\ bh[t] # NULL => bh[t].at \in DOMAIN blocks[Shard(bh[t].key)].entries

\* What a thread reads is the block of the file it asked for, though a block
\* outlives the table it was read through: identifiers are not used twice.  No
\* table stays open for a file that was deleted.
ReadsItsFile ==
  /\ \A t \in Thread :
       /\ th[t] # NULL => TableOf(t).file = want[t].file
       /\ bh[t] # NULL => blocks[Shard(bh[t].key)].entries[bh[t].at].value = want[t]
  /\ \A s \in DOMAIN tables : \A a \in DOMAIN tables[s].entries : tables[s].entries[a].value.file \in files
=============================================================================
