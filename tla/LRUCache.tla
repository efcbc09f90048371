------------------------------ MODULE LRUCache ------------------------------
(***************************************************************************)
(* util/cache.cc: HandleTable, LRUCache and ShardedLRUCache.  A shard is a *)
(* record:                                                                 *)
(*   entries   the live LRUHandles, by address: key, value, charge, refs;  *)
(*   lru       their list, oldest first;                                   *)
(*   list      the buckets of the hash table, each a chain of addresses;   *)
(*   elems     elems_;  usage   usage_.                                    *)
(* Every method runs under the mutex of its shard, so it is one operator.  *)
(* A freed address may be used again.                                      *)
(***************************************************************************)
EXTENDS Integers, Sequences, FiniteSets, SequencesExt

CONSTANTS Address,       \* where malloc can put a handle
          Hash(_),       \* the hash of a key
          kNumShards,
          InitialLength, \* the smallest size of a hash table
          NULL

NewShard == [entries |-> << >>, lru |-> <<>>, list |-> [i \in 0 .. InitialLength - 1 |-> <<>>],
             elems |-> 0, usage |-> 0]

(* ShardedLRUCache: one part of the hash chooses the shard, another the     *)
(* bucket; the capacity is divided, rounded up.                             *)
NewCache == [s \in 0 .. kNumShards - 1 |-> NewShard]

Shard(key) == Hash(key) % kNumShards

Hash2(key) == Hash(key) \div kNumShards

PerShard(capacity) == (capacity + kNumShards - 1) \div kNumShards

(***************************************************************************)
(* HandleTable                                                             *)
(***************************************************************************)
Bucket(list, key) == Hash2(key) % Cardinality(DOMAIN list)

(* FindPointer: the place in its chain of the entry with the key, or the    *)
(* place after the last one.                                                *)
FindPointer(c, key) ==
  LET chain == c.list[Bucket(c.list, key)]
  IN  CHOOSE i \in 1 .. Len(chain) + 1 :
        /\ i <= Len(chain) => c.entries[chain[i]].key = key
        /\ \A j \in 1 .. i - 1 : c.entries[chain[j]].key # key

Found(c, key) ==
  LET chain == c.list[Bucket(c.list, key)]
      i     == FindPointer(c, key)
  IN  IF i <= Len(chain) THEN chain[i] ELSE NULL

RECURSIVE Doubled(_, _)
Doubled(length, elems) == IF length < elems THEN Doubled(2 * length, elems) ELSE length

(* Resize: every entry goes to the front of its new bucket. *)
Resize(c) ==
  LET n   == Doubled(InitialLength, c.elems)
      all == FlattenSeq([i \in 1 .. Cardinality(DOMAIN c.list) |-> c.list[i - 1]])
  IN  [c EXCEPT !.list = [b \in 0 .. n - 1 |->
         SelectSeq(Reverse(all), LAMBDA a : Hash2(c.entries[a].key) % n = b)]]

(* HandleTable::Insert of address a: the entry takes the place of one with  *)
(* its key, or is the last of its chain.                                    *)
TableInsert(c, a) ==
  LET key == c.entries[a].key
      b   == Bucket(c.list, key)
      i   == FindPointer(c, key)
  IN  IF Found(c, key) # NULL THEN [c EXCEPT !.list[b][i] = a]
      ELSE LET d == [c EXCEPT !.list[b] = Append(@, a), !.elems = @ + 1]
           IN  IF d.elems > Cardinality(DOMAIN d.list) THEN Resize(d) ELSE d

TableRemove(c, key) ==
  IF Found(c, key) = NULL THEN c
  ELSE [c EXCEPT !.list[Bucket(c.list, key)] = RemoveAt(@, FindPointer(c, key)), !.elems = @ - 1]

(***************************************************************************)
(* LRUCache                                                                *)
(***************************************************************************)
(* Unref: the deleter runs and the handle is freed with the last reference. *)
Unref(c, a) ==
  IF c.entries[a].refs > 1 THEN [c EXCEPT !.entries[a].refs = @ - 1]
  ELSE [c EXCEPT !.usage = @ - c.entries[a].charge,
                 !.entries = [b \in DOMAIN @ \ {a} |-> @[b]]]

LRU_Remove(c, a) == [c EXCEPT !.lru = SelectSeq(@, LAMBDA b : b # a)]

LRU_Append(c, a) == [c EXCEPT !.lru = Append(@, a)]

(* Lookup takes a reference and makes the entry the newest. *)
LRULookup(c, key) ==
  LET a == Found(c, key)
  IN  IF a = NULL THEN c
      ELSE LRU_Append(LRU_Remove([c EXCEPT !.entries[a].refs = @ + 1], a), a)

(* Deviation: an entry that a reader holds is dropped without its           *)
(* reference.                                                               *)
DevForgetsReference(c, a) ==
  LET d == TableRemove(LRU_Remove(c, a), c.entries[a].key)
  IN  IF c.entries[a].refs > 1 THEN d ELSE Unref(d, a)

(* The entry leaves the list and the table, and the cache's reference ends. *)
Evicted(c, a) == Unref(TableRemove(LRU_Remove(c, a), c.entries[a].key), a)

RECURSIVE Shrink(_, _)

(* The loop at the end of Insert; it may reach the new entry itself. *)
Shrink(c, capacity) ==
  IF c.usage > capacity /\ c.lru # <<>> THEN Shrink(Evicted(c, Head(c.lru)), capacity) ELSE c

FreeAddress(c) == CHOOSE a \in Address : a \notin DOMAIN c.entries

(* Insert at address a = FreeAddress(c). *)
LRUInsert(c, key, value, charge, capacity) ==
  LET a   == FreeAddress(c)
      d   == [c EXCEPT !.entries = [b \in DOMAIN @ \cup {a} |->
                 IF b = a THEN [key |-> key, value |-> value, charge |-> charge, refs |-> 2] ELSE @[b]],
                       !.usage = @ + charge]
      old == Found(c, key)
      e   == TableInsert(LRU_Append(d, a), a)
  IN  Shrink(IF old = NULL THEN e ELSE Unref(LRU_Remove(e, old), old), capacity)

LRUErase(c, key) == IF Found(c, key) = NULL THEN c ELSE Evicted(c, Found(c, key))
=============================================================================
