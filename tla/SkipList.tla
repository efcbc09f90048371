------------------------------ MODULE SkipList ------------------------------
(***************************************************************************)
(* leveldb db/skiplist.h: a list with one writer, which inserts, and       *)
(* readers that use no lock.  One step is one load or store of a shared    *)
(* pointer.  Nodes are named by their keys, which are distinct.            *)
(***************************************************************************)
EXTENDS Integers, FiniteSets

CONSTANTS Key, Before(_, _), \* the keys and compare_(a, b) < 0
          kMaxHeight,
          Readers,           \* iterators, one per reading thread
          head_, NULL,        \* head_ and the null pointer
          Garbage            \* a next_ pointer that NewNode did not write

VARIABLES next,         \* [node allocated -> [level -> node]]
          max_height,   \* the values stored in max_height_ so far
          w,            \* the writer inside Insert
          it            \* the readers' iterators and searches

vars == <<next, max_height, w, it>>

Levels == 0..kMaxHeight - 1
Ptr == Key \cup {head_, NULL}
Linked == {k \in DOMAIN next \ {head_} : \E n \in DOMAIN next : next[n][0] = k}

(* What the list asks of its parameters: compare_ orders the keys, and     *)
(* head_ and the null pointer are no keys.                                 *)
ListAssumptions ==
    /\ kMaxHeight \in Nat \ {0}
    /\ head_ \notin Key /\ NULL \notin Key /\ Garbage \notin Key
    /\ head_ # NULL /\ head_ # Garbage /\ NULL # Garbage
    /\ \A a \in Key : ~ Before(a, a)
    /\ \A a, b, c \in Key : Before(a, b) /\ Before(b, c) => Before(a, c)
    /\ \A a, b \in Key : a = b \/ Before(a, b) \/ Before(b, a)

Latest == CHOOSE h \in max_height : \A g \in max_height : g <= h

-----------------------------------------------------------------------------
(* Searches.  FindGreaterOrEqual, FindLessThan and FindLast walk in the    *)
(* same way: "goes on" is the condition for x = next, otherwise they drop  *)
(* a level, and at level 0 return next, x and x.                           *)
Search(find, key, h) == [find |-> find, key |-> key, x |-> head_, level |-> h - 1]
Idle == [find |-> "none", key |-> NULL, x |-> head_, level |-> 0]

KeyIsAfterNode(key, n) == n # NULL /\ Before(n, key)

GoesOn(s, nx) ==
    IF s.find = "FindLast" THEN nx # NULL ELSE KeyIsAfterNode(s.key, nx)

Found(s, nx) == ~ GoesOn(s, nx) /\ s.level = 0

SearchStep(s, nx) ==
    IF GoesOn(s, nx) THEN [s EXCEPT !.x = nx] ELSE [s EXCEPT !.level = @ - 1]

(* What the search returns to the iterator: head_ becomes NULL in Prev and *)
(* SeekToLast.                                                             *)
Returned(s, nx) ==
    IF s.find = "FindGreaterOrEqual" THEN nx
    ELSE IF s.x = head_ THEN NULL ELSE s.x

-----------------------------------------------------------------------------
(* The writer. *)
NoInsert == [pc |-> "idle", key |-> NULL, search |-> Idle, height |-> 0,
             prev |-> [l \in Levels |-> head_], i |-> 0]

(* Insert(key): the search for the predecessors begins. *)
Insert(key) ==
    /\ w.pc = "idle"
    /\ key \notin DOMAIN next
    /\ w' = [NoInsert EXCEPT !.pc = "find", !.key = key,
                !.search = Search("FindGreaterOrEqual", key, Latest)]
    /\ UNCHANGED <<next, max_height, it>>

(* One turn of FindGreaterOrEqual's loop, which also fills prev. *)
FindPrev ==
    /\ w.pc = "find"
    /\ LET s == w.search
           nx == next[s.x][s.level]
       IN w' = [w EXCEPT !.prev[s.level] = IF GoesOn(s, nx) THEN @ ELSE s.x,
                         !.search = IF Found(s, nx) THEN Idle ELSE SearchStep(s, nx),
                         !.pc = IF Found(s, nx) THEN "height" ELSE "find"]
    /\ UNCHANGED <<next, max_height, it>>

(* What RandomHeight returns, and a node that NewNode made: its pointers   *)
(* are not written.                                                        *)
Heights == 1..kMaxHeight
NewNode(height) == [l \in 0..height - 1 |-> Garbage]

(* RandomHeight, the store of max_height_ (prev[i] is head_ for the new    *)
(* levels already) and NewNode.                                            *)
ChooseHeight ==
    /\ w.pc = "height"
    /\ \E h \in Heights :
         /\ max_height' = IF h > Latest THEN max_height \cup {h} ELSE max_height
         /\ next' = [n \in DOMAIN next \cup {w.key} |->
                        IF n = w.key THEN NewNode(h) ELSE next[n]]
         /\ w' = [w EXCEPT !.pc = "set", !.height = h]
    /\ UNCHANGED it

(* A deviation: the node is published first, its own pointer set after. *)
DevPublishFirst ==
    /\ w.pc = "set"
    /\ next' = [next EXCEPT ![w.prev[w.i]][w.i] = w.key]
    /\ w' = [w EXCEPT !.pc = "publish"]
    /\ UNCHANGED <<max_height, it>>

(* x->NoBarrier_SetNext(i, prev[i]->NoBarrier_Next(i)) *)
SetNext ==
    /\ w.pc = "set"
    /\ next' = [next EXCEPT ![w.key][w.i] = next[w.prev[w.i]][w.i]]
    /\ w' = [w EXCEPT !.pc = "publish"]
    /\ UNCHANGED <<max_height, it>>

(* prev[i]->SetNext(i, x): the node becomes visible at level i. *)
Publish ==
    /\ w.pc = "publish"
    /\ next' = [next EXCEPT ![w.prev[w.i]][w.i] = w.key]
    /\ w' = IF w.i + 1 < w.height THEN [w EXCEPT !.pc = "set", !.i = @ + 1] ELSE NoInsert
    /\ UNCHANGED <<max_height, it>>

-----------------------------------------------------------------------------
(* The readers.  "node" is node_; "from", "present" and "done" are history: *)
(* the operation in progress or done last, where it started and which keys  *)
(* were linked then.                                                        *)
NewIterator == [node |-> NULL, search |-> Idle,
                op |-> "new", from |-> NULL, present |-> {}]

Quiet(r) == it[r].search = Idle

Begin(r, op, from, search, node) ==
    /\ Quiet(r)
    /\ it' = [it EXCEPT ![r] = [node |-> node, search |-> search,
                                op |-> op, from |-> from, present |-> Linked]]
    /\ UNCHANGED <<next, max_height, w>>

(* SeekToFirst and Next are a single load. *)
SeekToFirst(r) == Begin(r, "SeekToFirst", NULL, Idle, next[head_][0])

Next_(r) ==
    /\ it[r].node # NULL
    /\ Begin(r, "Next", it[r].node, Idle, next[it[r].node][0])

(* The others search.  max_height_ is loaded without a barrier: any value  *)
(* stored so far may be seen.                                              *)
Seek(r, target) ==
    \E h \in max_height :
       Begin(r, "Seek", target, Search("FindGreaterOrEqual", target, h), it[r].node)

Prev(r) ==
    /\ it[r].node # NULL
    /\ \E h \in max_height :
         Begin(r, "Prev", it[r].node, Search("FindLessThan", it[r].node, h), it[r].node)

SeekToLast(r) ==
    \E h \in max_height :
       Begin(r, "SeekToLast", NULL, Search("FindLast", NULL, h), it[r].node)

(* One turn of the loop of a search. *)
Walk(r) ==
    LET s == it[r].search
        nx == next[s.x][s.level]
    IN /\ ~ Quiet(r)
       /\ it' = [it EXCEPT ![r].search = IF Found(s, nx) THEN Idle ELSE SearchStep(s, nx),
                           ![r].node = IF Found(s, nx) THEN Returned(s, nx) ELSE @]
       /\ UNCHANGED <<next, max_height, w>>

-----------------------------------------------------------------------------
Init ==
    /\ next = [n \in {head_} |-> [l \in Levels |-> NULL]]
    /\ max_height = {1}
    /\ w = NoInsert
    /\ it = [r \in Readers |-> NewIterator]

Writer == FindPrev \/ ChooseHeight \/ SetNext \/ Publish

-----------------------------------------------------------------------------
TypeOK ==
    /\ head_ \in DOMAIN next /\ DOMAIN next \subseteq Key \cup {head_}
    /\ \A n \in DOMAIN next : \A l \in DOMAIN next[n] : next[n][l] \in Ptr \cup {Garbage}
    /\ \A r \in Readers : /\ it[r].node \in Key \cup {NULL, Garbage}
                          /\ it[r].search.x \in DOMAIN next
                          /\ it[r].search.level \in DOMAIN next[it[r].search.x]
    /\ w.pc \in {"idle", "find", "height", "set", "publish"}
    /\ \A l \in Levels : w.prev[l] \in DOMAIN next

(* Whatever the writer is doing, every level is sorted and every node on a *)
(* level is on the level below, so a search that drops a level does not    *)
(* lose its place.                                                         *)
OnLevel(l) == {k \in DOMAIN next \ {head_} : \E n \in DOMAIN next :
                  l \in DOMAIN next[n] /\ next[n][l] = k}
LevelsAreSorted ==
    \A l \in Levels :
       /\ \A n \in {head_} \cup OnLevel(l) :
            next[n][l] \notin {NULL, Garbage} =>
               next[n][l] \in Key /\ (n = head_ \/ Before(n, next[n][l]))
       /\ l > 0 => OnLevel(l) \subseteq OnLevel(l - 1)

(* A reader never follows a pointer that Insert has not written yet. *)
ReadsWrittenPointers ==
    \A r \in Readers : ~ Quiet(r) => next[it[r].search.x][it[r].search.level] # Garbage

(* Where an operation ends: at the nearest key in its direction, and it    *)
(* skips no key that was linked when it began, whatever was inserted since *)
(* and whatever stale height it started from.                              *)
Skipped(i) ==
    LET after(k) == i.node = NULL \/ Before(k, i.node)
        before(k) == i.node = NULL \/ Before(i.node, k)
    IN {k \in i.present :
          \/ i.op = "SeekToFirst" /\ after(k)
          \/ i.op = "SeekToLast" /\ before(k)
          \/ i.op = "Seek" /\ ~ Before(k, i.from) /\ after(k)
          \/ i.op = "Next" /\ Before(i.from, k) /\ after(k)
          \/ i.op = "Prev" /\ Before(k, i.from) /\ before(k)}
LandsOnNearest ==
    \A r \in Readers : Quiet(r) =>
       /\ Skipped(it[r]) = {}
       /\ it[r].node # NULL =>
            /\ it[r].node \in Linked
            /\ it[r].op = "Seek" => ~ Before(it[r].node, it[r].from)
            /\ it[r].op = "Next" => Before(it[r].from, it[r].node)
            /\ it[r].op = "Prev" => Before(it[r].node, it[r].from)
=============================================================================
