--------------------------- MODULE StorageProofs ----------------------------
(***************************************************************************)
(* Proofs about the storage layer: the memtable and its skip list (modules *)
(* SkipList and MemTable) and the environment (module PosixEnv).           *)
(*                                                                         *)
(* For the skip list the constants are every ordered set of user keys,     *)
(* every number of entries and readers and every maximal height: its       *)
(* searches are right while the writer links nodes, and Get answers at its *)
(* snapshot.  The invariant of the skip list does not speak of             *)
(* reachability.  The keys placed on a level are those whose nodes are     *)
(* high enough, except that the node that Insert is linking counts only on *)
(* the levels that Publish has reached.  Chain says that each pointer of a *)
(* level leads to the next larger key placed on it.  All that a search has *)
(* to know is then that the node x it stands on is placed on its level,    *)
(* before the key it looks for: this stays true whatever the writer does,  *)
(* since placed keys stay placed.                                          *)
(*                                                                         *)
(* For Get the sequence numbers matter: the entry being added has a number *)
(* above last_sequence, so every entry up to a snapshot is placed when Get *)
(* begins, and no later one is ever visible at it.                         *)
(*                                                                         *)
(* For the environment the constants are every number of processes,        *)
(* threads, slots and scheduled functions.  The invariant has a part for   *)
(* each of the three state machines.                                       *)
(***************************************************************************)
EXTENDS MemTable, PosixEnv, FiniteSetTheorems, SequenceTheorems, TLAPS

After(n, k) == n = head_ \/ Before(n, k)

\* Insert has made its node and is linking it.
Inserting == w.pc \in {"set", "publish"}

\* The keys linked at each level.
Placed == [l \in Levels |->
             {k \in DOMAIN next \ {head_} :
                 l \in DOMAIN next[k] /\ (Inserting /\ k = w.key => l < w.i)}]

\* With the pointers f, level l leads from head_ through the keys P in their order.
Chain(P, f, l) ==
    /\ P \subseteq Key
    /\ \A n \in P \cup {head_} : f[n][l] = NULL \/ (f[n][l] \in P /\ After(n, f[n][l]))
    /\ \A n \in P \cup {head_}, k \in P :
          After(n, k) => f[n][l] # NULL /\ (f[n][l] = k \/ Before(f[n][l], k))
    /\ \A k \in P : \E n \in P \cup {head_} : f[n][l] = k

LevelsInv == \A l \in Levels : Chain(Placed[l], next, l)

\* A node has its levels from 0 up to a height that max_height_ has had.
NodesInv ==
    /\ head_ \in DOMAIN next /\ DOMAIN next \subseteq Key \cup {head_}
    /\ DOMAIN next[head_] = Levels
    /\ \A n \in DOMAIN next \ {head_} :
          \E h \in Heights : DOMAIN next[n] = 0..h - 1 /\ \E m \in max_height : h =< m
    /\ max_height \subseteq Heights
    /\ \E m \in max_height : \A g \in max_height : g =< m

SearchType == [find : {"none", "FindGreaterOrEqual", "FindLessThan", "FindLast"},
               key : Key \cup {NULL}, x : Key \cup {head_}, level : Levels]

\* With the keys P placed on the levels, search s stands on a placed node, before
\* the key it looks for.
SearchInv(P, s) ==
    /\ s \in SearchType
    /\ s.x \in P[s.level] \cup {head_}
    /\ s.find \in {"FindGreaterOrEqual", "FindLessThan"} => s.key \in Key /\ After(s.x, s.key)

WriterType == [pc : {"idle", "find", "height", "set", "publish"}, key : Key \cup {NULL},
               search : SearchType, height : 0..kMaxHeight,
               prev : [Levels -> Key \cup {head_}], i : Nat]

\* With the pointers f and the keys P placed on the levels, p is the node after
\* which key belongs at level l.
PrevInv(P, f, l, p, key) ==
    /\ p \in P[l] \cup {head_}
    /\ After(p, key)
    /\ f[p][l] # NULL => Before(key, f[p][l])

\* The writer has found prev on the levels it has searched, and the node it is
\* linking is published on the levels below i.
WriterInv ==
    /\ w \in WriterType
    /\ \A l \in Levels : w.prev[l] \in DOMAIN next
    /\ w.pc = "idle" => w = NoInsert
    /\ w.pc # "idle" => w.key \in Key
    /\ w.pc = "find" =>
          /\ w.key \notin DOMAIN next /\ w.i = 0
          /\ w.search.find = "FindGreaterOrEqual" /\ w.search.key = w.key
          /\ SearchInv(Placed, w.search)
          /\ \A l \in Levels : l > w.search.level => PrevInv(Placed, next, l, w.prev[l], w.key)
    /\ w.pc = "height" =>
          /\ w.key \notin DOMAIN next /\ w.i = 0
          /\ \A l \in Levels : PrevInv(Placed, next, l, w.prev[l], w.key)
    /\ Inserting =>
          /\ w.key \in DOMAIN next /\ DOMAIN next[w.key] = 0..w.height - 1
          /\ w.i < w.height
          /\ \A l \in w.i..w.height - 1 :
                /\ PrevInv(Placed, next, l, w.prev[l], w.key)
                /\ next[w.key][l] \in Placed[l] \cup {NULL, Garbage}
    /\ w.pc = "publish" => next[w.key][w.i] = next[w.prev[w.i]][w.i]

IteratorType == [node : Key \cup {NULL}, search : SearchType,
                 op : {"new", "SeekToFirst", "SeekToLast", "Seek", "Next", "Prev"},
                 from : Key \cup {NULL}, present : SUBSET Key]

\* The search that operation op makes from key from.
Searches(op, from, s) ==
    \/ op = "Seek" /\ s.find = "FindGreaterOrEqual" /\ s.key = from
    \/ op = "Prev" /\ s.find = "FindLessThan" /\ s.key = from
    \/ op = "SeekToLast" /\ s.find = "FindLast"

\* The operation of iterator i has ended where LandsOnNearest says.
Landed(i) ==
    /\ Skipped(i) = {}
    /\ i.node # NULL =>
         /\ i.op = "Seek" => ~ Before(i.node, i.from)
         /\ i.op = "Next" => Before(i.from, i.node)
         /\ i.op = "Prev" => Before(i.node, i.from)

\* An iterator is on a placed node, and what was linked when its operation began
\* is placed.
IteratorInv(P, i) ==
    /\ i \in IteratorType
    /\ i.node \in P[0] \cup {NULL}
    /\ i.present \subseteq P[0]
    /\ i.op \in {"Seek", "Next", "Prev"} => i.from \in Key
    /\ IF i.search = Idle THEN Landed(i)
       ELSE SearchInv(P, i.search) /\ Searches(i.op, i.from, i.search)

ReadersInv ==
    /\ it = [r \in Readers |-> it[r]]
    /\ \A r \in Readers : IteratorInv(Placed, it[r])

ListInv == NodesInv /\ LevelsInv /\ WriterInv /\ ReadersInv

\* FindGreaterOrEqual changes one element of prev.
LEMMA OneChanged ==
    ASSUME NEW S, NEW T, NEW f \in [S -> T], NEW k \in S, NEW v \in T
    PROVE  /\ [f EXCEPT ![k] = v] \in [S -> T] /\ [f EXCEPT ![k] = v][k] = v
           /\ \A l \in S : l # k => [f EXCEPT ![k] = v][l] = f[l]
OBVIOUS

\* Of two tags that PackSequenceAndType makes the sequence numbers decide.
LEMMA TagOrder == \A n, s \in Nat, t \in {0, 1} : n * 2 + t =< 2 * s + 1 => n =< s
OBVIOUS

-----------------------------------------------------------------------------
\* A pointer of a level that does not change keeps the level in order.
LEMMA ChainFrame ==
    ASSUME NEW P, NEW f, NEW g, NEW l, Chain(P, f, l),
           \A n \in P \cup {head_} : g[n][l] = f[n][l]
    PROVE  Chain(P, g, l)
BY DEF Chain

\* What SetNext and Publish do to a level: the new key x goes between p and the
\* node that p led to, and the level stays in order.
LEMMA ChainInsert ==
    ASSUME ListAssumptions, NEW P, NEW f, NEW g, NEW l, Chain(P, f, l),
           NEW x \in Key \ P, NEW p \in P \cup {head_}, After(p, x),
           f[p][l] # NULL => Before(x, f[p][l]),
           \A n \in P \cup {head_} : n # p => g[n][l] = f[n][l],
           g[p][l] = x, g[x][l] = f[p][l]
    PROVE  Chain(P \cup {x}, g, l)
<1> DEFINE Q == P \cup {x}
<1>1. P \subseteq Key /\ Q \subseteq Key /\ x # head_ /\ x # NULL /\ x \notin P /\ head_ \notin P
  BY DEF Chain, ListAssumptions
<1>2. ASSUME NEW n \in Q \cup {head_}
      PROVE  g[n][l] = NULL \/ (g[n][l] \in Q /\ After(n, g[n][l]))
  <2>1. CASE n = p
    BY <2>1
  <2>2. CASE n = x
    BY <2>2, <1>1 DEF Chain, After
  <2>3. CASE n # p /\ n # x
    BY <2>3 DEF Chain
  <2> QED
    BY <2>1, <2>2, <2>3
<1>3. ASSUME NEW n \in Q \cup {head_}, NEW k \in Q, After(n, k)
      PROVE  g[n][l] # NULL /\ (g[n][l] = k \/ Before(g[n][l], k))
  <2>1. CASE n = p /\ k = x
    BY <2>1, <1>1
  <2>2. CASE n = p /\ k \in P
    <3>1. f[p][l] # NULL /\ f[p][l] \in P /\ (f[p][l] = k \/ Before(f[p][l], k))
      BY <1>3, <2>2 DEF Chain
    <3>2. Before(x, f[p][l])
      BY <3>1
    <3>3. Before(x, k)
      BY <3>1, <3>2, <2>2, <1>1 DEF ListAssumptions
    <3> QED
      BY <3>3, <2>2, <1>1
  <2>3. CASE n = x
    <3>1. k \in P /\ Before(x, k)
      BY <2>3, <1>3, <1>1 DEF After, ListAssumptions
    <3>2. After(p, k)
      BY <3>1, <1>1 DEF After, ListAssumptions
    <3> QED
      BY <3>1, <3>2, <2>3 DEF Chain
  <2>4. CASE n # p /\ n # x /\ k \in P
    BY <2>4, <1>3 DEF Chain
  <2>5. CASE n # p /\ n # x /\ k = x
    <3>1. n \in P \cup {head_} /\ g[n][l] = f[n][l]
      BY <2>5
    <3>2. p # head_ => After(n, p)
      <4>1. ASSUME p # head_, ~ After(n, p)
            PROVE  FALSE
        <5>1. n \in P /\ p \in P /\ Before(p, n) /\ Before(n, x)
          BY <4>1, <2>5, <1>1, <1>3, <3>1 DEF After, ListAssumptions
        <5>2. f[p][l] \in P /\ (f[p][l] = n \/ Before(f[p][l], n)) /\ Before(x, f[p][l])
          BY <5>1, <1>1 DEF Chain, After
        <5>3. Before(x, n)
          BY <5>1, <5>2, <1>1 DEF ListAssumptions
        <5> QED
          BY <5>1, <5>3, <1>1 DEF ListAssumptions
      <4> QED
        BY <4>1
    <3>3. CASE p = head_
      <4>1. n \in P /\ Before(n, x)
        BY <3>3, <2>5, <1>3, <1>1 DEF After
      <4>2. f[p][l] \in P /\ (f[p][l] = n \/ Before(f[p][l], n)) /\ Before(x, f[p][l])
        BY <4>1, <3>3, <1>1 DEF Chain, After
      <4>3. Before(x, n)
        BY <4>1, <4>2, <1>1 DEF ListAssumptions
      <4> QED
        BY <4>1, <4>3, <1>1 DEF ListAssumptions
    <3>4. CASE p # head_
      <4>1. f[n][l] \in P /\ (f[n][l] = p \/ Before(f[n][l], p))
        BY <3>4, <3>2, <3>1 DEF Chain
      <4>2. Before(p, x)
        BY <3>4 DEF After
      <4>3. Before(f[n][l], x)
        BY <4>1, <4>2, <3>4, <1>1 DEF ListAssumptions
      <4> QED
        BY <4>1, <4>3, <3>1, <2>5, <1>1 DEF ListAssumptions
    <3> QED
      BY <3>3, <3>4
  <2> QED
    BY <2>1, <2>2, <2>3, <2>4, <2>5
<1>4. ASSUME NEW k \in Q
      PROVE  \E n \in Q \cup {head_} : g[n][l] = k
  <2>1. CASE k = x
    BY <2>1
  <2>2. CASE k \in P
    <3>1. PICK n \in P \cup {head_} : f[n][l] = k
      BY <2>2 DEF Chain
    <3>2. CASE n = p
      BY <3>1, <3>2
    <3>3. CASE n # p
      BY <3>1, <3>3
    <3> QED
      BY <3>2, <3>3
  <2> QED
    BY <2>1, <2>2
<1> QED
  BY <1>1, <1>2, <1>3, <1>4 DEF Chain

\* A node on a level is on the levels below it.
LEMMA PlacedDown ==
    ASSUME ListAssumptions, NodesInv, WriterInv, NEW l \in Levels, l > 0
    PROVE  /\ l - 1 \in Levels
           /\ Placed[l] \subseteq Placed[l - 1]
<1>1. l \in Int /\ l - 1 \in Levels
  BY DEF Levels, ListAssumptions
<1>2. ASSUME NEW k \in Placed[l]
      PROVE  k \in Placed[l - 1]
  <2>1. k \in DOMAIN next \ {head_} /\ l \in DOMAIN next[k] /\ (Inserting /\ k = w.key => l < w.i)
    BY DEF Placed
  <2>2. PICK h \in Heights : DOMAIN next[k] = 0..h - 1
    BY <2>1 DEF NodesInv
  <2>3. l - 1 \in DOMAIN next[k]
    BY <2>1, <2>2, <1>1 DEF Heights, ListAssumptions
  <2>4. w.i \in Nat
    BY DEF WriterInv, WriterType
  <2>5. Inserting /\ k = w.key => l - 1 < w.i
    BY <2>1, <2>4, <1>1
  <2> QED
    BY <1>1, <2>1, <2>3, <2>5 DEF Placed
<1> QED
  BY <1>1, <1>2

\* What a search meets: the pointer it reads is written and leads to a placed
\* node, and a search that goes on keeps its invariant.
LEMMA SearchLemma ==
    ASSUME ListAssumptions, NodesInv, LevelsInv, WriterInv,
           NEW s, SearchInv(Placed, s), NEW nx, nx = next[s.x][s.level]
    PROVE  /\ nx \in Placed[s.level] \cup {NULL}
           /\ nx # Garbage
           /\ s.find # "none" /\ ~ Found(s, nx) =>
                /\ SearchInv(Placed, SearchStep(s, nx))
                /\ SearchStep(s, nx).find = s.find
                /\ SearchStep(s, nx).key = s.key
<1>1. /\ s \in SearchType /\ s.level \in Levels /\ s.x \in Placed[s.level] \cup {head_}
      /\ s.key \in Key \cup {NULL}
  BY DEF SearchInv, SearchType
<1>2. Chain(Placed[s.level], next, s.level) /\ Placed[s.level] \subseteq Key
  BY <1>1 DEF LevelsInv, Chain
<1>3. nx \in Placed[s.level] \cup {NULL}
  BY <1>1, <1>2 DEF Chain
<1>4. nx # Garbage
  BY <1>2, <1>3 DEF ListAssumptions
<1>5. ASSUME s.find # "none", ~ Found(s, nx)
      PROVE  /\ SearchInv(Placed, SearchStep(s, nx))
             /\ SearchStep(s, nx).find = s.find
             /\ SearchStep(s, nx).key = s.key
  <2>1. CASE GoesOn(s, nx)
    <3>1. nx \in Placed[s.level] /\ nx \in Key
      BY <2>1, <1>2, <1>3, <1>5 DEF GoesOn, KeyIsAfterNode
    <3>2. SearchStep(s, nx) = [s EXCEPT !.x = nx]
      BY <2>1 DEF SearchStep
    <3>3. [s EXCEPT !.x = nx] \in SearchType
      BY <3>1, <1>1 DEF SearchType
    <3>4. s.find \in {"FindGreaterOrEqual", "FindLessThan"} => s.key \in Key /\ Before(nx, s.key)
      BY <2>1 DEF GoesOn, KeyIsAfterNode, SearchInv
    <3> QED
      BY <3>1, <3>2, <3>3, <3>4, <1>1 DEF SearchInv, SearchType, After
  <2>2. CASE ~ GoesOn(s, nx)
    <3>1. s.level # 0 /\ s.level > 0
      BY <2>2, <1>1, <1>5 DEF Found, Levels, ListAssumptions
    <3>2. s.level - 1 \in Levels /\ Placed[s.level] \subseteq Placed[s.level - 1]
      BY <3>1, <1>1, PlacedDown
    <3>3. SearchStep(s, nx) = [s EXCEPT !.level = s.level - 1]
      BY <2>2 DEF SearchStep
    <3>4. [s EXCEPT !.level = s.level - 1] \in SearchType
      BY <3>2, <1>1, Zenon DEF SearchType
    <3> QED
      BY <3>2, <3>3, <3>4, <1>1 DEF SearchInv, SearchType
  <2> QED
    BY <2>1, <2>2
<1> QED
  BY <1>3, <1>4, <1>5

\* A search that ends at level 0 returns the nearest key in its direction, and
\* no placed key lies in between (FindGreaterOrEqual, FindLessThan, FindLast).
LEMMA LandLemma ==
    ASSUME ListAssumptions, NodesInv, LevelsInv, WriterInv,
           NEW i, IteratorInv(Placed, i), i.search # Idle,
           NEW nx, nx = next[i.search.x][i.search.level], Found(i.search, nx)
    PROVE  IteratorInv(Placed, [i EXCEPT !.search = Idle, !.node = Returned(i.search, nx)])
<1> DEFINE s == i.search
           x == s.x
           j == [i EXCEPT !.search = Idle, !.node = Returned(s, nx)]
<1>1. /\ i \in IteratorType /\ SearchInv(Placed, s) /\ Searches(i.op, i.from, s)
      /\ i.present \subseteq Placed[0]
      /\ i.op \in {"Seek", "Next", "Prev"} => i.from \in Key
  BY DEF IteratorInv
<1>2. s.level = 0 /\ ~ GoesOn(s, nx) /\ 0 \in Levels
  BY DEF Found, Levels, ListAssumptions
<1>3. nx = next[x][0] /\ nx \in Placed[0] \cup {NULL}
  BY <1>1, <1>2, SearchLemma
<1>4. x \in Placed[0] \cup {head_}
  BY <1>1, <1>2 DEF SearchInv
<1>5. Chain(Placed[0], next, 0) /\ Placed[0] \subseteq Key
  BY <1>2 DEF LevelsInv, Chain
<1>6. Idle \in SearchType
  BY <1>2 DEF Idle, SearchType
<1>7. Returned(s, nx) \in Placed[0] \cup {NULL}
  BY <1>3, <1>4 DEF Returned
<1>8. /\ j \in IteratorType /\ j.node = Returned(s, nx) /\ j.search = Idle
      /\ j.op = i.op /\ j.from = i.from /\ j.present = i.present
  BY <1>1, <1>5, <1>6, <1>7, Zenon DEF IteratorType
<1>9. \A k \in Placed[0] : After(x, k) => nx # NULL /\ (nx = k \/ Before(nx, k))
  BY <1>3, <1>4, <1>5 DEF Chain
<1>10. Landed(j)
  <2>1. CASE i.op = "Seek" /\ s.find = "FindGreaterOrEqual" /\ s.key = i.from
    <3>1. /\ i.from \in Key /\ After(x, i.from) /\ j.node = nx /\ j.op = "Seek"
          /\ nx # NULL => ~ Before(nx, i.from)
      BY <2>1, <1>1, <1>2, <1>8 DEF SearchInv, Returned, GoesOn, KeyIsAfterNode
    <3>2. ASSUME NEW k \in i.present, ~ Before(k, i.from), nx = NULL \/ Before(k, nx)
          PROVE  FALSE
      <4>1. k \in Placed[0] /\ k \in Key /\ (k = i.from \/ Before(i.from, k))
        BY <3>1, <3>2, <1>1, <1>5 DEF ListAssumptions
      <4>2. After(x, k)
        BY <4>1, <3>1, <1>4, <1>5 DEF After, ListAssumptions
      <4> QED
        BY <4>1, <4>2, <3>2, <1>3, <1>5, <1>9 DEF ListAssumptions
    <3> QED
      BY <3>1, <3>2, <1>8, Zenon DEF Landed, Skipped
  <2>2. CASE i.op = "Prev" /\ s.find = "FindLessThan" /\ s.key = i.from
    <3>1. /\ i.from \in Key /\ After(x, i.from) /\ j.op = "Prev"
          /\ j.node = IF x = head_ THEN NULL ELSE x
          /\ nx # NULL => ~ Before(nx, i.from)
      BY <2>2, <1>1, <1>2, <1>8 DEF SearchInv, Returned, GoesOn, KeyIsAfterNode
    <3>2. j.node # NULL => Before(j.node, i.from)
      BY <3>1 DEF After
    <3>3. ASSUME NEW k \in i.present, Before(k, i.from), j.node = NULL \/ Before(j.node, k)
          PROVE  FALSE
      <4>1. k \in Placed[0] /\ k \in Key /\ After(x, k)
        BY <3>1, <3>3, <1>1, <1>4, <1>5 DEF After, ListAssumptions
      <4>2. nx # NULL /\ nx \in Key /\ (nx = k \/ Before(nx, k))
        BY <4>1, <1>3, <1>5, <1>9
      <4> QED
        BY <4>1, <4>2, <3>1, <3>3 DEF ListAssumptions
    <3> QED
      BY <3>1, <3>2, <3>3, <1>8, Zenon DEF Landed, Skipped
  <2>3. CASE i.op = "SeekToLast" /\ s.find = "FindLast"
    <3>1. /\ j.op = "SeekToLast" /\ j.node = IF x = head_ THEN NULL ELSE x
          /\ nx = NULL
      BY <2>3, <1>2, <1>8 DEF Returned, GoesOn
    <3>2. ASSUME NEW k \in i.present, j.node = NULL \/ Before(j.node, k)
          PROVE  FALSE
      <4>1. k \in Placed[0] /\ k \in Key /\ After(x, k)
        BY <3>1, <3>2, <1>1, <1>4, <1>5 DEF After, ListAssumptions
      <4> QED
        BY <4>1, <3>1, <1>9
    <3> QED
      BY <3>1, <3>2, <1>8 DEF Landed, Skipped
  <2> QED
    BY <1>1, <2>1, <2>2, <2>3 DEF Searches
<1> QED
  BY <1>1, <1>7, <1>8, <1>10 DEF IteratorInv

\* Placed keys stay placed, and an iterator does not notice more of them.
LEMMA IteratorStable ==
    ASSUME ListAssumptions, NEW P, NEW Q, \A l \in Levels : P[l] \subseteq Q[l],
           NEW i, IteratorInv(P, i)
    PROVE  IteratorInv(Q, i)
<1>1. 0 \in Levels
  BY DEF Levels, ListAssumptions
<1>2. SearchInv(P, i.search) => SearchInv(Q, i.search)
  BY DEF SearchInv, SearchType
<1> QED
  BY <1>1, <1>2 DEF IteratorInv

\* The linked keys are those placed at level 0.
LEMMA LinkedLemma ==
    ASSUME ListAssumptions, NodesInv, LevelsInv, WriterInv
    PROVE  Linked = Placed[0]
<1>1. 0 \in Levels /\ Chain(Placed[0], next, 0)
  BY DEF LevelsInv, Levels, ListAssumptions
<1>2. ASSUME NEW k \in Placed[0]
      PROVE  k \in Linked
  <2>1. PICK n \in Placed[0] \cup {head_} : next[n][0] = k
    BY <1>1 DEF Chain
  <2> QED
    BY <2>1, <1>1 DEF Placed, Linked, NodesInv
<1>3. ASSUME NEW k \in Linked
      PROVE  k \in Placed[0]
  <2>1. k \in Key
    BY DEF Linked, NodesInv
  <2>2. PICK n \in DOMAIN next : next[n][0] = k
    BY DEF Linked
  <2>3. CASE n \in Placed[0] \cup {head_}
    BY <2>1, <2>2, <2>3, <1>1 DEF Chain, ListAssumptions
  <2>4. CASE n \notin Placed[0] \cup {head_}
    <3>1. PICK h \in Heights : DOMAIN next[n] = 0..h - 1
      BY <2>2, <2>4 DEF NodesInv
    <3>2. 0 \in DOMAIN next[n]
      BY <3>1 DEF Heights, ListAssumptions
    <3>3. Inserting /\ n = w.key /\ ~ (0 < w.i)
      BY <3>2, <2>2, <2>4, <1>1 DEF Placed
    <3>4. w.i \in Nat /\ w.height \in 0..kMaxHeight /\ w.i < w.height
      BY <3>3 DEF WriterInv, WriterType
    <3>5. 0 \in w.i..w.height - 1
      BY <3>3, <3>4 DEF ListAssumptions
    <3>6. next[w.key][0] \in Placed[0] \cup {NULL, Garbage}
      BY <3>3, <3>5 DEF WriterInv
    <3> QED
      BY <3>3, <3>6, <2>1, <2>2 DEF ListAssumptions
  <2> QED
    BY <2>3, <2>4
<1> QED
  BY <1>2, <1>3, Zenon

-----------------------------------------------------------------------------
(***************************************************************************)
(* The readers' steps.                                                     *)
(***************************************************************************)

\* A reader that leaves its iterator with the invariant leaves ListInv true.
LEMMA ReaderFrame ==
    ASSUME ListInv, UNCHANGED <<next, max_height, w>>, NEW r \in Readers,
           NEW i, IteratorInv(Placed, i), it' = [it EXCEPT ![r] = i]
    PROVE  ListInv'
<1>1. Placed' = Placed
  BY DEF Placed, Inserting
<1>2. NodesInv'
  BY DEF ListInv, NodesInv
<1>3. LevelsInv'
  BY <1>1, ZenonT(60) DEF ListInv, LevelsInv
<1>4. WriterInv'
  BY <1>1 DEF ListInv, WriterInv, Inserting
<1>5. ReadersInv'
  BY <1>1 DEF ListInv, ReadersInv
<1> QED
  BY <1>2, <1>3, <1>4, <1>5 DEF ListInv

\* An operation that starts with search, or ends at once at node, begins well.
LEMMA BeginLemma ==
    ASSUME ListAssumptions, ListInv, NEW r \in Readers, NEW op, NEW from, NEW search, NEW node,
           Begin(r, op, from, search, node),
           IteratorInv(Placed, [node |-> node, search |-> search,
                                op |-> op, from |-> from, present |-> Placed[0]])
    PROVE  ListInv'
<1>1. Linked = Placed[0]
  BY LinkedLemma DEF ListInv
<1> QED
  BY <1>1, ReaderFrame, Zenon DEF Begin

\* What ListInv says of a reader.
LEMMA ReaderLemma ==
    ASSUME ListAssumptions, ListInv, NEW r \in Readers
    PROVE  /\ IteratorInv(Placed, it[r])
           /\ it[r].node \in Placed[0] \cup {NULL}
           /\ 0 \in Levels /\ Placed[0] \subseteq Key /\ Chain(Placed[0], next, 0)
           /\ Idle \in SearchType
<1>1. 0 \in Levels
  BY DEF Levels, ListAssumptions
<1>2. IteratorInv(Placed, it[r])
  BY DEF ListInv, ReadersInv
<1> QED
  BY <1>1, <1>2, Zenon DEF ListInv, LevelsInv, Chain, IteratorInv, Idle, SearchType

\* SeekToFirst keeps the invariant.
LEMMA SeekToFirstStep ==
    ASSUME ListAssumptions, ListInv, NEW r \in Readers, SeekToFirst(r)
    PROVE  ListInv'
<1> DEFINE node == next[head_][0]
           i == [node |-> node, search |-> Idle, op |-> "SeekToFirst", from |-> NULL,
                 present |-> Placed[0]]
<1>1. Placed[0] \subseteq Key /\ Chain(Placed[0], next, 0) /\ Idle \in SearchType
  BY ReaderLemma
<1>2. /\ node \in Placed[0] \cup {NULL}
      /\ \A k \in Placed[0] : node # NULL /\ (node = k \/ Before(node, k))
  BY <1>1 DEF Chain, After
<1>3. i \in IteratorType
  BY <1>1, <1>2 DEF IteratorType
<1>4. Landed(i)
  BY <1>1, <1>2 DEF Landed, Skipped, ListAssumptions
<1>5. IteratorInv(Placed, i)
  BY <1>2, <1>3, <1>4, ZenonT(60) DEF IteratorInv
<1> QED
  BY <1>5, BeginLemma DEF SeekToFirst

\* Next keeps the invariant.
LEMMA NextStep ==
    ASSUME ListAssumptions, ListInv, NEW r \in Readers, Next_(r)
    PROVE  ListInv'
<1> DEFINE from == it[r].node
           node == next[from][0]
           i == [node |-> node, search |-> Idle, op |-> "Next", from |-> from,
                 present |-> Placed[0]]
<1>1. Placed[0] \subseteq Key /\ Chain(Placed[0], next, 0) /\ Idle \in SearchType
  BY ReaderLemma
<1>2. from \in Placed[0]
  BY ReaderLemma DEF Next_
<1>3. /\ node = NULL \/ (node \in Placed[0] /\ Before(from, node))
      /\ \A k \in Placed[0] : Before(from, k) => node # NULL /\ (node = k \/ Before(node, k))
  BY <1>1, <1>2 DEF Chain, After, ListAssumptions
<1>4. i \in IteratorType
  <2>1. node \in Key \cup {NULL} /\ from \in Key \cup {NULL} /\ Placed[0] \in SUBSET Key
    BY <1>1, <1>2, <1>3, Zenon
  <2> QED
    BY <1>1, <2>1, Zenon DEF IteratorType
<1>5. Landed(i)
  <2>1. \A k \in Placed[0] : Before(from, k) => node # NULL /\ ~ Before(k, node)
    BY <1>1, <1>3, Zenon DEF ListAssumptions
  <2>2. Skipped(i) = {}
    BY <2>1, Zenon DEF Skipped
  <2> QED
    BY <1>3, <2>2, Zenon DEF Landed
<1>6. IteratorInv(Placed, i)
  BY <1>1, <1>2, <1>3, <1>4, <1>5, ZenonT(60) DEF IteratorInv
<1> QED
  BY <1>6, BeginLemma DEF Next_

\* A search starts at head_, at a level that max_height_ has reached.
LEMMA NewSearch ==
    ASSUME ListAssumptions, ListInv, NEW h \in max_height,
           NEW find \in {"FindGreaterOrEqual", "FindLessThan", "FindLast"},
           NEW key \in Key \cup {NULL}, find # "FindLast" => key \in Key
    PROVE  /\ SearchInv(Placed, Search(find, key, h)) /\ Search(find, key, h) # Idle
           /\ Search(find, key, h).find = find /\ Search(find, key, h).key = key
<1>1. h - 1 \in Levels
  BY DEF ListInv, NodesInv, Heights, Levels, ListAssumptions
<1>2. Search(find, key, h) \in SearchType
  BY <1>1 DEF Search, SearchType
<1> QED
  BY <1>2 DEF Search, SearchInv, Idle, After

\* Seek keeps the invariant.
LEMMA SeekStep ==
    ASSUME ListAssumptions, ListInv, NEW r \in Readers, NEW target \in Key, Seek(r, target)
    PROVE  ListInv'
<1>1. PICK h \in max_height :
         Begin(r, "Seek", target, Search("FindGreaterOrEqual", target, h), it[r].node)
  BY DEF Seek
<1> DEFINE s == Search("FindGreaterOrEqual", target, h)
           i == [node |-> it[r].node, search |-> s, op |-> "Seek", from |-> target,
                 present |-> Placed[0]]
<1>2. SearchInv(Placed, s) /\ s # Idle /\ s.find = "FindGreaterOrEqual" /\ s.key = target
  BY NewSearch
<1> HIDE DEF s
<1>3. it[r].node \in Placed[0] \cup {NULL} /\ Placed[0] \subseteq Key
  BY ReaderLemma
<1>4. i \in IteratorType
  BY <1>2, <1>3, ZenonT(60) DEF IteratorType, SearchInv
<1>5. IteratorInv(Placed, i)
  BY <1>2, <1>3, <1>4 DEF IteratorInv, Searches
<1> QED
  BY <1>1, <1>5, BeginLemma DEF s

\* Prev keeps the invariant.
LEMMA PrevStep ==
    ASSUME ListAssumptions, ListInv, NEW r \in Readers, Prev(r)
    PROVE  ListInv'
<1> DEFINE from == it[r].node
<1>1. PICK h \in max_height :
         Begin(r, "Prev", from, Search("FindLessThan", from, h), from)
  BY DEF Prev
<1> DEFINE s == Search("FindLessThan", from, h)
           i == [node |-> from, search |-> s, op |-> "Prev", from |-> from,
                 present |-> Placed[0]]
<1>2. from \in Placed[0] /\ Placed[0] \subseteq Key
  BY ReaderLemma DEF Prev
<1>3. SearchInv(Placed, s) /\ s # Idle /\ s.find = "FindLessThan" /\ s.key = from
  BY <1>2, NewSearch
<1> HIDE DEF s
<1>4. i \in IteratorType
  BY <1>2, <1>3, ZenonT(60) DEF IteratorType, SearchInv
<1>5. IteratorInv(Placed, i)
  BY <1>2, <1>3, <1>4 DEF IteratorInv, Searches
<1> QED
  BY <1>1, <1>5, BeginLemma DEF s

\* SeekToLast keeps the invariant.
LEMMA SeekToLastStep ==
    ASSUME ListAssumptions, ListInv, NEW r \in Readers, SeekToLast(r)
    PROVE  ListInv'
<1>1. PICK h \in max_height :
         Begin(r, "SeekToLast", NULL, Search("FindLast", NULL, h), it[r].node)
  BY DEF SeekToLast
<1> DEFINE s == Search("FindLast", NULL, h)
           i == [node |-> it[r].node, search |-> s, op |-> "SeekToLast", from |-> NULL,
                 present |-> Placed[0]]
<1>2. SearchInv(Placed, s) /\ s # Idle /\ s.find = "FindLast"
  BY NewSearch
<1> HIDE DEF s
<1>3. it[r].node \in Placed[0] \cup {NULL} /\ Placed[0] \subseteq Key
  BY ReaderLemma
<1>4. i \in IteratorType
  BY <1>2, <1>3, ZenonT(60) DEF IteratorType, SearchInv
<1>5. IteratorInv(Placed, i)
  BY <1>2, <1>3, <1>4 DEF IteratorInv, Searches
<1> QED
  BY <1>1, <1>5, BeginLemma DEF s

\* A turn of the loop of a search keeps the invariant.
LEMMA WalkStep ==
    ASSUME ListAssumptions, ListInv, NEW r \in Readers, Walk(r)
    PROVE  ListInv'
<1> DEFINE i == it[r]
           s == i.search
           nx == next[s.x][s.level]
           j == [i EXCEPT !.search = IF Found(s, nx) THEN Idle ELSE SearchStep(s, nx),
                          !.node = IF Found(s, nx) THEN Returned(s, nx) ELSE i.node]
<1>1. i.search # Idle /\ it' = [it EXCEPT ![r] = j] /\ UNCHANGED <<next, max_height, w>>
  BY ZenonT(60) DEF Walk, Quiet, ListInv, ReadersInv
<1>2. IteratorInv(Placed, i) /\ SearchInv(Placed, s) /\ Searches(i.op, i.from, s)
  BY <1>1, ReaderLemma DEF IteratorInv
<1>3. CASE Found(s, nx)
  <2>1. IteratorInv(Placed, [i EXCEPT !.search = Idle, !.node = Returned(s, nx)])
    BY <1>1, <1>2, <1>3, LandLemma, Zenon DEF ListInv
  <2>2. j = [i EXCEPT !.search = Idle, !.node = Returned(s, nx)]
    BY <1>3
  <2> QED
    BY <2>1, <2>2, <1>1, ReaderFrame, Zenon
<1>4. CASE ~ Found(s, nx)
  <2> DEFINE t == SearchStep(s, nx)
  <2>1. s.find # "none"
    BY <1>2, Zenon DEF Searches
  <2>2. SearchInv(Placed, t) /\ t.find = s.find /\ t.key = s.key
    BY <2>1, <1>2, <1>4, SearchLemma, ZenonT(60) DEF ListInv
  <2> HIDE DEF t
  <2>3. t # Idle
    <3>1. Idle.find = "none"
      BY Zenon DEF Idle
    <3> QED
      BY <2>1, <2>2, <3>1, Zenon
  <2>4. i \in IteratorType
    BY <1>2 DEF IteratorInv
  <2>5. j = [i EXCEPT !.search = t]
    BY <1>4, <2>4, Zenon DEF t, IteratorType
  <2> HIDE DEF s, i
  <2>6. IteratorInv(Placed, [i EXCEPT !.search = t])
    BY <2>2, <2>3, <2>4, <1>2 DEF IteratorInv, IteratorType, Searches, SearchInv
  <2> QED
    BY <2>5, <2>6, <1>1, ReaderFrame, Zenon
<1> QED
  BY <1>3, <1>4

-----------------------------------------------------------------------------
(***************************************************************************)
(* The writer's steps.                                                     *)
(***************************************************************************)

\* The readers do not notice a step of the writer that unplaces nothing.
LEMMA ReadersStable ==
    ASSUME ListAssumptions, ReadersInv, it' = it,
           \A l \in Levels : Placed[l] \subseteq Placed'[l]
    PROVE  ReadersInv'
<1>1. it' = [r \in Readers |-> it'[r]]
  BY DEF ReadersInv
<1>2. ASSUME NEW r \in Readers
      PROVE  IteratorInv(Placed', it'[r])
  <2>1. IteratorInv(Placed, it[r])
    BY DEF ReadersInv
  <2> QED
    BY <2>1, IteratorStable
<1> QED
  BY <1>1, <1>2 DEF ReadersInv

\* A step of the writer that leaves the list alone has to keep WriterInv.
LEMMA WriterFrame ==
    ASSUME ListAssumptions, ListInv, UNCHANGED <<next, max_height, it>>, Placed' = Placed, WriterInv'
    PROVE  ListInv'
<1>1. NodesInv'
  BY DEF ListInv, NodesInv
<1>2. LevelsInv'
  BY DEF ListInv, LevelsInv
<1>3. ReadersInv'
  BY ReadersStable DEF ListInv
<1> QED
  BY <1>1, <1>2, <1>3 DEF ListInv

\* The search that is none.
LEMMA IdleLemma ==
    ASSUME ListAssumptions
    PROVE  0 \in Levels /\ Idle \in SearchType
<1>1. 0 \in Levels
  BY DEF Levels, ListAssumptions
<1> QED
  BY <1>1 DEF Idle, SearchType

\* The writer outside Insert.
LEMMA NoInsertLemma ==
    ASSUME ListAssumptions
    PROVE  /\ NoInsert \in WriterType /\ NoInsert.pc = "idle"
           /\ \A l \in Levels : NoInsert.prev[l] = head_
<1>1. 0 \in Nat /\ 0 \in 0..kMaxHeight
  BY DEF ListAssumptions
<1> QED
  BY <1>1, IdleLemma DEF NoInsert, WriterType

\* The height stored last is the largest.
LEMMA LatestLemma ==
    ASSUME NodesInv
    PROVE  Latest \in max_height /\ \A g \in max_height : g =< Latest
<1>1. \E h \in max_height : \A g \in max_height : g =< h
  BY DEF NodesInv
<1> QED
  BY <1>1 DEF Latest

\* Insert begins: above the height stored last the levels are empty, so head_ is
\* the predecessor there.
LEMMA InsertStep ==
    ASSUME ListAssumptions, ListInv, NEW key \in Key, Insert(key)
    PROVE  ListInv'
<1> DEFINE s == Search("FindGreaterOrEqual", key, Latest)
<1>1. /\ w.pc = "idle" /\ key \notin DOMAIN next /\ UNCHANGED <<next, max_height, it>>
      /\ w' = [NoInsert EXCEPT !.pc = "find", !.key = key, !.search = s]
  BY DEF Insert
<1>2. Latest \in max_height /\ (\A g \in max_height : g =< Latest) /\ Latest \in Heights
  BY LatestLemma, Zenon DEF ListInv, NodesInv
<1>3. SearchInv(Placed, s) /\ s.find = "FindGreaterOrEqual" /\ s.key = key /\ s \in SearchType
  <2>1. SearchInv(Placed, s) /\ s.find = "FindGreaterOrEqual" /\ s.key = key
    <3>1. PICK find : find = "FindGreaterOrEqual"
      OBVIOUS
    <3>2. find \in {"FindGreaterOrEqual", "FindLessThan", "FindLast"} /\ key \in Key \cup {NULL}
      BY <3>1, Zenon
    <3>3. /\ SearchInv(Placed, Search(find, key, Latest))
          /\ Search(find, key, Latest).find = find /\ Search(find, key, Latest).key = key
      BY <1>2, <3>2, NewSearch
    <3> QED
      BY <3>1, <3>3, Zenon
  <2> QED
    BY <2>1, Zenon DEF SearchInv
<1>4. s.level = Latest - 1
  BY DEF Search
<1> HIDE DEF s
<1>5. 0 \in Nat /\ 0 \in 0..kMaxHeight
  BY DEF ListAssumptions
<1>6. /\ w'.pc = "find" /\ w'.key = key /\ w'.search = s /\ w'.i = 0
      /\ w'.prev = [l \in Levels |-> head_] /\ w'.height = 0
      /\ w' \in WriterType
  BY <1>1, <1>3, <1>5, Zenon DEF NoInsert, WriterType
<1>7. Placed' = Placed
  BY <1>1, <1>6 DEF Placed, Inserting
<1>8. ASSUME NEW l \in Levels, l > s.level
       PROVE  PrevInv(Placed, next, l, head_, key)
  <2>1. Placed[l] = {}
    <3>1. ASSUME NEW k \in Placed[l]
          PROVE  FALSE
      <4>1. k \in DOMAIN next \ {head_} /\ l \in DOMAIN next[k]
        BY DEF Placed
      <4>2. PICK h \in Heights : DOMAIN next[k] = 0..h - 1 /\ \E m \in max_height : h =< m
        BY <4>1 DEF ListInv, NodesInv
      <4>3. PICK m \in max_height : h =< m
        BY <4>2
      <4>4. m =< Latest /\ m \in Heights
        BY <1>2 DEF ListInv, NodesInv
      <4>5. l < h /\ l >= Latest
        BY <4>1, <4>2, <1>2, <1>4, <1>8 DEF Heights, Levels, ListAssumptions
      <4> QED
        BY <4>3, <4>4, <4>5, <1>2 DEF Heights, Levels, ListAssumptions
    <3> QED
      BY <3>1
  <2>2. next[head_][l] = NULL
    BY <2>1 DEF ListInv, LevelsInv, Chain
  <2> QED
    BY <2>2 DEF PrevInv, After
<1>9. WriterInv'
  <2>1. \A l \in Levels : w'.prev[l] \in DOMAIN next'
    BY <1>1, <1>6 DEF ListInv, NodesInv
  <2>2. SearchInv(Placed', w'.search)
    BY <1>3, <1>6, <1>7
  <2>3. \A l \in Levels : l > w'.search.level => PrevInv(Placed', next', l, w'.prev[l], w'.key)
    BY <1>1, <1>6, <1>7, <1>8
  <2> QED
    BY <2>1, <2>2, <2>3, <1>1, <1>3, <1>6 DEF WriterInv, Inserting
<1> QED
  BY <1>1, <1>7, <1>9, WriterFrame

\* A turn of FindGreaterOrEqual's loop in Insert: where the search drops a level
\* it leaves the predecessor of that level in prev.
LEMMA FindPrevStep ==
    ASSUME ListAssumptions, ListInv, FindPrev
    PROVE  ListInv'
<1> DEFINE s == w.search
           nx == next[s.x][s.level]
           prev == [w.prev EXCEPT ![s.level] = IF GoesOn(s, nx) THEN w.prev[s.level] ELSE s.x]
           t == IF Found(s, nx) THEN Idle ELSE SearchStep(s, nx)
           pc == IF Found(s, nx) THEN "height" ELSE "find"
<1>1. /\ w.pc = "find" /\ UNCHANGED <<next, max_height, it>>
      /\ w' = [w EXCEPT !.prev = prev, !.search = t, !.pc = pc]
  BY DEF FindPrev, ListInv, WriterInv, WriterType
<1>2. /\ w \in WriterType /\ w.key \in Key /\ w.key \notin DOMAIN next /\ w.i = 0
      /\ s.find = "FindGreaterOrEqual" /\ s.key = w.key /\ SearchInv(Placed, s)
      /\ \A l \in Levels : l > s.level => PrevInv(Placed, next, l, w.prev[l], w.key)
      /\ \A l \in Levels : w.prev[l] \in DOMAIN next
  BY <1>1 DEF ListInv, WriterInv
<1>3. s.level \in Levels /\ s.x \in Placed[s.level] \cup {head_} /\ s.x \in Key \cup {head_}
  BY <1>2 DEF SearchInv, SearchType
<1>4. s.x \in DOMAIN next
  BY <1>3, Zenon DEF Placed, ListInv, NodesInv
<1>5. /\ prev \in [Levels -> Key \cup {head_}]
      /\ prev[s.level] = IF GoesOn(s, nx) THEN w.prev[s.level] ELSE s.x
      /\ \A l \in Levels : l # s.level => prev[l] = w.prev[l]
      /\ \A l \in Levels : prev[l] \in DOMAIN next
  <2> DEFINE v == IF GoesOn(s, nx) THEN w.prev[s.level] ELSE s.x
  <2>1. w.prev \in [Levels -> Key \cup {head_}]
    BY <1>2, Zenon DEF WriterType
  <2>2. v \in Key \cup {head_} /\ v \in DOMAIN next
    BY <1>2, <1>3, <1>4, <2>1, Zenon
  <2>3. /\ prev \in [Levels -> Key \cup {head_}] /\ prev[s.level] = v
        /\ \A l \in Levels : l # s.level => prev[l] = w.prev[l]
    BY <1>3, <2>1, <2>2, OneChanged, Zenon
  <2> QED
    BY <1>2, <2>2, <2>3, Zenon
<1>6. nx \in Placed[s.level] \cup {NULL} /\ Placed[s.level] \subseteq Key
  BY <1>2, <1>3, SearchLemma, Zenon DEF ListInv, LevelsInv, Chain
<1>7. ~ Found(s, nx) => SearchInv(Placed, SearchStep(s, nx))
                        /\ SearchStep(s, nx).find = s.find /\ SearchStep(s, nx).key = s.key
  BY <1>2, SearchLemma, ZenonT(60) DEF ListInv
<1>8. t \in SearchType
  BY <1>7, IdleLemma, Zenon DEF SearchInv
<1> HIDE DEF prev
<1>9. /\ w' \in WriterType /\ w'.pc = pc /\ w'.key = w.key /\ w'.search = t /\ w'.i = w.i
      /\ w'.prev = prev
  BY <1>1, <1>2, <1>5, <1>8, Zenon DEF WriterType
<1>10. Placed' = Placed
  BY <1>1, <1>9 DEF Placed, Inserting
<1>11. ~ GoesOn(s, nx) => PrevInv(Placed, next, s.level, s.x, w.key)
  <2>1. ASSUME ~ GoesOn(s, nx), nx # NULL
        PROVE  Before(w.key, nx)
    <3>1. nx \in Key /\ ~ Before(nx, w.key) /\ nx \in DOMAIN next
      BY <2>1, <1>2, <1>3, <1>6, ZenonT(30) DEF GoesOn, KeyIsAfterNode, Placed
    <3> QED
      BY <3>1, <1>2 DEF ListAssumptions
  <2>2. After(s.x, w.key)
    BY <1>2 DEF SearchInv
  <2> QED
    BY <2>1, <2>2, <1>3, ZenonT(60) DEF PrevInv
<1>12. CASE Found(s, nx)
  <2>1. s.level = 0 /\ ~ GoesOn(s, nx)
    BY <1>12, Zenon DEF Found
  <2>2. ASSUME NEW l \in Levels
        PROVE  PrevInv(Placed, next, l, prev[l], w.key)
    <3>1. l = s.level \/ (l > s.level /\ l # s.level)
      BY <2>1 DEF Levels, ListAssumptions
    <3> QED
      BY <3>1, <2>1, <1>2, <1>3, <1>5, <1>11, Zenon
  <2>3. \A l \in Levels : PrevInv(Placed', next', l, w'.prev[l], w'.key)
    BY <2>2, <1>1, <1>9, <1>10
  <2>4. WriterInv'
    BY <2>3, <1>1, <1>2, <1>5, <1>9, <1>12, SMTT(30) DEF WriterInv, Inserting
  <2> QED
    BY <2>4, <1>1, <1>10, WriterFrame
<1>13. CASE ~ Found(s, nx)
  <2>1. /\ t = SearchStep(s, nx) /\ pc = "find" /\ SearchInv(Placed, t)
        /\ t.find = "FindGreaterOrEqual" /\ t.key = w.key
    BY <1>2, <1>7, <1>13, Zenon
  <2>2. ASSUME NEW l \in Levels, l > t.level
        PROVE  PrevInv(Placed, next, l, prev[l], w.key)
    <3>1. CASE GoesOn(s, nx)
      <4>1. t.level = s.level /\ prev[s.level] = w.prev[s.level]
        BY <3>1, <2>1, <1>2, <1>5, Zenon DEF SearchStep, SearchInv, SearchType
      <4> QED
        BY <4>1, <2>2, <1>2, <1>5, Zenon
    <3>2. CASE ~ GoesOn(s, nx)
      <4>1. t.level = s.level - 1 /\ prev[s.level] = s.x
        BY <3>2, <2>1, <1>2, <1>5, ZenonT(60) DEF SearchStep, SearchInv, SearchType
      <4>2. l = s.level \/ (l > s.level /\ l # s.level)
        BY <4>1, <2>2, <1>3 DEF Levels, ListAssumptions
      <4> QED
        BY <4>1, <4>2, <3>2, <1>2, <1>5, <1>11, ZenonT(30)
    <3> QED
      BY <3>1, <3>2, Zenon
  <2>3. /\ \A l \in Levels : l > w'.search.level => PrevInv(Placed', next', l, w'.prev[l], w'.key)
        /\ SearchInv(Placed', w'.search)
    BY <2>1, <2>2, <1>1, <1>9, <1>10, Zenon
  <2>4. WriterInv'
    BY <2>1, <2>3, <1>1, <1>2, <1>5, <1>9, Zenon DEF WriterInv, Inserting
  <2> QED
    BY <2>4, <1>1, <1>10, WriterFrame
<1> QED
  BY <1>12, <1>13

\* NewNode and the store of max_height_: the node is on no level yet.
LEMMA ChooseHeightStep ==
    ASSUME ListAssumptions, ListInv, ChooseHeight
    PROVE  ListInv'
<1>1. PICK h \in Heights :
         /\ max_height' = IF h > Latest THEN max_height \cup {h} ELSE max_height
         /\ next' = [n \in DOMAIN next \cup {w.key} |-> IF n = w.key THEN NewNode(h) ELSE next[n]]
         /\ w' = [w EXCEPT !.pc = "set", !.height = h]
  BY Zenon DEF ChooseHeight
<1>2. w.pc = "height" /\ it' = it
  BY ZenonT(60) DEF ChooseHeight
<1>3. /\ w \in WriterType /\ w.key \in Key /\ w.key \notin DOMAIN next /\ w.i = 0
      /\ \A l \in Levels : PrevInv(Placed, next, l, w.prev[l], w.key)
      /\ \A l \in Levels : w.prev[l] \in DOMAIN next
  BY <1>2 DEF ListInv, WriterInv
<1>4. h \in 0..kMaxHeight /\ h \in Nat /\ h > 0
  BY DEF Heights, ListAssumptions
<1>5. /\ w' \in WriterType /\ w'.pc = "set" /\ w'.height = h /\ w'.key = w.key
      /\ w'.prev = w.prev /\ w'.i = 0
  BY <1>1, <1>3, <1>4, Zenon DEF WriterType
<1>6. /\ DOMAIN next' = DOMAIN next \cup {w.key}
      /\ next'[w.key] = NewNode(h)
      /\ \A n \in DOMAIN next : next'[n] = next[n]
  BY <1>1, <1>3
<1>7. Placed' = Placed
  <2>1. ASSUME NEW l \in Levels
        PROVE  Placed'[l] = Placed[l]
    <3>1. 0 =< l /\ ~ (l < 0)
      BY DEF Levels, ListAssumptions
    <3>2. \A k \in Placed'[l] : k # w.key /\ k \in DOMAIN next
      BY <3>1, <1>5, <1>6 DEF Placed, Inserting
    <3> QED
      BY <3>2, <1>2, <1>3, <1>5, <1>6 DEF Placed, Inserting
  <2> QED
    BY <2>1, ZenonT(60) DEF Placed
<1>8. NodesInv'
  <2>1. PICK m \in max_height : \A g \in max_height : g =< m
    BY DEF ListInv, NodesInv
  <2>2. Latest \in max_height /\ (\A g \in max_height : g =< Latest) /\ max_height \subseteq Heights
    BY LatestLemma DEF ListInv, NodesInv
  <2>3. max_height' \subseteq Heights /\ max_height \subseteq max_height'
    BY <2>2, <1>1
  <2>4. \E g \in max_height' : h =< g
    <3>1. CASE h > Latest
      BY <3>1, <1>1, <1>4
    <3>2. CASE ~ (h > Latest)
      BY <3>2, <2>2, <1>1, <1>4 DEF Heights, ListAssumptions
    <3> QED
      BY <3>1, <3>2
  <2>5. \E n \in max_height' : \A g \in max_height' : g =< n
    <3>1. CASE h > Latest
      <4>1. \A g \in max_height' : g =< h
        <5>1. \A g \in Heights : g =< Latest => g =< h
          BY <3>1, <2>2, <1>4 DEF Heights, ListAssumptions
        <5> QED
          BY <5>1, <3>1, <2>2, <1>1, <1>4
      <4> QED
        BY <4>1, <3>1, <1>1
    <3>2. CASE ~ (h > Latest)
      BY <3>2, <2>2, <1>1
    <3> QED
      BY <3>1, <3>2
  <2>6. head_ \in DOMAIN next' /\ DOMAIN next' \subseteq Key \cup {head_} /\ DOMAIN next'[head_] = Levels
    BY <1>3, <1>6 DEF ListInv, NodesInv
  <2>7. ASSUME NEW n \in DOMAIN next' \ {head_}
        PROVE  \E g \in Heights : DOMAIN next'[n] = 0..g - 1 /\ \E k \in max_height' : g =< k
    <3>1. CASE n = w.key
      BY <3>1, <2>4, <1>6 DEF NewNode
    <3>2. CASE n # w.key
      BY <3>2, <2>3, <1>6 DEF ListInv, NodesInv
    <3> QED
      BY <3>1, <3>2
  <2> QED
    BY <2>3, <2>5, <2>6, <2>7, Zenon DEF NodesInv
<1>9. LevelsInv'
  <2>1. ASSUME NEW l \in Levels
        PROVE  Chain(Placed[l], next', l)
    <3>1. Chain(Placed[l], next, l)
      BY DEF ListInv, LevelsInv
    <3>2. \A n \in Placed[l] \cup {head_} : next'[n][l] = next[n][l]
      BY <1>6, Zenon DEF Placed, ListInv, NodesInv
    <3> QED
      BY <3>1, <3>2, ChainFrame
  <2> QED
    BY <2>1, <1>7 DEF LevelsInv
<1>10. WriterInv'
  <2>1. \A l \in Levels : w'.prev[l] \in DOMAIN next'
    BY <1>3, <1>5, <1>6, ZenonT(60)
  <2>2. ASSUME NEW l \in w'.i..w'.height - 1
        PROVE  /\ PrevInv(Placed', next', l, w'.prev[l], w'.key)
               /\ next'[w'.key][l] \in Placed'[l] \cup {NULL, Garbage}
    <3>1. l \in Levels /\ l \in 0..h - 1
      BY <1>4, <1>5 DEF Heights, Levels, ListAssumptions
    <3>2. next'[w.prev[l]][l] = next[w.prev[l]][l]
      BY <3>1, <1>3, <1>6
    <3>3. next'[w.key][l] = Garbage
      BY <3>1, <1>6 DEF NewNode
    <3> QED
      BY <3>1, <3>2, <3>3, <1>3, <1>5, <1>7 DEF PrevInv
  <2>3. w'.key \in DOMAIN next' /\ DOMAIN next'[w'.key] = 0..w'.height - 1 /\ w'.i < w'.height
    BY <1>4, <1>5, <1>6 DEF NewNode
  <2> QED
    BY <2>1, <2>2, <2>3, <1>3, <1>5, Zenon DEF WriterInv, Inserting
<1>11. ReadersInv'
  BY <1>2, <1>7, ReadersStable, Zenon DEF ListInv
<1> QED
  BY <1>8, <1>9, <1>10, <1>11 DEF ListInv

\* What WriterInv says while Insert links its node: its level w.i is a level of
\* the node, the node is not placed there, and prev[w.i] is another node.
LEMMA LinkingLemma ==
    ASSUME ListAssumptions, ListInv, Inserting
    PROVE  /\ w \in WriterType /\ w.key \in Key /\ w.key \in DOMAIN next
           /\ w.i \in Levels /\ w.i \in Nat /\ w.height \in Nat /\ w.i < w.height /\ w.height =< kMaxHeight
           /\ w.i \in DOMAIN next[w.key] /\ DOMAIN next[w.key] = 0..w.height - 1
           /\ w.key \notin Placed[w.i]
           /\ w.prev[w.i] \in Placed[w.i] \cup {head_} /\ w.prev[w.i] \in DOMAIN next
           /\ w.prev[w.i] # w.key /\ w.i \in DOMAIN next[w.prev[w.i]]
           /\ \A l \in w.i..w.height - 1 :
                 /\ l \in Levels
                 /\ PrevInv(Placed, next, l, w.prev[l], w.key)
                 /\ next[w.key][l] \in Placed[l] \cup {NULL, Garbage}
<1>1. /\ w \in WriterType /\ w.key \in Key /\ w.key \in DOMAIN next
      /\ w.i < w.height /\ DOMAIN next[w.key] = 0..w.height - 1
      /\ \A l \in w.i..w.height - 1 :
            /\ PrevInv(Placed, next, l, w.prev[l], w.key)
            /\ next[w.key][l] \in Placed[l] \cup {NULL, Garbage}
      /\ \A l \in Levels : w.prev[l] \in DOMAIN next
  BY Zenon DEF ListInv, WriterInv, Inserting
<1>2. w.i \in Nat /\ w.height \in 0..kMaxHeight
  BY <1>1, ZenonT(60) DEF WriterType
<1>3. /\ w.i \in Levels /\ w.height \in Nat /\ w.height =< kMaxHeight
      /\ w.i \in 0..w.height - 1 /\ w.i \in w.i..w.height - 1
      /\ \A l \in w.i..w.height - 1 : l \in Levels
  BY <1>1, <1>2 DEF Levels, ListAssumptions
<1>4. w.key \notin Placed[w.i]
  BY <1>2, <1>3 DEF Placed
<1>5. w.prev[w.i] \in Placed[w.i] \cup {head_}
  BY <1>1, <1>3, Zenon DEF PrevInv
<1>6. w.prev[w.i] # w.key /\ w.i \in DOMAIN next[w.prev[w.i]]
  <2>1. head_ \notin Key
    BY Zenon DEF ListAssumptions
  <2>2. w.i \in DOMAIN next[head_]
    BY <1>3, Zenon DEF ListInv, NodesInv
  <2>3. \A n \in Placed[w.i] : w.i \in DOMAIN next[n]
    BY <1>3, Zenon DEF Placed
  <2> QED
    BY <1>1, <1>4, <1>5, <2>1, <2>2, <2>3, Zenon
<1> QED
  BY <1>1, <1>2, <1>3, <1>4, <1>5, <1>6, Zenon

\* NoBarrier_SetNext writes a pointer that no level uses yet.
LEMMA SetNextStep ==
    ASSUME ListAssumptions, ListInv, SetNext
    PROVE  ListInv'
<1> DEFINE x == w.key
           i == w.i
           p == w.prev[i]
<1>1. /\ w.pc = "set" /\ UNCHANGED <<max_height, it>>
      /\ next' = [next EXCEPT ![x][i] = next[p][i]]
      /\ w' = [w EXCEPT !.pc = "publish"]
  BY DEF SetNext
<1>2. Inserting
  BY <1>1 DEF Inserting
<1>3. /\ w' \in WriterType /\ w'.pc = "publish" /\ w'.height = w.height /\ w'.key = x
      /\ w'.prev = w.prev /\ w'.i = i
  BY <1>1, <1>2, LinkingLemma, Zenon DEF WriterType
<1>4. /\ DOMAIN next' = DOMAIN next
      /\ \A n \in DOMAIN next : DOMAIN next'[n] = DOMAIN next[n]
      /\ next'[x][i] = next[p][i]
      /\ \A n \in DOMAIN next : \A l \in DOMAIN next[n] :
            n # x \/ l # i => next'[n][l] = next[n][l]
  BY <1>1, <1>2, LinkingLemma
<1>5. Placed' = Placed
  BY <1>2, <1>3, <1>4 DEF Placed, Inserting
<1>6. NodesInv'
  BY <1>1, <1>4 DEF ListInv, NodesInv
<1>7. LevelsInv'
  <2>1. ASSUME NEW l \in Levels
        PROVE  Chain(Placed[l], next', l)
    <3>1. Chain(Placed[l], next, l)
      BY DEF ListInv, LevelsInv
    <3>2. \A n \in Placed[l] \cup {head_} : n \in DOMAIN next /\ l \in DOMAIN next[n]
      BY SMTT(30) DEF Placed, ListInv, NodesInv
    <3>3. ASSUME NEW n \in Placed[l] \cup {head_} PROVE next'[n][l] = next[n][l]
      <4>1. x \notin Placed[i] /\ x \in Key /\ head_ \notin Key
        <5>1. head_ \notin Key
          BY Zenon DEF ListAssumptions
        <5> QED
          BY <1>2, <5>1, LinkingLemma, Zenon
      <4>2. n # x \/ l # i
        BY <4>1, Zenon
      <4> QED
        BY <1>4, <3>2, <4>2, Zenon
    <3> QED
      BY <3>1, <3>3, ChainFrame
  <2> QED
    BY <2>1, <1>5 DEF LevelsInv
<1>8. WriterInv'
  <2>1. \A l \in Levels : w'.prev[l] \in DOMAIN next'
    BY <1>3, <1>4, Zenon DEF ListInv, WriterInv
  <2>2. next[p][i] \in Placed[i] \cup {NULL}
    BY <1>2, LinkingLemma, ZenonT(30) DEF ListInv, LevelsInv, Chain
  <2>3. ASSUME NEW l \in i..w.height - 1
        PROVE  /\ PrevInv(Placed, next', l, w.prev[l], x)
               /\ next'[x][l] \in Placed[l] \cup {NULL, Garbage}
    <3>1. /\ l \in Levels /\ PrevInv(Placed, next, l, w.prev[l], x)
          /\ next[x][l] \in Placed[l] \cup {NULL, Garbage}
      BY <1>2, LinkingLemma
    <3>2. l \in DOMAIN next[x]
      <4>1. i \in Nat /\ w.height \in Nat /\ DOMAIN next[x] = 0..w.height - 1
        BY <1>2, LinkingLemma, Zenon
      <4> QED
        BY <4>1
    <3>3. w.prev[l] \in DOMAIN next /\ l \in DOMAIN next[w.prev[l]]
      BY <3>1, ZenonT(60) DEF PrevInv, Placed, ListInv, NodesInv
    <3>4. w.prev[l] # x \/ l # i
      BY <1>2, LinkingLemma
    <3>5. next'[w.prev[l]][l] = next[w.prev[l]][l]
      BY <3>3, <3>4, <1>4
    <3>6. next'[x][l] \in Placed[l] \cup {NULL, Garbage}
      <4>1. CASE l = i
        BY <4>1, <2>2, <1>4, Zenon
      <4>2. CASE l # i
        BY <4>2, <3>1, <3>2, <1>2, <1>4, LinkingLemma, Zenon
      <4> QED
        BY <4>1, <4>2, Zenon
    <3> QED
      BY <3>1, <3>5, <3>6, Zenon DEF PrevInv
  <2>4. \A l \in w'.i..w'.height - 1 :
           /\ PrevInv(Placed', next', l, w'.prev[l], w'.key)
           /\ next'[w'.key][l] \in Placed'[l] \cup {NULL, Garbage}
    BY <2>3, <1>3, <1>5, Zenon
  <2>5. next'[w'.key][w'.i] = next'[w'.prev[w'.i]][w'.i]
    BY <1>2, <1>3, <1>4, LinkingLemma, Zenon
  <2>6. w'.key \in DOMAIN next' /\ DOMAIN next'[w'.key] = 0..w'.height - 1 /\ w'.i < w'.height
    BY <1>2, <1>3, <1>4, LinkingLemma, ZenonT(60)
  <2>7. w'.key \in Key
    BY <1>2, <1>3, LinkingLemma
  <2> QED
    BY <2>1, <2>4, <2>5, <2>6, <2>7, <1>3, Zenon DEF WriterInv, Inserting
<1>9. ReadersInv'
  BY <1>1, <1>5, ReadersStable DEF ListInv
<1> QED
  BY <1>6, <1>7, <1>8, <1>9 DEF ListInv

\* SetNext of prev[i]: the node appears at level i, between prev[i] and its
\* successor, and nothing else changes for anyone.
LEMMA PublishStep ==
    ASSUME ListAssumptions, ListInv, Publish
    PROVE  ListInv'
<1> DEFINE x == w.key
           i == w.i
           p == w.prev[i]
<1>1. /\ w.pc = "publish" /\ UNCHANGED <<max_height, it>>
      /\ next' = [next EXCEPT ![p][i] = x]
      /\ w' = IF i + 1 < w.height THEN [w EXCEPT !.pc = "set", !.i = i + 1] ELSE NoInsert
  BY DEF Publish
<1>2. Inserting /\ next[x][i] = next[p][i]
  BY <1>1 DEF Inserting, ListInv, WriterInv
<1>3. /\ DOMAIN next' = DOMAIN next
      /\ \A n \in DOMAIN next : DOMAIN next'[n] = DOMAIN next[n]
      /\ next'[p][i] = x
      /\ \A n \in DOMAIN next : \A l \in DOMAIN next[n] :
            n # p \/ l # i => next'[n][l] = next[n][l]
  BY <1>1, <1>2, LinkingLemma
<1>4. /\ i + 1 < w.height => /\ w' \in WriterType /\ w'.pc = "set" /\ w'.height = w.height
                             /\ w'.key = x /\ w'.prev = w.prev /\ w'.i = i + 1
      /\ ~ (i + 1 < w.height) => w' = NoInsert /\ w'.pc = "idle"
  <2>1. w \in WriterType /\ i + 1 \in Nat
    BY <1>2, LinkingLemma
  <2> QED
    BY <2>1, <1>1, ZenonT(60) DEF WriterType, NoInsert
<1>5. ASSUME NEW l \in Levels
      PROVE  Placed'[l] = IF l = i THEN Placed[l] \cup {x} ELSE Placed[l]
  <2>1. /\ i \in Nat /\ w.height \in Nat /\ l \in Int /\ i < w.height
        /\ x \in DOMAIN next /\ x # head_ /\ DOMAIN next[x] = 0..w.height - 1
    <3>1. /\ i \in Nat /\ w.height \in Nat /\ i < w.height
          /\ x \in DOMAIN next /\ x \in Key /\ DOMAIN next[x] = 0..w.height - 1
      BY <1>2, LinkingLemma, Zenon
    <3>2. x # head_ /\ kMaxHeight \in Nat
      BY <3>1, Zenon DEF ListAssumptions
    <3>3. l \in Int
      BY <3>2 DEF Levels
    <3> QED
      BY <3>1, <3>2, <3>3, Zenon
  <2>2. ASSUME NEW k \in DOMAIN next \ {head_}, k # x
        PROVE  k \in Placed'[l] <=> k \in Placed[l]
    BY <2>2, <1>3, <1>4 DEF Placed, Inserting
  <2>3. x \in Placed[l] <=> l \in 0..i - 1
    BY <2>1, <1>2 DEF Placed, Levels
  <2>4. x \in Placed'[l] <=> l \in 0..i
    <3>1. CASE i + 1 < w.height
      BY <3>1, <2>1, <1>3, <1>4 DEF Placed, Inserting, Levels
    <3>2. CASE ~ (i + 1 < w.height)
      BY <3>2, <2>1, <1>3, <1>4 DEF Placed, Inserting, Levels
    <3> QED
      BY <3>1, <3>2
  <2>5. x \in Placed'[l] <=> x \in Placed[l] \/ l = i
    BY <2>1, <2>3, <2>4 DEF Levels
  <2>6. Placed[l] \subseteq DOMAIN next \ {head_} /\ Placed'[l] \subseteq DOMAIN next \ {head_}
    BY <1>3 DEF Placed
  <2>7. CASE l = i
    <3>1. \A k : k \in Placed'[l] <=> k \in Placed[l] \/ k = x
      BY <2>1, <2>2, <2>5, <2>6, <2>7
    <3> QED
      BY <3>1, <2>7
  <2>8. CASE l # i
    <3>1. \A k : k \in Placed'[l] <=> k \in Placed[l]
      BY <2>1, <2>2, <2>5, <2>6, <2>8
    <3> QED
      BY <3>1, <2>8
  <2> QED
    BY <2>7, <2>8
<1>6. NodesInv'
  BY <1>1, <1>3 DEF ListInv, NodesInv
<1>7. LevelsInv'
  <2>1. ASSUME NEW l \in Levels
        PROVE  Chain(Placed'[l], next', l)
    <3>1. Chain(Placed[l], next, l)
      BY DEF ListInv, LevelsInv
    <3>2. \A n \in Placed[l] \cup {head_} : n \in DOMAIN next /\ l \in DOMAIN next[n]
      BY Zenon DEF Placed, ListInv, NodesInv
    <3>3. CASE l = i
      <4>1. /\ x \in Key \ Placed[l] /\ p \in Placed[l] \cup {head_} /\ p # x
            /\ x \in DOMAIN next /\ l \in DOMAIN next[x]
            /\ PrevInv(Placed, next, l, p, x)
        <5>1. i \in i..w.height - 1
          BY <1>2, LinkingLemma
        <5> QED
          BY <5>1, <3>3, <1>2, LinkingLemma, ZenonT(60)
      <4>2. After(p, x) /\ (next[p][l] # NULL => Before(x, next[p][l]))
        BY <4>1, Zenon DEF PrevInv
      <4>3. \A n \in Placed[l] \cup {head_} : n # p => next'[n][l] = next[n][l]
        BY <3>2, <1>3, ZenonT(60)
      <4>4. next'[p][l] = x /\ next'[x][l] = next[p][l]
        BY <4>1, <3>3, <1>2, <1>3
      <4>5. Chain(Placed[l] \cup {x}, next', l)
        BY <4>1, <4>2, <4>3, <4>4, <3>1, ChainInsert, Zenon
      <4> QED
        BY <4>5, <3>3, <1>5, Zenon
    <3>4. CASE l # i
      <4>1. \A n \in Placed[l] \cup {head_} : next'[n][l] = next[n][l]
        BY <3>2, <3>4, <1>3
      <4>2. Chain(Placed[l], next', l)
        BY <4>1, <3>1, ChainFrame
      <4> QED
        BY <4>2, <3>4, <1>5, Zenon
    <3> QED
      BY <3>3, <3>4
  <2> QED
    BY <2>1 DEF LevelsInv
<1>8. WriterInv'
  <2>1. CASE i + 1 < w.height
    <3>1. \A l \in Levels : w'.prev[l] \in DOMAIN next'
      BY <2>1, <1>3, <1>4, Zenon DEF ListInv, WriterInv
    <3>2. ASSUME NEW l \in i + 1..w.height - 1
          PROVE  /\ PrevInv(Placed', next', l, w.prev[l], x)
                 /\ next'[x][l] \in Placed'[l] \cup {NULL, Garbage}
      <4>1. i \in Nat /\ w.height \in Nat /\ DOMAIN next[x] = 0..w.height - 1 /\ x \in DOMAIN next
        BY <1>2, LinkingLemma
      <4>2. l \in i..w.height - 1 /\ l # i /\ l \in DOMAIN next[x]
        BY <4>1, SMTT(30)
      <4>3. /\ l \in Levels /\ PrevInv(Placed, next, l, w.prev[l], x)
            /\ next[x][l] \in Placed[l] \cup {NULL, Garbage}
        BY <4>2, <1>2, LinkingLemma, Zenon
      <4>4. w.prev[l] \in DOMAIN next /\ l \in DOMAIN next[w.prev[l]]
        BY <4>3, ZenonT(60) DEF PrevInv, Placed, ListInv, NodesInv
      <4>5. next'[w.prev[l]][l] = next[w.prev[l]][l] /\ next'[x][l] = next[x][l]
        BY <4>1, <4>2, <4>4, <1>3
      <4>6. Placed'[l] = Placed[l]
        BY <4>2, <4>3, <1>5, Zenon
      <4> QED
        BY <4>3, <4>5, <4>6, ZenonT(60) DEF PrevInv
    <3>3. \A l \in w'.i..w'.height - 1 :
             /\ PrevInv(Placed', next', l, w'.prev[l], w'.key)
             /\ next'[w'.key][l] \in Placed'[l] \cup {NULL, Garbage}
      BY <3>2, <2>1, <1>4, Zenon
    <3>4. w'.key \in DOMAIN next' /\ DOMAIN next'[w'.key] = 0..w'.height - 1 /\ w'.key \in Key
      BY <2>1, <1>2, <1>3, <1>4, LinkingLemma, ZenonT(60)
    <3> QED
      BY <3>1, <3>3, <3>4, <2>1, <1>4, Zenon DEF WriterInv, Inserting
  <2>2. CASE ~ (i + 1 < w.height)
    <3>1. w' = NoInsert
      BY <2>2, <1>4, Zenon
    <3>2. head_ \in DOMAIN next'
      BY <1>6 DEF NodesInv
    <3> QED
      BY <3>1, <3>2, NoInsertLemma DEF WriterInv, Inserting
  <2> QED
    BY <2>1, <2>2, Zenon
<1>9. ReadersInv'
  <2>1. \A l \in Levels : Placed[l] \subseteq Placed'[l]
    BY <1>5, ZenonT(30)
  <2> QED
    BY <2>1, <1>1, ReadersStable DEF ListInv
<1> QED
  BY <1>6, <1>7, <1>8, <1>9 DEF ListInv

-----------------------------------------------------------------------------
\* The empty list has the invariant.
LEMMA ListInit ==
    ASSUME ListAssumptions, Init
    PROVE  ListInv
<1>1. /\ DOMAIN next = {head_} /\ DOMAIN next[head_] = Levels
      /\ \A l \in Levels : next[head_][l] = NULL
      /\ max_height = {1} /\ w = NoInsert /\ it = [r \in Readers |-> NewIterator]
  BY DEF Init
<1>2. \A l \in Levels : Placed[l] = {}
  BY <1>1 DEF Placed
<1>3. NodesInv
  <2>1. 1 \in Heights /\ 1 =< 1
    BY DEF Heights, ListAssumptions
  <2> QED
    BY <2>1, <1>1 DEF NodesInv
<1>4. LevelsInv
  BY <1>1, <1>2, ZenonT(60) DEF LevelsInv, Chain, After
<1>5. WriterInv
  BY <1>1, NoInsertLemma DEF WriterInv, Inserting
<1>6. ReadersInv
  <2>1. NewIterator \in IteratorType
    BY IdleLemma DEF NewIterator, IteratorType
  <2>2. IteratorInv(Placed, NewIterator)
    BY <2>1, Zenon DEF IteratorInv, NewIterator, Landed, Skipped
  <2> QED
    BY <2>2, <1>1 DEF ReadersInv
<1> QED
  BY <1>3, <1>4, <1>5, <1>6 DEF ListInv

\* The writer's steps keep the invariant.
LEMMA WriterStep ==
    ASSUME ListAssumptions, ListInv, Writer
    PROVE  ListInv'
BY FindPrevStep, ChooseHeightStep, SetNextStep, PublishStep DEF Writer

\* So does a step that leaves the list alone.
LEMMA ListStutter ==
    ASSUME ListInv, UNCHANGED vars
    PROVE  ListInv'
<1>1. UNCHANGED <<next, max_height, w, it>>
  BY DEF vars
<1>2. Placed' = Placed
  BY <1>1 DEF Placed, Inserting
<1>3. NodesInv' /\ LevelsInv'
  BY <1>1, <1>2 DEF ListInv, NodesInv, LevelsInv
<1>4. WriterInv'
  BY <1>1, <1>2, Zenon DEF ListInv, WriterInv, Inserting
<1>5. ReadersInv'
  BY <1>1, <1>2 DEF ListInv, ReadersInv
<1> QED
  BY <1>3, <1>4, <1>5 DEF ListInv

-----------------------------------------------------------------------------
\* The pointers to a level lead to the keys placed on it, those of the node that
\* Insert has not published yet included.
LEMMA OnLevelLemma ==
    ASSUME ListAssumptions, ListInv, NEW l \in Levels
    PROVE  /\ OnLevel(l) = Placed[l]
           /\ \A n \in DOMAIN next : l \in DOMAIN next[n] => next[n][l] \in Placed[l] \cup {NULL, Garbage}
<1>1. Chain(Placed[l], next, l) /\ Placed[l] \subseteq Key
  BY DEF ListInv, LevelsInv, Chain
<1>2. ASSUME NEW n \in DOMAIN next, l \in DOMAIN next[n]
      PROVE  next[n][l] \in Placed[l] \cup {NULL, Garbage}
  <2>1. CASE n \in Placed[l] \cup {head_}
    BY <2>1, <1>1, ZenonT(60) DEF Chain
  <2>2. CASE n \notin Placed[l] \cup {head_}
    <3>1. Inserting /\ n = w.key /\ ~ (l < w.i)
      BY <2>2, <1>2, ZenonT(60) DEF Placed
    <3>2. w.i \in Nat /\ w.height \in Nat /\ DOMAIN next[w.key] = 0..w.height - 1
      BY <3>1, LinkingLemma
    <3>3. l \in w.i..w.height - 1
      BY <3>1, <3>2, <1>2
    <3> QED
      BY <3>1, <3>3, LinkingLemma
  <2> QED
    BY <2>1, <2>2
<1>3. ASSUME NEW k \in OnLevel(l)
      PROVE  k \in Placed[l]
  BY <1>2 DEF OnLevel, ListInv, NodesInv, ListAssumptions
<1>4. ASSUME NEW k \in Placed[l]
      PROVE  k \in OnLevel(l)
  <2>1. PICK n \in Placed[l] \cup {head_} : next[n][l] = k
    BY <1>1 DEF Chain
  <2> QED
    BY <2>1 DEF OnLevel, Placed, ListInv, NodesInv
<1> QED
  BY <1>2, <1>3, <1>4, ZenonT(60)

\* The invariant says what the searches promise.
LEMMA ListProperties ==
    ASSUME ListAssumptions, ListInv
    PROVE  TypeOK /\ LevelsAreSorted /\ ReadsWrittenPointers /\ LandsOnNearest
<1>1. TypeOK
  <2>1. ASSUME NEW n \in DOMAIN next, NEW l \in DOMAIN next[n]
        PROVE  next[n][l] \in Ptr \cup {Garbage}
    <3>1. l \in Levels
      <4>1. CASE n = head_
        BY <4>1 DEF ListInv, NodesInv
      <4>2. CASE n # head_
        <5>1. PICK h \in Heights : DOMAIN next[n] = 0..h - 1
          BY <4>2, Zenon DEF ListInv, NodesInv
        <5> QED
          BY <5>1 DEF Heights, Levels, ListAssumptions
      <4> QED
        BY <4>1, <4>2
    <3>2. Placed[l] \subseteq Key
      BY <3>1, ZenonT(60) DEF ListInv, LevelsInv, Chain
    <3> QED
      BY <3>1, <3>2, OnLevelLemma DEF Ptr
  <2>2. ASSUME NEW r \in Readers
        PROVE  /\ it[r].node \in Key \cup {NULL, Garbage}
               /\ it[r].search.x \in DOMAIN next
               /\ it[r].search.level \in DOMAIN next[it[r].search.x]
    <3>1. IteratorInv(Placed, it[r]) /\ it[r].node \in Key \cup {NULL, Garbage}
      BY SMTT(30) DEF ListInv, ReadersInv, IteratorInv, IteratorType
    <3>2. it[r].search.level \in Levels /\ it[r].search.x \in Placed[it[r].search.level] \cup {head_}
      <4>1. CASE it[r].search = Idle
        <5>1. Idle.level = 0 /\ Idle.x = head_
          BY Zenon DEF Idle
        <5> QED
          BY <4>1, <5>1, IdleLemma, Zenon
      <4>2. CASE it[r].search # Idle
        BY <4>2, <3>1, ZenonT(60) DEF IteratorInv, SearchInv, SearchType
      <4> QED
        BY <4>1, <4>2
    <3> QED
      BY <3>1, <3>2, SMTT(30) DEF Placed, ListInv, NodesInv
  <2>3. w.pc \in {"idle", "find", "height", "set", "publish"} /\ \A l \in Levels : w.prev[l] \in DOMAIN next
    BY DEF ListInv, WriterInv, WriterType
  <2> QED
    BY <2>1, <2>2, <2>3 DEF TypeOK, ListInv, NodesInv
<1>2. LevelsAreSorted
  <2>1. ASSUME NEW l \in Levels
        PROVE  /\ \A n \in {head_} \cup OnLevel(l) :
                    next[n][l] \notin {NULL, Garbage} =>
                       next[n][l] \in Key /\ (n = head_ \/ Before(n, next[n][l]))
               /\ l > 0 => OnLevel(l) \subseteq OnLevel(l - 1)
    <3>1. OnLevel(l) = Placed[l] /\ Chain(Placed[l], next, l)
      BY OnLevelLemma DEF ListInv, LevelsInv
    <3>2. l > 0 => OnLevel(l) \subseteq OnLevel(l - 1)
      <4>1. ASSUME l > 0
            PROVE  l - 1 \in Levels /\ Placed[l] \subseteq Placed[l - 1]
        BY <4>1, PlacedDown DEF ListInv
      <4> QED
        BY <4>1, <3>1, OnLevelLemma
    <3> QED
      BY <3>1, <3>2 DEF Chain, After
  <2> QED
    BY <2>1 DEF LevelsAreSorted
<1>3. ReadsWrittenPointers
  <2>1. ASSUME NEW r \in Readers, ~ Quiet(r)
        PROVE  next[it[r].search.x][it[r].search.level] # Garbage
    <3>1. SearchInv(Placed, it[r].search)
      BY <2>1, ZenonT(60) DEF ListInv, ReadersInv, IteratorInv, Quiet
    <3> QED
      BY <3>1, SearchLemma DEF ListInv
  <2> QED
    BY <2>1, SMTT(30) DEF ReadsWrittenPointers
<1>4. LandsOnNearest
  <2>1. Linked = Placed[0]
    BY LinkedLemma DEF ListInv
  <2>2. ASSUME NEW r \in Readers, Quiet(r)
        PROVE  Landed(it[r]) /\ (it[r].node # NULL => it[r].node \in Linked)
    BY <2>1, <2>2 DEF ListInv, ReadersInv, IteratorInv, Quiet
  <2> QED
    BY <2>2 DEF LandsOnNearest, Landed
<1> QED
  BY <1>1, <1>2, <1>3, <1>4, ZenonT(60)

-----------------------------------------------------------------------------
(***************************************************************************)
(* The memtable on top of the list.                                        *)
(***************************************************************************)

Allocated == DOMAIN next \ {head_}

\* Sequence numbers are given once, in order, and published only when all the
\* entries up to them are linked.
SequenceInv ==
    /\ added \in 0..MaxSeq /\ last_sequence \in 0..added
    /\ \A n \in Allocated : n.seq =< added
    /\ \A n, m \in Allocated : n.seq = m.seq => n = m
    /\ w.pc # "idle" => w.key.seq = added /\ last_sequence < added
    /\ w.pc \in {"find", "height"} => \A n \in Allocated : n.seq < added

GetType == [user : Users \cup {NULL}, snapshot : Nat,
            ret : {"none", "seeking", "absent", "deleted", "found"} \X (0..MaxSeq)]

VisibleIn(A, user, s) == {k \in A : k.user = user /\ k.seq =< s}

\* With the entries A allocated and those up to last published, a Get g on
\* iterator i seeks among all the entries up to its snapshot, or has its answer.
GetInv(A, last, i, g) ==
    /\ g \in GetType
    /\ g.ret[1] # "none" => g.user \in Users /\ g.snapshot \in 0..last
    /\ g.ret[1] = "seeking" =>
         /\ i.op = "Seek" /\ i.from = LookupKey(g.user, g.snapshot)
         /\ \A k \in A : k.seq =< g.snapshot => k \in i.present
    /\ g.ret[1] \notin {"none", "seeking"} =>
         g.ret = SnapshotAnswer(VisibleIn(A, g.user, g.snapshot))

GetsInv ==
    /\ get = [r \in Readers |-> get[r]]
    /\ \A r \in Readers : GetInv(Allocated, last_sequence, it[r], get[r])

TableInv == ListInv /\ SequenceInv /\ GetsInv

-----------------------------------------------------------------------------
\* The comparator of internal keys orders them, given that the user's comparator
\* orders the user keys (InternalKeyComparator::Compare).
LEMMA InternalKeysAreOrdered ==
    ASSUME MemTableAssumptions
    PROVE  ListAssumptions
<1>1. \A a \in Key : a.user \in Users /\ a.seq \in 0..MaxSeq /\ a.seq \in Nat /\ a.type \in {0, 1}
  BY DEF MemTableAssumptions, kTypeDeletion, kTypeValue
<1>2. \A a \in Key : Tag(a) \in Nat /\ Tag(a) = a.seq * 2 + a.type
  BY <1>1 DEF Tag, PackSequenceAndType
<1>3. \A a \in Key : ~ Before(a, a)
  BY <1>1, <1>2 DEF MemTableAssumptions, InternalBefore
<1>4. ASSUME NEW a \in Key, NEW b \in Key, NEW c \in Key, Before(a, b), Before(b, c)
      PROVE  Before(a, c)
  <2>1. InternalBefore(a, b) /\ InternalBefore(b, c)
    BY <1>4 DEF MemTableAssumptions
  <2>2. InternalBefore(a, c)
    <3>1. /\ a.user \in Users /\ b.user \in Users /\ c.user \in Users
          /\ Tag(a) \in Nat /\ Tag(b) \in Nat /\ Tag(c) \in Nat
      BY <1>1, <1>2
    <3> QED
      BY <3>1, <2>1 DEF MemTableAssumptions, InternalBefore
  <2> QED
    BY <2>2 DEF MemTableAssumptions
<1>5. ASSUME NEW a \in Key, NEW b \in Key, ~ Before(a, b), ~ Before(b, a)
      PROVE  a = b
  <2>1. ~ InternalBefore(a, b) /\ ~ InternalBefore(b, a)
    BY <1>5 DEF MemTableAssumptions
  <2>2. a.user = b.user
    BY <2>1, <1>1 DEF MemTableAssumptions, InternalBefore
  <2>3. Tag(a) = Tag(b)
    BY <2>1, <2>2, <1>2 DEF InternalBefore
  <2>4. a.seq = b.seq /\ a.type = b.type
    <3>1. PICK m \in Nat, t \in {0, 1} : m = a.seq /\ t = a.type /\ Tag(a) = m * 2 + t
      BY <1>1, <1>2, Zenon
    <3>2. PICK n \in Nat, v \in {0, 1} : n = b.seq /\ v = b.type /\ Tag(b) = n * 2 + v
      BY <1>1, <1>2, Zenon
    <3>3. m * 2 + t = n * 2 + v
      BY <2>3, <3>1, <3>2, Zenon
    <3>4. m = n /\ t = v
      BY <3>3
    <3> QED
      BY <3>1, <3>2, <3>4, Zenon
  <2> QED
    BY <2>2, <2>4 DEF MemTableAssumptions
<1> QED
  BY <1>3, <1>4, <1>5 DEF MemTableAssumptions, ListAssumptions

\* Sequence numbers are naturals.
LEMMA NumbersLemma ==
    ASSUME MaxSeq \in Nat, SequenceInv
    PROVE  /\ added \in Nat /\ last_sequence \in Nat /\ last_sequence =< added
           /\ added < MaxSeq => added + 1 \in 0..MaxSeq
           /\ \A s \in 0..last_sequence : s \in Nat /\ s \in 0..MaxSeq
<1>1. added \in 0..MaxSeq /\ last_sequence \in 0..added
  BY Zenon DEF SequenceInv
<1> QED
  BY <1>1

\* What there is to know of an entry and of a Get that begins.
LEMMA EntriesLemma ==
    ASSUME MemTableAssumptions
    PROVE  /\ MaxSeq \in Nat /\ 0 \in 0..MaxSeq
           /\ ListInv => \A k \in Allocated : k \in Key /\ k.seq \in Nat
           /\ NoGet \in GetType /\ NoGet.ret[1] = "none"
           /\ \A u \in Users, s \in Nat : [user |-> u, snapshot |-> s, ret |-> <<"seeking", 0>>] \in GetType
<1>1. MaxSeq \in Nat /\ \A k \in Key : k.seq \in 0..MaxSeq
  BY Zenon DEF MemTableAssumptions
<1>2. 0 \in 0..MaxSeq /\ 0 \in Nat /\ \A s \in 0..MaxSeq : s \in Nat
  BY <1>1
<1>3. ListInv => \A k \in Allocated : k \in Key
  BY ZenonT(60) DEF Allocated, ListInv, NodesInv
<1>4. NoGet \in GetType /\ NoGet.ret[1] = "none"
  BY <1>2 DEF NoGet, GetType
<1>5. \A u \in Users, s \in Nat : [user |-> u, snapshot |-> s, ret |-> <<"seeking", 0>>] \in GetType
  BY <1>2 DEF GetType
<1> QED
  BY <1>1, <1>2, <1>3, <1>4, <1>5, Zenon

\* A Get does not notice more entries when they come after its snapshot.
LEMMA GetStable ==
    ASSUME NEW A, NEW B, NEW last \in Nat, NEW last2 \in Nat, last =< last2,
           A \subseteq B, \A k \in B \ A : k.seq \in Nat /\ k.seq > last,
           NEW i, NEW j, j.op = i.op, j.from = i.from, j.present = i.present,
           NEW g, GetInv(A, last, i, g)
    PROVE  GetInv(B, last2, j, g)
<1>4. g.ret[1] # "none" => g.snapshot \in 0..last
  BY Zenon DEF GetInv
<1>5. \A s \in 0..last : s \in 0..last2 /\ s \in Nat /\ s =< last
  OBVIOUS
<1>1. g.ret[1] # "none" => g.snapshot \in 0..last2 /\ g.snapshot \in Nat /\ g.snapshot =< last
  BY <1>4, <1>5, Zenon
<1>2. g.ret[1] # "none" => \A k \in B : k.seq =< g.snapshot => k \in A
  BY <1>1
<1>3. g.ret[1] # "none" => VisibleIn(B, g.user, g.snapshot) = VisibleIn(A, g.user, g.snapshot)
  BY <1>2, ZenonT(60) DEF VisibleIn
<1> QED
  BY <1>1, <1>2, <1>3, Zenon DEF GetInv

\* What Get makes of the entry its Seek found is what the entries up to the
\* snapshot say: the Seek has skipped the newer entries of the user key and stops
\* at the newest of the others.
LEMMA AnswerLemma ==
    ASSUME MemTableAssumptions, TableInv, NEW r \in Readers,
           get[r].ret[1] = "seeking", Quiet(r)
    PROVE  LET a == Answer(it[r].node, get[r].user)
           IN  /\ a = SnapshotAnswer(VisibleIn(Allocated, get[r].user, get[r].snapshot))
               /\ a \in {"absent", "deleted", "found"} \X (0..MaxSeq)
<1> DEFINE node == it[r].node
           u == get[r].user
           s == get[r].snapshot
           from == LookupKey(u, s)
           V == VisibleIn(Allocated, u, s)
<1> USE DEF kTypeDeletion, kTypeValue
<1>1. ListAssumptions
  BY InternalKeysAreOrdered, Zenon
<1>2. /\ u \in Users /\ s \in 0..last_sequence /\ last_sequence \in 0..added /\ added \in 0..MaxSeq
      /\ it[r].op = "Seek" /\ it[r].from = from
      /\ \A k \in Allocated : k.seq =< s => k \in it[r].present
  BY Zenon DEF TableInv, GetsInv, GetInv, SequenceInv
<1>3. /\ s \in 0..MaxSeq /\ s \in Nat
  BY <1>2, NumbersLemma, EntriesLemma, ZenonT(60) DEF TableInv
<1>4. from \in Key /\ from.user = u /\ from.seq = s /\ Tag(from) = 2 * s + 1
  <2>1. from = [user |-> u, seq |-> s, type |-> 1]
    BY DEF LookupKey, InternalKey, kValueTypeForSeek
  <2> QED
    BY <2>1, <1>2, <1>3 DEF MemTableAssumptions, Tag, PackSequenceAndType
<1>5. /\ Landed(it[r]) /\ node \in Placed[0] \cup {NULL} /\ NULL \notin Key
      /\ 0 \in Levels
  BY <1>1, ReaderLemma, Zenon DEF TableInv, IteratorInv, Quiet, MemTableAssumptions
<1>6. Allocated \subseteq Key /\ Placed[0] \subseteq Allocated
  BY <1>5, ZenonT(30) DEF Allocated, Placed, TableInv, ListInv, NodesInv
<1>7. \A k \in Key : /\ k.user \in Users /\ k.seq \in 0..MaxSeq /\ k.seq \in Nat /\ k.type \in {0, 1}
                     /\ Tag(k) \in Nat /\ Tag(k) = k.seq * 2 + k.type
  BY DEF MemTableAssumptions, Tag, PackSequenceAndType
<1> HIDE DEF from, node, u, s
<1>8. \A a, b \in Key : Before(a, b) <=> UserLess(a.user, b.user) \/ (a.user = b.user /\ Tag(a) > Tag(b))
  BY DEF MemTableAssumptions, InternalBefore
\* The Seek skips nothing visible.
<1>9. ASSUME NEW k \in V
      PROVE  node # NULL /\ ~ Before(k, node) /\ k \in Key /\ k.user = u /\ k.seq =< s
  <2>1. k \in Allocated /\ k \in Key /\ k.user = u /\ k.seq =< s /\ k \in it[r].present
    BY <1>2, <1>6, SMTT(30) DEF VisibleIn, s
  <2>2. ~ Before(k, from)
    <3>1. /\ k.seq \in Nat /\ k.type \in {0, 1} /\ Tag(k) = k.seq * 2 + k.type
          /\ Before(k, from) <=> UserLess(k.user, u) \/ (k.user = u /\ Tag(k) > 2 * s + 1)
      BY <2>1, <1>4, <1>7, <1>8, Zenon
    <3>2. ~ UserLess(u, u)
      BY <1>2, ZenonT(60) DEF MemTableAssumptions
    <3>3. ~ (Tag(k) > 2 * s + 1)
      BY <2>1, <3>1, <1>3
    <3> QED
      BY <2>1, <3>1, <3>2, <3>3, Zenon
  <2>3. ~ (node = NULL \/ Before(k, node))
    BY <2>1, <2>2, <1>2, <1>5, Zenon DEF Landed, Skipped, node
  <2> QED
    BY <2>1, <2>3
\* Where it stops is visible, if anything of the user key is.
<1>10. ASSUME node # NULL, node.user = u
       PROVE  node \in V
  <2>1. node \in Key /\ node \in Allocated /\ ~ Before(node, from)
    BY <1>10, <1>2, <1>5, <1>6, ZenonT(30) DEF Landed, node
  <2>2. Tag(node) =< 2 * s + 1
    BY <2>1, <1>3, <1>4, <1>7, <1>8, <1>10
  <2>3. node.seq =< s
    <3>1. PICK n \in Nat, t \in {0, 1} : n = node.seq /\ t = node.type /\ Tag(node) = n * 2 + t
      BY <2>1, <1>7, Zenon
    <3>2. n * 2 + t =< 2 * s + 1
      BY <2>2, <3>1, Zenon
    <3>3. n =< s
      BY <3>1, <3>2, <1>3, TagOrder, ZenonT(60)
    <3> QED
      BY <3>1, <3>3, Zenon
  <2> QED
    BY <2>1, <2>3, <1>10, Zenon DEF VisibleIn
<1>11. ASSUME V # {}
       PROVE  node # NULL /\ node.user = u
  <2>1. PICK k \in V : TRUE
    BY <1>11
  <2>2. node # NULL /\ node \in Key /\ k \in Key /\ k.user = u /\ ~ Before(k, node)
    BY <2>1, <1>5, <1>6, <1>9, Zenon
  <2>3. ~ Before(node, from)
    BY <2>2, <1>2, <1>5, ZenonT(60) DEF Landed, node
  <2>4. ~ UserLess(u, node.user) /\ ~ UserLess(node.user, u)
    BY <2>2, <2>3, <1>4, <1>7, <1>8
  <2> QED
    BY <2>2, <2>4, <1>2, <1>7 DEF MemTableAssumptions, u
<1>12. CASE V = {}
  <2>1. Answer(node, u) = <<"absent", 0>>
    BY <1>10, <1>12, Zenon DEF Answer
  <2>2. SnapshotAnswer(V) = <<"absent", 0>>
    BY <1>12, Zenon DEF SnapshotAnswer
  <2>3. <<"absent", 0>> \in {"absent", "deleted", "found"} \X (0..MaxSeq)
    BY EntriesLemma, ZenonT(60)
  <2> QED
    BY <2>1, <2>2, <2>3, Zenon DEF node, u, s
<1>13. CASE V # {}
  <2>1. node \in V /\ node # NULL /\ node.user = u /\ node \in Key /\ node \in Allocated
    BY <1>5, <1>6, <1>10, <1>11, <1>13, ZenonT(60)
  <2>2. ASSUME NEW j \in V
        PROVE  j.seq =< node.seq
    <3>1. j \in Key /\ j.user = node.user /\ ~ Before(j, node)
      BY <2>1, <1>9, ZenonT(60)
    <3>2. Tag(j) =< Tag(node)
      BY <3>1, <2>1, <1>7, <1>8
    <3> QED
      BY <3>1, <3>2, <2>1, <1>7
  <2> DEFINE newest == CHOOSE k \in V : \A j \in V : j.seq =< k.seq
  <2>3. newest \in V /\ \A j \in V : j.seq =< newest.seq
    BY <2>1, <2>2
  <2> HIDE DEF newest
  <2>4. newest \in Allocated /\ newest \in Key
    BY <2>3, <1>6, ZenonT(60) DEF VisibleIn
  <2>5. newest.seq = node.seq
    BY <2>1, <2>2, <2>3, <2>4, <1>7
  <2>6. newest = node
    BY <2>1, <2>4, <2>5 DEF TableInv, SequenceInv
  <2>7. SnapshotAnswer(V) = IF node.type = 0 THEN <<"deleted", 0>> ELSE <<"found", node.seq>>
    <3> HIDE DEF V
    <3>1. SnapshotAnswer(V) = IF V = {} THEN <<"absent", 0>>
                              ELSE IF newest.type = 0 THEN <<"deleted", 0>>
                              ELSE <<"found", newest.seq>>
      BY DEF SnapshotAnswer, newest
    <3> QED
      BY <3>1, <2>6, <1>13
  <2>8. Answer(node, u) = IF node.type = 1 THEN <<"found", node.seq>> ELSE <<"deleted", 0>>
    BY <2>1, Zenon DEF Answer
  <2>9. node.type \in {0, 1} /\ node.seq \in 0..MaxSeq /\ 0 \in 0..MaxSeq
    BY <2>1, <1>7, EntriesLemma, ZenonT(60)
  <2> QED
    BY <2>7, <2>8, <2>9 DEF node, u, s
<1> QED
  BY <1>12, <1>13

-----------------------------------------------------------------------------
\* A reader's step leaves the sequence numbers alone.
LEMMA SequenceFrame ==
    ASSUME SequenceInv, UNCHANGED <<next, w, last_sequence, added>>
    PROVE  SequenceInv'
BY DEF SequenceInv, Allocated

\* A reader that leaves its iterator and its Get with their invariant does not
\* disturb the others.
LEMMA GetsFrame ==
    ASSUME GetsInv, ReadersInv, UNCHANGED <<next, last_sequence>>, NEW r \in Readers,
           NEW i, it' = [it EXCEPT ![r] = i], NEW g, get' = [get EXCEPT ![r] = g],
           GetInv(Allocated, last_sequence, i, g)
    PROVE  GetsInv'
<1>1. Allocated' = Allocated /\ last_sequence' = last_sequence
  BY DEF Allocated
<1>2. get' = [q \in Readers |-> get'[q]] /\ get'[r] = g /\ it'[r] = i
  BY DEF GetsInv, ReadersInv
<1>3. ASSUME NEW q \in Readers
      PROVE  GetInv(Allocated', last_sequence', it'[q], get'[q])
  <2>1. CASE q = r
    BY <2>1, <1>1, <1>2
  <2>2. CASE q # r
    <3>1. it'[q] = it[q] /\ get'[q] = get[q]
      BY <2>2 DEF GetsInv, ReadersInv
    <3> QED
      BY <3>1, <1>1 DEF GetsInv
  <2> QED
    BY <2>1, <2>2
<1> QED
  BY <1>2, <1>3 DEF GetsInv

\* The writer's step leaves every Get as it is.
LEMMA GetsWriter ==
    ASSUME GetsInv, SequenceInv, MaxSeq \in Nat, UNCHANGED <<it, get>>, last_sequence' \in Nat,
           last_sequence =< last_sequence', Allocated \subseteq Allocated',
           \A k \in Allocated' \ Allocated : k.seq \in Nat /\ k.seq > last_sequence
    PROVE  GetsInv'
<1>1. last_sequence \in Nat
  BY NumbersLemma, ZenonT(60)
<1>2. ASSUME NEW r \in Readers
      PROVE  GetInv(Allocated', last_sequence', it'[r], get'[r])
  <2>1. GetInv(Allocated, last_sequence, it[r], get[r])
    BY DEF GetsInv
  <2> QED
    BY <2>1, <1>1, GetStable
<1> QED
  BY <1>2 DEF GetsInv

\* The memtable begins with the invariant.
LEMMA TableInit ==
    ASSUME MemTableAssumptions, MInit
    PROVE  TableInv
<1>1. ListInv
  BY InternalKeysAreOrdered, ListInit DEF MInit
<1>2. Allocated = {} /\ w.pc = "idle"
  BY Zenon DEF MInit, Init, Allocated, NoInsert
<1>6. 0 \in 0..MaxSeq /\ 0 \in 0..0
  BY EntriesLemma
<1>3. SequenceInv
  BY <1>2, <1>6, Zenon DEF SequenceInv, MInit
<1>4. NoGet \in GetType /\ NoGet.ret[1] = "none"
  BY EntriesLemma, ZenonT(60)
<1>5. GetsInv
  BY <1>4 DEF GetsInv, GetInv, MInit
<1> QED
  BY <1>1, <1>3, <1>5 DEF TableInv

\* Add begins the Insert of an entry with a sequence number of its own.
LEMMA AddStep ==
    ASSUME MemTableAssumptions, TableInv, NEW e \in Entries, Add(e[1], e[2])
    PROVE  TableInv'
<1> DEFINE key == InternalKey(e[1], added + 1, e[2])
<1>1. /\ added < MaxSeq /\ Insert(key) /\ added' = added + 1
      /\ UNCHANGED <<last_sequence, get>>
  BY Zenon DEF Add
<1>2. added \in Nat /\ MaxSeq \in Nat /\ last_sequence \in Nat /\ last_sequence =< added
      /\ added + 1 \in 0..MaxSeq
  BY <1>1, NumbersLemma, EntriesLemma, ZenonT(60) DEF TableInv
<1>3. key \in Key /\ key.seq = added + 1
  <2>1. e[1] \in Users /\ e[2] \in {kTypeDeletion, kTypeValue}
    BY DEF MemTableAssumptions
  <2> QED
    BY <2>1, <1>2 DEF MemTableAssumptions, InternalKey
<1> HIDE DEF key
<1>4. ListInv'
  BY <1>1, <1>3, InternalKeysAreOrdered, InsertStep DEF TableInv
<1>5. UNCHANGED <<next, it>> /\ w'.pc = "find" /\ w'.key = key
  BY <1>1 DEF Insert, NoInsert
<1>6. Allocated' = Allocated
  BY <1>5, Zenon DEF Allocated
<1>7. \A n \in Allocated : n.seq \in Nat
  BY EntriesLemma, ZenonT(60) DEF TableInv
<1>8. SequenceInv'
  BY <1>1, <1>2, <1>3, <1>5, <1>6, <1>7 DEF TableInv, SequenceInv
<1>9. GetsInv'
  BY <1>1, <1>2, <1>5, <1>6, GetsWriter DEF TableInv
<1> QED
  BY <1>4, <1>8, <1>9 DEF TableInv

\* The steps of Insert: its entry is allocated under the number given last.
LEMMA AddGoesOnStep ==
    ASSUME MemTableAssumptions, TableInv, AddGoesOn
    PROVE  TableInv'
<1>1. Writer /\ UNCHANGED <<last_sequence, added, get>>
  BY DEF AddGoesOn, mvars
<1>2. ListInv'
  BY <1>1, InternalKeysAreOrdered, WriterStep, Zenon DEF TableInv
<1>3. /\ added \in Nat /\ last_sequence \in Nat /\ MaxSeq \in Nat
  BY NumbersLemma, EntriesLemma, Zenon DEF TableInv
<1>4. \A n \in Allocated : n.seq \in Nat
  BY EntriesLemma, Zenon DEF TableInv
<1>5. it' = it /\ w.pc # "idle" /\ w \in WriterType
  BY <1>1, Zenon DEF Writer, FindPrev, ChooseHeight, SetNext, Publish, TableInv, ListInv, WriterInv
<1>6. CASE ChooseHeight
  <2>1. /\ Allocated' = Allocated \cup {w.key} /\ w'.pc = "set" /\ w'.key = w.key
        /\ w.pc = "height" /\ w.key \in Key
    <3>1. w.pc = "height" /\ DOMAIN next' = DOMAIN next \cup {w.key} /\ w'.pc = "set" /\ w'.key = w.key
      BY <1>5, <1>6 DEF ChooseHeight, WriterType
    <3>2. w.key \in Key /\ w.key # head_
      BY <3>1, ZenonT(30) DEF TableInv, ListInv, WriterInv, MemTableAssumptions
    <3> QED
      BY <3>1, <3>2 DEF Allocated
  <2>2. w.key.seq = added /\ last_sequence < added /\ \A n \in Allocated : n.seq < added
    BY <2>1, ZenonT(60) DEF TableInv, SequenceInv
  <2>3. SequenceInv'
    BY <2>1, <2>2, <1>1, <1>3, <1>4, SMTT(30) DEF TableInv, SequenceInv
  <2>4. GetsInv'
    BY <2>1, <2>2, <1>1, <1>3, <1>5, GetsWriter DEF TableInv
  <2> QED
    BY <2>3, <2>4, <1>2 DEF TableInv
<1>7. CASE ~ ChooseHeight
  <2>1. Allocated' = Allocated
    BY <1>1, <1>7 DEF Writer, FindPrev, SetNext, Publish, Allocated
  <2>2. /\ w'.pc # "idle" => w'.key = w.key
        /\ w'.pc \in {"find", "height"} => w.pc = "find"
    <3>1. CASE FindPrev
      BY <3>1, <1>5 DEF FindPrev, WriterType
    <3>2. CASE SetNext
      BY <3>2, <1>5 DEF SetNext, WriterType
    <3>3. CASE Publish
      BY <3>3, <1>5 DEF Publish, NoInsert, WriterType
    <3> QED
      BY <3>1, <3>2, <3>3, <1>1, <1>7 DEF Writer
  <2>3. SequenceInv'
    BY <2>1, <2>2, <1>1, <1>5 DEF TableInv, SequenceInv
  <2>4. GetsInv'
    BY <2>1, <1>1, <1>3, <1>5, GetsWriter DEF TableInv
  <2> QED
    BY <2>3, <2>4, <1>2 DEF TableInv
<1> QED
  BY <1>6, <1>7

\* SetLastSequence publishes the numbers when nothing is being inserted.
LEMMA SetLastSequenceStep ==
    ASSUME MemTableAssumptions, TableInv, SetLastSequence
    PROVE  TableInv'
<1>1. /\ w.pc = "idle" /\ last_sequence < added /\ last_sequence' = added
      /\ UNCHANGED <<next, max_height, w, it, added, get>>
  BY DEF SetLastSequence, vars
<1>2. added \in Nat /\ last_sequence \in Nat /\ MaxSeq \in Nat /\ Allocated' = Allocated
  <2>1. added \in 0..MaxSeq /\ last_sequence \in 0..added
    BY Zenon DEF TableInv, SequenceInv
  <2>2. MaxSeq \in Nat
    BY Zenon DEF MemTableAssumptions
  <2>3. Allocated' = Allocated
    BY <1>1, Zenon DEF Allocated
  <2> QED
    BY <2>1, <2>2, <2>3
<1>3. ListInv'
  BY <1>1, ListStutter DEF TableInv, vars
<1>4. SequenceInv'
  BY <1>1, <1>2 DEF TableInv, SequenceInv
<1>5. GetsInv'
  BY <1>1, <1>2, GetsWriter DEF TableInv
<1> QED
  BY <1>3, <1>4, <1>5 DEF TableInv

\* The entries up to a published sequence number are linked.
LEMMA PublishedAreLinked ==
    ASSUME MemTableAssumptions, TableInv, NEW k \in Allocated, k.seq =< last_sequence
    PROVE  k \in Placed[0]
<1>1. 0 \in Levels /\ added \in Nat /\ last_sequence \in Nat
  BY IdleLemma, InternalKeysAreOrdered, NumbersLemma, EntriesLemma, ZenonT(60) DEF TableInv
<1>2. k.seq \in Nat
  BY SMTT(30) DEF Allocated, TableInv, ListInv, NodesInv, MemTableAssumptions
<1>3. PICK h \in Heights : DOMAIN next[k] = 0..h - 1
  BY ZenonT(60) DEF Allocated, TableInv, ListInv, NodesInv
<1>4. 0 \in DOMAIN next[k]
  BY <1>3 DEF Heights, MemTableAssumptions
<1>5. ~ (Inserting /\ k = w.key)
  BY <1>1, <1>2 DEF Inserting, TableInv, SequenceInv
<1> QED
  BY <1>1, <1>4, <1>5, Zenon DEF Placed, Allocated

\* A Get begins: all it may have to find is linked.
LEMMA GetBeginsStep ==
    ASSUME MemTableAssumptions, TableInv, NEW r \in Readers, NEW u \in Users,
           NEW s \in 0..last_sequence, GetBegins(r, u, s)
    PROVE  TableInv'
<1> DEFINE from == LookupKey(u, s)
           g == [user |-> u, snapshot |-> s, ret |-> <<"seeking", 0>>]
<1>1. /\ Seek(r, from) /\ get' = [get EXCEPT ![r] = g]
      /\ UNCHANGED <<last_sequence, added>>
  BY SMTT(30) DEF GetBegins
<1>2. /\ last_sequence \in Nat /\ added \in Nat /\ MaxSeq \in Nat
      /\ s \in Nat /\ s \in 0..MaxSeq /\ s =< last_sequence
  <2>1. added \in 0..MaxSeq /\ last_sequence \in 0..added
    BY Zenon DEF TableInv, SequenceInv
  <2>2. MaxSeq \in Nat
    BY ZenonT(60) DEF MemTableAssumptions
  <2> QED
    BY <2>1, <2>2
<1>3. from \in Key
  BY <1>2 DEF LookupKey, InternalKey, kValueTypeForSeek, MemTableAssumptions
<1>4. ListInv'
  BY <1>1, <1>3, InternalKeysAreOrdered, SeekStep, Zenon DEF TableInv
<1>5. PICK h \in max_height :
         Begin(r, "Seek", from, Search("FindGreaterOrEqual", from, h), it[r].node)
  BY <1>1 DEF Seek
<1> DEFINE i == [node |-> it[r].node, search |-> Search("FindGreaterOrEqual", from, h),
                 op |-> "Seek", from |-> from, present |-> Linked]
<1>6. it' = [it EXCEPT ![r] = i] /\ UNCHANGED <<next, max_height, w>>
  BY <1>5 DEF Begin
<1>7. Linked = Placed[0]
  BY InternalKeysAreOrdered, LinkedLemma, Zenon DEF TableInv, ListInv
<1>8. ASSUME NEW k \in Allocated, k.seq =< s PROVE k \in Linked
  <2>1. k \in Key
    BY Zenon DEF Allocated, TableInv, ListInv, NodesInv
  <2>2. k.seq \in Nat
    BY <2>1 DEF MemTableAssumptions
  <2>4. \A a, b, c \in Nat : a =< b /\ b =< c => a =< c
    OBVIOUS
  <2>3. k.seq =< last_sequence
    BY <1>2, <1>8, <2>2, <2>4, Zenon
  <2> QED
    BY <2>3, <1>7, PublishedAreLinked, Zenon
<1>9. g \in GetType
  BY <1>2, EntriesLemma, ZenonT(60)
<1>10. GetInv(Allocated, last_sequence, i, g)
  BY <1>2, <1>8, <1>9 DEF GetInv
<1>11. GetsInv'
  BY <1>1, <1>6, <1>10, GetsFrame, ZenonT(60) DEF TableInv, ListInv
<1>12. SequenceInv'
  BY <1>1, <1>6, SequenceFrame DEF TableInv
<1> QED
  BY <1>4, <1>11, <1>12 DEF TableInv

\* Get returns the answer of AnswerLemma.
LEMMA GetReturnsStep ==
    ASSUME MemTableAssumptions, TableInv, NEW r \in Readers, GetReturns(r)
    PROVE  TableInv'
<1> DEFINE a == Answer(it[r].node, get[r].user)
           g == [get[r] EXCEPT !.ret = a]
<1>1. /\ get[r].ret[1] = "seeking" /\ Quiet(r) /\ get' = [get EXCEPT ![r] = g]
      /\ UNCHANGED <<next, max_height, w, it, last_sequence, added>>
  BY DEF GetReturns, vars
<1>2. ListInv' /\ SequenceInv'
  BY <1>1, ListStutter, SequenceFrame DEF TableInv, vars
<1>3. /\ a = SnapshotAnswer(VisibleIn(Allocated, get[r].user, get[r].snapshot))
      /\ a \in {"absent", "deleted", "found"} \X (0..MaxSeq)
  BY <1>1, AnswerLemma
<1> HIDE DEF a
<1>4. GetInv(Allocated, last_sequence, it[r], get[r])
  BY DEF TableInv, GetsInv
<1>5. /\ g \in GetType /\ g.ret = a /\ g.user = get[r].user /\ g.snapshot = get[r].snapshot
  BY <1>3, <1>4 DEF GetInv, GetType
<1>6. a[1] \in {"absent", "deleted", "found"}
  BY <1>3
<1>7. GetInv(Allocated, last_sequence, it[r], g)
  BY <1>1, <1>3, <1>4, <1>5, <1>6 DEF GetInv
<1>8. it' = [it EXCEPT ![r] = it[r]]
  BY <1>1 DEF TableInv, ListInv, ReadersInv
<1>9. GetsInv'
  BY <1>1, <1>7, <1>8, GetsFrame, Zenon DEF TableInv, ListInv
<1> QED
  BY <1>2, <1>9 DEF TableInv

\* MemTableIterator's moves.
LEMMA IterateStep ==
    ASSUME MemTableAssumptions, TableInv, NEW r \in Readers, Iterate(r)
    PROVE  TableInv'
<1>1. /\ SeekToFirst(r) \/ Next_(r) \/ Prev(r) \/ SeekToLast(r)
      /\ get' = [get EXCEPT ![r] = NoGet] /\ UNCHANGED <<last_sequence, added>>
  BY DEF Iterate
<1>2. ListInv'
  BY <1>1, InternalKeysAreOrdered, SeekToFirstStep, NextStep, PrevStep, SeekToLastStep, Zenon DEF TableInv
<1>3. PICK i : it' = [it EXCEPT ![r] = i] /\ UNCHANGED <<next, max_height, w>>
  BY <1>1, Zenon DEF SeekToFirst, Next_, Prev, SeekToLast, Begin
<1>4. NoGet \in GetType /\ NoGet.ret[1] = "none"
  BY EntriesLemma, ZenonT(60)
<1>5. GetInv(Allocated, last_sequence, i, NoGet)
  BY <1>4 DEF GetInv
<1>6. GetsInv'
  BY <1>1, <1>3, <1>5, GetsFrame, Zenon DEF TableInv, ListInv
<1>7. SequenceInv'
  BY <1>1, <1>3, SequenceFrame DEF TableInv
<1> QED
  BY <1>2, <1>6, <1>7, Zenon DEF TableInv

\* A turn of a search does not change what its operation is about.
LEMMA WalksStep ==
    ASSUME MemTableAssumptions, TableInv, NEW r \in Readers, Walks(r)
    PROVE  TableInv'
<1>1. Walk(r) /\ UNCHANGED <<last_sequence, added, get>>
  BY DEF Walks, mvars
<1>2. ListInv'
  BY <1>1, InternalKeysAreOrdered, WalkStep, ZenonT(60) DEF TableInv
<1>3. UNCHANGED <<next, max_height, w>>
  BY <1>1 DEF Walk
<1>4. SequenceInv'
  BY <1>1, <1>3, SequenceFrame DEF TableInv
<1>5. it'[r] \in IteratorType /\ it' = [it EXCEPT ![r] = it'[r]]
  <2>1. it'[r] \in IteratorType
    BY <1>2 DEF ListInv, ReadersInv, IteratorInv
  <2>2. it' = [it EXCEPT ![r] = it'[r]]
    BY <1>1, Zenon DEF Walk, TableInv, ListInv, ReadersInv
  <2> QED
    BY <2>1, <2>2
<1>6. it'[r].op = it[r].op /\ it'[r].from = it[r].from /\ it'[r].present = it[r].present
  <2>1. it[r] \in IteratorType
    BY DEF TableInv, ListInv, ReadersInv, IteratorInv
  <2> QED
    BY <2>1, <1>1, Zenon DEF Walk, IteratorType, TableInv, ListInv, ReadersInv
<1>7. last_sequence \in Nat /\ GetInv(Allocated, last_sequence, it[r], get[r])
  BY NumbersLemma, EntriesLemma, ZenonT(60) DEF TableInv, GetsInv
<1>8. GetInv(Allocated, last_sequence, it'[r], get[r])
  BY <1>6, <1>7, GetStable
<1>9. get' = [get EXCEPT ![r] = get[r]]
  BY <1>1 DEF TableInv, GetsInv
<1>10. GetsInv'
  BY <1>1, <1>3, <1>5, <1>8, <1>9, GetsFrame, Zenon DEF TableInv, ListInv
<1> QED
  BY <1>2, <1>4, <1>10 DEF TableInv

-----------------------------------------------------------------------------
\* TableInv is an invariant: every step of writer and readers keeps it.
THEOREM TableInvariance ==
    ASSUME MemTableAssumptions
    PROVE  MSpec => []TableInv
<1>1. MInit => TableInv
  BY TableInit, Zenon
<1>2. TableInv /\ [MNext]_allvars => TableInv'
  <2> SUFFICES ASSUME TableInv, [MNext]_allvars
               PROVE  TableInv'
    OBVIOUS
  <2>1. CASE \E e \in Entries : Add(e[1], e[2])
    BY <2>1, AddStep
  <2>2. CASE AddGoesOn
    BY <2>2, AddGoesOnStep
  <2>3. CASE SetLastSequence
    BY <2>3, SetLastSequenceStep
  <2>4. CASE \E r \in Readers, u \in Users, s \in 0..last_sequence :
               get[r].ret[1] # "seeking" /\ GetBegins(r, u, s)
    BY <2>4, GetBeginsStep
  <2>5. CASE \E r \in Readers : GetReturns(r) \/ Iterate(r) \/ Walks(r)
    BY <2>5, GetReturnsStep, IterateStep, WalksStep
  <2>6. CASE UNCHANGED allvars
    <3>1. UNCHANGED vars /\ UNCHANGED <<next, w, it, last_sequence, added, get>>
      BY <2>6 DEF allvars, vars, mvars
    <3>2. ListInv' /\ SequenceInv'
      BY <3>1, ListStutter, SequenceFrame DEF TableInv
    <3>3. GetsInv'
      BY <3>1 DEF TableInv, GetsInv, Allocated
    <3> QED
      BY <3>2, <3>3 DEF TableInv
  <2> QED
    BY <2>1, <2>2, <2>3, <2>4, <2>5, <2>6, ZenonT(60) DEF MNext
<1> QED
  BY <1>1, <1>2, PTL DEF MSpec

\* Whatever the writer is doing, a search meets no pointer that NewNode left
\* unwritten, finds every level sorted and contained in the one below, and ends
\* at the nearest key, past no key that was linked when it began (skiplist.h,
\* FindGreaterOrEqual, FindLessThan, FindLast and Insert).
THEOREM SearchesAreRightTheorem ==
    ASSUME MemTableAssumptions
    PROVE  MSpec => []SearchesAreRight
<1>1. TableInv => SearchesAreRight
  <2> SUFFICES ASSUME TableInv
               PROVE  SearchesAreRight
    OBVIOUS
  <2>1. TypeOK /\ LevelsAreSorted /\ ReadsWrittenPointers /\ LandsOnNearest
    BY InternalKeysAreOrdered, ListProperties DEF TableInv
  <2>2. \A r \in Readers :
           get[r].ret \in {"none", "seeking", "absent", "deleted", "found"} \X (0..MaxSeq)
    BY DEF TableInv, GetsInv, GetInv, GetType
  <2>3. last_sequence \in 0..added /\ added \in 0..MaxSeq
    BY Zenon DEF TableInv, SequenceInv
  <2> QED
    BY <2>1, <2>2, <2>3 DEF SearchesAreRight, MTypeOK
<1> QED
  BY <1>1, TableInvariance, PTL

\* MemTable::Get answers at its snapshot, while later entries are being linked
\* (memtable.cc, Get, and DBImpl::Write's SetLastSequence).
THEOREM SnapshotReadsTheorem ==
    ASSUME MemTableAssumptions
    PROVE  MSpec => []SnapshotReads
<1>1. TableInv => SnapshotReads
  <2> SUFFICES ASSUME TableInv, NEW r \in Readers, get[r].ret[1] \notin {"none", "seeking"}
               PROVE  get[r].ret = SnapshotAnswer(Visible(get[r].user, get[r].snapshot))
    BY DEF SnapshotReads
  <2>1. VisibleIn(Allocated, get[r].user, get[r].snapshot) = Visible(get[r].user, get[r].snapshot)
    BY DEF VisibleIn, Visible, Allocated
  <2> QED
    BY <2>1, Zenon DEF TableInv, GetsInv, GetInv
<1> QED
  BY <1>1, TableInvariance, PTL

-----------------------------------------------------------------------------
(***************************************************************************)
(* The environment.                                                        *)
(***************************************************************************)
\* The threads between the insertion into locked_files_ and the removal from it.
Owning(x) == lpc[x] \in {"fcntl", "held", "remove", "unlocked"}

LockType ==
  /\ lpc \in [Process \X Thread -> {"out", "insert", "fcntl", "held", "remove", "unlocked", "close"}]
  /\ locked \in SUBSET Process /\ oslock \in Process \cup {None} /\ slipped \in BOOLEAN

\* The name is in the table of a process while one of its threads is at it, and at
\* most one is.  Who holds the lock has the fcntl lock too, until a close takes it.
LockInv ==
  /\ LockType
  /\ \A x \in Process \X Thread : Owning(x) => x[1] \in locked
  /\ \A x, y \in Process \X Thread : Owning(x) /\ Owning(y) /\ x[1] = y[1] => x = y
  /\ ~slipped => \A x \in Process \X Thread : lpc[x] = "held" => oslock = x[1]

Slots == {t \in Thread : mpc[t] \in {"map", "mapped"}}

MmapInv ==
  /\ mpc \in [Thread -> {"out", "locked", "pread", "map", "mapped"}] /\ allowed \in Nat
  /\ allowed + Cardinality(Slots) = MaxMmaps

Running == IF item = None THEN <<>> ELSE <<item>>

QueueInv ==
  /\ sent \in Seq(Nat) /\ ran \in Seq(Nat) /\ queue \in Seq(Nat) /\ item \in Nat \cup {None}
  /\ bgpc = "run" <=> item # None
  /\ started_bgthread \in BOOLEAN /\ (~started_bgthread => bgpc = "none")
  /\ sent = ran \o Running \o queue

IInv == LockInv /\ MmapInv /\ QueueInv

-----------------------------------------------------------------------------
\* A step of a thread at LockFile or UnlockFile.
LockStep(x) ==
  \/ OpenLockFile(x) \/ InsertLock(x) \/ LockOrUnlock(x) \/ RemoveLock(x)
  \/ UnlockFile(x) \/ UnlockRemoves(x) \/ UnlockCloses(x)

\* Every step of LockFile and UnlockFile keeps the invariant of the lock.
LEMMA LockLemma ==
  ASSUME LockInv, NEW x \in Process \X Thread, LockStep(x)
  PROVE  LockInv'
<1> USE DEF LockInv, LockType, Owning
<1>0. x[1] \in Process /\ x[1] # None
  BY EnvAssumption
<1>1. CASE OpenLockFile(x)
  BY <1>1, SMTT(30) DEF OpenLockFile, GoLock
<1>2. CASE InsertLock(x)
  <2>1. CASE Inserts(x[1])
    <3>1. lpc' = [lpc EXCEPT ![x] = "fcntl"] /\ locked' = locked \cup {x[1]} /\ UNCHANGED <<oslock, slipped>>
      BY <1>2, <2>1 DEF InsertLock, GoLock
    <3>2. \A y \in Process \X Thread : Owning(y) => y[1] # x[1]
      BY <2>1 DEF Inserts
    <3>3. QED
      BY <1>0, <3>1, <3>2
  <2>2. CASE ~Inserts(x[1])
    <3>1. lpc[x] = "insert" /\ lpc' = [lpc EXCEPT ![x] = "out"] /\ UNCHANGED locked
      BY <1>2, <2>2 DEF InsertLock, GoLock
    <3>2. CASE oslock = x[1]
      <4>1. oslock' = None /\ slipped'
        BY <1>2, <2>2, <3>2, ZenonT(60) DEF InsertLock, CloseFd
      <4>2. QED
        BY <3>1, <4>1
    <3>3. CASE oslock # x[1]
      <4>1. oslock' = oslock /\ slipped' = slipped
        BY <1>2, <2>2, <3>3, SMTT(30) DEF InsertLock, CloseFd
      <4>2. QED
        BY <3>1, <4>1
    <3>4. QED
      BY <3>2, <3>3
  <2>3. QED
    BY <2>1, <2>2
<1>3. CASE LockOrUnlock(x)
  <2>1. CASE oslock \in {None, x[1]}
    <3>1. lpc' = [lpc EXCEPT ![x] = "held"] /\ oslock' = x[1] /\ UNCHANGED <<locked, slipped>> /\ lpc[x] = "fcntl"
      BY <1>3, <2>1 DEF LockOrUnlock, GoLock
    <3>2. ASSUME ~slipped, NEW y \in Process \X Thread, lpc[y] = "held" PROVE y[1] = x[1]
      BY <3>2, <2>1, EnvAssumption
    <3>3. QED
      BY <1>0, <3>1, <3>2
  <2>2. CASE oslock \notin {None, x[1]}
    BY <1>0, <1>3, <2>2 DEF LockOrUnlock, GoLock, CloseFd
  <2>3. QED
    BY <2>1, <2>2
<1>4. CASE RemoveLock(x)
  BY <1>4 DEF RemoveLock, GoLock
<1>5. CASE UnlockFile(x)
  BY <1>0, <1>5 DEF UnlockFile, GoLock
<1>6. CASE UnlockRemoves(x)
  BY <1>6 DEF UnlockRemoves, GoLock
<1>7. CASE UnlockCloses(x)
  BY <1>0, <1>7, ZenonT(60) DEF UnlockCloses, GoLock, CloseFd
<1>8. QED
  BY <1>1, <1>2, <1>3, <1>4, <1>5, <1>6, <1>7, ZenonT(60) DEF LockStep

-----------------------------------------------------------------------------
MmapStep(t) == Acquire(t) \/ AcquireLocked(t) \/ Map(t) \/ Release(t)

\* A slot is counted when its thread gets it and when it gives it back.
LEMMA SlotLemma ==
  ASSUME MmapInv, NEW t \in Thread
  PROVE  /\ IsFiniteSet(Slots) /\ Cardinality(Slots) \in Nat
         /\ t \notin Slots => Cardinality(Slots \cup {t}) = Cardinality(Slots) + 1
         /\ t \in Slots => Cardinality(Slots \ {t}) = Cardinality(Slots) - 1
<1>1. IsFiniteSet(Slots)
  BY EnvAssumption, FS_Subset DEF Slots
<1>2. QED
  BY <1>1, FS_CardinalityType, FS_AddElement, FS_RemoveElement

\* Every step of NewRandomAccessFile and of the files it returns keeps the count.
LEMMA MmapLemma ==
  ASSUME MmapInv, NEW t \in Thread, MmapStep(t)
  PROVE  MmapInv'
<1> DEFINE n == Cardinality(Slots)
<1>0. n \in Nat /\ allowed + n = MaxMmaps /\ MaxMmaps \in Nat /\ allowed \in Nat
  BY SlotLemma, EnvAssumption, ZenonT(60) DEF MmapInv
<1>1. CASE Slots' = Slots /\ allowed' = allowed
  BY <1>1 DEF MmapInv, MmapStep, Acquire, AcquireLocked, Map, Release
<1>2. CASE mpc[t] = "locked" /\ mpc' = [mpc EXCEPT ![t] = "map"] /\ allowed > 0 /\ allowed' = allowed - 1
  <2>1. Slots' = Slots \cup {t} /\ t \notin Slots
    BY <1>2 DEF Slots, MmapInv
  <2>2. Cardinality(Slots') = n + 1
    BY <2>1, SlotLemma
  <2>3. allowed' \in Nat /\ allowed' + Cardinality(Slots') = MaxMmaps
    BY <1>0, <1>2, <2>2
  <2>4. QED
    BY <1>2, <2>3 DEF MmapInv
<1>3. CASE mpc[t] \in {"map", "mapped"} /\ mpc' = [mpc EXCEPT ![t] = "out"] /\ allowed' = allowed + 1
  <2>1. Slots' = Slots \ {t} /\ t \in Slots
    BY <1>3 DEF Slots, MmapInv
  <2>2. Cardinality(Slots') = n - 1
    BY <2>1, SlotLemma
  <2>3. allowed' \in Nat /\ allowed' + Cardinality(Slots') = MaxMmaps
    BY <1>0, <1>3, <2>2
  <2>4. QED
    BY <1>3, <2>3 DEF MmapInv
<1>4. \/ Slots' = Slots /\ allowed' = allowed
      \/ mpc[t] = "locked" /\ mpc' = [mpc EXCEPT ![t] = "map"] /\ allowed > 0 /\ allowed' = allowed - 1
      \/ mpc[t] \in {"map", "mapped"} /\ mpc' = [mpc EXCEPT ![t] = "out"] /\ allowed' = allowed + 1
  <2>1. CASE Acquire(t)
    BY <2>1 DEF Acquire, Slots, MmapInv
  <2>2. CASE AcquireLocked(t)
    BY <1>0, <2>2 DEF AcquireLocked, Slots, MmapInv
  <2>3. CASE Map(t)
    BY <2>3 DEF Map, Slots, MmapInv
  <2>4. CASE Release(t)
    BY <2>4 DEF Release, Slots, MmapInv
  <2>5. QED
    BY <2>1, <2>2, <2>3, <2>4 DEF MmapStep
<1>5. QED
  BY <1>1, <1>2, <1>3, <1>4

-----------------------------------------------------------------------------
QueueStep == Schedule \/ BGThread \/ SpuriousWakeup \/ Run

\* Appending to the last of two sequences appends to both together.
LEMMA AppendLemma ==
  ASSUME NEW s \in Seq(Nat), NEW q \in Seq(Nat), NEW i \in Nat
  PROVE  Append(s \o q, i) = s \o Append(q, i)
<1>1. s \o q \in Seq(Nat) /\ Append(q, i) \in Seq(Nat) /\ s \o Append(q, i) \in Seq(Nat) /\ Append(s \o q, i) \in Seq(Nat)
  OBVIOUS
<1>2. Len(Append(s \o q, i)) = Len(s) + Len(q) + 1 /\ Len(s \o Append(q, i)) = Len(s) + Len(q) + 1
  OBVIOUS
<1>3. \A j \in 1 .. Len(s) + Len(q) + 1 : Append(s \o q, i)[j] = (s \o Append(q, i))[j]
  OBVIOUS
<1>4. QED
  BY <1>1, <1>2, <1>3, SeqEqual

\* Taking the first of a queue leaves the queue behind it.
LEMMA HeadLemma ==
  ASSUME NEW s \in Seq(Nat), NEW q \in Seq(Nat), q # <<>>
  PROVE  /\ Head(q) \in Nat /\ Tail(q) \in Seq(Nat)
         /\ s \o <<>> \o q = s \o <<Head(q)>> \o Tail(q)
<1>1. Head(q) \in Nat /\ Tail(q) \in Seq(Nat) /\ Len(q) >= 1 /\ Len(Tail(q)) = Len(q) - 1
  OBVIOUS
<1>2. s \o <<>> = s /\ s \o <<Head(q)>> \in Seq(Nat) /\ Len(s \o <<Head(q)>>) = Len(s) + 1
  BY <1>1
<1>3. s \o q \in Seq(Nat) /\ s \o <<Head(q)>> \o Tail(q) \in Seq(Nat)
  BY <1>1, <1>2
<1>4. Len(s \o q) = Len(s) + Len(q) /\ Len(s \o <<Head(q)>> \o Tail(q)) = Len(s) + Len(q)
  BY <1>1, <1>2
<1>5. \A j \in 1 .. Len(s) + Len(q) : (s \o q)[j] = (s \o <<Head(q)>> \o Tail(q))[j]
  BY <1>1, <1>2
<1>6. s \o q = s \o <<Head(q)>> \o Tail(q)
  BY <1>3, <1>4, <1>5, SeqEqual
<1>7. QED
  BY <1>1, <1>2, <1>6

\* Schedule and every step of BGThread keep the items in order.
LEMMA QueueLemma ==
  ASSUME QueueInv, QueueStep
  PROVE  QueueInv'
<1>0. ran \o Running \in Seq(Nat) /\ Running \in Seq(Nat) /\ queue \in Seq(Nat) /\ sent \in Seq(Nat) /\ ran \in Seq(Nat)
  BY DEF QueueInv, Running
<1>1. CASE Schedule
  <2>1. Len(sent) + 1 \in Nat
    BY <1>0
  <2>2. sent' = Append(ran \o Running \o queue, Len(sent) + 1) /\ queue' = Append(queue, Len(sent) + 1)
    BY <1>1 DEF Schedule, QueueInv
  <2>3. sent' = ran' \o Running' \o queue'
    <3>1. ran' = ran /\ Running' = Running
      BY <1>1 DEF Schedule, Running
    <3>2. Append(ran \o Running \o queue, Len(sent) + 1) = ran \o Running \o Append(queue, Len(sent) + 1)
      BY <1>0, <2>1, AppendLemma
    <3>3. QED
      BY <2>2, <3>1, <3>2, Zenon
  <2>4. sent' \in Seq(Nat) /\ queue' \in Seq(Nat)
    BY <1>0, <1>1, <2>1, <2>2 DEF Schedule
  <2>5. QED
    BY <1>1, <2>3, <2>4 DEF QueueInv, Schedule
<1>2. CASE BGThread
  <2>1. CASE queue = <<>>
    BY <1>2, <2>1 DEF BGThread, QueueInv, Running
  <2>2. CASE queue # <<>>
    <3>1. item = None /\ item' = Head(queue) /\ queue' = Tail(queue) /\ bgpc' = "run" /\ UNCHANGED <<sent, ran, started_bgthread>> /\ bgpc = "top"
      BY <1>2, <2>2 DEF BGThread, QueueInv
    <3>2. item' \in Nat /\ item' # None /\ queue' \in Seq(Nat)
      BY <1>0, <2>2, <3>1, HeadLemma, EnvAssumption
    <3>3. Running = <<>> /\ Running' = <<Head(queue)>>
      BY <3>1, <3>2 DEF Running
    <3>4. sent' = ran' \o Running' \o queue'
      BY <1>0, <2>2, <3>1, <3>3, HeadLemma DEF QueueInv
    <3>5. QED
      BY <1>0, <3>1, <3>2, <3>4 DEF QueueInv
  <2>3. QED
    BY <2>1, <2>2
<1>3. CASE SpuriousWakeup
  BY <1>3 DEF SpuriousWakeup, QueueInv, Running
<1>4. CASE Run
  <2>1. item \in Nat /\ item # None /\ ran' = Append(ran, item) /\ item' = None /\ bgpc' = "top" /\ UNCHANGED <<sent, queue, started_bgthread>> /\ bgpc = "run"
    BY <1>4 DEF Run, QueueInv
  <2>2. ran' \in Seq(Nat) /\ ran' = ran \o <<item>>
    BY <1>0, <2>1
  <2>3. Running = <<item>> /\ Running' = <<>> /\ ran' \o <<>> = ran'
    BY <2>1, <2>2 DEF Running
  <2>4. QED
    BY <1>0, <2>1, <2>2, <2>3 DEF QueueInv
<1>5. QED
  BY <1>1, <1>2, <1>3, <1>4 DEF QueueStep

-----------------------------------------------------------------------------
\* The environment starts with the invariant.
LEMMA InitLemma == EnvInit => IInv
<1> SUFFICES ASSUME EnvInit PROVE IInv
  OBVIOUS
<1>1. LockInv
  BY DEF EnvInit, EnvIdle, LockInv, LockType, Owning
<1>2. MmapInv
  <2>1. Slots = {}
    BY DEF EnvInit, EnvIdle, Slots
  <2>2. Cardinality(Slots) = 0
    BY <2>1, FS_EmptySet
  <2>3. QED
    BY <2>2, EnvAssumption DEF EnvInit, EnvIdle, MmapInv
<1>3. QueueInv
  <2>1. sent = <<>> /\ ran = <<>> /\ queue = <<>> /\ Running = <<>>
    BY DEF EnvInit, EnvIdle, Running
  <2>2. item = None /\ bgpc = "none" /\ started_bgthread = FALSE
    BY DEF EnvInit, EnvIdle
  <2>3. ran \o Running \o queue = <<>>
    BY <2>1
  <2>4. sent \in Seq(Nat) /\ ran \in Seq(Nat) /\ queue \in Seq(Nat)
    BY <2>1
  <2>5. started_bgthread \in BOOLEAN /\ (~started_bgthread => bgpc = "none")
    BY <2>2, Zenon
  <2>6. bgpc = "run" <=> item # None
    BY <2>2
  <2>7. sent = ran \o Running \o queue
    BY <2>1, <2>3, Zenon
  <2>8. QED
    BY <2>2, <2>4, <2>5, <2>6, <2>7, Zenon DEF QueueInv
<1>4. QED
  BY <1>1, <1>2, <1>3 DEF IInv

\* No call of the environment, by whatever thread and in whatever order, breaks it.
LEMMA StepLemma == IInv /\ [EnvNext]_envVars => IInv'
<1> SUFFICES ASSUME IInv, [EnvNext]_envVars PROVE IInv'
  OBVIOUS
<1>1. LockInv /\ UNCHANGED lockVars => LockInv'
  BY DEF LockInv, LockType, Owning, lockVars
<1>2. MmapInv /\ UNCHANGED mmapVars => MmapInv'
  BY DEF MmapInv, Slots, mmapVars
<1>3. QueueInv /\ UNCHANGED queueVars => QueueInv'
  BY DEF QueueInv, Running, queueVars
<1>4. ASSUME NEW x \in Process \X Thread, LockStep(x) PROVE IInv'
  <2>1. UNCHANGED <<mmapVars, queueVars>>
    BY <1>4, ZenonT(60) DEF LockStep, OpenLockFile, InsertLock, LockOrUnlock, RemoveLock, UnlockFile, UnlockRemoves, UnlockCloses
  <2>2. QED
    BY <1>2, <1>3, <1>4, <2>1, LockLemma DEF IInv
<1>5. ASSUME NEW t \in Thread, MmapStep(t) PROVE IInv'
  <2>1. UNCHANGED <<lockVars, queueVars>>
    BY <1>5 DEF MmapStep, Acquire, AcquireLocked, Map, Release
  <2>2. QED
    BY <1>1, <1>3, <1>5, <2>1, MmapLemma DEF IInv
<1>6. CASE QueueStep
  <2>1. UNCHANGED <<lockVars, mmapVars>>
    BY <1>6 DEF QueueStep, Schedule, BGThread, SpuriousWakeup, Run
  <2>2. QED
    BY <1>1, <1>2, <1>6, <2>1, QueueLemma DEF IInv
<1>7. CASE UNCHANGED envVars
  BY <1>1, <1>2, <1>3, <1>7 DEF IInv, envVars
<1>8. QED
  BY <1>4, <1>5, <1>6, <1>7 DEF EnvNext, LockStep, MmapStep, QueueStep

\* The invariant holds throughout.
LEMMA Invariance == EnvSpec => []IInv
BY InitLemma, StepLemma, PTL DEF EnvSpec

\* However the threads of any number of processes interleave their calls of LockFile
\* and UnlockFile, no two threads of a process hold the lock, and no two processes
\* do as long as none has closed another descriptor of the file.
THEOREM LocksExcludeTheorem == EnvSpec => []LocksExclude
<1>1. IInv => LocksExclude
  BY DEF IInv, LockInv, LockType, Owning, LocksExclude, OneProcessHolds, Holding
<1>2. QED
  BY <1>1, Invariance, PTL

\* For any number of threads and slots, no slot for a mapped file is lost or given
\* twice; and any number of scheduled functions run in the order of their Schedule.
THEOREM EnvKeepsCountTheorem == EnvSpec => []EnvKeepsCount
<1>1. IInv => MmapsAreCounted
  BY DEF IInv, MmapInv, Slots, MmapsAreCounted
<1>2. IInv => ItemsRunInOrder
  BY DEF IInv, QueueInv, Running, ItemsRunInOrder
<1>3. IInv => EnvKeepsCount
  BY <1>1, <1>2 DEF EnvKeepsCount
<1>4. QED
  BY <1>3, Invariance, PTL

=============================================================================
