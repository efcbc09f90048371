------------------------- MODULE RecoveryOpenProofs -------------------------
(***************************************************************************)
(* Proofs about module Recovery: DB::Open keeps the invariant, and what is *)
(* promised (RecoveryInvariant).  A lemma about a kind of step has one     *)
(* step for each action, named after it, and before it what it rests on.   *)
(***************************************************************************)
EXTENDS RecoveryInvariant, TLAPS

-----------------------------------------------------------------------------
(* Files, versions and entries.                                            *)

\* The order of the naturals.
LEMMA NumberOrder ==
    /\ 0 \in Nat
    /\ \A a \in Nat : 0 <= a /\ a <= a /\ a + 1 \in Nat /\ a < a + 1
    /\ \A a, b \in Nat : /\ a < b => a # b /\ a <= b
                         /\ (a > b <=> b < a) /\ (a >= b <=> b <= a) /\ (a < b <=> a + 1 <= b)
    /\ \A a, b, c \in Nat : /\ a < b /\ b <= c => a < c
                            /\ a <= b /\ b < c => a < c
                            /\ a <= b /\ b <= c => a <= c
OBVIOUS

\* The same, apart: a file number or a sequence number between others.
LEMMA LessThrough == \A a, b, c \in Nat : a < b /\ b <= c => a # b /\ a < c
OBVIOUS

\* The larger of two sequence numbers, as RecoverLogFile keeps it in max_sequence.
LEMMA LargerLemma ==
    \A a, b \in Nat : Larger(a, b) \in Nat /\ a <= Larger(a, b) /\ b <= Larger(a, b)
BY DEF Larger

\* Sequence numbers up to one that is itself up to another.
LEMMA AtMostThrough == \A a, b, c \in Nat : a <= b /\ b <= c => a <= c
OBVIOUS

\* NewFileNumber counts up by one.
LEMMA NextNumber == \A a \in Nat : a + 1 \in Nat /\ a < a + 1 /\ a <= a + 1 /\ a <= a /\ (a + 1) - 1 = a
OBVIOUS

\* What is below a file number is below the next one.
LEMMA BelowNext ==
    \A a, b \in Nat :
        /\ a + 1 <= b => a <= b
        /\ a < b => a <= b /\ a < b + 1
        /\ a <= b => a <= b + 1
        /\ ~(a >= b) => a < b
        /\ a >= b => b <= a
OBVIOUS

\* The places of the records of a file, and of one that is longer.
LEMMA Intervals ==
    /\ \A n \in Nat : /\ n \in 0 .. n /\ n .. n = {n} /\ n .. n + 1 = {n, n + 1} /\ n + 1 \in 1 .. n + 1
                     /\ \A i \in 1 .. n + 1 : i \in 1 .. n \/ i = n + 1
    /\ \A m, n \in Nat : m <= n => \A i \in 1 .. m : i \in 1 .. n
    /\ \A m, n \in Nat : m # 0 => \A i \in m .. n : i \in 1 .. n /\ i \in 0 .. n
OBVIOUS

\* The edit that Open writes after the snapshot is not at place 0.
LEMMA SecondPlace == 2 # 0
OBVIOUS

\* A new log has no records.
LEMMA EmptyDomain == DOMAIN <<>> = {}
OBVIOUS

\* A set of naturals that is not empty has a smallest member.
LEMMA SmallestLemma ==
    ASSUME NumberFacts, NEW S \in SUBSET Nat, S # {}
    PROVE  Smallest(S) \in S /\ \A y \in S : Smallest(S) <= y
BY Zenon DEF NumberFacts, Smallest

\* A set of naturals that is bounded has a largest member, or is empty.
LEMMA LargestLemma ==
    ASSUME NumberFacts, NEW S \in SUBSET Nat, NEW b \in Nat, \A y \in S : y <= b
    PROVE  Largest(S) \in S \cup {0} /\ Largest(S) \in Nat /\ \A y \in S : y <= Largest(S)
<1> DEFINE U == {u \in Nat : \A y \in S : y <= u}
           x == Smallest(U)
<1>1. x \in U /\ \A y \in U : x <= y
  BY SmallestLemma
<1> HIDE DEF x
<1>2. x \in S \cup {0}
  <2> SUFFICES ASSUME x \notin S, x # 0 PROVE FALSE
    OBVIOUS
  <2>1. x - 1 \in U
    BY <1>1
  <2> QED
    BY <1>1, <2>1
<1>3. \E z \in S \cup {0} : \A y \in S : y <= z
  BY <1>1, <1>2
<1>4. Largest(S) \in S \cup {0} /\ \A y \in S : y <= Largest(S)
  BY <1>3, Zenon DEF Largest
<1>5. S \cup {0} \subseteq Nat
  OBVIOUS
<1> QED
  BY <1>4, <1>5, Zenon

\* What the Builder of a version keeps of the first k edits.
LEMMA InVersion ==
    ASSUME NEW d \in Seq(Edit), NEW k \in 0 .. Len(d), NEW n
    PROVE  n \in Ver(d, k) <=>
              \E i \in 1 .. k : n \in d[i].added /\ \A j \in i + 1 .. k : n \notin d[j].deleted
<1> DEFINE c == SubSeq(d, 1, k)
<1>1. Len(c) = k /\ DOMAIN c = 1 .. k /\ \A i \in 1 .. k : c[i] = d[i]
  OBVIOUS
<1> HIDE DEF c
<1> QED
  BY <1>1 DEF Ver, Built, c

\* The version of the single edit that NewDB and RepairDB write.
LEMMA VersionOfOne ==
    ASSUME NEW e \in Edit
    PROVE  Ver(<<e>>, 1) = e.added
<1> DEFINE d == <<e>>
<1>1. d \in Seq(Edit) /\ Len(d) = 1 /\ d[1] = e
  OBVIOUS
<1> HIDE DEF d
<1>2. ASSUME NEW n PROVE n \in Ver(d, 1) <=> n \in e.added
  BY <1>1, InVersion
<1> QED
  BY <1>2 DEF d

\* Edits are complete when the last one has the counters, and these are the ones that
\* VersionSet::Recover ends with.
LEMMA CompleteLemma ==
    ASSUME NEW d \in Seq(Edit), Orderly(d)
    PROVE  /\ Complete(d) <=> Len(d) # 0 /\ Full(d[Len(d)])
           /\ Complete(d) => /\ LastOf(d, "log") = d[Len(d)].log
                             /\ LastOf(d, "next") = d[Len(d)].next
                             /\ LastOf(d, "last") = d[Len(d)].last
<1> DEFINE l == Len(d)
<1>1. l \in Nat /\ DOMAIN d = 1 .. l
  OBVIOUS
<1> HIDE DEF l
<1>2. Complete(d) => l # 0 /\ Full(d[l])
  <2> SUFFICES ASSUME Complete(d) PROVE l # 0 /\ Full(d[l])
    OBVIOUS
  <2>1. PICK i \in 1 .. l : d[i].next # NULL
    BY <1>1 DEF Complete, Has
  <2>2. l # 0 /\ l \in 1 .. l
    BY <1>1, <2>1
  <2>3. CASE l = 1
    <3>1. i = 1
      BY <2>1, <2>3
    <3> QED
      BY <1>1, <2>1, <2>2, <2>3, <3>1, Zenon DEF Orderly, Full, Bare
  <2>4. CASE l # 1
    BY <1>1, <2>2, <2>4, Zenon DEF Orderly
  <2> QED
    BY <2>2, <2>3, <2>4
<1>3. ASSUME l # 0, Full(d[l]) PROVE Complete(d)
  BY <1>1, <1>3 DEF Complete, Has, Full
<1>4. ASSUME NEW f, l # 0, d[l][f] # NULL
      PROVE  LastOf(d, f) = d[l][f]
  <2> DEFINE S == {i \in DOMAIN d : d[i][f] # NULL}
  <2>1. l \in S /\ S \subseteq 1 .. l
    BY <1>1, <1>4
  <2> HIDE DEF S
  <2>2. \E x \in S \cup {0} : \A y \in S : y <= x
    BY <1>1, <2>1
  <2>3. PICK m : m = Largest(S) /\ m \in S \cup {0} /\ \A y \in S : y <= m
    BY <2>2, Zenon DEF Largest
  <2>4. Largest(S) = l
    BY <1>1, <2>1, <2>3
  <2> QED
    BY <2>4 DEF LastOf, S
<1>5. ASSUME Complete(d)
      PROVE  /\ LastOf(d, "log") = d[l].log
             /\ LastOf(d, "next") = d[l].next
             /\ LastOf(d, "last") = d[l].last
  <2>1. l # 0 /\ d[l].log # NULL /\ d[l].next # NULL /\ d[l].last # NULL
    BY <1>2, <1>5 DEF Full
  <2> QED
    BY <1>4, <2>1
<1> QED
  BY <1>2, <1>3, <1>5 DEF l

\* What there is in the memtables, tables and logs.
LEMMA HeldLemma ==
    ASSUME NEW mem, NEW imm, NEW ts, NEW ls, NEW x
    PROVE  x \in Held(mem, imm, ts, ls) <=>
              \/ x \in mem
              \/ \E M \in imm : x \in M
              \/ \E n \in DOMAIN ts : x \in ts[n]
              \/ \E n \in DOMAIN ls : \E i \in DOMAIN ls[n].data : x \in ls[n].data[i]
<1>1. x \in AllEntries(ts) <=> \E n \in DOMAIN ts : x \in ts[n]
  BY Zenon DEF AllEntries
<1>2. x \in UNION {EntriesOf(ls[n]) : n \in DOMAIN ls} <=>
         \E n \in DOMAIN ls : \E i \in DOMAIN ls[n].data : x \in ls[n].data[i]
  BY DEF EntriesOf, Range
<1> QED
  BY <1>1, <1>2, Zenon DEF Held

\* A step that leaves the directory alone.
LEMMA DirStays ==
    ASSUME DirType, FilesInv, CurrentInv, UNCHANGED dir
    PROVE  DirType' /\ FilesInv' /\ CurrentInv'
<1>1. logs' = logs /\ manifests' = manifests /\ tables' = tables /\ current' = current
  BY DEF dir
<1>2. DirType'
  BY <1>1 DEF DirType
<1>3. FilesInv'
  BY <1>1, Zenon DEF FilesInv
<1>4. CurrentInv'
  BY <1>1, Zenon DEF CurrentInv
<1> QED
  BY <1>2, <1>3, <1>4

\* A step after which there are no new entries, and at most one new file.
LEMMA EntriesStay ==
    ASSUME DirType, EntriesInv, NEW k \in Nat,
           Held(db'.mem, db'.imm, tables', logs') \subseteq Held(db.mem, db.imm, tables, logs),
           DOMAIN logs' \cup DOMAIN tables' \subseteq DOMAIN logs \cup DOMAIN tables \cup {k}
    PROVE  EntriesInv'
<1> DEFINE H == Held(db.mem, db.imm, tables, logs)
           G == Held(db'.mem, db'.imm, tables', logs')
           D == DOMAIN logs \cup DOMAIN tables
           E == DOMAIN logs' \cup DOMAIN tables'
<1>1. G \subseteq H /\ E \subseteq D \cup {k} /\ Unique(H) /\ Bounded(Seqs(H)) /\ Bounded(D)
  BY DEF EntriesInv
<1>2. D \subseteq Nat
  BY DEF DirType, Files
<1>3. EntriesInv' = (Unique(G) /\ Bounded(Seqs(G)) /\ Bounded(E))
  BY Zenon DEF EntriesInv
<1> HIDE DEF H, G, D, E
<1>4. Unique(G)
  BY <1>1, Zenon DEF Unique
<1>5. Bounded(Seqs(G))
  BY <1>1, Zenon DEF Bounded, Seqs
<1>6. Bounded(E)
  <2>1. PICK b \in Nat : \A n \in D : n <= b
    BY <1>1 DEF Bounded
  <2>2. Larger(b, k) \in Nat /\ \A n \in E : n <= Larger(b, k)
    BY <1>1, <1>2, <2>1 DEF Larger
  <2> QED
    BY <2>2 DEF Bounded
<1> QED
  BY <1>3, <1>4, <1>5, <1>6, Zenon

\* A step to a state in which the database is not open.
LEMMA NotOpen ==
    ASSUME ProcessType, QueueInv, db' \in DB, db'.pc # "open",
           queue' = <<>>, group' = NoGroup, bg' = Quiet,
           repair' \in [pc : {"none", "logs", "current"}, next : Nat, found : SUBSET Nat],
           synced' = synced, spent' \in Spent, spent'.writes = spent.writes, bound' = bound
    PROVE  ProcessType' /\ ProcessInv'
<1>1. ProcessType'
  BY DEF ProcessType, NoGroup, Quiet
<1>2. OpenInv' /\ SequenceInv' /\ EditInv'
  BY Zenon DEF OpenInv, SequenceInv, EditInv
<1>3. GroupInv'
  BY DEF GroupInv, InFlight, NoGroup
<1>4. QueueInv'
  BY DEF QueueInv
<1> QED
  BY <1>1, <1>2, <1>3, <1>4 DEF ProcessInv

\* The parts of a MANIFEST.
LEMMA ManifestLemma ==
    ASSUME NEW m \in Manifest
    PROVE  /\ m.data \in Seq(Edit) /\ Len(m.data) \in Nat /\ m.synced \in Nat
           /\ DOMAIN m.data = 1 .. Len(m.data)
           /\ \A k \in 1 .. Len(m.data) :
                 /\ m.data[k] \in Edit /\ m.data[k].added \subseteq Nat
                 /\ Full(m.data[k]) => /\ m.data[k].log \in Nat /\ m.data[k].next \in Nat
                                       /\ m.data[k].last \in Nat
<1>1. m.data \in Seq(Edit) /\ m.synced \in Nat
  BY DEF Manifest
<1>2. Len(m.data) \in Nat /\ DOMAIN m.data = 1 .. Len(m.data)
  BY <1>1
<1>3. ASSUME NEW k \in 1 .. Len(m.data)
      PROVE  /\ m.data[k] \in Edit /\ m.data[k].added \subseteq Nat
             /\ Full(m.data[k]) => /\ m.data[k].log \in Nat /\ m.data[k].next \in Nat
                                   /\ m.data[k].last \in Nat
  <2>1. m.data[k] \in Edit
    BY <1>1, <1>2
  <2> QED
    BY <2>1 DEF Edit, Full, Number
<1> QED
  BY <1>1, <1>2, <1>3

\* The edits that a crash leaves, and that Recover accepts.
LEMMA KeptLemma ==
    ASSUME NEW m \in Manifest
    PROVE  /\ \A k \in Kept(m) : Readable(m, k) => /\ k \in 1 .. Len(m.data) /\ m.data[k].log \in Nat
                                                   /\ m.data[k].next \in Nat /\ m.data[k].last \in Nat
           /\ m.synced <= Len(m.data) => Len(m.data) \in Kept(m)
           /\ Len(m.data) # 0 => Len(m.data) \in 1 .. Len(m.data)
           /\ m.synced = 2 /\ Len(m.data) = 2 => Kept(m) = {2} /\ m.synced <= Len(m.data)
<1>1. Len(m.data) \in Nat /\ m.synced \in Nat
  BY ManifestLemma, Zenon
<1>2. ASSUME NEW k \in Kept(m), Readable(m, k) PROVE k \in 1 .. Len(m.data)
  BY <1>1, <1>2 DEF Kept, Readable
<1>3. ASSUME NEW k \in Kept(m), Readable(m, k)
      PROVE  m.data[k].log \in Nat /\ m.data[k].next \in Nat /\ m.data[k].last \in Nat
  BY <1>2, <1>3, ManifestLemma, Zenon DEF Readable
<1>4. m.synced <= Len(m.data) => Len(m.data) \in Kept(m)
  BY <1>1 DEF Kept
<1>5. Len(m.data) # 0 => Len(m.data) \in 1 .. Len(m.data)
  BY <1>1
<1>6. m.synced = 2 /\ Len(m.data) = 2 => Kept(m) = {2} /\ m.synced <= Len(m.data)
  BY <1>1 DEF Kept
<1> QED
  BY <1>2, <1>3, <1>4, <1>5, <1>6, Zenon

\* The writes of more entries are more.
LEMMA IdsGrow ==
    ASSUME NEW A, NEW B, A \subseteq B
    PROVE  Ids(A) \subseteq Ids(B)
BY Zenon DEF Ids

\* The entries of tables and of logs.
LEMMA InTables ==
    ASSUME NEW v, NEW ts, NEW x
    PROVE  x \in TablesOf(v, ts) <=> \E n \in v : x \in ts[n]
BY Zenon DEF TablesOf

\* Tables that stay hold what they held.
LEMMA TablesSame ==
    ASSUME NEW v, NEW ts, NEW us, \A n \in v : us[n] = ts[n]
    PROVE  TablesOf(v, us) = TablesOf(v, ts)
<1>1. \A x : x \in TablesOf(v, us) <=> x \in TablesOf(v, ts)
  BY InTables
<1> QED
  BY <1>1, Zenon

\* The entries of the logs from l on, and of their synced parts.
LEMMA InLogs ==
    ASSUME NEW l, NEW ls, NEW x
    PROVE  /\ x \in LogsFrom(l, ls) <=>
                 \E n \in DOMAIN ls : n >= l /\ \E i \in DOMAIN ls[n].data : x \in ls[n].data[i]
           /\ x \in SafeFrom(l, ls) <=>
                 \E n \in DOMAIN ls : n >= l /\ \E i \in 1 .. ls[n].synced : x \in ls[n].data[i]
<1>1. x \in LogsFrom(l, ls) <=>
         \E n \in DOMAIN ls : n >= l /\ \E i \in DOMAIN ls[n].data : x \in ls[n].data[i]
  BY DEF LogsFrom
<1>2. x \in SafeFrom(l, ls) <=>
         \E n \in DOMAIN ls : n >= l /\ \E i \in 1 .. ls[n].synced : x \in ls[n].data[i]
  BY DEF SafeFrom
<1> QED
  BY <1>1, <1>2

\* More logs hold more.
LEMMA LogsGrow ==
    ASSUME NEW ls, NEW ks, \A n \in DOMAIN ls : n \in DOMAIN ks /\ ks[n] = ls[n], NEW l
    PROVE  LogsFrom(l, ls) \subseteq LogsFrom(l, ks) /\ SafeFrom(l, ls) \subseteq SafeFrom(l, ks)
<1>1. ASSUME NEW x \in LogsFrom(l, ls) PROVE x \in LogsFrom(l, ks)
  <2>1. PICK n \in DOMAIN ls : n >= l /\ \E i \in DOMAIN ls[n].data : x \in ls[n].data[i]
    BY InLogs, Zenon
  <2>2. n \in DOMAIN ks /\ \E i \in DOMAIN ks[n].data : x \in ks[n].data[i]
    BY <2>1, Zenon
  <2> QED
    BY <2>1, <2>2, InLogs, Zenon
<1>2. ASSUME NEW x \in SafeFrom(l, ls) PROVE x \in SafeFrom(l, ks)
  <2>1. PICK n \in DOMAIN ls : n >= l /\ \E i \in 1 .. ls[n].synced : x \in ls[n].data[i]
    BY InLogs, Zenon
  <2>2. n \in DOMAIN ks /\ \E i \in 1 .. ks[n].synced : x \in ks[n].data[i]
    BY <2>1, Zenon
  <2> QED
    BY <2>1, <2>2, InLogs, Zenon
<1> QED
  BY <1>1, <1>2, Zenon

\* What Open finds RepairDB finds too.
LEMMA DiskHasIt ==
    ASSUME NEW p, NEW s, NEW m \in Manifest, NEW ls, NEW ts, DOMAIN ls \subseteq Nat,
           m.synced <= Len(m.data), Readable(m, Len(m.data)), SoundManifest(m, ts),
           Recoverable(p, s, m, ls, ts)
    PROVE  OnDisk(p, s, ls, ts)
<1>1. PICK k : k = Len(m.data)
  OBVIOUS
<1>2. k \in Kept(m) /\ Readable(m, k) /\ k \in 1 .. Len(m.data)
  BY <1>1, ManifestLemma DEF Kept, Readable
<1>3. PICK v \in SUBSET DOMAIN ts, l \in Nat : v = Ver(m.data, k) /\ l = m.data[k].log
  <2>1. m.data[k].log \in Nat
    BY <1>2, ManifestLemma DEF Readable
  <2>2. Ver(m.data, k) \subseteq DOMAIN ts
    BY <1>2 DEF SoundManifest, Sound
  <2> QED
    BY <2>1, <2>2, Zenon
<1>4. s \subseteq Ids(TablesOf(v, ts) \cup SafeFrom(l, ls)) /\ p \subseteq Ids(TablesOf(v, ts) \cup LogsFrom(l, ls))
  BY <1>1, <1>2, <1>3, Zenon DEF Recoverable
<1>5. TablesOf(v, ts) \subseteq AllEntries(ts)
  BY <1>3 DEF TablesOf, AllEntries
<1>6. \A n \in DOMAIN ls : n >= l => n >= 0
  OBVIOUS
<1>7. LogsFrom(l, ls) \subseteq LogsFrom(0, ls) /\ SafeFrom(l, ls) \subseteq SafeFrom(0, ls)
  BY <1>6, InLogs, Zenon
<1>8. /\ TablesOf(v, ts) \cup SafeFrom(l, ls) \subseteq AllEntries(ts) \cup SafeFrom(0, ls)
      /\ TablesOf(v, ts) \cup LogsFrom(l, ls) \subseteq AllEntries(ts) \cup LogsFrom(0, ls)
  BY <1>5, <1>7
<1> QED
  BY <1>4, <1>8, IdsGrow DEF OnDisk

\* While the database is open only its contents matter.
LEMMA OpenDurable ==
    ASSUME IInv', db'.pc = "open", Fine' => "repair" \notin odd', ContentsInv'
    PROVE  DInv'
<1>1. current' # NULL
  <2>1. current' = db'.manifest /\ db'.manifest \in Nat
    BY DEF IInv, ProcessInv, OpenInv, ProcessType, DB
  <2> QED
    BY <2>1, NullAssumption
<1>2. RecoveryInv'
  BY <1>1 DEF RecoveryInv
<1> QED
  BY <1>2 DEF DInv, DiskInv

-----------------------------------------------------------------------------
(* What Open has read and written.                                         *)

\* The state of a process that has just begun.
LEMMA ClosedLemma ==
    ASSUME NEW p \in {"closed", "newdb", "recover"}, NEW d, d = [Closed EXCEPT !.pc = p]
    PROVE  /\ d \in DB /\ d.pc = p /\ d.mem = {} /\ d.imm = {} /\ d.version = {}
           /\ d.added = {} /\ d.todo = {} /\ d.read = 0 /\ d.max_sequence = 0 /\ d.ok = TRUE
           /\ Closed = [Closed EXCEPT !.pc = "closed"]
<1>1. /\ Closed \in DB /\ Closed.mem = {} /\ Closed.imm = {} /\ Closed.version = {}
      /\ Closed.added = {} /\ Closed.todo = {} /\ Closed.read = 0 /\ Closed.max_sequence = 0
      /\ Closed.ok = TRUE /\ Closed.pc = "closed"
  BY DEF Closed, DB
<1> QED
  BY <1>1 DEF DB

\* While the logs are read.
LEMMA ReadingFacts ==
    ASSUME IInv, db.pc = "logs"
    PROVE  LET m == manifests[current]
               l == Len(m.data)
           IN /\ current \in DOMAIN manifests /\ m \in Manifest /\ m.synced <= l
              /\ l \in Kept(m) /\ Readable(m, l) /\ m.data[l].next \in Nat
              /\ db.manifest = m.data[l].next /\ db.version = Ver(m.data, l)
              /\ db.manifest < db.next_file_number
              /\ \A k \in Kept(m) : Readable(m, k) => m.data[k].next <= db.next_file_number
              /\ \A n \in db.version : n < db.next_file_number
<1> DEFINE m == manifests[current]
           l == Len(m.data)
<1>1. /\ current \in DOMAIN manifests /\ Readable(m, l) /\ db.manifest = m.data[l].next
      /\ db.version = Ver(m.data, l) /\ db.manifest < db.next_file_number
  BY DEF IInv, OpeningInv, LogsInv
<1>2. m \in Manifest /\ m.synced <= l
  BY <1>1 DEF IInv, DirInv, FilesInv, DirType, Files
<1>3. l \in Nat /\ m.synced \in Nat
  BY <1>2, ManifestLemma
<1>4. l \in Kept(m) /\ l \in 1 .. l
  BY <1>1, <1>2, <1>3 DEF Kept, Readable
<1>5. m.data[l].next \in Nat /\ db.next_file_number \in Nat
  <2>1. m.data[l].next \in Nat
    BY <1>1, <1>2, <1>4, ManifestLemma DEF Readable
  <2>2. db.next_file_number \in Nat
    BY DEF IInv, ProcessType, DB
  <2> QED
    BY <2>1, <2>2
<1>6. \A k \in Kept(m) : Readable(m, k) => Sound(m, k, tables)
  BY <1>1, Zenon DEF IInv, DirInv, CurrentInv, SoundManifest
<1>7. ASSUME NEW k \in Kept(m), Readable(m, k) PROVE m.data[k].next <= db.next_file_number
  <2>1. k \in 1 .. l
    BY <1>3, <1>7 DEF Kept, Readable
  <2>2. m.data[k].next \in Nat
    BY <1>2, <1>7, <2>1, ManifestLemma DEF Readable
  <2>3. m.data[k].next <= m.data[l].next
    BY <1>6, <1>7 DEF Sound
  <2> QED
    BY <1>1, <1>5, <2>2, <2>3
<1>8. ASSUME NEW n \in db.version PROVE n < db.next_file_number
  <2>1. n \in DOMAIN tables /\ n < m.data[l].next
    BY <1>1, <1>4, <1>6 DEF Sound
  <2>2. n \in Nat
    BY <2>1 DEF IInv, DirType, Files
  <2> QED
    BY <1>1, <1>5, <2>1, <2>2
<1> QED
  BY <1>1, <1>2, <1>4, <1>5, <1>7, <1>8

\* A turn ends: the memtable is empty and the number of the log is used.
LEMMA TurnLemma ==
    ASSUME NEW d \in DB, NEW n \in Nat, NEW ok \in BOOLEAN, TurnEnds(d, n, ok)
    PROVE  /\ db' \in DB /\ db'.pc = d.pc /\ db'.version = d.version /\ db'.imm = d.imm
           /\ db'.manifest = d.manifest /\ db'.last_sequence = d.last_sequence
           /\ db'.log_number = d.log_number /\ db'.added = d.added
           /\ db'.max_sequence = d.max_sequence /\ db'.todo = d.todo \ {n} /\ db'.mem = {}
           /\ db'.read = 0 /\ db'.ok = ok
           /\ d.next_file_number <= db'.next_file_number /\ n < db'.next_file_number
           /\ odd' \in {odd, odd \cup {"overlooked"}}
<1> DEFINE k == MarkFileNumberUsed(d.next_file_number, n)
<1>1. d.next_file_number \in Nat /\ d.todo \in SUBSET Nat
  BY DEF DB
<1>2. k \in Nat /\ d.next_file_number <= k /\ n < k
  BY <1>1 DEF MarkFileNumberUsed, Larger
<1>3. /\ db' = [d EXCEPT !.todo = d.todo \ {n}, !.read = 0, !.mem = {}, !.ok = ok,
                         !.next_file_number = k]
      /\ odd' \in {odd, odd \cup {"overlooked"}}
  BY DEF TurnEnds
<1> HIDE DEF k
<1>4. db' \in DB
  BY <1>1, <1>2, <1>3, Zenon DEF DB
<1> QED
  BY <1>2, <1>3, <1>4 DEF DB

\* A table is written from the memtable.
LEMMA Level0Lemma ==
    ASSUME NEW d \in DB, NEW e, e = Level0Written(d)
    PROVE  /\ e \in DB /\ e.pc = d.pc /\ e.version = d.version /\ e.imm = d.imm
           /\ e.manifest = d.manifest /\ e.last_sequence = d.last_sequence
           /\ e.log_number = d.log_number /\ e.added = d.added \cup {d.next_file_number}
           /\ e.max_sequence = d.max_sequence /\ e.todo = d.todo /\ e.mem = {}
           /\ e.read = d.read /\ e.ok = d.ok /\ e.next_file_number = d.next_file_number + 1
<1>1. d.next_file_number \in Nat /\ d.added \in SUBSET Nat
  BY DEF DB
<1>2. PICK k \in Nat, a \in SUBSET Nat :
         k = d.next_file_number + 1 /\ a = d.added \cup {d.next_file_number}
  <2>1. d.next_file_number + 1 \in Nat /\ d.added \cup {d.next_file_number} \in SUBSET Nat
    BY <1>1
  <2> QED
    BY <2>1, Zenon
<1>3. e = [d EXCEPT !.next_file_number = k, !.mem = {}, !.added = a]
  BY <1>2 DEF Level0Written
<1>4. e \in DB
  BY <1>3, ZenonT(60) DEF DB
<1> QED
  BY <1>2, <1>3, <1>4 DEF DB

\* BuildTable has failed: the number that it took stays used.
LEMMA NumberUsed ==
    ASSUME NEW d \in DB, NEW e, e = [d EXCEPT !.next_file_number = d.next_file_number + 1]
    PROVE  /\ e \in DB /\ e.pc = d.pc /\ e.version = d.version /\ e.imm = d.imm /\ e.manifest = d.manifest
           /\ e.last_sequence = d.last_sequence /\ e.log_number = d.log_number /\ e.added = d.added
           /\ e.max_sequence = d.max_sequence /\ e.todo = d.todo
           /\ e.next_file_number = d.next_file_number + 1
<1>1. d.next_file_number + 1 \in Nat
  BY NumberOrder, Zenon DEF DB
<1>2. PICK k \in Nat : k = d.next_file_number + 1
  BY <1>1, Zenon
<1>3. e = [d EXCEPT !.next_file_number = k]
  BY <1>2, Zenon
<1>4. e \in DB /\ e.next_file_number = k
  BY <1>3, ZenonT(60) DEF DB
<1> QED
  BY <1>2, <1>3, <1>4, ZenonT(60) DEF DB

\* The log that is read next.
LEMMA TurnFacts ==
    ASSUME NumberFacts, IInv, db.pc = "logs", db.todo # {}
    PROVE  LET n == Smallest(db.todo)
           IN /\ n \in db.todo /\ n \in DOMAIN logs /\ n \in Nat /\ logs[n] \in Log
              /\ \A i \in db.todo : i \in DOMAIN logs /\ Len(logs[i].data) \in Nat
              /\ db.todo \subseteq Nat
<1>1. db.todo \subseteq DOMAIN logs /\ Files(logs, Log)
  BY DEF IInv, OpeningInv, LogsInv, DirType
<1>2. db.todo \subseteq Nat /\ \A i \in DOMAIN logs : logs[i] \in Log
  BY <1>1 DEF Files
<1>3. Smallest(db.todo) \in db.todo
  BY <1>2, SmallestLemma
<1>4. \A i \in db.todo : Len(logs[i].data) \in Nat
  BY <1>1, <1>2, SMTT(30) DEF Log
<1> QED
  BY <1>1, <1>2, <1>3, <1>4

\* A record that is read.
LEMMA RecordFacts ==
    ASSUME NumberFacts, IInv, db.pc = "logs", db.todo # {}, db.read < Len(logs[Smallest(db.todo)].data)
    PROVE  LET data == logs[Smallest(db.todo)].data
               record == data[db.read + 1]
           IN /\ db.read \in Nat /\ db.read + 1 \in DOMAIN data /\ db.read + 1 <= Len(data)
              /\ record \in SUBSET Entry /\ record \subseteq Held(db.mem, db.imm, tables, logs)
              /\ Largest(Seqs(record)) \in Nat
              /\ \A x \in record : x[1] \in Nat /\ x[1] <= Largest(Seqs(record))
<1> DEFINE data == logs[Smallest(db.todo)].data
           record == data[db.read + 1]
           H == Held(db.mem, db.imm, tables, logs)
<1>1. data \in Seq(SUBSET Entry) /\ Smallest(db.todo) \in DOMAIN logs
  BY TurnFacts DEF Log
<1>2. db.read \in Nat
  BY DEF IInv, ProcessType, DB
<1>3. db.read + 1 \in DOMAIN data /\ db.read + 1 <= Len(data)
  BY <1>1, <1>2
<1>4. record \in SUBSET Entry
  BY <1>1, <1>3
<1>5. record \subseteq H
  BY <1>1, <1>3, HeldLemma
<1>6. PICK b \in Nat : \A y \in Seqs(H) : y <= b
  BY DEF IInv, DirInv, EntriesInv, Bounded
<1> HIDE DEF record, H, data
<1>7. Seqs(record) \in SUBSET Nat /\ \A y \in Seqs(record) : y <= b
  BY <1>4, <1>5, <1>6 DEF Seqs, Entry
<1>8. Largest(Seqs(record)) \in Nat /\ \A y \in Seqs(record) : y <= Largest(Seqs(record))
  BY <1>7, LargestLemma, Zenon
<1>9. \A x \in record : x[1] \in Seqs(record)
  BY Zenon DEF Seqs
<1> QED
  BY <1>2, <1>3, <1>4, <1>5, <1>7, <1>8, <1>9 DEF record, H, data

\* The state after RecoverLogFile has read a record.
LEMMA RecordRead ==
    ASSUME NumberFacts, IInv, db.pc = "logs", db.todo # {}, db.read < Len(logs[Smallest(db.todo)].data),
           NEW record, record = logs[Smallest(db.todo)].data[db.read + 1],
           NEW d, d = [db EXCEPT !.read = db.read + 1, !.mem = db.mem \cup record,
                                 !.max_sequence = Larger(db.max_sequence, Largest(Seqs(record)))]
    PROVE  /\ Reading(d) /\ d.read = db.read + 1 /\ d.mem = db.mem \cup record /\ d.ok = db.ok
           /\ d.read <= Len(logs[Smallest(db.todo)].data)
           /\ \A x \in d.mem : \E i \in DOMAIN logs[Smallest(db.todo)].data :
                                  x \in logs[Smallest(db.todo)].data[i]
<1> DEFINE data == logs[Smallest(db.todo)].data
<1>1. /\ db \in DB /\ LogsInv /\ db.max_sequence \in Nat /\ db.mem \in SUBSET Entry
  BY Zenon DEF IInv, ProcessType, OpeningInv, DB
<1>2. /\ db.read \in Nat /\ db.read + 1 \in DOMAIN data /\ db.read + 1 <= Len(data)
      /\ record \in SUBSET Entry /\ record \subseteq Held(db.mem, db.imm, tables, logs)
      /\ Largest(Seqs(record)) \in Nat
      /\ \A x \in record : x[1] \in Nat /\ x[1] <= Largest(Seqs(record))
  BY RecordFacts, Zenon
<1>3. PICK r \in Nat, M \in SUBSET Entry, s \in Nat :
         /\ r = db.read + 1 /\ M = db.mem \cup record
         /\ s = Larger(db.max_sequence, Largest(Seqs(record)))
  <2>1. db.read + 1 \in Nat
    BY <1>2, NumberOrder, Zenon
  <2>2. db.mem \cup record \in SUBSET Entry
    BY <1>1, <1>2, ZenonT(60)
  <2>3. Larger(db.max_sequence, Largest(Seqs(record))) \in Nat
    BY <1>1, <1>2, LargerLemma, Zenon
  <2> QED
    BY <2>1, <2>2, <2>3, Zenon
<1>4. d = [db EXCEPT !.read = r, !.mem = M, !.max_sequence = s]
  BY <1>3
<1>5. M \subseteq Held(db.mem, db.imm, tables, logs)
  BY <1>2, <1>3, HeldLemma, Zenon
<1>6. db.max_sequence <= s /\ \A x \in M : x[1] <= s
  <2>1. \A x \in db.mem : x[1] \in Nat /\ x[1] <= db.max_sequence
    BY <1>1 DEF LogsInv, Entry
  <2>2. db.max_sequence <= s /\ Largest(Seqs(record)) <= s
    BY <1>1, <1>2, <1>3, LargerLemma, Zenon
  <2>3. ASSUME NEW x \in M PROVE x[1] <= s
    <3>1. CASE x \in db.mem
      <4>1. x[1] \in Nat /\ x[1] <= db.max_sequence
        BY <2>1, <3>1, Zenon
      <4> QED
        BY <1>1, <2>2, <4>1, AtMostThrough, Zenon
    <3>2. CASE x \in record
      <4>1. x[1] \in Nat /\ x[1] <= Largest(Seqs(record)) /\ Largest(Seqs(record)) \in Nat
        BY <1>2, <3>2, Zenon
      <4> QED
        BY <2>2, <4>1, AtMostThrough, Zenon
    <3> QED
      BY <1>3, <2>3, <3>1, <3>2, Zenon
  <2> QED
    BY <2>2, <2>3, Zenon
<1>7. \A x \in M : \E i \in DOMAIN data : x \in data[i]
  <2>1. \A x \in db.mem : \E i \in DOMAIN data : x \in data[i]
    BY <1>1 DEF LogsInv
  <2> QED
    BY <1>2, <1>3, <2>1, Zenon
<1>8. d \in DB
  BY <1>1, <1>4, ZenonT(60) DEF DB
<1>9. /\ d.pc = "logs" /\ d.version = db.version /\ d.imm = db.imm
      /\ d.manifest = db.manifest /\ d.last_sequence = db.last_sequence
      /\ d.log_number = db.log_number /\ d.next_file_number = db.next_file_number
      /\ d.todo = db.todo /\ d.added = db.added
      /\ d.read = r /\ d.mem = M /\ d.max_sequence = s
  BY <1>1, <1>4, Zenon DEF DB
<1>10. d.ok = db.ok
  BY <1>1, <1>4, Zenon DEF DB
<1>11. Reading(d)
  BY <1>5, <1>6, <1>8, <1>9, ZenonT(60) DEF Reading
<1> QED
  BY <1>2, <1>3, <1>7, <1>9, <1>10, <1>11, Zenon

\* The version of the snapshot and the edit that Open writes.
LEMMA VersionOfTwo ==
    ASSUME NEW a \in Edit, NEW b \in Edit, b.deleted = {}
    PROVE  Ver(<<a, b>>, 2) = a.added \cup b.added
<1> DEFINE d == <<a, b>>
<1>1. d \in Seq(Edit) /\ Len(d) = 2 /\ d[1] = a /\ d[2] = b
  OBVIOUS
<1> HIDE DEF d
<1>2. ASSUME NEW n PROVE n \in Ver(d, 2) <=> n \in a.added \cup b.added
  BY <1>1, InVersion
<1> QED
  BY <1>2 DEF d

\* The MANIFEST that Open writes is as described.
LEMMA NewManifestLemma ==
    ASSUME NEW v \in SUBSET Nat, NEW a \in SUBSET Nat, NEW log \in Nat, NEW last \in Nat,
           NEW s \in 0 .. 2
    PROVE  Described(NewManifest(v, log, last, a, s), v, log, last, a, s)
<1> DEFINE e == VersionEdit(NULL, NULL, NULL, v, {})
           f == VersionEdit(log, log + 1, last, a, {})
           m == NewManifest(v, log, last, a, s)
<1>1. /\ e \in Edit /\ e.added = v /\ e.log = NULL /\ e.next = NULL /\ e.last = NULL
      /\ f \in Edit /\ f.added = a /\ f.log = log /\ f.next = log + 1 /\ f.last = last
      /\ f.deleted = {} /\ Full(f)
  BY NullAssumption DEF VersionEdit, Edit, Number, Full
<1>2. m = [data |-> <<e, f>>, synced |-> s]
  BY DEF NewManifest, Written
<1> HIDE DEF e, f, m
<1>3. m.data = <<e, f>> /\ m.synced = s /\ Len(m.data) = 2 /\ m.data[1] = e /\ m.data[2] = f
  BY <1>2
<1>4. m \in Manifest
  BY <1>1, <1>2 DEF Manifest
<1>5. Orderly(m.data)
  BY <1>1, <1>3 DEF Orderly, Bare
<1>6. Ver(m.data, 2) = v \cup a
  BY <1>1, <1>3, VersionOfTwo
<1>7. Readable(m, 2) /\ 2 \in Kept(m) /\ m.synced <= Len(m.data)
  BY <1>1, <1>3 DEF Readable, Kept
<1>8. \A k \in Kept(m) : Readable(m, k) => k = 2
  BY <1>1, <1>3 DEF Readable, Kept, Full
<1> QED
  BY <1>1, <1>3, <1>4, <1>5, <1>6, <1>7, <1>8 DEF Described, m

\* It is sound when the numbers of its tables are below the log's and their entries are
\* numbered up to the last sequence number.
LEMMA NewManifestIsSound ==
    ASSUME NEW v \in SUBSET Nat, NEW a \in SUBSET Nat, NEW log \in Nat, NEW last \in Nat,
           NEW s \in 0 .. 2, NEW ts,
           \A n \in v \cup a : n \in DOMAIN ts /\ n < log /\ \A x \in ts[n] : x[1] <= last
    PROVE  SoundManifest(NewManifest(v, log, last, a, s), ts)
<1> DEFINE m == NewManifest(v, log, last, a, s)
<1>0. Described(m, v, log, last, a, s)
  BY NewManifestLemma
<1> HIDE DEF m
<1>1. /\ \A k \in Kept(m) : Readable(m, k) => k = 2
      /\ m.data[2].log = log /\ m.data[2].next = log + 1 /\ m.data[2].last = last
      /\ Ver(m.data, 2) = v \cup a /\ Len(m.data) = 2
  BY <1>0 DEF Described
<1>2. \A n \in v \cup a : n < log + 1
  OBVIOUS
<1>3. log <= log + 1 /\ log + 1 <= log + 1
  OBVIOUS
<1>4. Sound(m, 2, ts)
  BY <1>1, <1>2, <1>3, ZenonT(60) DEF Sound
<1> QED
  BY <1>1, <1>4 DEF SoundManifest, m

\* The MANIFEST that Open has written is sound.
LEMMA EndFacts ==
    ASSUME IInv, db.pc \in {"sync", "current", "install"}
    PROVE  LET m == manifests[db.manifest]
               s == IF db.pc = "sync" THEN 0 ELSE 2
           IN /\ db.manifest \in DOMAIN manifests /\ db.manifest \in Nat
              /\ Described(m, db.version, db.logfile, db.last_sequence, db.added, s)
              /\ m = NewManifest(db.version, db.logfile, db.last_sequence, db.added, s)
              /\ SoundManifest(m, tables) /\ NumbersAfter(db.manifest, m)
<1> DEFINE m == manifests[db.manifest]
           s == IF db.pc = "sync" THEN 0 ELSE 2
<1>1. EndInv /\ db \in DB
  BY DEF IInv, OpeningInv, ProcessType
<1>2. /\ db.version \in SUBSET Nat /\ db.added \in SUBSET Nat /\ db.logfile \in Nat
      /\ db.last_sequence \in Nat /\ db.manifest \in Nat /\ s \in 0 .. 2
  BY <1>1 DEF DB
<1>3. /\ db.manifest \in DOMAIN manifests /\ db.manifest < db.logfile
      /\ m = NewManifest(db.version, db.logfile, db.last_sequence, db.added, s)
      /\ \A n \in db.version \cup db.added :
            n \in DOMAIN tables /\ n < db.logfile /\ \A x \in tables[n] : x[1] <= db.last_sequence
  BY <1>1 DEF EndInv, OpenDescriptor, NewManifest
<1> HIDE DEF s
<1>4. Described(m, db.version, db.logfile, db.last_sequence, db.added, s)
  BY <1>2, <1>3, NewManifestLemma
<1>5. SoundManifest(m, tables)
  <2>1. SoundManifest(NewManifest(db.version, db.logfile, db.last_sequence, db.added, s), tables)
    BY <1>2, <1>3, NewManifestIsSound, Zenon
  <2> QED
    BY <1>3, <2>1
<1> HIDE DEF m
<1>6. NumbersAfter(db.manifest, m)
  <2>1. m.data[2].next = db.logfile + 1 /\ \A k \in Kept(m) : Readable(m, k) => k = 2
    BY <1>4 DEF Described
  <2> QED
    BY <1>2, <1>3, <2>1 DEF NumbersAfter
<1> QED
  BY <1>2, <1>3, <1>4, <1>5, <1>6 DEF m, s

\* What Open has written is as described, before a step.
LEMMA EndLemma == IInv /\ Ending => EndDescribed
BY EndFacts DEF Ending, EndDescribed

\* The same after a step.
LEMMA EndNext == IInv' /\ Ending' => EndDescribed'
BY EndLemma, PTL

-----------------------------------------------------------------------------
(* The steps of Open.                                                      *)

\* The steps of DB::Open keep the invariant.
LEMMA OpeningKeepsInv ==
    ASSUME NumberFacts
    PROVE  IInv /\ (OpenBegins \/ Opening) => IInv'
\* The state of the process while it opens the database.
<1>OpeningFacts. ASSUME IInv, db.pc \notin {"closed", "open"}
                 PROVE  /\ queue = <<>> /\ group = NoGroup /\ bg = Quiet /\ repair = NoRepair
                        /\ NoRepair \in [pc : {"none", "logs", "current"}, next : Nat, found : SUBSET Nat]
                        /\ NoRepair.pc = "none" /\ db \in DB
  BY <1>OpeningFacts DEF IInv, OpeningInv, PhaseInv, ProcessType, NoRepair
\* A step of Open keeps what is said of other times.
<1>OpeningStep. ASSUME IInv, db.pc \notin {"closed", "open"}, UNCHANGED NotOpening, spent' = spent,
                       db' \in DB, db'.pc # "open"
                PROVE  /\ ProcessType' /\ ProcessInv' /\ RepairInv' /\ repair' = NoRepair
                       /\ queue' = <<>> /\ group' = NoGroup /\ bg' = Quiet
  <2> USE <1>OpeningStep
  <2>1. /\ queue' = <<>> /\ group' = NoGroup /\ bg' = Quiet /\ repair' = NoRepair
        /\ synced' = synced /\ bound' = bound
    BY <1>OpeningFacts DEF NotOpening, promises
  <2>2. ProcessType /\ QueueInv
    BY DEF IInv, ProcessInv
  <2>3. ProcessType' /\ ProcessInv'
    <3>1. spent \in Spent
      BY <2>2 DEF ProcessType
    <3> QED
      BY <2>1, <2>2, <3>1, <1>OpeningFacts, NotOpen
  <2>4. RepairInv'
    BY <2>1, <1>OpeningFacts DEF RepairInv
  <2> QED
    BY <2>1, <2>3, <2>4
\* Open begins: the state is that of a new process, and for a new database there is a
\* MANIFEST that CURRENT does not name.
<1>OpenBeginsStep. ASSUME IInv, OpenBegins
                   PROVE  IInv'
  <2> USE <1>OpenBeginsStep
  <2>1. /\ db.pc = "closed" /\ repair = NoRepair /\ UNCHANGED <<logs, tables, current, NotOpening>>
        /\ spent' = [spent EXCEPT !.opens = @ + 1]
        /\ odd' = IF "repair" \in odd THEN odd \cup {"unrepaired"} ELSE odd
    BY DEF OpenBegins
  <2>2. \/ db' = [Closed EXCEPT !.pc = "recover"] /\ manifests' = manifests
        \/ /\ current = NULL /\ db' = [Closed EXCEPT !.pc = "newdb"]
           /\ manifests' = Put(manifests, 1, NewDescriptor)
    BY DEF OpenBegins, NewDescriptor
  <2>3. /\ DirType /\ ProcessType /\ FilesInv /\ CurrentInv /\ EntriesInv /\ CompleteInv
        /\ PhaseInv /\ QueueInv /\ RepairInv
    BY DEF IInv, DirInv, OpeningInv, ProcessInv
  <2>4. /\ db' \in DB /\ db'.pc \in {"newdb", "recover"} /\ db'.mem = {} /\ db'.imm = {}
        /\ db'.version = {}
    BY <2>2, ClosedLemma, Zenon
  <2>5. /\ logs' = logs /\ tables' = tables /\ current' = current /\ queue' = <<>> /\ group' = NoGroup
        /\ bg' = Quiet /\ repair' = NoRepair /\ synced' = synced /\ bound' = bound
    BY <2>1, <2>3 DEF NotOpening, promises, PhaseInv
  <2>6. spent' \in Spent /\ spent'.writes = spent.writes
    BY <2>1, <2>3 DEF ProcessType, Spent
  <2>7. NewDescriptor \in Manifest /\ NewDescriptor.synced <= Len(NewDescriptor.data) /\ Orderly(NewDescriptor.data)
    BY NullAssumption DEF NewDescriptor, Written, VersionEdit, Manifest, Edit, Number, Orderly, Full
  <2>8. ProcessType' /\ ProcessInv'
    <3>1. repair' \in [pc : {"none", "logs", "current"}, next : Nat, found : SUBSET Nat]
      BY <2>5 DEF NoRepair
    <3> QED
      BY <2>3, <2>4, <2>5, <2>6, <3>1, NotOpen
  <2>9. DirType' /\ FilesInv' /\ CurrentInv'
    <3>1. CASE manifests' = manifests
      BY <2>3, <2>5, <3>1, DirStays DEF dir
    <3>2. CASE current = NULL /\ manifests' = Put(manifests, 1, NewDescriptor)
      <4>1. /\ Files(manifests', Manifest) /\ DOMAIN manifests' = DOMAIN manifests \cup {1}
            /\ manifests'[1] = NewDescriptor
            /\ \A n \in DOMAIN manifests : n # 1 => manifests'[n] = manifests[n]
        <5>1. Files(manifests, Manifest) /\ 1 \in Nat
          BY <2>3 DEF DirType
        <5> QED
          BY <2>7, <3>2, <5>1 DEF Files, Put
      <4>2. DirType'
        BY <2>3, <2>5, <4>1 DEF DirType
      <4>3. FilesInv'
        BY <2>3, <2>5, <2>7, <4>1 DEF FilesInv
      <4>4. CurrentInv'
        <5>1. DOMAIN manifests' \subseteq Nat
          BY <4>1 DEF Files
        <5> QED
          BY <2>5, <3>2, <5>1, NullAssumption DEF CurrentInv
      <4> QED
        BY <4>2, <4>3, <4>4
    <3> QED
      BY <2>2, <3>1, <3>2
  <2>10. EntriesInv'
    <3>1. Held(db'.mem, db'.imm, tables', logs') \subseteq Held(db.mem, db.imm, tables, logs)
      BY <2>4, <2>5, HeldLemma
    <3> QED
      BY <2>3, <2>5, <3>1, EntriesStay
  <2>11. CompleteInv'
    <3>1. CASE current = NULL
      BY <2>5, <3>1 DEF CompleteInv
    <3>2. CASE current # NULL
      <4>1. manifests' = manifests /\ (Trusted' => Trusted)
        BY <2>1, <2>2, <3>2 DEF Trusted
      <4> QED
        BY <2>1, <2>3, <2>5, <4>1, Zenon DEF CompleteInv
    <3> QED
      BY <3>1, <3>2
  <2>12. PhaseInv'
    <3>1. CASE db' = [Closed EXCEPT !.pc = "recover"]
      <4>1. db'.pc = "recover"
        BY <3>1, ClosedLemma
      <4> QED
        BY <2>4, <2>5, <3>1, <4>1 DEF PhaseInv
    <3>2. CASE /\ current = NULL /\ db' = [Closed EXCEPT !.pc = "newdb"]
               /\ manifests' = Put(manifests, 1, NewDescriptor)
      <4>1. db'.pc = "newdb"
        BY <3>2, ClosedLemma
      <4>2. Files(manifests, Manifest) /\ 1 \in Nat
        BY <2>3 DEF DirType
      <4>3. 1 \in DOMAIN manifests' /\ manifests'[1] = NewDescriptor
        BY <2>7, <3>2, <4>2, ZenonT(60) DEF Files, Put
      <4> QED
        BY <2>4, <2>5, <3>2, <4>1, <4>3 DEF PhaseInv
    <3> QED
      BY <2>2, <3>1, <3>2
  <2>13. LogsInv' /\ EndInv' /\ RepairInv'
    BY <2>4, <2>5 DEF LogsInv, EndInv, RepairInv, NoRepair
  <2> QED
    BY <2>8, <2>9, <2>10, <2>11, <2>12, <2>13 DEF IInv, DirInv, OpeningInv
\* NewDB names its MANIFEST in CURRENT.
<1>NewDBEndsStep. ASSUME IInv, NewDBEnds
                  PROVE  IInv'
  <2> USE <1>NewDBEndsStep
  <2>1. /\ db.pc = "newdb" /\ current' = 1 /\ db' = [db EXCEPT !.pc = "recover"]
        /\ UNCHANGED <<logs, manifests, tables, NotOpening, spent, odd>>
    BY DEF NewDBEnds, SetCurrentFile
  <2>2. /\ DirType /\ FilesInv /\ EntriesInv /\ PhaseInv
    BY DEF IInv, DirInv, OpeningInv
  <2>3. /\ db = [Closed EXCEPT !.pc = "newdb"] /\ 1 \in DOMAIN manifests
        /\ manifests[1] = NewDescriptor
    BY <2>1, <2>2 DEF PhaseInv
  <2>4. /\ db' = [Closed EXCEPT !.pc = "recover"] /\ db' \in DB /\ db'.pc = "recover"
        /\ db'.mem = {} /\ db'.imm = {} /\ db'.version = {}
    <3>1. db' = [Closed EXCEPT !.pc = "recover"]
      BY <2>1, <2>3, Zenon DEF Closed
    <3> QED
      BY <3>1, ClosedLemma, Zenon
  <2>5. logs' = logs /\ manifests' = manifests /\ tables' = tables /\ spent' = spent /\ odd' = odd
    BY <2>1
  <2>6. /\ ProcessType' /\ ProcessInv' /\ RepairInv' /\ repair' = NoRepair
        /\ queue' = <<>> /\ group' = NoGroup /\ bg' = Quiet
    BY <2>1, <2>4, <2>5, <1>OpeningStep
  <2>7. DirType' /\ FilesInv'
    BY <2>1, <2>2, <2>5, ZenonT(60) DEF DirType, FilesInv, Number
  <2>8. /\ NewDescriptor.synced = 0 /\ Len(NewDescriptor.data) = 1
        /\ NewDescriptor.data = <<VersionEdit(0, 2, 0, {}, {})>>
        /\ Full(NewDescriptor.data[1]) /\ NewDescriptor.data[1].added = {}
        /\ NewDescriptor.data[1].next = 2 /\ NewDescriptor.data[1].log = 0
        /\ VersionEdit(0, 2, 0, {}, {}) \in Edit /\ VersionEdit(0, 2, 0, {}, {}).added = {}
    BY NullAssumption DEF NewDescriptor, Written, VersionEdit, Full, Edit, Number
  <2>9. CurrentInv'
    <3>1. Ver(NewDescriptor.data, 1) = {}
      BY <2>8, VersionOfOne
    <3>2. Sound(NewDescriptor, 1, tables)
      BY <2>8, <3>1 DEF Sound
    <3>3. \A k \in Kept(NewDescriptor) : Readable(NewDescriptor, k) => k = 1
      BY <2>8 DEF Kept, Readable
    <3> QED
      BY <2>1, <2>3, <2>5, <3>2, <3>3, ZenonT(60) DEF CurrentInv, SoundManifest, NumbersAfter
  <2>10. EntriesInv'
    <3>1. Held(db'.mem, db'.imm, tables', logs') \subseteq Held(db.mem, db.imm, tables, logs)
      BY <2>4, <2>5, HeldLemma
    <3> QED
      BY <2>2, <2>5, <3>1, EntriesStay
  <2>11. CompleteInv'
    BY <2>1, <2>3, <2>5, <2>8 DEF CompleteInv, Readable
  <2>12. PhaseInv' /\ LogsInv' /\ EndInv'
    BY <2>4, <2>6 DEF PhaseInv, LogsInv, EndInv
  <2> QED
    BY <2>6, <2>7, <2>9, <2>10, <2>11, <2>12 DEF IInv, DirInv, OpeningInv
\* All edits make the version that VersionSet::Recover reads.
<1>VersionOfAll. ASSUME NEW d \in Seq(Edit)
                 PROVE  Ver(d, Len(d)) = Built(d)
  <2>1. SubSeq(d, 1, Len(d)) = d
    OBVIOUS
  <2> QED
    BY <2>1, Zenon DEF Ver
\* VersionSet::Recover fails, or takes the version and the counters that the last edit
\* leaves; the tables of that version are there.
<1>RecoverVersionStep. ASSUME IInv, RecoverVersion
                       PROVE  IInv'
  <2> USE <1>RecoverVersionStep
  <2> DEFINE edits == IF current \in DOMAIN manifests THEN manifests[current].data ELSE <<>>
             m == manifests[current]
             l == Len(m.data)
  <2>1. /\ db.pc = "recover" /\ UNCHANGED <<dir, NotOpening, spent>>
        /\ \/ db' = Closed /\ odd' = odd \cup {"corrupt"}
           \/ /\ Complete(edits) /\ odd' = odd
              /\ db' = [db EXCEPT !.pc = "logs", !.version = Built(edits),
                             !.manifest = LastOf(edits, "next"),
                             !.next_file_number = LastOf(edits, "next") + 1,
                             !.last_sequence = LastOf(edits, "last"),
                             !.log_number = LastOf(edits, "log"),
                             !.todo = {n \in DOMAIN logs : n >= LastOf(edits, "log")}]
    BY DEF RecoverVersion
  <2>2. /\ DirType /\ ProcessType /\ FilesInv /\ CurrentInv /\ EntriesInv /\ CompleteInv /\ PhaseInv
    BY DEF IInv, DirInv, OpeningInv
  <2>3. /\ logs' = logs /\ manifests' = manifests /\ tables' = tables /\ current' = current
        /\ spent' = spent /\ repair' = repair /\ repair = NoRepair
    BY <2>1, <2>2 DEF dir, NotOpening, PhaseInv
  <2>4. /\ db = [Closed EXCEPT !.pc = "recover"] /\ db \in DB /\ db.mem = {} /\ db.imm = {}
        /\ db.added = {} /\ db.todo = {} /\ db.read = 0 /\ db.max_sequence = 0 /\ db.ok = TRUE
    BY <2>1, <2>2, ClosedLemma, Zenon DEF PhaseInv
  <2>5. DirType' /\ FilesInv' /\ CurrentInv'
    BY <2>1, <2>2, DirStays
  <2>6. CompleteInv'
    <3>1. Trusted' => Trusted
      BY <2>1 DEF Trusted
    <3> QED
      BY <2>2, <2>3, <3>1, Zenon DEF CompleteInv
  <2>7. ASSUME db'.mem = {}, db'.imm = {} PROVE EntriesInv'
    <3>1. Held(db'.mem, db'.imm, tables', logs') \subseteq Held(db.mem, db.imm, tables, logs)
      BY <2>3, <2>7, HeldLemma
    <3> QED
      BY <2>2, <2>3, <3>1, EntriesStay
  <2>8. CASE db' = Closed
    <3>1. /\ db' \in DB /\ db'.pc = "closed" /\ db'.mem = {} /\ db'.imm = {} /\ db'.version = {}
      BY <2>8, ClosedLemma, Zenon
    <3>2. /\ ProcessType' /\ ProcessInv' /\ RepairInv' /\ repair' = NoRepair
          /\ queue' = <<>> /\ group' = NoGroup /\ bg' = Quiet
      BY <2>1, <2>3, <3>1, <1>OpeningStep
    <3>3. PhaseInv' /\ LogsInv' /\ EndInv'
      BY <2>8, <3>1, <3>2 DEF PhaseInv, LogsInv, EndInv
    <3> QED
      BY <2>5, <2>6, <2>7, <3>1, <3>2, <3>3 DEF IInv, DirInv, OpeningInv
  <2>9. CASE /\ Complete(edits)
             /\ db' = [db EXCEPT !.pc = "logs", !.version = Built(edits),
                             !.manifest = LastOf(edits, "next"),
                             !.next_file_number = LastOf(edits, "next") + 1,
                             !.last_sequence = LastOf(edits, "last"),
                             !.log_number = LastOf(edits, "log"),
                             !.todo = {n \in DOMAIN logs : n >= LastOf(edits, "log")}]
    <3>1. current \in DOMAIN manifests /\ edits = m.data
      BY <2>9 DEF Complete, Has
    <3>2. m \in Manifest /\ m.synced <= l /\ Orderly(m.data)
      BY <2>2, <3>1 DEF DirType, Files, FilesInv
    <3>3. m.data \in Seq(Edit) /\ l \in Nat /\ m.synced \in Nat
      BY <3>2, ManifestLemma
    <3>4. /\ l # 0 /\ Full(m.data[l]) /\ Readable(m, l) /\ l \in 1 .. l /\ l \in Kept(m)
          /\ LastOf(edits, "log") = m.data[l].log /\ LastOf(edits, "next") = m.data[l].next
          /\ LastOf(edits, "last") = m.data[l].last
      <4>1. /\ l # 0 /\ Full(m.data[l])
            /\ LastOf(edits, "log") = m.data[l].log /\ LastOf(edits, "next") = m.data[l].next
            /\ LastOf(edits, "last") = m.data[l].last
        BY <2>9, <3>1, <3>2, <3>3, CompleteLemma, Zenon
      <4>2. Readable(m, l) /\ l \in Kept(m) /\ l \in 1 .. l
        BY <3>2, <4>1, KeptLemma, ZenonT(60) DEF Readable
      <4> QED
        BY <4>1, <4>2, Zenon
    <3>5. m.data[l].log \in Nat /\ m.data[l].next \in Nat /\ m.data[l].last \in Nat
      BY <3>2, <3>4, ManifestLemma
    <3>6. Sound(m, l, tables)
      BY <2>2, <3>1, <3>4, Zenon DEF CurrentInv, SoundManifest
    <3>7. Built(edits) = Ver(m.data, l)
      BY <3>1, <3>3, <1>VersionOfAll, Zenon
    <3>8. Ver(m.data, l) \subseteq DOMAIN tables /\ m.data[l].log <= m.data[l].next
      BY <3>6 DEF Sound
    <3>9. DOMAIN tables \subseteq Nat /\ DOMAIN logs \subseteq Nat
      BY <2>2, Zenon DEF DirType, Files
    <3>10. /\ db' \in DB /\ db'.pc = "logs" /\ db'.version = Ver(m.data, l)
           /\ db'.manifest = m.data[l].next /\ db'.next_file_number = m.data[l].next + 1
           /\ db'.last_sequence = m.data[l].last
           /\ db'.log_number = m.data[l].log /\ db'.todo = {n \in DOMAIN logs : n >= m.data[l].log}
           /\ db'.mem = {} /\ db'.imm = {} /\ db'.added = {} /\ db'.read = 0
           /\ db'.max_sequence = 0 /\ db'.ok = TRUE
      <4>1. PICK v \in SUBSET Nat, lg \in Nat, nx \in Nat, nn \in Nat, sq \in Nat, td \in SUBSET Nat :
               /\ v = Ver(m.data, l) /\ lg = m.data[l].log /\ nx = m.data[l].next
               /\ nn = m.data[l].next + 1 /\ sq = m.data[l].last
               /\ td = {n \in DOMAIN logs : n >= m.data[l].log}
        <5>1. Ver(m.data, l) \in SUBSET Nat /\ {n \in DOMAIN logs : n >= m.data[l].log} \in SUBSET Nat
          BY <3>8, <3>9, Zenon
        <5>2. m.data[l].next + 1 \in Nat
          BY <3>5, NumberOrder, Zenon
        <5> QED
          BY <3>5, <5>1, <5>2, Zenon
      <4>2. PICK d : d = [db EXCEPT !.pc = "logs", !.version = v, !.manifest = nx, !.next_file_number = nn]
        BY Zenon
      <4>3. db' = [d EXCEPT !.last_sequence = sq, !.log_number = lg, !.todo = td]
        BY <2>9, <3>4, <3>7, <4>1, <4>2, Zenon
      <4>4. /\ d \in DB /\ d.pc = "logs" /\ d.version = v /\ d.manifest = nx /\ d.next_file_number = nn
            /\ d.mem = {} /\ d.imm = {} /\ d.added = {} /\ d.read = 0 /\ d.max_sequence = 0 /\ d.ok = TRUE
        BY <2>4, <4>2, ZenonT(60) DEF DB
      <4>5. /\ db' \in DB /\ db'.pc = "logs" /\ db'.version = v /\ db'.manifest = nx
            /\ db'.next_file_number = nn /\ db'.last_sequence = sq /\ db'.log_number = lg /\ db'.todo = td
            /\ db'.mem = {} /\ db'.imm = {} /\ db'.added = {} /\ db'.read = 0
            /\ db'.max_sequence = 0 /\ db'.ok = TRUE
        BY <4>3, <4>4, Zenon DEF DB
      <4> QED
        BY <4>1, <4>5, Zenon
    <3>12. /\ ProcessType' /\ ProcessInv' /\ RepairInv' /\ repair' = NoRepair
           /\ queue' = <<>> /\ group' = NoGroup /\ bg' = Quiet
      BY <2>1, <2>3, <3>10, <1>OpeningStep
    <3>13. PhaseInv' /\ EndInv'
      BY <2>3, <3>8, <3>10, <3>12 DEF PhaseInv, EndInv
    <3>14. db'.todo # {} => Smallest(db'.todo) \in DOMAIN logs /\ Len(logs[Smallest(db'.todo)].data) \in Nat
      <4>1. db'.todo # {} => Smallest(db'.todo) \in DOMAIN logs
        BY <3>9, <3>10, SmallestLemma, Zenon
      <4>2. \A n \in DOMAIN logs : Len(logs[n].data) \in Nat
        BY <2>2 DEF DirType, Files, Log
      <4> QED
        BY <4>1, <4>2
    <3>15. LogsInv'
      <4>1. db'.manifest < db'.next_file_number /\ db'.todo \subseteq DOMAIN logs
        <5>1. m.data[l].next < m.data[l].next + 1
          BY <3>5, NextNumber, ZenonT(60)
        <5> QED
          BY <3>10, <5>1, Zenon
      <4>2. \A n \in DOMAIN logs : n \in db'.todo \/ n < db'.next_file_number
        BY <3>5, <3>8, <3>9, <3>10
      <4>3. db'.todo # {} => db'.read <= Len(logs[Smallest(db'.todo)].data)
        BY <3>10, <3>14, NumberOrder, Zenon
      <4> QED
        BY <2>3, <3>1, <3>4, <3>10, <4>1, <4>2, <4>3, Zenon DEF LogsInv
    <3> QED
      BY <2>5, <2>6, <2>7, <3>10, <3>12, <3>13, <3>15 DEF IInv, DirInv, OpeningInv
  <2> QED
    BY <2>1, <2>8, <2>9
\* A MANIFEST stays sound when the tables below every number that it uses stay.
<1>SoundStays. ASSUME NEW m \in Manifest, NEW ts, NEW us, NEW b \in Nat, SoundManifest(m, ts),
                      DOMAIN ts \subseteq Nat, m.synced <= Len(m.data),
                      \A k \in Kept(m) : Readable(m, k) => m.data[k].next <= b,
                      \A n \in DOMAIN ts : n < b => n \in DOMAIN us /\ us[n] = ts[n]
               PROVE  SoundManifest(m, us)
  <2> USE <1>SoundStays
  <2> SUFFICES ASSUME NEW k \in Kept(m), Readable(m, k)
               PROVE  Sound(m, k, us)
    BY DEF SoundManifest
  <2>1. Sound(m, k, ts) /\ m.data[k].next <= b
    BY DEF SoundManifest
  <2>2. m.data[k].next \in Nat
    <3>1. k \in 1 .. Len(m.data)
      BY KeptLemma, Zenon
    <3> QED
      BY <3>1, ManifestLemma DEF Readable
  <2>3. ASSUME NEW n \in Ver(m.data, k)
        PROVE  n \in DOMAIN us /\ n < m.data[k].next /\ us[n] = ts[n]
    <3>1. n \in DOMAIN ts /\ n < m.data[k].next
      BY <2>1 DEF Sound
    <3>2. n < b
      BY <2>1, <2>2, <3>1
    <3> QED
      BY <3>1, <3>2
  <2> QED
    BY <2>1, <2>3, Zenon DEF Sound
\* A step of Recover's loop over the logs writes at most the table with the next number,
\* which no MANIFEST names.
<1>ReplayStep. ASSUME IInv, db.pc = "logs", UNCHANGED <<logs, manifests, current, NotOpening, spent>>,
                      db' \in DB, db'.pc = "logs", db'.version = db.version, db'.imm = db.imm,
                      Files(tables', SUBSET Entry),
                      DOMAIN tables' \subseteq DOMAIN tables \cup {db.next_file_number},
                      \A n \in DOMAIN tables : n # db.next_file_number =>
                                                  n \in DOMAIN tables' /\ tables'[n] = tables[n],
                      db.next_file_number \in DOMAIN tables' =>
                          tables'[db.next_file_number] \subseteq Held(db.mem, db.imm, tables, logs),
                      db'.mem \subseteq Held(db.mem, db.imm, tables, logs),
                      odd' \in {odd, odd \cup {"overlooked"}},
                      LogsInv'
               PROVE  IInv'
  <2> USE <1>ReplayStep
  <2> DEFINE m == manifests[current]
             l == Len(m.data)
  <2>1. /\ DirType /\ FilesInv /\ CurrentInv /\ EntriesInv /\ CompleteInv /\ PhaseInv
    BY DEF IInv, DirInv, OpeningInv
  <2>2. db.next_file_number \in Nat /\ DOMAIN tables \subseteq Nat
    BY DEF IInv, ProcessType, DB, DirType, Files
  <2>3. /\ logs' = logs /\ manifests' = manifests /\ current' = current /\ spent' = spent
        /\ repair' = repair /\ repair = NoRepair
    BY <2>1, Zenon DEF NotOpening, PhaseInv
  <2>4. DirType' /\ FilesInv'
    BY <2>1, <2>3, Zenon DEF DirType, FilesInv
  <2>5. CurrentInv'
    <3>1. \A n \in DOMAIN tables : n < db.next_file_number => n \in DOMAIN tables' /\ tables'[n] = tables[n]
      BY <2>2, NumberOrder, Zenon
    <3>2. SoundManifest(m, tables) /\ NumbersAfter(current, m)
      BY <2>1, ReadingFacts, Zenon DEF CurrentInv
    <3>4. /\ m \in Manifest /\ m.synced <= Len(m.data)
          /\ \A k \in Kept(m) : Readable(m, k) => m.data[k].next <= db.next_file_number
      BY ReadingFacts, Zenon
    <3>3. SoundManifest(m, tables')
      <4>1. PICK w \in Manifest, b \in Nat : w = m /\ b = db.next_file_number
        BY <2>2, <3>4, Zenon
      <4>2. PICK ts, us : ts = tables /\ us = tables'
        BY Zenon
      <4>3. /\ SoundManifest(w, ts) /\ DOMAIN ts \subseteq Nat /\ w.synced <= Len(w.data)
            /\ \A k \in Kept(w) : Readable(w, k) => w.data[k].next <= b
            /\ \A n \in DOMAIN ts : n < b => n \in DOMAIN us /\ us[n] = ts[n]
        BY <2>2, <3>1, <3>2, <3>4, <4>1, <4>2, Zenon
      <4>4. SoundManifest(w, us)
        BY <4>3, <1>SoundStays, Zenon
      <4> QED
        BY <4>1, <4>2, <4>4, Zenon
    <3> QED
      BY <2>3, <3>2, <3>3 DEF CurrentInv
  <2>6. EntriesInv'
    <3>1. ASSUME NEW x \in Held(db'.mem, db'.imm, tables', logs')
          PROVE  x \in Held(db.mem, db.imm, tables, logs)
      <4>1. CASE x \in db'.mem
        BY <4>1, Zenon
      <4>2. CASE \E n \in DOMAIN tables' : x \in tables'[n]
        <5>1. PICK n \in DOMAIN tables' : x \in tables'[n]
          BY <4>2
        <5>2. CASE n = db.next_file_number
          BY <5>1, <5>2, Zenon
        <5>3. CASE n # db.next_file_number
          BY <5>1, <5>3, HeldLemma
        <5> QED
          BY <5>2, <5>3, ZenonT(60)
      <4> QED
        BY <2>3, <3>1, <4>1, <4>2, HeldLemma
    <3> QED
      BY <2>1, <2>2, <2>3, <3>1, EntriesStay, Zenon
  <2>7. CompleteInv'
    <3>1. Trusted' => Trusted
      BY ZenonT(60) DEF Trusted
    <3> QED
      BY <2>1, <2>3, <3>1, Zenon DEF CompleteInv
  <2>8. /\ ProcessType' /\ ProcessInv' /\ RepairInv' /\ repair' = NoRepair
        /\ queue' = <<>> /\ group' = NoGroup /\ bg' = Quiet
    BY <2>3, <1>OpeningStep
  <2>9. db'.version \subseteq DOMAIN tables'
    <3>1. \A n \in db.version : n \in DOMAIN tables /\ n < db.next_file_number
      BY <2>1, ReadingFacts DEF PhaseInv
    <3> QED
      BY <2>2, <3>1
  <2>10. PhaseInv' /\ EndInv'
    BY <2>8, <2>9 DEF PhaseInv, EndInv
  <2> QED
    BY <2>4, <2>5, <2>6, <2>7, <2>8, <2>10 DEF IInv, DirInv, OpeningInv
\* What is known while the logs are read stays known.
<1>ReplayLogs. ASSUME IInv, db.pc = "logs", UNCHANGED <<logs, manifests, current>>,
                      db' \in DB, db'.version = db.version, db'.imm = db.imm, db'.manifest = db.manifest,
                      db'.last_sequence = db.last_sequence, db'.log_number = db.log_number,
                      db.next_file_number <= db'.next_file_number, db.max_sequence <= db'.max_sequence,
                      db'.todo \subseteq db.todo,
                      \A n \in db.todo : n \in db'.todo \/ n < db'.next_file_number,
                      Files(tables', SUBSET Entry),
                      \A n \in DOMAIN tables : n # db.next_file_number =>
                                                  n \in DOMAIN tables' /\ tables'[n] = tables[n],
                      \A n \in db'.added :
                         n \in db.added \/ (/\ n \in DOMAIN tables' /\ n < db'.next_file_number
                                            /\ \A x \in tables'[n] : x[1] <= db'.max_sequence),
                      \A x \in db'.mem : x[1] <= db'.max_sequence,
                      db'.mem = {} \/ (/\ db'.todo = db.todo /\ db.todo # {}
                                       /\ \A x \in db'.mem : \E i \in DOMAIN logs[Smallest(db.todo)].data :
                                             x \in logs[Smallest(db.todo)].data[i]),
                      db'.todo # {} => db'.read <= Len(logs[Smallest(db'.todo)].data)
               PROVE  LogsInv'
  <2> USE <1>ReplayLogs
  <2>1. /\ LogsInv /\ Files(tables, SUBSET Entry) /\ Files(logs, Log) /\ db \in DB
    BY Zenon DEF IInv, OpeningInv, DirType, ProcessType
  <2>2. /\ db.next_file_number \in Nat /\ db'.next_file_number \in Nat /\ db.max_sequence \in Nat
        /\ db'.max_sequence \in Nat /\ db.manifest \in Nat
    BY <2>1, ZenonT(60) DEF DB
  <2>3. /\ db'.manifest < db'.next_file_number /\ db'.imm = {}
    BY <2>1, <2>2 DEF LogsInv
  <2>4. db'.todo \subseteq DOMAIN logs
    BY <2>1, Zenon DEF LogsInv
  <2>5. \A n \in DOMAIN logs : n \in db'.todo \/ n < db'.next_file_number
    <3>1. DOMAIN logs \subseteq Nat
      BY <2>1 DEF Files
    <3> QED
      BY <2>1, <2>2, <3>1, NumberOrder, Zenon DEF LogsInv
  <2>6. ASSUME NEW n \in db'.added
        PROVE  /\ n \in DOMAIN tables' /\ n < db'.next_file_number
               /\ \A x \in tables'[n] : x[1] <= db'.max_sequence
    <3>1. CASE n \in db.added
      <4>1. n \in DOMAIN tables /\ n < db.next_file_number /\ \A x \in tables[n] : x[1] <= db.max_sequence
        BY <2>1, <3>1, Zenon DEF LogsInv
      <4>2. n \in Nat /\ \A x \in tables[n] : x[1] \in Nat
        BY <2>1, <4>1 DEF Files, Entry
      <4>3. n # db.next_file_number /\ n < db'.next_file_number
        BY <2>2, <4>1, <4>2, LessThrough, Zenon
      <4>4. n \in DOMAIN tables' /\ tables'[n] = tables[n]
        BY <4>1, <4>3, Zenon
      <4>5. \A x \in tables'[n] : x[1] <= db'.max_sequence
        BY <2>2, <4>1, <4>2, <4>4, AtMostThrough, ZenonT(60)
      <4> QED
        BY <4>3, <4>4, <4>5, Zenon
    <3> QED
      BY <2>6, <3>1
  <2>7. /\ db'.todo = {} => db'.mem = {}
        /\ db'.todo # {} => \A x \in db'.mem : \E i \in DOMAIN logs[Smallest(db'.todo)].data :
                                    x \in logs[Smallest(db'.todo)].data[i]
    OBVIOUS
  <2>8. /\ current \in DOMAIN manifests
        /\ LET m == manifests[current]
               l == Len(m.data)
           IN /\ Readable(m, l) /\ db.version = Ver(m.data, l) /\ db.manifest = m.data[l].next
              /\ db.last_sequence = m.data[l].last /\ db.log_number = m.data[l].log
    BY <2>1, ZenonT(60) DEF LogsInv
  <2> QED
    BY <2>3, <2>4, <2>5, <2>6, <2>7, <2>8, Zenon DEF LogsInv
\* BuildTable fails.
<1>Level0FailsStep. ASSUME IInv, db.pc = "logs", db.todo # {}, NEW d, Reading(d), Level0Fails(d, Smallest(db.todo)),
                           UNCHANGED <<logs, manifests, current, NotOpening, spent>>
                    PROVE  IInv'
  <2> USE <1>Level0FailsStep
  <2> DEFINE n == Smallest(db.todo)
             k == db.next_file_number
  <2>1. PICK e : /\ e = [d EXCEPT !.next_file_number = d.next_file_number + 1]
                 /\ tables' = Restrict(tables, DOMAIN tables \ {k}) /\ TurnEnds(e, n, FALSE)
    BY Zenon DEF Level0Fails, Reading
  <2>2. d \in DB /\ k \in Nat /\ d.next_file_number = k /\ Files(tables, SUBSET Entry)
    BY Zenon DEF Reading, DB, IInv, DirType
  <2>3. /\ e \in DB /\ e.pc = d.pc /\ e.version = d.version /\ e.imm = d.imm /\ e.manifest = d.manifest
        /\ e.last_sequence = d.last_sequence /\ e.log_number = d.log_number /\ e.added = d.added
        /\ e.max_sequence = d.max_sequence /\ e.todo = d.todo
        /\ e.next_file_number = d.next_file_number + 1
    BY <2>1, <2>2, NumberUsed, Zenon
  <2>4. n \in Nat
    BY TurnFacts
  <2>5. /\ db' \in DB /\ db'.pc = e.pc /\ db'.version = e.version /\ db'.imm = e.imm
        /\ db'.manifest = e.manifest /\ db'.last_sequence = e.last_sequence
        /\ db'.log_number = e.log_number /\ db'.added = e.added
        /\ db'.max_sequence = e.max_sequence /\ db'.todo = e.todo \ {n} /\ db'.mem = {}
        /\ db'.read = 0
        /\ e.next_file_number <= db'.next_file_number /\ n < db'.next_file_number
        /\ odd' \in {odd, odd \cup {"overlooked"}}
    BY <2>1, <2>3, <2>4, TurnLemma, Zenon
  <2>6. /\ Files(tables', SUBSET Entry) /\ DOMAIN tables' = DOMAIN tables \ {k}
        /\ \A i \in DOMAIN tables : i # k => i \in DOMAIN tables' /\ tables'[i] = tables[i]
    BY <2>1, <2>2 DEF Files, Restrict
  <2>7. /\ db'.pc = "logs" /\ db'.version = db.version /\ db'.imm = db.imm /\ db'.manifest = db.manifest
        /\ db'.last_sequence = db.last_sequence /\ db'.log_number = db.log_number
        /\ db'.todo = db.todo \ {n} /\ db'.added = db.added /\ db.max_sequence <= db'.max_sequence
    BY <2>3, <2>5, Zenon DEF Reading
  <2>8. db.next_file_number <= db'.next_file_number
    <3>1. db'.next_file_number \in Nat
      BY <2>5, Zenon DEF DB
    <3> QED
      <4>1. d.next_file_number + 1 <= db'.next_file_number /\ d.next_file_number \in Nat
        BY <2>2, <2>3, <2>5, Zenon
      <4>2. d.next_file_number <= db'.next_file_number
        BY <3>1, <4>1, BelowNext, Zenon
      <4> QED
        BY <2>2, <4>2, Zenon
  <2>9. db'.todo # {} => db'.read <= Len(logs[Smallest(db'.todo)].data)
    <3>1. db'.todo # {} => Smallest(db'.todo) \in db'.todo
      BY <2>7, TurnFacts, SmallestLemma, Zenon
    <3> QED
      BY <2>5, <2>7, <3>1, TurnFacts, NumberOrder, Zenon
  <2>10. LogsInv'
    BY <2>5, <2>6, <2>7, <2>8, <2>9, <1>ReplayLogs, Zenon
  <2> QED
    BY <2>5, <2>6, <2>7, <2>10, <1>ReplayStep
\* BuildTable writes the table; the turn goes on or ends.
<1>Level0WrittenStep. ASSUME IInv, db.pc = "logs", db.todo # {}, NEW d, Reading(d),
                             tables' = Put(tables, d.next_file_number, d.mem),
                             UNCHANGED <<logs, manifests, current, NotOpening, spent>>,
                             \/ /\ db' = Level0Written(d) /\ odd' = odd
                                /\ d.read <= Len(logs[Smallest(db.todo)].data)
                             \/ TurnEnds(Level0Written(d), Smallest(db.todo), TRUE)
                      PROVE  IInv'
  <2> USE <1>Level0WrittenStep
  <2> DEFINE n == Smallest(db.todo)
             e == Level0Written(d)
             k == db.next_file_number
  <2>1. /\ d \in DB /\ k \in Nat /\ d.next_file_number = k /\ Files(tables, SUBSET Entry)
        /\ d.mem \in SUBSET Entry
    BY Zenon DEF Reading, DB, IInv, DirType
  <2>12. d.next_file_number + 1 = k + 1 /\ d.added \cup {d.next_file_number} = d.added \cup {k}
    BY <2>1, Zenon
  <2>2. /\ e \in DB /\ e.pc = d.pc /\ e.version = d.version /\ e.imm = d.imm
        /\ e.manifest = d.manifest /\ e.last_sequence = d.last_sequence
        /\ e.log_number = d.log_number /\ e.added = d.added \cup {k}
        /\ e.max_sequence = d.max_sequence /\ e.todo = d.todo /\ e.mem = {}
        /\ e.read = d.read /\ e.next_file_number = k + 1
    BY <2>1, <2>12, Level0Lemma, ZenonT(60)
  <2>3. n \in Nat
    BY TurnFacts
  <2> HIDE DEF e
  <2>4. /\ db' \in DB /\ db'.pc = e.pc /\ db'.version = e.version /\ db'.imm = e.imm
        /\ db'.manifest = e.manifest /\ db'.last_sequence = e.last_sequence
        /\ db'.log_number = e.log_number /\ db'.added = e.added
        /\ db'.max_sequence = e.max_sequence /\ db'.mem = {}
        /\ \/ db'.todo = e.todo /\ db'.read = d.read /\ d.read <= Len(logs[n].data)
           \/ db'.todo = e.todo \ {n} /\ db'.read = 0 /\ n < db'.next_file_number
        /\ e.next_file_number <= db'.next_file_number
        /\ odd' \in {odd, odd \cup {"overlooked"}}
    <3>1. CASE db' = e /\ odd' = odd /\ d.read <= Len(logs[n].data)
      <4>1. e.next_file_number <= e.next_file_number
        BY <2>2, NextNumber, Zenon DEF DB
      <4> QED
        BY <2>1, <2>2, <3>1, <4>1, Zenon
    <3>2. CASE TurnEnds(e, n, TRUE)
      BY <2>2, <2>3, <3>2, TurnLemma, Zenon
    <3> QED
      BY <3>1, <3>2, Zenon DEF e
  <2>5. /\ Files(tables', SUBSET Entry) /\ DOMAIN tables' = DOMAIN tables \cup {k}
        /\ tables'[k] = d.mem
        /\ \A i \in DOMAIN tables : i # k => i \in DOMAIN tables' /\ tables'[i] = tables[i]
    BY <2>1, Zenon DEF Files, Put
  <2>6. /\ db'.pc = "logs" /\ db'.version = db.version /\ db'.imm = db.imm /\ db'.manifest = db.manifest
        /\ db'.last_sequence = db.last_sequence /\ db'.log_number = db.log_number
        /\ db'.todo \subseteq db.todo /\ db.max_sequence <= db'.max_sequence
        /\ db'.added = db.added \cup {k}
        /\ \A i \in db.todo : i \in db'.todo \/ i < db'.next_file_number
    BY <2>2, <2>4, Zenon DEF Reading
  <2>7. db.next_file_number <= db'.next_file_number /\ k < db'.next_file_number
    <3>1. db'.next_file_number \in Nat
      BY <2>4, Zenon DEF DB
    <3> QED
      BY <2>1, <2>2, <2>4, <3>1, NumberOrder, Zenon
  <2>8. db'.todo # {} => db'.read <= Len(logs[Smallest(db'.todo)].data)
    <3>1. CASE db'.todo = db.todo /\ db'.read = d.read /\ d.read <= Len(logs[n].data)
      BY <3>1, Zenon
    <3>2. CASE db'.read = 0
      <4>1. db'.todo # {} => Smallest(db'.todo) \in db'.todo
        BY <2>6, TurnFacts, SmallestLemma
      <4> QED
        BY <2>6, <3>2, <4>1, TurnFacts, NumberOrder, Zenon
    <3> QED
      BY <2>2, <2>4, <3>1, <3>2, Zenon DEF Reading
  <2>9. \A i \in db'.added : i \in db.added \/ (/\ i \in DOMAIN tables' /\ i < db'.next_file_number
                                               /\ \A x \in tables'[i] : x[1] <= db'.max_sequence)
    BY <2>2, <2>4, <2>5, <2>6, <2>7, Zenon DEF Reading
  <2>10. LogsInv'
    BY <2>4, <2>5, <2>6, <2>7, <2>8, <2>9, <1>ReplayLogs, Zenon
  <2>11. tables'[k] \subseteq Held(db.mem, db.imm, tables, logs)
    BY <2>5, Zenon DEF Reading
  <2> QED
    BY <2>4, <2>5, <2>6, <2>10, <2>11, <1>ReplayStep, Zenon
\* RecoverLogFile reads a record, and writes a table when the memtable is full.
<1>ReplayRecordStep. ASSUME IInv, ReplayRecord
                     PROVE  IInv'
  <2> USE <1>ReplayRecordStep
  <2> DEFINE n == Smallest(db.todo)
             data == logs[n].data
             record == data[db.read + 1]
             d == [db EXCEPT !.read = db.read + 1, !.mem = db.mem \cup record,
                             !.max_sequence = Larger(db.max_sequence, Largest(Seqs(record)))]
  <2>1. /\ db.pc = "logs" /\ db.todo # {} /\ db.read < Len(logs[n].data)
        /\ UNCHANGED <<logs, manifests, current, NotOpening, spent>>
        /\ \/ db' = d /\ UNCHANGED <<tables, odd>>
           \/ /\ db' = Level0Written(d) /\ tables' = Put(tables, d.next_file_number, d.mem)
              /\ odd' = odd
           \/ Level0Fails(d, n)
    BY Zenon DEF ReplayRecord
  <2>2. /\ Reading(d) /\ d.read <= Len(data) /\ \A x \in d.mem : \E i \in DOMAIN data : x \in data[i]
    BY <2>1, RecordRead, ZenonT(60)
  <2> HIDE DEF d, n, data, record
  <2>3. CASE db' = d /\ UNCHANGED <<tables, odd>>
    <3>1. /\ tables' = tables /\ odd' = odd /\ Files(tables', SUBSET Entry)
          /\ db.next_file_number \in Nat
      BY <2>3, Zenon DEF IInv, DirType, ProcessType, DB
    <3>2. LogsInv'
      <4>1. /\ db' \in DB /\ db'.version = db.version /\ db'.imm = db.imm /\ db'.manifest = db.manifest
            /\ db'.last_sequence = db.last_sequence /\ db'.log_number = db.log_number
            /\ db'.next_file_number = db.next_file_number /\ db.max_sequence <= db'.max_sequence
            /\ db'.todo = db.todo /\ db'.added = db.added
            /\ \A x \in db'.mem : x[1] <= db'.max_sequence
        BY <2>2, <2>3, Zenon DEF Reading
      <4>2. db.next_file_number <= db'.next_file_number
        BY <3>1, <4>1, NumberOrder, Zenon
      <4>3. /\ db'.read <= Len(logs[Smallest(db.todo)].data)
            /\ \A x \in db'.mem : \E i \in DOMAIN logs[Smallest(db.todo)].data :
                                    x \in logs[Smallest(db.todo)].data[i]
        BY <2>2, <2>3, Zenon DEF n, data
      <4> QED
        BY <2>1, <3>1, <4>1, <4>2, <4>3, <1>ReplayLogs, ZenonT(60)
    <3>3. \A i \in DOMAIN tables : tables[i] \subseteq Held(db.mem, db.imm, tables, logs)
      BY HeldLemma, Zenon
    <3> QED
      BY <2>1, <2>2, <2>3, <3>1, <3>2, <3>3, <1>ReplayStep DEF Reading
  <2>4. CASE /\ db' = Level0Written(d) /\ tables' = Put(tables, d.next_file_number, d.mem)
             /\ odd' = odd
    BY <2>1, <2>2, <2>4, <1>Level0WrittenStep, ZenonT(60) DEF n, data
  <2>5. CASE Level0Fails(d, n)
    BY <2>1, <2>2, <2>5, <1>Level0FailsStep DEF n
  <2> QED
    BY <2>1, <2>3, <2>4, <2>5
\* The end of a log: RecoverLogFile writes what is left in the memtable.
<1>ReplayEndsStep. ASSUME IInv, ReplayEnds
                   PROVE  IInv'
  <2> USE <1>ReplayEndsStep
  <2> DEFINE n == Smallest(db.todo)
  <2>1. /\ db.pc = "logs" /\ db.todo # {} /\ UNCHANGED <<logs, manifests, current, NotOpening, spent>>
        /\ \/ db.mem = {} /\ TurnEnds(db, n, TRUE) /\ tables' = tables
           \/ /\ TurnEnds(Level0Written(db), n, TRUE)
              /\ tables' = Put(tables, db.next_file_number, db.mem)
           \/ Level0Fails(db, n)
    BY Zenon DEF ReplayEnds
  <2>2. db \in DB /\ LogsInv /\ Files(tables, SUBSET Entry) /\ db.next_file_number \in Nat
    BY Zenon DEF IInv, ProcessType, OpeningInv, DirType, DB
  <2>3. Reading(db)
    <3>1. db.mem \subseteq Held(db.mem, db.imm, tables, logs)
      BY HeldLemma
    <3>2. db.max_sequence <= db.max_sequence
      BY <2>2, NumberOrder, ZenonT(60) DEF DB
    <3> QED
      BY <2>1, <2>2, <3>1, <3>2, Zenon DEF Reading, LogsInv
  <2>4. CASE db.mem = {} /\ TurnEnds(db, n, TRUE) /\ tables' = tables
    <3>1. n \in Nat
      BY <2>1, TurnFacts, Zenon
    <3>2. /\ db' \in DB /\ db'.pc = db.pc /\ db'.version = db.version /\ db'.imm = db.imm
          /\ db'.manifest = db.manifest /\ db'.last_sequence = db.last_sequence
          /\ db'.log_number = db.log_number /\ db'.added = db.added
          /\ db'.max_sequence = db.max_sequence /\ db'.todo = db.todo \ {n} /\ db'.mem = {}
          /\ db'.read = 0
          /\ db.next_file_number <= db'.next_file_number /\ n < db'.next_file_number
          /\ odd' \in {odd, odd \cup {"overlooked"}}
      BY <2>2, <2>4, <3>1, TurnLemma, Zenon
    <3>3. db'.todo # {} => db'.read <= Len(logs[Smallest(db'.todo)].data)
      <4>1. db'.todo # {} => Smallest(db'.todo) \in db'.todo
        BY <2>1, <3>2, TurnFacts, SmallestLemma, Zenon
      <4> QED
        BY <2>1, <3>2, <4>1, TurnFacts, NumberOrder, Zenon
    <3>4. db.max_sequence <= db'.max_sequence
      BY <2>2, <3>2 DEF DB
    <3>5. LogsInv'
      BY <2>1, <2>2, <2>4, <3>2, <3>3, <3>4, <1>ReplayLogs, Zenon
    <3>6. \A i \in DOMAIN tables : tables[i] \subseteq Held(db.mem, db.imm, tables, logs)
      BY HeldLemma
    <3> QED
      BY <2>1, <2>2, <2>4, <3>2, <3>5, <3>6, <1>ReplayStep, ZenonT(60)
  <2>5. CASE /\ TurnEnds(Level0Written(db), n, TRUE)
             /\ tables' = Put(tables, db.next_file_number, db.mem)
    BY <2>1, <2>3, <2>5, <1>Level0WrittenStep, Zenon
  <2>6. CASE Level0Fails(db, n)
    BY <2>1, <2>3, <2>6, <1>Level0FailsStep, Zenon
  <2> QED
    BY <2>1, <2>4, <2>5, <2>6, Zenon
\* The logs are read: a new log and a new MANIFEST are written, or Open fails.
<1>RecoveryEndsStep. ASSUME IInv, RecoveryEnds
                     PROVE  IInv'
  <2> USE <1>RecoveryEndsStep
  <2> DEFINE log == db.next_file_number
             last == Larger(db.last_sequence, db.max_sequence)
             new == NewManifest(db.version, log, last, db.added, 0)
  <2>1. /\ db.pc = "logs" /\ db.todo = {} /\ UNCHANGED <<tables, current, NotOpening, spent, odd>>
        /\ \/ db' = Closed /\ UNCHANGED <<logs, manifests>>
           \/ /\ db' = [db EXCEPT !.pc = "sync", !.logfile = log, !.last_sequence = last,
                                  !.next_file_number = log + 1]
              /\ logs' = Put(logs, log, Written(<<>>, 0))
              /\ manifests' = Put(manifests, db.manifest, new)
    BY DEF RecoveryEnds, NewManifest
  <2>2. /\ DirType /\ FilesInv /\ CurrentInv /\ EntriesInv /\ CompleteInv /\ PhaseInv /\ LogsInv
    BY DEF IInv, DirInv, OpeningInv
  <2>3. /\ tables' = tables /\ current' = current /\ spent' = spent /\ odd' = odd /\ repair' = repair
        /\ repair = NoRepair
    BY <2>1, <2>2 DEF NotOpening, PhaseInv
  <2>4. CASE db' = Closed /\ UNCHANGED <<logs, manifests>>
    <3>1. /\ db' \in DB /\ db'.pc = "closed" /\ db'.mem = {} /\ db'.imm = {} /\ db'.version = {}
      BY <2>4, ClosedLemma, Zenon
    <3>2. /\ ProcessType' /\ ProcessInv' /\ RepairInv' /\ repair' = NoRepair
          /\ queue' = <<>> /\ group' = NoGroup /\ bg' = Quiet
      BY <2>1, <2>3, <3>1, <1>OpeningStep
    <3>3. PhaseInv' /\ LogsInv' /\ EndInv'
      BY <2>4, <3>1, <3>2 DEF PhaseInv, LogsInv, EndInv
    <3>4. DirType' /\ FilesInv' /\ CurrentInv'
      BY <2>2, <2>3, <2>4, DirStays DEF dir
    <3>5. Held(db'.mem, db'.imm, tables', logs') \subseteq Held(db.mem, db.imm, tables, logs)
      BY <2>3, <2>4, <3>1, HeldLemma
    <3>6. EntriesInv'
      BY <2>2, <2>3, <2>4, <3>5, EntriesStay
    <3>7. CompleteInv'
      BY <2>2, <2>3, <2>4, Zenon DEF CompleteInv, Trusted
    <3> QED
      BY <3>2, <3>3, <3>4, <3>6, <3>7 DEF IInv, DirInv, OpeningInv
  <2>5. CASE /\ db' = [db EXCEPT !.pc = "sync", !.logfile = log, !.last_sequence = last,
                                 !.next_file_number = log + 1]
             /\ logs' = Put(logs, log, Written(<<>>, 0))
             /\ manifests' = Put(manifests, db.manifest, new)
    <3> DEFINE m == manifests[current]
               l == Len(m.data)
    <3>1. /\ db \in DB /\ log \in Nat /\ db.last_sequence \in Nat /\ db.max_sequence \in Nat
          /\ db.version \in SUBSET Nat /\ db.added \in SUBSET Nat /\ db.manifest \in Nat
      BY DEF IInv, ProcessType, DB
    <3>2. PICK u \in Nat, k \in Nat : u = last /\ k = log + 1 /\ db.last_sequence <= u /\ db.max_sequence <= u
      <4>1. last \in Nat /\ db.last_sequence <= last /\ db.max_sequence <= last /\ log + 1 \in Nat
        BY <3>1 DEF Larger
      <4> QED
        BY <4>1, Zenon
    <3>3. /\ db' \in DB /\ db'.pc = "sync" /\ db'.logfile = log /\ db'.last_sequence = u
          /\ db'.next_file_number = log + 1 /\ db'.mem = db.mem /\ db'.imm = db.imm
          /\ db'.version = db.version /\ db'.added = db.added /\ db'.manifest = db.manifest
      <4>1. db' = [db EXCEPT !.pc = "sync", !.logfile = log, !.last_sequence = u, !.next_file_number = k]
        BY <2>5, <3>2
      <4>2. db' \in DB
        BY <3>1, <4>1, Zenon DEF DB
      <4> QED
        BY <3>1, <3>2, <4>1, <4>2 DEF DB
    <3>4. /\ ProcessType' /\ ProcessInv' /\ RepairInv' /\ repair' = NoRepair
          /\ queue' = <<>> /\ group' = NoGroup /\ bg' = Quiet
      BY <2>1, <2>3, <3>3, <1>OpeningStep
    <3>5. new = NewManifest(db.version, log, u, db.added, 0) /\ 0 \in 0 .. 2
      BY <3>2
    <3>6. /\ new \in Manifest /\ new.synced <= Len(new.data) /\ Orderly(new.data) /\ Readable(new, 2)
          /\ Len(new.data) = 2
      <4>1. Described(new, db.version, log, u, db.added, 0)
        BY <3>1, <3>5, NewManifestLemma
      <4> HIDE DEF new
      <4> QED
        BY <4>1 DEF Described
    <3>7. /\ \A n \in DOMAIN logs : n < log
          /\ db.mem = {} /\ db.imm = {} /\ db.manifest < log
          /\ \A n \in db.added : n \in DOMAIN tables /\ n < log /\ \A x \in tables[n] : x[1] <= db.max_sequence
      BY <2>1, <2>2 DEF LogsInv
    <3>8. /\ current \in DOMAIN manifests /\ l \in Kept(m) /\ Readable(m, l)
          /\ db.manifest = m.data[l].next /\ db.version = Ver(m.data, l)
          /\ db.last_sequence = m.data[l].last
          /\ \A n \in db.version : n < log
      BY <2>1, <2>2, ReadingFacts, Zenon DEF LogsInv
    <3>9. \A n \in db.version : n \in DOMAIN tables /\ \A x \in tables[n] : x[1] <= db.last_sequence
      <4>1. Sound(m, l, tables)
        BY <2>2, <3>8, Zenon DEF CurrentInv, SoundManifest
      <4> QED
        BY <3>8, <4>1, Zenon DEF Sound
    <3>10. \A n \in db.version \cup db.added :
              n \in DOMAIN tables /\ n < log /\ \A x \in tables[n] : x[1] <= u
      <4>1. \A n \in DOMAIN tables : \A x \in tables[n] : x[1] \in Nat
        BY <2>2 DEF DirType, Files, Entry
      <4>2. ASSUME NEW n \in db.version \cup db.added, NEW x \in tables[n] PROVE x[1] <= u
        <5>1. n \in DOMAIN tables /\ (x[1] <= db.last_sequence \/ x[1] <= db.max_sequence)
          BY <3>7, <3>9, <4>2
        <5>2. x[1] \in Nat
          BY <4>1, <4>2, <5>1, Zenon
        <5> QED
          BY <3>1, <3>2, <5>1, <5>2
      <4> QED
        BY <3>7, <3>8, <3>9, <4>2
    <3>11. SoundManifest(new, tables)
      BY <3>1, <3>5, <3>10, NewManifestIsSound, Zenon
    <3>12. db.manifest = current => current = 1
      <4>1. current # 1 => current < db.manifest
        BY <2>2, <3>8 DEF CurrentInv, NumbersAfter
      <4> QED
        BY <3>1, <4>1
    <3> HIDE DEF new
    <3>13. /\ Files(manifests', Manifest) /\ DOMAIN manifests' = DOMAIN manifests \cup {db.manifest}
           /\ manifests'[db.manifest] = new
           /\ \A n \in DOMAIN manifests : n # db.manifest => manifests'[n] = manifests[n]
      <4>1. Files(manifests, Manifest)
        BY <2>2 DEF DirType
      <4> QED
        BY <2>5, <3>1, <3>6, <4>1 DEF Files, Put
    <3>14. /\ Files(logs', Log) /\ DOMAIN logs' = DOMAIN logs \cup {log}
           /\ logs'[log] = Written(<<>>, 0)
           /\ \A n \in DOMAIN logs : n # log => logs'[n] = logs[n]
      <4>1. Files(logs, Log)
        BY <2>2 DEF DirType
      <4>2. Written(<<>>, 0) \in Log
        BY DEF Written, Log
      <4> QED
        BY <2>5, <3>1, <4>1, <4>2 DEF Files, Put
    <3>15. DirType'
      BY <2>2, <2>3, <3>13, <3>14, Zenon DEF DirType
    <3>16. FilesInv'
      <4>1. Written(<<>>, 0).synced <= Len(Written(<<>>, 0).data)
        BY DEF Written
      <4> QED
        BY <2>2, <3>6, <3>13, <3>14, <4>1, Zenon DEF FilesInv
    <3>17. CurrentInv'
      <4>1. CASE db.manifest = current
        <5>1. manifests'[current] = new /\ NumbersAfter(current, new)
          BY <3>12, <3>13, <4>1 DEF NumbersAfter
        <5> QED
          BY <2>3, <3>11, <5>1 DEF CurrentInv
      <4>2. CASE db.manifest # current
        <5>1. manifests'[current] = m
          BY <3>8, <3>13, <4>2, Zenon
        <5> QED
          BY <2>2, <2>3, <3>8, <5>1, Zenon DEF CurrentInv
      <4> QED
        BY <4>1, <4>2
    <3>18. EntriesInv'
      <4>1. ASSUME NEW x \in Held(db'.mem, db'.imm, tables', logs')
            PROVE  x \in Held(db.mem, db.imm, tables, logs)
        <5>1. Written(<<>>, 0).data = <<>>
          BY Zenon DEF Written
        <5>2. ASSUME NEW n \in DOMAIN logs', NEW i \in DOMAIN logs'[n].data
              PROVE  n \in DOMAIN logs /\ logs'[n] = logs[n]
          BY <3>14, <5>1, <5>2
        <5> QED
          BY <2>3, <3>3, <4>1, <5>2, HeldLemma
      <4>2. Held(db'.mem, db'.imm, tables', logs') \subseteq Held(db.mem, db.imm, tables, logs)
        BY <4>1, Zenon
      <4> QED
        BY <2>2, <2>3, <3>1, <3>14, <4>2, EntriesStay, Zenon
    <3>19. CompleteInv'
      <4>1. CASE db.manifest = current
        BY <2>3, <3>6, <3>8, <3>12, <3>13, <4>1, Zenon DEF CompleteInv
      <4>2. CASE db.manifest # current
        <5>1. manifests'[current] = m /\ current \in DOMAIN manifests' /\ (Trusted' <=> Trusted)
          BY <2>3, <3>8, <3>13, <4>2 DEF Trusted
        <5> QED
          BY <2>2, <2>3, <3>8, <5>1, ZenonT(60) DEF CompleteInv
      <4> QED
        BY <4>1, <4>2
    <3>20. PhaseInv' /\ LogsInv'
      <4>1. db'.version \subseteq DOMAIN tables'
        BY <2>3, <3>3, <3>9, Zenon
      <4> QED
        BY <3>3, <3>4, <4>1 DEF PhaseInv, LogsInv
    <3>21. EndInv'
      <4>1. OpenDescriptor' = new
        BY <3>3, <3>5 DEF OpenDescriptor, NewManifest
      <4>2. \A n \in DOMAIN logs' : n <= log
        BY <2>2, <3>1, <3>7, <3>14 DEF DirType, Files
      <4> QED
        BY <2>3, <3>3, <3>7, <3>10, <3>13, <3>14, <4>1, <4>2, Zenon DEF EndInv
    <3> QED
      BY <3>4, <3>15, <3>16, <3>17, <3>18, <3>19, <3>20, <3>21 DEF IInv, DirInv, OpeningInv
  <2> QED
    BY <2>1, <2>4, <2>5
\* The MANIFEST is synced, or removed.
<1>OpenSyncsStep. ASSUME IInv, OpenSyncs
                  PROVE  IInv'
  <2> USE <1>OpenSyncsStep
  <2> DEFINE n == db.manifest
             m == manifests[n]
  <2>1. /\ db.pc = "sync" /\ UNCHANGED <<logs, tables, current, NotOpening, spent>>
        /\ \/ /\ db' = [db EXCEPT !.pc = "current"] /\ odd' = odd
              /\ manifests' = [manifests EXCEPT ![n].synced = 2]
           \/ /\ db' = Closed
              /\ manifests' = Restrict(manifests, DOMAIN manifests \ {n})
              /\ odd' = IF n = current THEN odd \cup {"removed"} ELSE odd
    BY DEF OpenSyncs
  <2>2. /\ DirType /\ FilesInv /\ CurrentInv /\ EntriesInv /\ CompleteInv /\ PhaseInv /\ EndInv
    BY DEF IInv, DirInv, OpeningInv
  <2>3. /\ logs' = logs /\ tables' = tables /\ current' = current /\ spent' = spent /\ repair' = repair
        /\ repair = NoRepair
    BY <2>1, <2>2 DEF NotOpening, PhaseInv
  <2>4. /\ n \in DOMAIN manifests /\ Files(manifests, Manifest)
    BY <2>1, <2>2, Zenon DEF EndInv, DirType
  <2>5. ASSUME db'.mem \subseteq db.mem, db'.imm \subseteq db.imm PROVE EntriesInv'
    <3>1. Held(db'.mem, db'.imm, tables', logs') \subseteq Held(db.mem, db.imm, tables, logs)
      BY <2>3, <2>5, HeldLemma
    <3> QED
      BY <2>2, <2>3, <3>1, EntriesStay, Zenon
  <2>6. CASE /\ db' = [db EXCEPT !.pc = "current"] /\ odd' = odd
             /\ manifests' = [manifests EXCEPT ![n].synced = 2]
    <3>1. /\ db' \in DB /\ db'.pc = "current" /\ db'.logfile = db.logfile
          /\ db'.last_sequence = db.last_sequence /\ db'.next_file_number = db.next_file_number
          /\ db'.mem = db.mem /\ db'.imm = db.imm /\ db'.version = db.version
          /\ db'.added = db.added /\ db'.manifest = db.manifest
      BY <2>6 DEF IInv, ProcessType, DB
    <3>2. /\ ProcessType' /\ ProcessInv' /\ RepairInv' /\ repair' = NoRepair
          /\ queue' = <<>> /\ group' = NoGroup /\ bg' = Quiet
      BY <2>1, <2>3, <3>1, <1>OpeningStep
    <3>3. /\ Described(m, db.version, db.logfile, db.last_sequence, db.added, 0)
          /\ m = NewManifest(db.version, db.logfile, db.last_sequence, db.added, 0)
          /\ SoundManifest(m, tables)
      BY <2>1, EndFacts
    <3>4. /\ m.data \in Seq(Edit) /\ Len(m.data) = 2 /\ Orderly(m.data) /\ Readable(m, 2)
          /\ m \in Manifest /\ 2 \in Kept(m)
      BY <3>3, ManifestLemma, Zenon DEF Described
    <3>5. PICK w : w = [m EXCEPT !.synced = 2]
      BY Zenon
    <3>6. /\ w \in Manifest /\ w.data = m.data /\ w.synced = 2
          /\ Len(w.data) = 2 /\ Orderly(w.data) /\ Full(w.data[2])
      <4>1. w \in Manifest /\ w.data = m.data /\ w.synced = 2
        BY <3>4, <3>5 DEF Manifest
      <4> QED
        BY <3>4, <4>1, Zenon DEF Readable
    <3>7. /\ DOMAIN manifests' = DOMAIN manifests /\ manifests'[n] = w
          /\ \A i \in DOMAIN manifests : i # n => manifests'[i] = manifests[i]
          /\ Files(manifests', Manifest)
      <4>1. manifests' = [manifests EXCEPT ![n] = w]
        BY <2>6, <3>5
      <4> QED
        BY <2>4, <3>6, <4>1 DEF Files
    <3>8. DirType' /\ FilesInv'
      <4>1. DirType'
        BY <2>2, <2>3, <3>7, Zenon DEF DirType
      <4>2. w.synced <= Len(w.data) /\ Orderly(w.data)
        BY <3>6, KeptLemma, ZenonT(60)
      <4> QED
        BY <2>2, <2>3, <3>7, <4>1, <4>2 DEF FilesInv
    <3>9. Kept(w) = {2} /\ Readable(w, 2) /\ Sound(w, 2, tables)
      <4>1. Kept(w) = {2} /\ Readable(w, 2)
        <5>1. Kept(w) = {2}
          BY <3>6, KeptLemma, Zenon
        <5>2. 2 # 0
          BY SecondPlace, Zenon
        <5> QED
          BY <3>6, <5>1, <5>2, Zenon DEF Readable
      <4>2. Sound(m, 2, tables)
        BY <3>3, <3>4 DEF SoundManifest
      <4> QED
        BY <3>6, <4>1, <4>2 DEF Sound
    <3>10. CurrentInv'
      <4>1. CASE n = current
        <5>1. SoundManifest(w, tables)
          BY <3>9, ZenonT(60) DEF SoundManifest
        <5>2. NumbersAfter(n, w)
          <6>1. NumbersAfter(n, m)
            BY <2>1, EndFacts, Zenon
          <6> QED
            BY <3>4, <3>6, <3>9, <6>1 DEF NumbersAfter, Readable
        <5> QED
          BY <2>3, <3>7, <4>1, <5>1, <5>2 DEF CurrentInv
      <4>2. CASE n # current
        BY <2>2, <2>3, <3>7, <4>2 DEF CurrentInv
      <4> QED
        BY <4>1, <4>2, Zenon
    <3>11. CompleteInv'
      <4>1. CASE n = current
        <5>1. /\ current' \in DOMAIN manifests' /\ manifests'[current'] = w
              /\ Readable(w, Len(w.data)) /\ w.synced >= 2
          BY <2>3, <2>4, <3>6, <3>7, <3>9, <4>1
        <5> QED
          BY <5>1, Zenon DEF CompleteInv
      <4>2. CASE n # current
        <5>1. /\ current \in DOMAIN manifests => manifests'[current] = manifests[current]
              /\ DOMAIN manifests' = DOMAIN manifests /\ (Trusted' <=> Trusted)
          BY <2>6, <3>7, <4>2 DEF Trusted
        <5> QED
          BY <2>2, <2>3, <5>1, Zenon DEF CompleteInv
      <4> QED
        BY <4>1, <4>2
    <3>12. PhaseInv' /\ LogsInv'
      BY <2>2, <2>3, <3>1, <3>2 DEF PhaseInv, LogsInv
    <3>13. EndInv'
      <4>1. OpenDescriptor' = NewManifest(db.version, db.logfile, db.last_sequence, db.added, 2)
        BY <3>1 DEF OpenDescriptor, NewManifest
      <4>2. w = NewManifest(db.version, db.logfile, db.last_sequence, db.added, 2)
        BY <3>3, <3>5 DEF NewManifest, Written
      <4> QED
        BY <2>1, <2>2, <2>3, <2>4, <3>1, <3>7, <4>1, <4>2, Zenon DEF EndInv
    <3> QED
      BY <2>5, <3>1, <3>2, <3>8, <3>10, <3>11, <3>12, <3>13 DEF IInv, DirInv, OpeningInv
  <2>7. CASE /\ db' = Closed
             /\ manifests' = Restrict(manifests, DOMAIN manifests \ {n})
             /\ odd' = IF n = current THEN odd \cup {"removed"} ELSE odd
    <3>1. /\ db' \in DB /\ db'.pc = "closed" /\ db'.mem = {} /\ db'.imm = {} /\ db'.version = {}
      BY <2>7, ClosedLemma, Zenon
    <3>2. /\ ProcessType' /\ ProcessInv' /\ RepairInv' /\ repair' = NoRepair
          /\ queue' = <<>> /\ group' = NoGroup /\ bg' = Quiet
      BY <2>1, <2>3, <3>1, <1>OpeningStep
    <3>3. PhaseInv' /\ LogsInv' /\ EndInv'
      BY <2>7, <3>1, <3>2 DEF PhaseInv, LogsInv, EndInv
    <3>4. /\ Files(manifests', Manifest) /\ DOMAIN manifests' = DOMAIN manifests \ {n}
          /\ \A i \in DOMAIN manifests' : manifests'[i] = manifests[i]
      BY <2>4, <2>7 DEF Files, Restrict
    <3>5. DirType' /\ FilesInv' /\ CurrentInv'
      BY <2>2, <2>3, <3>4 DEF DirType, FilesInv, CurrentInv
    <3>6. CompleteInv'
      <4>1. CASE n = current
        <5>1. ~Trusted'
          BY <2>7, <4>1 DEF Trusted
        <5> QED
          BY <5>1 DEF CompleteInv
      <4>2. CASE n # current
        <5>1. /\ current \in DOMAIN manifests => current \in DOMAIN manifests' /\ manifests'[current] = manifests[current]
              /\ Trusted' <=> Trusted
          BY <2>7, <3>4, <4>2, Zenon DEF Trusted
        <5> QED
          BY <2>2, <2>3, <5>1, Zenon DEF CompleteInv
      <4> QED
        BY <4>1, <4>2
    <3>7. EntriesInv'
      BY <2>5, <3>1
    <3> QED
      BY <3>2, <3>3, <3>5, <3>6, <3>7 DEF IInv, DirInv, OpeningInv
  <2> QED
    BY <2>1, <2>6, <2>7
\* CURRENT names the new MANIFEST.
<1>OpenSetsCurrentStep. ASSUME IInv, OpenSetsCurrent
                        PROVE  IInv'
  <2> USE <1>OpenSetsCurrentStep
  <2> DEFINE n == db.manifest
             m == manifests[n]
  <2>1. /\ db.pc = "current" /\ current' = n /\ db' = [db EXCEPT !.pc = "install"]
        /\ UNCHANGED <<logs, manifests, tables, NotOpening, spent, odd>>
    BY DEF OpenSetsCurrent, SetCurrentFile
  <2>2. /\ DirType /\ FilesInv /\ EntriesInv /\ PhaseInv /\ EndInv
    BY DEF IInv, DirInv, OpeningInv
  <2>3. /\ logs' = logs /\ tables' = tables /\ manifests' = manifests /\ spent' = spent
        /\ odd' = odd /\ repair' = repair /\ repair = NoRepair
    BY <2>1, <2>2 DEF NotOpening, PhaseInv
  <2>4. /\ db' \in DB /\ db'.pc = "install" /\ db'.logfile = db.logfile
        /\ db'.last_sequence = db.last_sequence /\ db'.next_file_number = db.next_file_number
        /\ db'.mem = db.mem /\ db'.imm = db.imm /\ db'.version = db.version
        /\ db'.added = db.added /\ db'.manifest = db.manifest
    BY <2>1, Zenon DEF IInv, ProcessType, DB
  <2>5. /\ ProcessType' /\ ProcessInv' /\ RepairInv' /\ repair' = NoRepair
        /\ queue' = <<>> /\ group' = NoGroup /\ bg' = Quiet
    BY <2>1, <2>3, <2>4, <1>OpeningStep
  <2>6. /\ n \in DOMAIN manifests /\ n \in Nat
        /\ Described(m, db.version, db.logfile, db.last_sequence, db.added, 2)
        /\ SoundManifest(m, tables) /\ NumbersAfter(n, m)
    BY <2>1, EndFacts, ZenonT(60)
  <2>7. Len(m.data) = 2 /\ m.synced = 2 /\ Readable(m, 2)
    BY <2>6 DEF Described
  <2>8. DirType' /\ FilesInv'
    BY <2>1, <2>2, <2>3, <2>6 DEF DirType, FilesInv, Number
  <2>9. CurrentInv'
    BY <2>1, <2>3, <2>6, Zenon DEF CurrentInv
  <2>10. EntriesInv'
    <3>1. Held(db'.mem, db'.imm, tables', logs') \subseteq Held(db.mem, db.imm, tables, logs)
      BY <2>3, <2>4
    <3> QED
      BY <2>2, <2>3, <3>1, EntriesStay, Zenon
  <2>11. CompleteInv'
    BY <2>1, <2>3, <2>6, <2>7 DEF CompleteInv
  <2>12. PhaseInv' /\ LogsInv'
    BY <2>2, <2>3, <2>4, <2>5 DEF PhaseInv, LogsInv
  <2>13. EndInv'
    <3>1. OpenDescriptor' = OpenDescriptor
      BY <2>1, <2>4 DEF OpenDescriptor
    <3> QED
      BY <2>1, <2>2, <2>3, <2>4, <3>1 DEF EndInv
  <2> QED
    BY <2>5, <2>8, <2>9, <2>10, <2>11, <2>12, <2>13 DEF IInv, DirInv, OpeningInv
\* Open ends: the new version is installed, and files that it does not need are deleted.
<1>OpenEndsStep. ASSUME IInv, OpenEnds
                 PROVE  IInv'
  <2> USE <1>OpenEndsStep
  <2> DEFINE v == db.version \cup db.added
             n == db.manifest
             m == manifests[n]
  <2>1. /\ db.pc = "install" /\ UNCHANGED <<current, NotOpening, spent, odd>>
        /\ db' = [db EXCEPT !.pc = "open", !.version = v, !.log_number = db.logfile, !.added = {}]
        /\ logs' = Restrict(logs, {i \in DOMAIN logs : i >= db'.log_number})
        /\ manifests' = Restrict(manifests, {i \in DOMAIN manifests : i >= db'.manifest})
        /\ tables' = Restrict(tables, DOMAIN tables \cap db'.version)
    BY DEF OpenEnds, DeleteObsoleteFiles
  <2>2. /\ DirType /\ FilesInv /\ EntriesInv /\ CompleteInv /\ PhaseInv /\ EndInv /\ ProcessType
        /\ QueueInv
    BY DEF IInv, DirInv, OpeningInv, ProcessInv
  <2>3. /\ current' = current /\ spent' = spent /\ odd' = odd /\ bound' = bound /\ synced' = synced
        /\ queue' = <<>> /\ group' = NoGroup /\ bg' = Quiet /\ repair' = NoRepair
        /\ queue' = queue /\ repair = NoRepair
    BY <2>1, <1>OpeningFacts DEF NotOpening, promises
  <2>4. /\ db \in DB /\ v \in SUBSET Nat /\ db.logfile \in Nat /\ n \in Nat /\ db.last_sequence \in Nat
    BY <2>2 DEF ProcessType, DB
  <2>5. /\ n \in DOMAIN manifests /\ current = n
        /\ db.logfile \in DOMAIN logs /\ logs[db.logfile] = Written(<<>>, 0)
        /\ db.next_file_number = db.logfile + 1 /\ n < db.logfile
        /\ \A i \in DOMAIN logs : i <= db.logfile
        /\ \A i \in v : /\ i \in DOMAIN tables /\ i < db.logfile
                        /\ \A x \in tables[i] : x[1] <= db.last_sequence
        /\ db.mem = {} /\ db.imm = {}
    BY <2>1, <2>2 DEF EndInv
  <2>6. /\ Described(m, db.version, db.logfile, db.last_sequence, db.added, 2)
        /\ SoundManifest(m, tables) /\ NumbersAfter(n, m)
    BY <2>1, EndFacts
  <2>7. /\ m.synced = 2 /\ Len(m.data) = 2 /\ Ver(m.data, 2) = v /\ m.data[2].next = db.logfile + 1
        /\ Kept(m) = {2} /\ Readable(m, 2)
    BY <2>6, KeptLemma, Zenon DEF Described
  <2> HIDE DEF v, m
  <2>8. /\ db' \in DB /\ db'.pc = "open" /\ db'.version = v /\ db'.log_number = db.logfile
        /\ db'.mem = {} /\ db'.imm = {} /\ db'.logfile = db.logfile /\ db'.manifest = n
        /\ db'.next_file_number = db.logfile + 1 /\ db'.last_sequence = db.last_sequence
    BY <2>1, <2>4, <2>5, Zenon DEF DB
  <2>9. /\ Files(logs', Log) /\ DOMAIN logs' \subseteq DOMAIN logs /\ db.logfile \in DOMAIN logs'
        /\ \A i \in DOMAIN logs' : i = db.logfile /\ logs'[i] = logs[i]
    <3>1. Files(logs, Log) /\ DOMAIN logs \subseteq Nat
      BY <2>2 DEF DirType, Files
    <3>2. logs' = Restrict(logs, {i \in DOMAIN logs : i >= db.logfile})
      BY <2>1, <2>8
    <3> QED
      BY <2>4, <2>5, <3>1, <3>2 DEF Files, Restrict
  <2>10. /\ Files(manifests', Manifest) /\ DOMAIN manifests' \subseteq DOMAIN manifests
         /\ n \in DOMAIN manifests' /\ \A i \in DOMAIN manifests' : manifests'[i] = manifests[i]
    <3>1. Files(manifests, Manifest) /\ DOMAIN manifests \subseteq Nat
      BY <2>2 DEF DirType, Files
    <3>2. manifests' = Restrict(manifests, {i \in DOMAIN manifests : i >= n})
      BY <2>1, <2>8
    <3> QED
      BY <2>4, <2>5, <3>1, <3>2 DEF Files, Restrict
  <2>11. /\ Files(tables', SUBSET Entry) /\ DOMAIN tables' = v
         /\ v \subseteq DOMAIN tables /\ \A i \in v : tables'[i] = tables[i]
    <3>1. Files(tables, SUBSET Entry)
      BY <2>2 DEF DirType
    <3>2. tables' = Restrict(tables, DOMAIN tables \cap v)
      BY <2>1, <2>8
    <3> QED
      BY <2>5, <3>1, <3>2 DEF Files, Restrict
  <2>12. manifests'[n] = m
    BY <2>10, ZenonT(60) DEF m
  <2>13. DirType' /\ FilesInv'
    BY <2>2, <2>3, <2>9, <2>10, <2>11 DEF DirType, FilesInv
  <2>14. CurrentInv'
    <3>1. Sound(m, 2, tables)
      BY <2>6, <2>7, Zenon DEF SoundManifest
    <3>2. Sound(m, 2, tables')
      BY <2>7, <2>11, <3>1, Zenon DEF Sound
    <3> QED
      BY <2>3, <2>5, <2>6, <2>7, <2>12, <3>2, Zenon DEF CurrentInv, SoundManifest
  <2>15. EntriesInv'
    <3>1. Held(db'.mem, db'.imm, tables', logs') \subseteq Held(db.mem, db.imm, tables, logs)
      BY <2>8, <2>9, <2>11, HeldLemma
    <3> QED
      BY <2>2, <2>4, <2>9, <2>11, <3>1, EntriesStay, ZenonT(60)
  <2>16. CompleteInv'
    <3>1. /\ current' \in DOMAIN manifests' /\ manifests'[current'] = m
          /\ Readable(m, Len(m.data)) /\ m.synced >= 2
      BY <2>3, <2>5, <2>7, <2>10, <2>12
    <3> QED
      BY <3>1, ZenonT(60) DEF CompleteInv
  <2>17. PhaseInv' /\ LogsInv' /\ EndInv' /\ RepairInv'
    <3>1. NoRepair.pc = "none"
      BY Zenon DEF NoRepair
    <3> QED
      BY <2>3, <2>8, <2>11, <3>1 DEF PhaseInv, LogsInv, EndInv, RepairInv
  <2>18. ProcessType'
    BY <2>2, <2>3, <2>8, Zenon DEF ProcessType, NoGroup, Quiet, NoRepair
  <2>19. OpenInv'
    <3>1. /\ db.logfile <= db.logfile /\ db.logfile < db.logfile + 1 /\ n < db.logfile + 1
          /\ \A i \in v : i < db.logfile + 1
      <4>1. \A i \in v : i \in Nat /\ i < db.logfile
        BY <2>4, <2>5, Zenon
      <4> QED
        BY <2>4, <2>5, <4>1, NextNumber, BelowNext, Zenon
    <3>2. current' = db'.manifest /\ current' \in DOMAIN manifests'
      BY <2>3, <2>5, <2>8, <2>10, Zenon
    <3> QED
      BY <2>8, <2>9, <2>11, <3>1, <3>2, Zenon DEF OpenInv
  <2>20. SequenceInv'
    <3>1. Written(<<>>, 0).data = <<>>
      BY Zenon DEF Written
    <3>2. \A i \in DOMAIN logs' : logs'[i].data = <<>>
      BY <2>5, <2>9, <3>1, Zenon
    <3>3. DOMAIN <<>> = {}
      BY EmptyDomain, ZenonT(60)
    <3> QED
      BY <2>5, <2>8, <2>11, <3>2, <3>3, Zenon DEF SequenceInv
  <2>21. EditInv'
    <3>1. /\ m.synced >= 2 /\ m.synced = Len(m.data) /\ Ver(m.data, Len(m.data)) = db'.version
          /\ \A k \in Kept(m) : m.data[k].next <= db'.next_file_number
      BY <2>4, <2>7, <2>8
    <3>2. manifests'[current'] = m /\ bg'.pc = "idle"
      BY <2>3, <2>5, <2>12, Zenon DEF Quiet
    <3> QED
      BY <3>1, <3>2 DEF EditInv
  <2>22. GroupInv' /\ QueueInv'
    <3>1. GroupInv'
      <4>1. group'.pc = "none" /\ group'.n = 0
        BY <2>3, Zenon DEF NoGroup
      <4>2. 0 <= Len(<<>>)
        OBVIOUS
      <4> QED
        BY <2>3, <4>1, <4>2, Zenon DEF GroupInv, InFlight
    <3>2. QueueInv'
      BY <2>2, <2>3, Zenon DEF QueueInv
    <3> QED
      BY <3>1, <3>2, Zenon
  <2> QED
    BY <2>13, <2>14, <2>15, <2>16, <2>17, <2>18, <2>19, <2>20, <2>21, <2>22
       DEF IInv, DirInv, OpeningInv, ProcessInv
<1> QED
  BY <1>OpenBeginsStep, <1>NewDBEndsStep, <1>RecoverVersionStep, <1>ReplayRecordStep, <1>ReplayEndsStep,
     <1>RecoveryEndsStep, <1>OpenSyncsStep, <1>OpenSetsCurrentStep, <1>OpenEndsStep DEF Opening

\* The steps of DB::Open keep what is promised.
LEMMA OpeningIsDurable ==
    ASSUME NumberFacts
    PROVE  IInv /\ IInv' /\ DInv /\ (OpenBegins \/ Opening) => DInv'
\* Tables that the MANIFEST does not name do not matter, nor do more records in the logs.
<1>RecoverableStays. ASSUME NEW p, NEW s, NEW m \in Manifest, NEW ls, NEW ks, NEW ts, NEW us, NEW b \in Nat,
                            Recoverable(p, s, m, ls, ts), SoundManifest(m, ts), DOMAIN ts \subseteq Nat,
                            m.synced <= Len(m.data),
                            \A k \in Kept(m) : Readable(m, k) => m.data[k].next <= b,
                            \A n \in DOMAIN ts : n < b => n \in DOMAIN us /\ us[n] = ts[n],
                            \A n \in DOMAIN ls : n \in DOMAIN ks /\ ks[n] = ls[n]
                     PROVE  Recoverable(p, s, m, ks, us)
  <2> USE <1>RecoverableStays
  <2>1. ASSUME NEW k \in Kept(m), Readable(m, k)
        PROVE  TablesOf(Ver(m.data, k), ts) \subseteq TablesOf(Ver(m.data, k), us)
    <3>1. Sound(m, k, ts) /\ m.data[k].next <= b
      BY <2>1, Zenon DEF SoundManifest
    <3>2. m.data[k].next \in Nat
      <4>1. k \in 1 .. Len(m.data)
        BY <2>1, KeptLemma, Zenon
      <4> QED
        BY <2>1, <4>1, ManifestLemma, Zenon DEF Readable
    <3>3. ASSUME NEW n \in Ver(m.data, k) PROVE us[n] = ts[n]
      <4>1. n \in DOMAIN ts /\ n < m.data[k].next
        BY <3>1, Zenon DEF Sound
      <4>3. n \in Nat
        BY <4>1, Zenon
      <4>2. n < b
        BY <3>1, <3>2, <4>1, <4>3, NumberOrder, Zenon
      <4> QED
        BY <4>1, <4>2, Zenon
    <3> QED
      BY <3>3, InTables
  <2>2. ASSUME NEW l PROVE LogsFrom(l, ls) \subseteq LogsFrom(l, ks) /\ SafeFrom(l, ls) \subseteq SafeFrom(l, ks)
    BY LogsGrow, Zenon
  <2>3. ASSUME NEW k \in Kept(m), Readable(m, k)
        PROVE  s \subseteq Ids(TablesOf(Ver(m.data, k), us) \cup SafeFrom(m.data[k].log, ks))
    <3>1. s \subseteq Ids(TablesOf(Ver(m.data, k), ts) \cup SafeFrom(m.data[k].log, ls))
      BY <2>3, Zenon DEF Recoverable
    <3>2. TablesOf(Ver(m.data, k), ts) \cup SafeFrom(m.data[k].log, ls)
             \subseteq TablesOf(Ver(m.data, k), us) \cup SafeFrom(m.data[k].log, ks)
      BY <2>1, <2>2, <2>3, Zenon
    <3> QED
      BY <3>1, <3>2, IdsGrow, Zenon
  <2>4. ASSUME Readable(m, Len(m.data))
        PROVE  p \subseteq Ids(TablesOf(Ver(m.data, Len(m.data)), us) \cup LogsFrom(m.data[Len(m.data)].log, ks))
    <3>1. p \subseteq Ids(TablesOf(Ver(m.data, Len(m.data)), ts) \cup LogsFrom(m.data[Len(m.data)].log, ls))
      BY <2>4, Zenon DEF Recoverable
    <3>2. Len(m.data) \in Kept(m)
      BY KeptLemma, Zenon
    <3>3. TablesOf(Ver(m.data, Len(m.data)), ts) \cup LogsFrom(m.data[Len(m.data)].log, ls)
             \subseteq TablesOf(Ver(m.data, Len(m.data)), us) \cup LogsFrom(m.data[Len(m.data)].log, ks)
      BY <2>1, <2>2, <2>4, <3>2, Zenon
    <3> QED
      BY <3>1, <3>3, IdsGrow, Zenon
  <2> QED
    BY <2>3, <2>4, ZenonT(60) DEF Recoverable
\* A step that leaves the directory alone while the database is not open.
<1>DiskStays. ASSUME DInv, db.pc # "open", db'.pc # "open", UNCHANGED dir, promised' = promised, synced' = synced,
                     Fine' => Fine,
                     repair' = NoRepair /\ "repair" \notin odd' => repair = NoRepair /\ "repair" \notin odd
              PROVE  DiskInv' /\ ContentsInv'
  <2> USE <1>DiskStays
  <2>1. logs' = logs /\ manifests' = manifests /\ tables' = tables /\ current' = current
    BY DEF dir
  <2>2. Safe' = Safe
    BY DEF Safe
  <2>3. DiskInv'
    BY <2>1, <2>2, Zenon DEF DInv, DiskInv
  <2> QED
    BY <2>3, Zenon DEF ContentsInv
\* Open begins.
<1>OpenBeginsDurable. ASSUME IInv, DInv, OpenBegins
                      PROVE  DInv'
  <2> USE <1>OpenBeginsDurable
  <2>1. /\ db.pc = "closed" /\ repair = NoRepair /\ repair' = repair /\ db'.pc \in {"newdb", "recover"}
        /\ logs' = logs /\ tables' = tables /\ current' = current /\ promised' = promised /\ synced' = synced
        /\ current # NULL => manifests' = manifests
        /\ current = NULL => manifests' = Put(manifests, 1, NewDescriptor)
        /\ odd' = IF "repair" \in odd THEN odd \cup {"unrepaired"} ELSE odd
    BY DEF OpenBegins, NotOpening, promises, Closed, NewDescriptor
  <2>2. Fine' => Fine /\ "repair" \notin odd /\ odd' = odd
    BY <2>1 DEF Fine
  <2>3. Safe' = Safe
    BY <2>1, ZenonT(60) DEF Safe
  <2>4. RecoveryInv'
    BY <2>1, <2>2 DEF DInv, RecoveryInv
  <2>5. CASE current # NULL
    <3>1. UNCHANGED dir
      BY <2>1, <2>5 DEF dir
    <3> QED
      BY <2>1, <2>2, <2>4, <3>1, <1>DiskStays DEF DInv
  <2>6. CASE current = NULL
    <3>1. current \notin DOMAIN manifests'
      <4>1. Files(manifests, Manifest)
        BY DEF IInv, DirType
      <4> QED
        BY <2>1, <2>6, <4>1, NullAssumption DEF Files, Put
    <3>2. DiskInv'
      BY <2>1, <2>2, <2>3, <3>1, Zenon DEF DInv, DiskInv
    <3> QED
      BY <2>1, <2>4, <3>2, Zenon DEF DInv, ContentsInv
  <2> QED
    BY <2>5, <2>6
\* A database that is new holds nothing.
<1>NewDBEndsDurable. ASSUME IInv, DInv, NewDBEnds
                     PROVE  DInv'
  <2> USE <1>NewDBEndsDurable
  <2>1. /\ db.pc = "newdb" /\ current' = 1 /\ odd' = odd /\ repair' = repair /\ promised' = promised
        /\ synced' = synced /\ logs' = logs /\ tables' = tables /\ manifests' = manifests
        /\ db' = [db EXCEPT !.pc = "recover"]
    BY DEF NewDBEnds, SetCurrentFile, NotOpening, promises
  <2>2. db'.pc = "recover" /\ current = NULL
    BY <2>1 DEF IInv, ProcessType, DB, OpeningInv, PhaseInv
  <2>3. Fine' <=> Fine
    BY <2>1 DEF Fine
  <2>4. Fine => promised' = {} /\ Safe' = {}
    BY <2>1, <2>2 DEF DInv, RecoveryInv, Safe
  <2>5. ASSUME NEW m, NEW ls, NEW ts PROVE OnDisk({}, {}, ls, ts) /\ Recoverable({}, {}, m, ls, ts)
    BY Zenon DEF OnDisk, Recoverable
  <2>6. DiskInv'
    BY <2>3, <2>4, <2>5, Zenon DEF DiskInv
  <2>7. RecoveryInv'
    BY <2>1, <2>2, <2>3, NullAssumption DEF DInv, RecoveryInv
  <2> QED
    BY <2>2, <2>6, <2>7, Zenon DEF DInv, ContentsInv
\* The records that are still to be read.
<1>InUnread. ASSUME NEW todo, NEW read, NEW ls, NEW x
             PROVE  x \in Unread(todo, read, ls) <=>
                       \E n \in todo : \E i \in DOMAIN ls[n].data :
                          (n = Smallest(todo) => i > read) /\ x \in ls[n].data[i]
  BY DEF Unread
\* Recover has the version: what was promised is in its tables and in the logs to be read.
<1>RecoverVersionDurable. ASSUME IInv, IInv', DInv, RecoverVersion
                          PROVE  DInv'
  <2> USE <1>RecoverVersionDurable
  <2> DEFINE edits == IF current \in DOMAIN manifests THEN manifests[current].data ELSE <<>>
  <2>1. /\ db.pc = "recover" /\ UNCHANGED <<dir, NotOpening, spent>>
        /\ \/ db' = Closed /\ odd' = odd \cup {"corrupt"}
           \/ /\ odd' = odd
              /\ db' = [db EXCEPT !.pc = "logs", !.version = Built(edits),
                             !.manifest = LastOf(edits, "next"),
                             !.next_file_number = LastOf(edits, "next") + 1,
                             !.last_sequence = LastOf(edits, "last"),
                             !.log_number = LastOf(edits, "log"),
                             !.todo = {n \in DOMAIN logs : n >= LastOf(edits, "log")}]
    BY DEF RecoverVersion
  <2>2. /\ logs' = logs /\ manifests' = manifests /\ tables' = tables /\ current' = current
        /\ promised' = promised /\ synced' = synced /\ repair' = repair /\ repair = NoRepair
    BY <2>1 DEF dir, NotOpening, promises, IInv, OpeningInv, PhaseInv
  <2>3. (Fine' <=> Fine) /\ ("repair" \in odd' <=> "repair" \in odd)
    BY <2>1 DEF Fine
  <2>4. CASE db' = Closed
    <3>1. db'.pc = "closed"
      BY <2>4, ZenonT(60) DEF Closed
    <3>2. RecoveryInv'
      BY <2>2, <2>3, <3>1 DEF DInv, RecoveryInv
    <3> QED
      BY <2>1, <2>2, <2>3, <3>1, <3>2, <1>DiskStays, Zenon DEF DInv
  <2>5. CASE db' # Closed
    <3>1. db = [Closed EXCEPT !.pc = "recover"] /\ db \in DB
      BY <2>1 DEF IInv, OpeningInv, PhaseInv, ProcessType
    <3> HIDE DEF edits
    <3>2. PICK l, v, a, b, c : db' = [db EXCEPT !.pc = "logs", !.version = v, !.manifest = a,
                                      !.next_file_number = b, !.last_sequence = c, !.log_number = l,
                                      !.todo = {n \in DOMAIN logs : n >= l}]
      <4>1. PICK l, v, a, b, c : /\ l = LastOf(edits, "log") /\ v = Built(edits) /\ a = LastOf(edits, "next")
                                 /\ b = LastOf(edits, "next") + 1 /\ c = LastOf(edits, "last")
        OBVIOUS
      <4>2. db' = [db EXCEPT !.pc = "logs", !.version = v, !.manifest = a, !.next_file_number = b,
                             !.last_sequence = c, !.log_number = l, !.todo = {n \in DOMAIN logs : n >= l}]
        BY <2>1, <2>5, <4>1
      <4> QED
        BY <4>2, Zenon
    <3>3. db'.pc = "logs" /\ db'.log_number = l /\ db'.todo = {n \in DOMAIN logs : n >= l}
      BY <3>1, <3>2 DEF DB
    <3>4. db'.read = 0 /\ db'.mem = {} /\ db'.added = {}
      BY <3>1, <3>2, ClosedLemma, ZenonT(60) DEF DB
    <3>5. ASSUME Fine
          PROVE  promised \subseteq Ids(Known(db'.version \cup db'.added, db'.mem, db'.todo, db'.read, tables, logs))
      <4>1. PICK m \in Manifest : m = manifests[current] /\ current \in DOMAIN manifests
        BY <2>2, <3>3 DEF IInv, OpeningInv, LogsInv, DirType, Files
      <4>2. /\ Readable(m, Len(m.data)) /\ db'.version = Ver(m.data, Len(m.data))
            /\ l = m.data[Len(m.data)].log
        BY <2>2, <3>3, <4>1, Zenon DEF IInv, OpeningInv, LogsInv
      <4>3. "repair" \notin odd
        BY <2>1, <3>5 DEF DInv, RecoveryInv
      <4>4. Recoverable(promised, Safe, m, logs, tables)
        BY <2>1, <2>2, <3>5, <4>1, <4>3, Zenon DEF DInv, DiskInv
      <4>5. promised \subseteq Ids(TablesOf(db'.version, tables) \cup LogsFrom(l, logs))
        BY <4>2, <4>4, Zenon DEF Recoverable
      <4>6. PICK todo : todo = db'.todo
        BY ZenonT(60)
      <4>7. LogsFrom(l, logs) \subseteq Unread(todo, 0, logs)
        <5>1. \A n \in DOMAIN logs : \A i \in DOMAIN logs[n].data : i > 0
          <6>1. \A n \in DOMAIN logs : logs[n].data \in Seq(SUBSET Entry)
            BY DEF IInv, DirType, Files, Log
          <6> QED
            BY <6>1
        <5> QED
          BY <3>3, <4>6, <5>1, InLogs, <1>InUnread
      <4>8. TablesOf(db'.version, tables) \cup LogsFrom(l, logs)
               \subseteq Known(db'.version \cup db'.added, db'.mem, db'.todo, db'.read, tables, logs)
        BY <3>4, <4>6, <4>7 DEF Known, TablesOf
      <4> QED
        BY <4>5, <4>8, IdsGrow, Zenon
    <3>6. RecoveryInv'
      BY <2>1, <2>2, <2>3, <3>3, <3>5 DEF DInv, RecoveryInv
    <3> QED
      BY <2>1, <2>2, <2>3, <3>3, <3>6, <1>DiskStays DEF DInv
  <2> QED
    BY <2>4, <2>5
\* A step of Recover's loop over the logs.
<1>ReplayDurable. ASSUME IInv, IInv', DInv, db.pc = "logs", db'.pc = "logs",
                         UNCHANGED <<logs, manifests, current, NotOpening, spent>>,
                         odd' \in {odd, odd \cup {"overlooked"}},
                         \A n \in DOMAIN tables : n # db.next_file_number =>
                                                     n \in DOMAIN tables' /\ tables'[n] = tables[n],
                         db'.ok /\ Fine' =>
                            /\ db.ok
                            /\ \A n \in db.version \cup db.added : n \in db'.version \cup db'.added
                            /\ \A x \in db.mem \cup Unread(db.todo, db.read, logs) :
                                  \/ x \in db'.mem \cup Unread(db'.todo, db'.read, logs)
                                  \/ \E n \in db'.added : x \in tables'[n]
                  PROVE  DInv'
  <2> USE <1>ReplayDurable
  <2>1. /\ logs' = logs /\ manifests' = manifests /\ current' = current /\ promised' = promised
        /\ synced' = synced /\ repair' = repair /\ repair = NoRepair
    BY DEF NotOpening, promises, IInv, OpeningInv, PhaseInv
  <2>2. (Fine' => Fine) /\ ("repair" \in odd' <=> "repair" \in odd) /\ (Fine' => odd' = odd)
    BY Zenon DEF Fine
  <2>3. Safe' = Safe
    BY <2>1, Zenon DEF Safe
  <2>4. db.next_file_number \in Nat /\ DOMAIN tables \subseteq Nat /\ DOMAIN logs \subseteq Nat
    BY Zenon DEF IInv, ProcessType, DB, DirType, Files
  <2>5. ASSUME Fine
        PROVE  /\ OnDisk(promised, Safe, logs, tables')
               /\ Recoverable(promised, Safe, manifests[current], logs, tables')
    <3>1. PICK m \in Manifest : m = manifests[current]
      BY ReadingFacts, Zenon
    <3>2. /\ current \in DOMAIN manifests /\ m.synced <= Len(m.data) /\ Readable(m, Len(m.data))
          /\ \A k \in Kept(m) : Readable(m, k) => m.data[k].next <= db.next_file_number
      BY <3>1, ReadingFacts, Zenon
    <3>3. SoundManifest(m, tables)
      BY <3>1, <3>2, Zenon DEF IInv, DirInv, CurrentInv
    <3>4. Recoverable(promised, Safe, m, logs, tables)
      BY <2>1, <2>5, <3>1, <3>2, Zenon DEF DInv, DiskInv, RecoveryInv
    <3>5. \A n \in DOMAIN tables : n < db.next_file_number => n \in DOMAIN tables' /\ tables'[n] = tables[n]
      BY <2>4, NumberOrder, Zenon
    <3>6. PICK us, p, s : us = tables' /\ p = promised /\ s = Safe
      OBVIOUS
    <3>7. Recoverable(p, s, m, logs, us)
      BY <2>4, <3>2, <3>3, <3>4, <3>5, <3>6, <1>RecoverableStays, Zenon
    <3>8. SoundManifest(m, us)
      BY <2>1, <3>1, <3>2, <3>6, Zenon DEF IInv, DirInv, CurrentInv
    <3>9. OnDisk(p, s, logs, us)
      BY <2>4, <3>2, <3>7, <3>8, DiskHasIt, Zenon
    <3> QED
      BY <3>1, <3>6, <3>7, <3>9, Zenon
  <2>6. DiskInv'
    BY <2>1, <2>2, <2>3, <2>5, Zenon DEF DiskInv
  <2>7. ASSUME Fine', db'.ok
        PROVE  promised \subseteq Ids(Known(db'.version \cup db'.added, db'.mem, db'.todo, db'.read, tables', logs))
    <3>1. Fine /\ db.ok
      BY <2>2, <2>7
    <3>2. promised \subseteq Ids(Known(db.version \cup db.added, db.mem, db.todo, db.read, tables, logs))
      BY <3>1, Zenon DEF DInv, RecoveryInv
    <3>3. \A n \in db.version \cup db.added : n \in DOMAIN tables /\ n # db.next_file_number
      <4>1. \A n \in db.version : n \in DOMAIN tables /\ n < db.next_file_number
        BY ReadingFacts DEF IInv, OpeningInv, PhaseInv
      <4>2. \A n \in db.added : n \in DOMAIN tables /\ n < db.next_file_number
        BY Zenon DEF IInv, OpeningInv, LogsInv
      <4> QED
        BY <2>4, <4>1, <4>2
    <3>4. \A n \in db.version \cup db.added : tables'[n] = tables[n] /\ n \in db'.version \cup db'.added
      BY <2>7, <3>1, <3>3, Zenon
    <3>5. PICK us, w, M, U : us = tables' /\ w = db'.version \cup db'.added /\ M = db'.mem
                             /\ U = Unread(db'.todo, db'.read, logs)
      BY Zenon
    <3>6. TablesOf(db.version \cup db.added, tables) \subseteq TablesOf(w, us)
      <4>1. \A n \in db.version \cup db.added : us[n] = tables[n] /\ n \in w
        BY <3>4, <3>5, Zenon
      <4> QED
        <5>1. ASSUME NEW x \in TablesOf(db.version \cup db.added, tables) PROVE x \in TablesOf(w, us)
          <6>1. PICK n \in db.version \cup db.added : x \in tables[n]
            BY InTables, Zenon
          <6>2. n \in w /\ x \in us[n]
            BY <4>1, <6>1, Zenon
          <6> QED
            BY <6>2, InTables, Zenon
        <5> QED
          BY <5>1, Zenon
    <3>7. db.mem \cup Unread(db.todo, db.read, logs) \subseteq TablesOf(w, us) \cup M \cup U
      <4>1. ASSUME NEW x \in db.mem \cup Unread(db.todo, db.read, logs)
            PROVE  x \in M \cup U \/ \E n \in w : x \in us[n]
        BY <2>7, <3>1, <3>5, Zenon
      <4> QED
        BY <4>1, InTables, Zenon
    <3>8. Known(db.version \cup db.added, db.mem, db.todo, db.read, tables, logs)
             \subseteq Known(db'.version \cup db'.added, db'.mem, db'.todo, db'.read, tables', logs)
      BY <3>5, <3>6, <3>7, Zenon DEF Known
    <3> QED
      BY <3>2, <3>8, IdsGrow, Zenon
  <2>8. RecoveryInv'
    BY <2>1, <2>2, <2>7, Zenon DEF DInv, RecoveryInv
  <2> QED
    BY <2>6, <2>8, Zenon DEF DInv, ContentsInv
\* Numbers that Open has used so far.
<1>ReadNumbers. ASSUME IInv, db.pc = "logs"
                PROVE  /\ db \in DB /\ db.next_file_number \in Nat /\ Files(tables, SUBSET Entry)
                       /\ \A n \in DOMAIN logs : logs[n].data \in Seq(SUBSET Entry)
  <2> USE <1>ReadNumbers
  <2>1. db \in DB /\ Files(tables, SUBSET Entry) /\ Files(logs, Log)
    BY DEF IInv, ProcessType, DirType
  <2> QED
    BY <2>1, Zenon DEF DB, Files, Log
\* A record that is read goes to the memtable or to a table.
<1>ReplayRecordDurable. ASSUME IInv, IInv', DInv, ReplayRecord
                        PROVE  DInv'
  <2> USE <1>ReplayRecordDurable
  <2> DEFINE n == Smallest(db.todo)
             data == logs[n].data
             record == data[db.read + 1]
             d == [db EXCEPT !.read = db.read + 1, !.mem = db.mem \cup record,
                             !.max_sequence = Larger(db.max_sequence, Largest(Seqs(record)))]
             k == db.next_file_number
  <2>1. /\ db.pc = "logs" /\ db.todo # {} /\ db.read < Len(logs[n].data)
        /\ UNCHANGED <<logs, manifests, current, NotOpening, spent>>
        /\ \/ db' = d /\ UNCHANGED <<tables, odd>>
           \/ /\ db' = Level0Written(d) /\ tables' = Put(tables, d.next_file_number, d.mem)
              /\ odd' = odd
           \/ Level0Fails(d, n)
    BY Zenon DEF ReplayRecord
  <2>2. /\ Reading(d) /\ d.read = db.read + 1 /\ d.mem = db.mem \cup record /\ d.ok = db.ok
    BY <2>1, RecordRead, Zenon
  <2>3. /\ d \in DB /\ d.pc = "logs" /\ d.version = db.version /\ d.next_file_number = k
        /\ d.todo = db.todo /\ d.added = db.added
    BY <2>2 DEF Reading
  <2>4. k \in Nat /\ Files(tables, SUBSET Entry) /\ n \in Nat /\ db.read \in Nat
        /\ \A i \in DOMAIN logs : logs[i].data \in Seq(SUBSET Entry)
    BY <2>1, <1>ReadNumbers, TurnFacts, Zenon DEF DB
  <2>5. \A x \in Unread(db.todo, db.read, logs) : x \in record \/ x \in Unread(db.todo, db.read + 1, logs)
    <3>1. ASSUME NEW x \in Unread(db.todo, db.read, logs), x \notin record
          PROVE  x \in Unread(db.todo, db.read + 1, logs)
      <4>0. PICK j \in db.todo : \E i \in DOMAIN logs[j].data : (j = n => i > db.read) /\ x \in logs[j].data[i]
        BY <1>InUnread, Zenon
      <4>1. PICK i \in DOMAIN logs[j].data : (j = n => i > db.read) /\ x \in logs[j].data[i]
        BY <4>0
      <4>2. j \in DOMAIN logs
        BY <2>1, <4>1, TurnFacts, Zenon
      <4>3. PICK c \in Seq(SUBSET Entry), q \in Nat : c = logs[j].data /\ q = db.read
        BY <2>4, <4>2, Zenon
      <4>5. ASSUME j = n PROVE i > db.read + 1
        <5>1. i \in DOMAIN c /\ i > q /\ i # q + 1
          BY <3>1, <4>1, <4>3, <4>5, Zenon
        <5>2. i > q + 1
          BY <4>3, <5>1
        <5> QED
          BY <4>3, <5>2, Zenon
      <4>4. j = n => i > db.read + 1
        BY <4>5, ZenonT(60)
      <4> QED
        BY <4>1, <4>4, <1>InUnread, Zenon
    <3> QED
      BY <3>1, Zenon
  <2> HIDE DEF d, record, data, n, k
  <2>6. CASE db' = d /\ UNCHANGED <<tables, odd>>
    <3>1. \A x \in db.mem \cup Unread(db.todo, db.read, logs) :
             x \in db'.mem \cup Unread(db'.todo, db'.read, logs)
      BY <2>2, <2>3, <2>5, <2>6, Zenon
    <3>2. tables' = tables /\ odd' = odd /\ db'.ok = db.ok
      BY <2>2, <2>6, Zenon
    <3> QED
      BY <2>1, <2>3, <2>6, <3>1, <3>2, <1>ReplayDurable
  <2>7. CASE /\ db' = Level0Written(d) /\ tables' = Put(tables, d.next_file_number, d.mem) /\ odd' = odd
    <3>1. /\ db'.pc = "logs" /\ db'.version = db.version /\ db'.added = db.added \cup {k} /\ db'.mem = {}
          /\ db'.todo = db.todo /\ db'.read = db.read + 1 /\ db'.ok = db.ok
      BY <2>2, <2>3, <2>7, Level0Lemma
    <3>2. /\ \A i \in DOMAIN tables : i # k => i \in DOMAIN tables' /\ tables'[i] = tables[i]
          /\ tables'[k] = db.mem \cup record
      BY <2>2, <2>3, <2>4, <2>7, Zenon DEF Files, Put
    <3>3. \A x \in db.mem \cup Unread(db.todo, db.read, logs) :
             \/ x \in db'.mem \cup Unread(db'.todo, db'.read, logs)
             \/ \E i \in db'.added : x \in tables'[i]
      BY <2>5, <3>1, <3>2, Zenon
    <3> QED
      BY <2>1, <2>7, <3>1, <3>2, <3>3, <1>ReplayDurable, ZenonT(60) DEF k
  <2>8. CASE Level0Fails(d, n)
    <3>1. tables' = Restrict(tables, DOMAIN tables \ {k})
      BY <2>3, <2>8 DEF Level0Fails
    <3>2. PICK e : e = [d EXCEPT !.next_file_number = @ + 1] /\ TurnEnds(e, n, FALSE)
      BY <2>8, Zenon DEF Level0Fails
    <3>3. e \in DB /\ e.pc = "logs"
      BY <2>3, <3>2, NumberUsed, Zenon
    <3>4. db'.pc = "logs" /\ db'.ok = FALSE /\ odd' \in {odd, odd \cup {"overlooked"}}
      BY <2>4, <3>2, <3>3, TurnLemma, Zenon
    <3>5. \A i \in DOMAIN tables : i # k => i \in DOMAIN tables' /\ tables'[i] = tables[i]
      BY <2>4, <3>1 DEF Files, Restrict
    <3> QED
      BY <2>1, <3>4, <3>5, <1>ReplayDurable, Zenon DEF k
  <2> QED
    BY <2>1, <2>6, <2>7, <2>8
\* At the end of a log all of it is in tables.
<1>ReplayEndsDurable. ASSUME IInv, IInv', DInv, ReplayEnds
                      PROVE  DInv'
  <2> USE <1>ReplayEndsDurable
  <2> DEFINE n == Smallest(db.todo)
             k == db.next_file_number
  <2>1. /\ db.pc = "logs" /\ db.todo # {} /\ db.read = Len(logs[n].data)
        /\ UNCHANGED <<logs, manifests, current, NotOpening, spent>>
        /\ \/ db.mem = {} /\ TurnEnds(db, n, TRUE) /\ tables' = tables
           \/ /\ TurnEnds(Level0Written(db), n, TRUE)
              /\ tables' = Put(tables, db.next_file_number, db.mem)
           \/ Level0Fails(db, n)
    BY Zenon DEF ReplayEnds
  <2>2. /\ db \in DB /\ k \in Nat /\ Files(tables, SUBSET Entry) /\ n \in Nat
        /\ \A i \in DOMAIN logs : logs[i].data \in Seq(SUBSET Entry)
    BY <2>1, <1>ReadNumbers, TurnFacts, Zenon
  <2>3. Unread(db.todo, db.read, logs) \subseteq Unread(db.todo \ {n}, 0, logs)
    <3>1. ASSUME NEW x \in Unread(db.todo, db.read, logs) PROVE x \in Unread(db.todo \ {n}, 0, logs)
      <4>0. PICK j \in db.todo : \E i \in DOMAIN logs[j].data : (j = n => i > db.read) /\ x \in logs[j].data[i]
        BY <1>InUnread
      <4>1. PICK i \in DOMAIN logs[j].data : (j = n => i > db.read) /\ x \in logs[j].data[i]
        BY <4>0
      <4>2. j \in DOMAIN logs
        BY <2>1, <4>1, TurnFacts, Zenon
      <4>3. PICK c \in Seq(SUBSET Entry) : c = logs[j].data
        BY <2>2, <4>2, Zenon
      <4>5. i > 0 /\ ~(i > Len(c))
        <5>1. i \in DOMAIN c
          BY <4>1, <4>3, Zenon
        <5> QED
          BY <4>3, <5>1
      <4>4. j # n
        BY <2>1, <4>1, <4>3, <4>5, Zenon
      <4> QED
        BY <4>1, <4>4, <4>5, <1>InUnread, Zenon
    <3> QED
      BY <3>1, Zenon
  <2>4. Level0Fails(db, n) \/ (\E e : TurnEnds(e, n, TRUE)) => (db'.ok /\ Fine' => db.ok)
    <3>1. ASSUME NEW e, NEW ok \in BOOLEAN, TurnEnds(e, n, ok), ok, Fine' PROVE db.ok
      BY <3>1 DEF TurnEnds, Fine
    <3>2. ASSUME Level0Fails(db, n) PROVE db'.ok = FALSE
      <4>1. PICK e : e = [db EXCEPT !.next_file_number = @ + 1] /\ TurnEnds(e, n, FALSE)
        BY <3>2, Zenon DEF Level0Fails
      <4>2. e \in DB
        BY <2>2, <4>1, NumberUsed, Zenon
      <4> QED
        BY <2>2, <4>1, <4>2, TurnLemma, Zenon
    <3> QED
      BY <3>1, <3>2, Zenon
  <2> HIDE DEF n, k
  <2>5. CASE db.mem = {} /\ TurnEnds(db, n, TRUE) /\ tables' = tables
    <3>1. /\ db'.pc = db.pc /\ db'.version = db.version /\ db'.added = db.added
          /\ db'.todo = db.todo \ {n} /\ db'.mem = {} /\ db'.read = 0
          /\ odd' \in {odd, odd \cup {"overlooked"}}
      BY <2>2, <2>5, TurnLemma, Zenon
    <3>2. \A x \in db.mem \cup Unread(db.todo, db.read, logs) :
             x \in db'.mem \cup Unread(db'.todo, db'.read, logs)
      BY <2>3, <2>5, <3>1, Zenon
    <3>3. db'.ok /\ Fine' => db.ok
      BY <2>4, <2>5, Zenon
    <3> QED
      BY <2>1, <2>5, <3>1, <3>2, <3>3, <1>ReplayDurable, Zenon
  <2>6. CASE TurnEnds(Level0Written(db), n, TRUE) /\ tables' = Put(tables, db.next_file_number, db.mem)
    <3>1. PICK e : /\ e = Level0Written(db) /\ e \in DB /\ e.pc = db.pc /\ e.version = db.version
                   /\ e.added = db.added \cup {k} /\ e.todo = db.todo
      BY <2>2, Level0Lemma, Zenon DEF k
    <3>2. /\ db'.pc = db.pc /\ db'.version = db.version /\ db'.added = db.added \cup {k}
          /\ db'.todo = db.todo \ {n} /\ db'.mem = {} /\ db'.read = 0
          /\ odd' \in {odd, odd \cup {"overlooked"}}
      BY <2>2, <2>6, <3>1, TurnLemma, Zenon
    <3>3. /\ \A i \in DOMAIN tables : i # k => i \in DOMAIN tables' /\ tables'[i] = tables[i]
          /\ tables'[k] = db.mem
      BY <2>2, <2>6 DEF Files, Put, k
    <3>4. \A x \in db.mem \cup Unread(db.todo, db.read, logs) :
             \/ x \in db'.mem \cup Unread(db'.todo, db'.read, logs)
             \/ \E i \in db'.added : x \in tables'[i]
      BY <2>3, <3>2, <3>3, Zenon
    <3>5. db'.ok /\ Fine' => db.ok
      BY <2>4, <2>6, Zenon
    <3> QED
      BY <2>1, <3>2, <3>3, <3>4, <3>5, <1>ReplayDurable, Zenon DEF k
  <2>7. CASE Level0Fails(db, n)
    <3>1. tables' = Restrict(tables, DOMAIN tables \ {k})
      BY <2>7 DEF Level0Fails, k
    <3>2. PICK e : e = [db EXCEPT !.next_file_number = @ + 1] /\ TurnEnds(e, n, FALSE)
      BY <2>7, Zenon DEF Level0Fails
    <3>3. e \in DB /\ e.pc = "logs"
      BY <2>1, <2>2, <3>2, NumberUsed, Zenon
    <3>4. db'.pc = "logs" /\ db'.ok = FALSE /\ odd' \in {odd, odd \cup {"overlooked"}}
      BY <2>2, <3>2, <3>3, TurnLemma, Zenon
    <3>5. \A i \in DOMAIN tables : i # k => i \in DOMAIN tables' /\ tables'[i] = tables[i]
      BY <2>2, <3>1 DEF Files, Restrict
    <3> QED
      BY <2>1, <3>4, <3>5, <1>ReplayDurable, Zenon DEF k
  <2> QED
    BY <2>1, <2>5, <2>6, <2>7, Zenon
\* More logs hold more.
<1>OnDiskStays. ASSUME NEW p, NEW s, NEW ls, NEW ks, NEW ts, OnDisk(p, s, ls, ts),
                       \A n \in DOMAIN ls : n \in DOMAIN ks /\ ks[n] = ls[n]
                PROVE  OnDisk(p, s, ks, ts)
  <2> USE <1>OnDiskStays
  <2>1. LogsFrom(0, ls) \subseteq LogsFrom(0, ks) /\ SafeFrom(0, ls) \subseteq SafeFrom(0, ks)
    BY LogsGrow, Zenon
  <2>2. /\ AllEntries(ts) \cup LogsFrom(0, ls) \subseteq AllEntries(ts) \cup LogsFrom(0, ks)
        /\ AllEntries(ts) \cup SafeFrom(0, ls) \subseteq AllEntries(ts) \cup SafeFrom(0, ks)
    BY <2>1
  <2> QED
    BY <2>2, IdsGrow DEF OnDisk
\* The MANIFEST that Open writes names the tables that hold all that was promised.
<1>NewIsRecoverable. ASSUME NEW m, NEW v, NEW log, NEW last, NEW a, NEW n, Described(m, v, log, last, a, n),
                            NEW p, NEW s, NEW ls, NEW ts, p \subseteq Ids(TablesOf(v \cup a, ts)), s \subseteq p
                     PROVE  Recoverable(p, s, m, ls, ts)
  <2> USE <1>NewIsRecoverable
  <2>1. /\ Len(m.data) = 2 /\ Ver(m.data, 2) = v \cup a
        /\ \A k \in Kept(m) : Readable(m, k) => k = 2
    BY DEF Described
  <2>2. ASSUME NEW E PROVE Ids(TablesOf(v \cup a, ts)) \subseteq Ids(TablesOf(v \cup a, ts) \cup E)
    BY IdsGrow, Zenon
  <2>3. \A k \in Kept(m) : Readable(m, k) =>
           s \subseteq Ids(TablesOf(Ver(m.data, k), ts) \cup SafeFrom(m.data[k].log, ls))
    BY <2>1, <2>2, Zenon
  <2>4. p \subseteq Ids(TablesOf(Ver(m.data, Len(m.data)), ts) \cup LogsFrom(m.data[Len(m.data)].log, ls))
    BY <2>1, <2>2, Zenon
  <2> QED
    BY <2>3, <2>4, ZenonT(60) DEF Recoverable
\* The logs are read: all that was promised is in the tables of the new MANIFEST.
<1>RecoveryEndsDurable. ASSUME IInv, IInv', DInv, RecoveryEnds
                        PROVE  DInv'
  <2> USE <1>RecoveryEndsDurable
  <2>1. /\ db.pc = "logs" /\ db.todo = {} /\ UNCHANGED <<tables, current, NotOpening, spent, odd>>
        /\ \/ ~db.ok /\ db' = Closed /\ UNCHANGED <<logs, manifests>>
           \/ /\ db.ok
              /\ db' = [db EXCEPT !.pc = "sync", !.logfile = db.next_file_number,
                                  !.last_sequence = Larger(db.last_sequence, db.max_sequence),
                                  !.next_file_number = db.next_file_number + 1]
              /\ logs' = Put(logs, db.next_file_number, Written(<<>>, 0))
              /\ \E new : manifests' = Put(manifests, db.manifest, new)
    BY DEF RecoveryEnds
  <2>2. /\ tables' = tables /\ current' = current /\ promised' = promised /\ synced' = synced
        /\ repair' = repair /\ repair = NoRepair /\ odd' = odd
    BY <2>1 DEF NotOpening, promises, IInv, OpeningInv, PhaseInv
  <2>3. (Fine' <=> Fine) /\ Safe' = Safe /\ Safe \subseteq promised
    BY <2>2 DEF Fine, Safe
  <2>4. CASE db' = Closed /\ UNCHANGED <<logs, manifests>>
    <3>1. db'.pc = "closed" /\ UNCHANGED dir
      BY <2>2, <2>4 DEF Closed, dir
    <3>2. RecoveryInv'
      BY <2>2, <2>3, <3>1, Zenon DEF DInv, RecoveryInv
    <3> QED
      BY <2>1, <2>2, <2>3, <3>1, <3>2, <1>DiskStays, Zenon DEF DInv
  <2>5. CASE /\ db.ok
             /\ db' = [db EXCEPT !.pc = "sync", !.logfile = db.next_file_number,
                                  !.last_sequence = Larger(db.last_sequence, db.max_sequence),
                                  !.next_file_number = db.next_file_number + 1]
             /\ logs' = Put(logs, db.next_file_number, Written(<<>>, 0))
             /\ \E new : manifests' = Put(manifests, db.manifest, new)
    <3>1. db'.pc = "sync" /\ db'.version = db.version /\ db'.added = db.added /\ db'.manifest = db.manifest
      <4>1. db \in DB
        BY DEF IInv, ProcessType
      <4>2. PICK a, b, c : db' = [db EXCEPT !.pc = "sync", !.logfile = a, !.last_sequence = b,
                                            !.next_file_number = c]
        BY <2>5, Zenon
      <4> QED
        BY <4>1, <4>2 DEF DB
    <3>2. Files(logs, Log) /\ Files(manifests, Manifest) /\ db.next_file_number \in Nat
      BY DEF IInv, DirType, ProcessType, DB
    <3>3. \A n \in DOMAIN logs : n \in DOMAIN logs' /\ logs'[n] = logs[n]
      <4>1. \A n \in DOMAIN logs : n < db.next_file_number
        BY <2>1 DEF IInv, OpeningInv, LogsInv
      <4>2. db.next_file_number \notin DOMAIN logs
        BY <3>2, <4>1 DEF Files
      <4> QED
        BY <2>5, <3>2, <4>2 DEF Files, Put
    <3>4. \A n \in DOMAIN manifests : n # db.manifest => manifests'[n] = manifests[n]
      BY <2>5, <3>2 DEF Files, Put
    <3>5. Fine => promised \subseteq Ids(TablesOf(db.version \cup db.added, tables))
      <4>1. db.mem = {} /\ Unread(db.todo, db.read, logs) = {}
        BY <2>1 DEF IInv, OpeningInv, LogsInv, Unread
      <4>2. TablesOf(db.version \cup db.added, tables)
               = Known(db.version \cup db.added, db.mem, db.todo, db.read, tables, logs)
        BY <4>1, Zenon DEF Known
      <4> QED
        BY <2>1, <2>5, <4>2, Zenon DEF DInv, RecoveryInv
    <3>6. PICK p, s, ks, ts : p = promised /\ s = Safe /\ ks = logs' /\ ts = tables
      OBVIOUS
    <3>7. ASSUME Fine PROVE OnDisk(p, s, ks, ts)
      <4>1. OnDisk(p, s, logs, ts)
        BY <2>1, <3>6, <3>7 DEF DInv, DiskInv
      <4> QED
        BY <3>3, <3>6, <4>1, <1>OnDiskStays
    <3>8. ASSUME Fine PROVE Recoverable(p, s, manifests'[current], ks, ts)
      <4>1. CASE db.manifest = current
        <5>1. PICK m, log, last, n : m = manifests'[current] /\ Described(m, db.version, log, last, db.added, n)
          BY <2>2, <3>1, <4>1, EndNext, Zenon DEF Ending, EndDescribed
        <5> QED
          BY <2>3, <3>5, <3>6, <3>8, <5>1, <1>NewIsRecoverable, Zenon
      <4>2. CASE db.manifest # current
        <5>1. PICK m \in Manifest : m = manifests[current]
          BY ReadingFacts, <2>1
        <5>2. /\ current \in DOMAIN manifests /\ m.synced <= Len(m.data)
              /\ \A k \in Kept(m) : Readable(m, k) => m.data[k].next <= db.next_file_number
          BY <2>1, <5>1, ReadingFacts
        <5>3. SoundManifest(m, ts) /\ DOMAIN ts \subseteq Nat
          BY <3>6, <5>1, <5>2, Zenon DEF IInv, DirInv, CurrentInv, DirType, Files
        <5>4. Recoverable(p, s, m, logs, ts)
          BY <2>1, <2>2, <3>6, <3>8, <5>1, <5>2, Zenon DEF DInv, DiskInv, RecoveryInv
        <5>5. Recoverable(p, s, m, ks, ts)
          BY <3>2, <3>3, <3>6, <5>2, <5>3, <5>4, <1>RecoverableStays, Zenon
        <5> QED
          BY <3>4, <4>2, <5>1, <5>2, <5>5
      <4> QED
        BY <4>1, <4>2
    <3>9. DiskInv'
      BY <2>2, <2>3, <3>6, <3>7, <3>8, Zenon DEF DiskInv
    <3>10. RecoveryInv'
      BY <2>1, <2>2, <2>3, <3>1, <3>5, Zenon DEF DInv, RecoveryInv
    <3> QED
      BY <3>1, <3>9, <3>10, Zenon DEF DInv, ContentsInv
  <2> QED
    BY <2>1, <2>4, <2>5
\* A step of the end of Open: CURRENT names the MANIFEST that it named, or the one that
\* Open has written.
<1>EndingDurable. ASSUME IInv, DInv, Ending, db.pc # "open", db'.pc # "open", logs' = logs, tables' = tables,
                         promised' = promised, synced' = synced, repair' = NoRepair,
                         Fine' => Fine /\ odd' = odd,
                         current' \in DOMAIN manifests' =>
                            \/ /\ current \in DOMAIN manifests /\ manifests'[current'] = manifests[current]
                            \/ \E log, last, n : Described(manifests'[current'], db.version, log, last, db.added, n)
                  PROVE  DiskInv'
  <2> USE <1>EndingDurable
  <2>1. repair = NoRepair /\ db.pc # "closed"
    BY Zenon DEF IInv, OpeningInv, PhaseInv, Ending
  <2>2. Safe' = Safe /\ Safe \subseteq promised
    BY Zenon DEF Safe
  <2>3. Fine' => OnDisk(promised, Safe, logs, tables)
    <3>1. db.pc # "open"
      BY Zenon DEF Ending
    <3> QED
      BY <3>1, Zenon DEF DInv, DiskInv
  <2>4. ASSUME Fine', current' \in DOMAIN manifests'
        PROVE  Recoverable(promised, Safe, manifests'[current'], logs, tables)
    <3>1. CASE current \in DOMAIN manifests /\ manifests'[current'] = manifests[current]
      <4>1. Recoverable(promised, Safe, manifests[current], logs, tables)
        BY <2>1, <2>4, <3>1, Zenon DEF DInv, DiskInv, RecoveryInv
      <4> QED
        BY <3>1, <4>1
    <3>2. CASE \E log, last, n : Described(manifests'[current'], db.version, log, last, db.added, n)
      <4>1. PICK m, log, last, n : m = manifests'[current'] /\ Described(m, db.version, log, last, db.added, n)
        BY <3>2, Zenon
      <4>2. promised \subseteq Ids(TablesOf(db.version \cup db.added, tables))
        BY <2>4, Zenon DEF DInv, RecoveryInv, Ending
      <4> QED
        BY <2>2, <4>1, <4>2, <1>NewIsRecoverable, Zenon
    <3> QED
      BY <2>4, <3>1, <3>2, ZenonT(60)
  <2> QED
    BY <2>2, <2>3, <2>4, Zenon DEF DiskInv
\* The MANIFEST is synced, or removed.
<1>OpenSyncsDurable. ASSUME IInv, IInv', DInv, OpenSyncs
                     PROVE  DInv'
  <2> USE <1>OpenSyncsDurable
  <2>1. /\ db.pc = "sync" /\ UNCHANGED <<logs, tables, current, NotOpening, spent>>
        /\ \/ /\ db' = [db EXCEPT !.pc = "current"] /\ odd' = odd
              /\ manifests' = [manifests EXCEPT ![db.manifest].synced = 2]
           \/ /\ db' = Closed
              /\ manifests' = Restrict(manifests, DOMAIN manifests \ {db.manifest})
              /\ odd' = IF db.manifest = current THEN odd \cup {"removed"} ELSE odd
    BY DEF OpenSyncs
  <2>2. /\ logs' = logs /\ tables' = tables /\ current' = current /\ promised' = promised
        /\ synced' = synced /\ repair' = repair /\ repair = NoRepair /\ db \in DB
        /\ Files(manifests, Manifest) /\ Ending
    BY <2>1 DEF NotOpening, promises, IInv, OpeningInv, PhaseInv, ProcessType, DirType, Ending
  <2>3. (Fine' <=> Fine) /\ ("repair" \in odd' <=> "repair" \in odd)
    BY <2>1 DEF Fine
  <2>4. CASE /\ db' = [db EXCEPT !.pc = "current"] /\ odd' = odd
             /\ manifests' = [manifests EXCEPT ![db.manifest].synced = 2]
    <3>1. /\ db'.pc = "current" /\ db'.version = db.version /\ db'.added = db.added
          /\ db'.manifest = db.manifest
      BY <2>2, <2>4 DEF DB
    <3>2. /\ DOMAIN manifests' = DOMAIN manifests
          /\ \A n \in DOMAIN manifests : n # db.manifest => manifests'[n] = manifests[n]
      BY <2>2, <2>4 DEF Files
    <3>3. \E log, last, n : Described(manifests'[db.manifest], db.version, log, last, db.added, n)
      BY <3>1, EndNext, Zenon DEF Ending, EndDescribed
    <3>4. DiskInv'
      BY <2>1, <2>2, <2>3, <2>4, <3>1, <3>2, <3>3, <1>EndingDurable
    <3>5. RecoveryInv'
      BY <2>1, <2>2, <2>3, <2>4, <3>1, Zenon DEF DInv, RecoveryInv
    <3> QED
      BY <3>1, <3>4, <3>5, Zenon DEF DInv, ContentsInv
  <2>5. CASE /\ db' = Closed
             /\ manifests' = Restrict(manifests, DOMAIN manifests \ {db.manifest})
             /\ odd' = IF db.manifest = current THEN odd \cup {"removed"} ELSE odd
    <3>1. db'.pc = "closed"
      BY <2>5, Zenon DEF Closed
    <3>2. DOMAIN manifests' = DOMAIN manifests \ {db.manifest}
          /\ \A n \in DOMAIN manifests' : manifests'[n] = manifests[n]
      BY <2>2, <2>5 DEF Files, Restrict
    <3>3. ASSUME Fine PROVE OnDisk(promised, Safe, logs, tables)
      BY <2>1, <3>3, Zenon DEF DInv, DiskInv
    <3>4. ASSUME Fine, current \in DOMAIN manifests'
          PROVE  Recoverable(promised, Safe, manifests'[current], logs, tables)
      <4>1. Recoverable(promised, Safe, manifests[current], logs, tables)
        BY <2>1, <2>2, <3>2, <3>4, Zenon DEF DInv, DiskInv, RecoveryInv
      <4> QED
        BY <3>2, <3>4, <4>1
    <3>5. Safe' = Safe
      BY <2>2 DEF Safe
    <3>6. DiskInv'
      BY <2>2, <2>3, <3>3, <3>4, <3>5, Zenon DEF DiskInv
    <3>7. RecoveryInv'
      BY <2>2, <2>3, <3>1, Zenon DEF DInv, RecoveryInv
    <3> QED
      BY <3>1, <3>6, <3>7, Zenon DEF DInv, ContentsInv
  <2> QED
    BY <2>1, <2>4, <2>5
\* CURRENT names the new MANIFEST.
<1>OpenSetsCurrentDurable. ASSUME IInv, DInv, OpenSetsCurrent
                           PROVE  DInv'
  <2> USE <1>OpenSetsCurrentDurable
  <2>1. /\ db.pc = "current" /\ current' = db.manifest /\ db' = [db EXCEPT !.pc = "install"]
        /\ UNCHANGED <<logs, manifests, tables, NotOpening, spent, odd>>
    BY DEF OpenSetsCurrent, SetCurrentFile
  <2>2. /\ logs' = logs /\ tables' = tables /\ manifests' = manifests /\ promised' = promised
        /\ synced' = synced /\ repair' = NoRepair /\ db \in DB /\ odd' = odd /\ Ending
    BY <2>1 DEF NotOpening, promises, IInv, OpeningInv, PhaseInv, ProcessType, Ending
  <2>3. db'.pc = "install" /\ db'.version = db.version /\ db'.added = db.added /\ db.manifest \in Nat
    BY <2>1, <2>2 DEF DB
  <2>4. Fine' <=> Fine
    BY <2>2 DEF Fine
  <2>5. \E log, last, n : Described(manifests'[current'], db.version, log, last, db.added, n)
    BY <2>1, <2>2, EndLemma, Zenon DEF EndDescribed
  <2>6. DiskInv'
    BY <2>1, <2>2, <2>3, <2>4, <2>5, <1>EndingDurable
  <2>7. RecoveryInv'
    BY <2>1, <2>2, <2>3, <2>4, NullAssumption, Zenon DEF DInv, RecoveryInv
  <2> QED
    BY <2>3, <2>6, <2>7, Zenon DEF DInv, ContentsInv
\* Open ends: all that was promised is in the tables.
<1>OpenEndsDurable. ASSUME IInv, IInv', DInv, OpenEnds
                    PROVE  DInv'
  <2> USE <1>OpenEndsDurable
  <2> DEFINE v == db.version \cup db.added
             m == manifests[db.manifest]
  <2>1. /\ db.pc = "install" /\ UNCHANGED <<current, NotOpening, spent, odd>>
        /\ db' = [db EXCEPT !.pc = "open", !.version = v, !.log_number = db.logfile, !.added = {}]
        /\ logs' = Restrict(logs, {i \in DOMAIN logs : i >= db'.log_number})
        /\ manifests' = Restrict(manifests, {i \in DOMAIN manifests : i >= db'.manifest})
        /\ tables' = Restrict(tables, DOMAIN tables \cap db'.version)
    BY DEF OpenEnds, DeleteObsoleteFiles
  <2>2. /\ Files(logs, Log) /\ Files(manifests, Manifest) /\ Files(tables, SUBSET Entry) /\ db \in DB
        /\ EndInv
    BY DEF IInv, DirType, ProcessType, OpeningInv
  <2>3. /\ current' = current /\ odd' = odd /\ promised' = promised /\ synced' = synced
    BY <2>1 DEF NotOpening, promises
  <2>4. /\ db.logfile \in Nat /\ db.manifest \in Nat /\ v \in SUBSET Nat
    BY <2>2 DEF DB
  <2>5. /\ current = db.manifest /\ db.manifest \in DOMAIN manifests /\ db.logfile \in DOMAIN logs
        /\ logs[db.logfile] = Written(<<>>, 0) /\ \A i \in DOMAIN logs : i <= db.logfile
        /\ \A i \in v : i \in DOMAIN tables
        /\ db.mem = {} /\ db.imm = {}
    BY <2>1, <2>2 DEF EndInv
  <2>6. /\ db'.pc = "open" /\ db'.version = v /\ db'.log_number = db.logfile /\ db'.logfile = db.logfile
        /\ db'.mem = {} /\ db'.imm = {} /\ db'.manifest = db.manifest
    <3>1. PICK w : w = v /\ db' = [db EXCEPT !.pc = "open", !.version = w, !.log_number = db.logfile, !.added = {}]
      BY <2>1, Zenon
    <3> QED
      BY <2>2, <2>5, <3>1 DEF DB
  <2>7. /\ m.synced = 2 /\ Len(m.data) = 2 /\ Ver(m.data, 2) = v /\ m.data[2].log = db.logfile
        /\ Kept(m) = {2}
    <3>1. Described(m, db.version, db.logfile, db.last_sequence, db.added, 2)
      BY <2>1, EndFacts
    <3> HIDE DEF m
    <3> QED
      BY <3>1, KeptLemma, Zenon DEF Described
  <2> HIDE DEF v, m
  <2>8. manifests'[current'] = m
    BY <2>1, <2>2, <2>3, <2>4, <2>5, <2>6 DEF Files, Restrict, m
  <2>9. \A i \in v : tables'[i] = tables[i]
    BY <2>1, <2>2, <2>5, <2>6, Zenon DEF Files, Restrict
  <2>10. \A i \in DOMAIN logs' : i = db.logfile /\ logs'[i].data = <<>>
    <3>1. Written(<<>>, 0).data = <<>>
      BY DEF Written
    <3>2. \A i \in DOMAIN logs' : i \in DOMAIN logs /\ i >= db.logfile /\ logs'[i] = logs[i]
      BY <2>1, <2>2, <2>6 DEF Files, Restrict
    <3>3. \A i \in DOMAIN logs' : i = db.logfile
      BY <2>2, <2>4, <2>5, <3>2 DEF Files
    <3> QED
      BY <2>5, <3>1, <3>2, <3>3
  <2>11. PICK us, w, d : us = tables' /\ w = v /\ d = db'
    OBVIOUS
  <2>12. TablesOf(w, us) = TablesOf(w, tables)
    BY <2>9, <2>11, TablesSame
  <2>13. (Fine' <=> Fine) /\ Safe' \subseteq promised
    BY <2>3 DEF Fine, Safe
  <2>14. Fine => promised \subseteq Ids(TablesOf(w, us)) /\ "repair" \notin odd'
    BY <2>1, <2>3, <2>11, <2>12, Zenon DEF DInv, RecoveryInv, v
  <2>15. Contents' = TablesOf(w, us)
    BY <2>6, <2>11 DEF Contents, TablesOf
  <2>16. Ids(TablesOf(w, us)) \subseteq Ids(TablesOf(w, us) \cup SafeFrom(db'.log_number, logs'))
    BY IdsGrow
  <2>17. \A k \in Kept(m) : Covers(m, k, d, us)
    <3>1. d.version = w /\ d.imm = {} /\ d.logfile = db.logfile /\ d.log_number = db.logfile
      BY <2>6, <2>11
    <3>2. db.logfile <= db.logfile
      BY <2>4
    <3> QED
      BY <2>7, <2>11, <3>1, <3>2 DEF Covers
  <2>18. ContentsInv'
    <3>1. \A k \in Kept(manifests'[current']) : Covers(manifests'[current'], k, db', tables')
      BY <2>8, <2>11, <2>17
    <3>2. db.logfile \in DOMAIN logs'
      BY <2>6, Zenon DEF IInv, ProcessInv, OpenInv
    <3>3. DOMAIN logs'[db'.logfile].data = {} /\ \A n \in DOMAIN logs' : DOMAIN logs'[n].data = {}
      BY <2>6, <2>10, <3>2
    <3> QED
      BY <2>3, <2>6, <2>11, <2>13, <2>14, <2>15, <2>16, <3>1, <3>3, Zenon DEF ContentsInv
  <2> QED
    BY <2>6, <2>13, <2>14, <2>18, OpenDurable
<1> QED
  BY <1>OpenBeginsDurable, <1>NewDBEndsDurable, <1>RecoverVersionDurable, <1>ReplayRecordDurable,
     <1>ReplayEndsDurable, <1>RecoveryEndsDurable, <1>OpenSyncsDurable, <1>OpenSetsCurrentDurable,
     <1>OpenEndsDurable DEF Opening

=============================================================================
