------------------------ MODULE RecoveryWriteProofs ------------------------
(***************************************************************************)
(* Proofs about module Recovery: DB::Write and the background thread keep  *)
(* the invariant, and what is promised (RecoveryInvariant).                *)
(***************************************************************************)
EXTENDS RecoveryOpenProofs

-----------------------------------------------------------------------------
(* The open database.                                                      *)

\* What is known of an open database.
LEMMA OpenFacts ==
    ASSUME IInv, db.pc = "open"
    PROVE  LET m == manifests[current]
               l == Len(m.data)
           IN /\ db \in DB /\ current = db.manifest /\ current \in DOMAIN manifests
              /\ m \in Manifest /\ m.synced <= l /\ l \in Nat /\ m.synced \in Nat /\ m.synced >= 2
              /\ m.data \in Seq(Edit) /\ Orderly(m.data)
              /\ SoundManifest(m, tables) /\ NumbersAfter(current, m)
              /\ \A k \in Kept(m) : /\ k \in 1 .. l /\ Readable(m, k) /\ Full(m.data[k])
                                    /\ m.data[k].next \in Nat /\ m.data[k].next <= db.next_file_number
              /\ db.logfile \in DOMAIN logs /\ logs[db.logfile] \in Log
              /\ DOMAIN logs \subseteq Nat /\ DOMAIN tables \subseteq Nat
<1> DEFINE m == manifests[current]
           l == Len(m.data)
<1>1. /\ DirType /\ FilesInv /\ CurrentInv /\ OpenInv /\ EditInv /\ db \in DB
  BY DEF IInv, DirInv, ProcessInv, ProcessType
<1>2. current = db.manifest /\ current \in DOMAIN manifests /\ db.logfile \in DOMAIN logs
  BY <1>1 DEF OpenInv
<1>3. /\ m \in Manifest /\ logs[db.logfile] \in Log /\ DOMAIN logs \subseteq Nat /\ DOMAIN tables \subseteq Nat
      /\ m.synced <= l /\ Orderly(m.data)
  BY <1>1, <1>2 DEF DirType, Files, FilesInv
<1>4. m.data \in Seq(Edit) /\ l \in Nat /\ m.synced \in Nat /\ DOMAIN m.data = 1 .. l
  BY <1>3, ManifestLemma
<1>5. m.synced >= 2 /\ \A k \in Kept(m) : m.data[k].next <= db.next_file_number
  BY <1>1 DEF EditInv
<1>6. SoundManifest(m, tables) /\ NumbersAfter(current, m)
  BY <1>1, <1>2 DEF CurrentInv
<1>7. ASSUME NEW k \in Kept(m)
      PROVE  k \in 1 .. l /\ Readable(m, k) /\ Full(m.data[k]) /\ m.data[k].next \in Nat
  <2>1. k \in 1 .. l /\ k # 1 /\ k # 0
    BY <1>4, <1>5 DEF Kept
  <2>2. Full(m.data[k])
    BY <1>3, <1>4, <2>1 DEF Orderly
  <2> QED
    BY <1>3, <2>1, <2>2, ManifestLemma DEF Readable
<1> QED
  BY <1>1, <1>2, <1>3, <1>4, <1>5, <1>6, <1>7

\* A step of an open database says nothing of opening or repairing one.
LEMMA OpenStays ==
    ASSUME IInv, db.pc = "open", db'.pc = "open", repair' = repair, db'.version \subseteq DOMAIN tables'
    PROVE  OpeningInv' /\ RepairInv'
<1>1. repair = NoRepair /\ NoRepair.pc = "none"
  BY DEF IInv, OpeningInv, PhaseInv, NoRepair
<1> QED
  BY <1>1 DEF OpeningInv, PhaseInv, LogsInv, EndInv, RepairInv

\* They are entries.
LEMMA HeldType ==
    ASSUME DirType, ProcessType
    PROVE  Held(db.mem, db.imm, tables, logs) \subseteq Entry
<1>1. /\ db.mem \subseteq Entry /\ \A M \in db.imm : M \subseteq Entry
      /\ \A n \in DOMAIN tables : tables[n] \subseteq Entry
  BY DEF DirType, ProcessType, DB, Files
<1>2. ASSUME NEW n \in DOMAIN logs, NEW i \in DOMAIN logs[n].data PROVE logs[n].data[i] \subseteq Entry
  <2>1. logs[n] \in Log
    BY DEF DirType, Files
  <2>2. logs[n].data \in Seq(SUBSET Entry)
    BY <2>1 DEF Log
  <2> QED
    BY <2>2
<1> QED
  BY <1>1, <1>2, HeldLemma

\* A step of a writer that changes neither files nor the state of the process.
LEMMA OnlyQueue ==
    ASSUME IInv, db.pc = "open", UNCHANGED <<dir, db, bg, repair, odd>>, InFlight' <=> InFlight
    PROVE  DirType' /\ DirInv' /\ OpeningInv' /\ RepairInv' /\ OpenInv' /\ SequenceInv' /\ EditInv'
<1>1. /\ DirType /\ FilesInv /\ CurrentInv /\ EntriesInv /\ CompleteInv /\ PhaseInv
      /\ OpenInv /\ SequenceInv /\ EditInv
  BY DEF IInv, DirInv, OpeningInv, ProcessInv
<1>2. /\ logs' = logs /\ manifests' = manifests /\ tables' = tables /\ current' = current
      /\ db' = db /\ bg' = bg /\ repair' = repair /\ odd' = odd
  BY DEF dir
<1>3. DirType' /\ FilesInv' /\ CurrentInv'
  BY <1>1, DirStays
<1>4. EntriesInv' /\ CompleteInv'
  BY <1>1, <1>2 DEF EntriesInv, CompleteInv, Trusted
<1>5. OpeningInv' /\ RepairInv'
  BY <1>1, <1>2, OpenStays DEF PhaseInv
<1>6. OpenInv' /\ SequenceInv'
  BY <1>1, <1>2, Zenon DEF OpenInv, SequenceInv
<1>7. EditInv'
  BY <1>1, <1>2, Zenon DEF EditInv, Flush, Compaction
<1> QED
  BY <1>3, <1>4, <1>5, <1>6, <1>7 DEF DirInv

\* A step that leaves the files, the memtables and the version alone.
LEMMA QuietDurable ==
    ASSUME IInv, IInv', DInv, db.pc = "open", db'.pc = "open",
           UNCHANGED <<logs, manifests, tables, current, promised, synced, odd>>,
           db'.mem = db.mem, db'.imm = db.imm, db'.version = db.version,
           db'.log_number = db.log_number, db'.logfile = db.logfile,
           db'.bg_error \/ (~db.bg_error /\ (InFlight => InFlight'))
    PROVE  DInv'
<1>1. /\ logs' = logs /\ manifests' = manifests /\ tables' = tables /\ current' = current
      /\ promised' = promised /\ odd' = odd /\ (Fine' <=> Fine) /\ Safe' = Safe
  BY DEF Fine, Safe
<1>2. Contents' = Contents
  BY <1>1 DEF Contents
<1>3. ASSUME NEW k, Covers(manifests[current], k, db, tables)
      PROVE  Covers(manifests'[current'], k, db', tables')
  BY <1>1, <1>3 DEF Covers
<1>4. ASSUME Fine, ~db'.bg_error, NEW i \in DOMAIN logs[db.logfile].data
      PROVE  logs[db.logfile].data[i] \subseteq db.mem \/ (InFlight' /\ i = Len(logs[db.logfile].data))
  BY <1>4 DEF DInv, ContentsInv
<1>5. ContentsInv'
  BY <1>1, <1>2, <1>3, <1>4, Zenon DEF DInv, ContentsInv
<1>6. Fine' => "repair" \notin odd'
  BY <1>1 DEF DInv, RecoveryInv
<1> QED
  BY <1>5, <1>6, OpenDurable

-----------------------------------------------------------------------------
(* The writers.                                                            *)

\* The empty set has no members.
LEMMA EmptyCount ==
    ASSUME NumberFacts
    PROVE  Cardinality({}) = 0
BY DEF NumberFacts

\* The places of a sequence.
LEMMA SeqPlaces == \A S : \A s \in Seq(S) : Len(s) \in Nat /\ DOMAIN s = 1 .. Len(s)
OBVIOUS

\* The last edit of a MANIFEST, and the one before it.
LEMMA LastPlaces == \A n \in Nat : n > 2 => n \in n - 1 .. n /\ n >= 2 /\ n # 0
OBVIOUS

\* One more write is counted.
LEMMA SpentOnWrite ==
    \A s \in Spent : /\ [s EXCEPT !.writes = @ + 1] \in Spent
                     /\ [s EXCEPT !.writes = @ + 1].writes = s.writes + 1
BY DEF Spent

\* The parts of a writer.
LEMMA WriterLemma ==
    ASSUME NEW ws \in Seq(Writer), NEW i \in 1 .. Len(ws)
    PROVE  ws[i].size \in Nat /\ ws[i].id \in Nat /\ ws[i].sync \in BOOLEAN
<1>1. ws[i] \in Writer
  OBVIOUS
<1> QED
  BY <1>1 DEF Writer

\* The entries of a group have the numbers from s on, each its own, and the ids of the
\* writers whose batch is not empty (Write, WriteBatchInternal::SetSequence).
LEMMA NumberedLemma ==
    ASSUME NumberFacts, NEW ws \in Seq(Writer), NEW s \in Nat
    PROVE  /\ Count(ws) \in Nat /\ Numbered(ws, s) \subseteq Entry
           /\ \A x \in Numbered(ws, s) : s <= x[1] /\ x[1] < s + Count(ws)
           /\ \A a, b \in Numbered(ws, s) : a[1] = b[1] => a = b
           /\ \A x \in Numbered(ws, s) : \E i \in DOMAIN ws : x[2] = ws[i].id
           /\ \A i \in DOMAIN ws : ws[i].size > 0 => \E x \in Numbered(ws, s) : x[2] = ws[i].id
BY Zenon DEF NumberFacts, GroupNumbered

\* The group of writers that BuildBatchGroup makes.
LEMMA GroupSizeLemma ==
    ASSUME NumberFacts, queue \in Seq(Writer), queue # <<>>
    PROVE  /\ GroupSize \in 1 .. Len(queue)
           /\ \A i \in 1 .. GroupSize : queue[i].sync => queue[1].sync
<1> DEFINE S == {n \in 1 .. Len(queue) : \A i \in 2 .. n :
                    /\ queue[i].sync => queue[1].sync
                    /\ queue[i].size > 0 => Count(SubSeq(queue, 1, i)) <= GroupLimit}
<1>1. Len(queue) \in Nat /\ Len(queue) # 0
  OBVIOUS
<1>2. 1 \in S
  BY <1>1
<1>3. S \in SUBSET Nat /\ \A y \in S : y <= Len(queue)
  BY <1>1
<1>4. \A n \in S : n \in 1 .. Len(queue) /\ \A i \in 2 .. n : queue[i].sync => queue[1].sync
  OBVIOUS
<1> HIDE DEF S
<1>5. PICK m : m = Largest(S) /\ m \in S \cup {0} /\ \A y \in S : y <= m
  BY <1>1, <1>3, LargestLemma, Zenon
<1>6. m \in S
  BY <1>2, <1>5
<1>7. m = GroupSize
  BY <1>5 DEF S, GroupSize
<1>8. ASSUME NEW i \in 1 .. m, queue[i].sync PROVE queue[1].sync
  <2>1. i = 1 \/ i \in 2 .. m
    BY <1>4, <1>6
  <2> QED
    BY <1>4, <1>6, <1>8, <2>1
<1> QED
  BY <1>4, <1>6, <1>7, <1>8

\* The group of a writer at the front has not written anything.
LEMMA FrontFacts ==
    ASSUME IInv, AtFront
    PROVE  /\ queue \in Seq(Writer) /\ Len(queue) \in Nat /\ 1 \in 0 .. Len(queue) /\ ~InFlight
           /\ db.pc = "open" /\ QueueInv /\ spent.writes \in Nat
           /\ \A i \in 1 .. Len(queue) : queue[i].id \notin synced
           /\ \A p \in synced : p <= spent.writes
<1>1. queue # <<>> /\ db.pc = "open" /\ group.pc \in {"none", "room"} /\ queue \in Seq(Writer)
      /\ QueueInv /\ spent.writes \in Nat
  BY DEF AtFront, IInv, ProcessType, ProcessInv, Spent
<1>2. Len(queue) \in Nat /\ Len(queue) # 0 /\ DOMAIN queue = 1 .. Len(queue)
  BY <1>1
<1> QED
  BY <1>1, <1>2 DEF InFlight, QueueInv

\* A record is appended to the log: its numbers are new.
LEMMA RecordIsNew ==
    ASSUME NumberFacts, IInv, AtFront, NEW n \in 1 .. Len(queue), NEW r,
           r = Numbered(SubSeq(queue, 1, n), db.last_sequence + 1)
    PROVE  /\ r \in SUBSET Entry /\ Count(SubSeq(queue, 1, n)) \in Nat
           /\ \A x \in r : db.last_sequence < x[1] /\ x[1] <= db.last_sequence + Count(SubSeq(queue, 1, n))
           /\ \A a, b \in r : a[1] = b[1] => a = b
           /\ \A x \in Held(db.mem, db.imm, tables, logs) : x[1] <= db.last_sequence
<1>1. queue \in Seq(Writer) /\ db.last_sequence \in Nat /\ SequenceInv /\ db.pc = "open" /\ ~InFlight
  BY FrontFacts DEF IInv, ProcessType, ProcessInv, DB
<1>2. SubSeq(queue, 1, n) \in Seq(Writer) /\ db.last_sequence + 1 \in Nat
  BY <1>1
<1>3. PICK ws \in Seq(Writer), s \in Nat : ws = SubSeq(queue, 1, n) /\ s = db.last_sequence + 1
  BY <1>2, Zenon
<1>4. r = Numbered(ws, s)
  BY <1>3, Zenon
<1>5. /\ Count(ws) \in Nat /\ Numbered(ws, s) \subseteq Entry
      /\ \A x \in Numbered(ws, s) : s <= x[1] /\ x[1] < s + Count(ws)
      /\ \A a, b \in Numbered(ws, s) : a[1] = b[1] => a = b
  BY NumberedLemma
<1>6. ASSUME NEW x \in r
      PROVE  db.last_sequence < x[1] /\ x[1] <= db.last_sequence + Count(ws)
  <2>1. x[1] \in Nat
    BY <1>4, <1>5 DEF Entry
  <2> QED
    BY <1>1, <1>3, <1>4, <1>5, <2>1
<1>7. \A x \in Held(db.mem, db.imm, tables, logs) : x[1] <= db.last_sequence
  BY <1>1, HeldLemma DEF SequenceInv
<1> QED
  BY <1>3, <1>4, <1>5, <1>6, <1>7, Zenon

\* What is known of a group on its way.
LEMMA FlightFacts ==
    ASSUME IInv, InFlight
    PROVE  /\ db.pc = "open" /\ queue \in Seq(Writer) /\ Len(queue) \in Nat /\ queue # <<>>
           /\ group.n \in 1 .. Len(queue) /\ db.last_sequence \in Nat
           /\ db.logfile \in DOMAIN logs /\ logs[db.logfile] \in Log
           /\ LET log == logs[db.logfile]
                  l == Len(log.data)
              IN /\ l \in Nat /\ l # 0 /\ l \in DOMAIN log.data
                 /\ log.data[l] = Numbered(SubSeq(queue, 1, group.n), db.last_sequence + 1)
                 /\ \A i \in 1 .. group.n : queue[i].sync => queue[1].sync
                 /\ group.pc = "insert" /\ queue[1].sync => log.synced = l
<1>1. db.pc = "open"
  BY DEF IInv, OpeningInv, PhaseInv, InFlight, NoGroup
<1>2. ProcessType /\ GroupInv
  BY DEF IInv, ProcessInv
<1>3. /\ queue \in Seq(Writer) /\ Len(queue) \in Nat /\ group.n \in Nat /\ db.last_sequence \in Nat
  BY <1>2 DEF ProcessType, DB
<1>4. db.logfile \in DOMAIN logs /\ logs[db.logfile] \in Log
  BY <1>1, OpenFacts
<1>5. group.n \in 1 .. Len(queue) /\ queue # <<>>
  BY <1>2, <1>3 DEF GroupInv
<1>6. Len(logs[db.logfile].data) \in Nat /\ DOMAIN logs[db.logfile].data = 1 .. Len(logs[db.logfile].data)
  <2>1. logs[db.logfile].data \in Seq(SUBSET Entry)
    BY <1>4 DEF Log
  <2> QED
    BY <2>1
<1>7. Len(logs[db.logfile].data) # 0
  BY <1>2 DEF GroupInv
<1>8. Len(logs[db.logfile].data) \in DOMAIN logs[db.logfile].data
  BY <1>6, <1>7
<1> QED
  BY <1>1, <1>2, <1>3, <1>4, <1>5, <1>6, <1>7, <1>8, Zenon DEF GroupInv

\* The steps of DB::Write keep the invariant.
LEMMA WritingKeepsInv ==
    ASSUME NumberFacts
    PROVE  IInv /\ ((\E s \in bound.sizes, sync \in BOOLEAN : Enqueue(s, sync)) \/ Writing) => IInv'
\* A writer joins the queue.
<1>EnqueueStep. ASSUME IInv, NEW size \in bound.sizes, NEW sync \in BOOLEAN, Enqueue(size, sync)
                PROVE  IInv'
  <2> USE <1>EnqueueStep
  <2> DEFINE w == [id |-> spent.writes + 1, size |-> size, sync |-> sync]
  <2>1. /\ db.pc = "open" /\ queue' = Append(queue, w) /\ spent' = [spent EXCEPT !.writes = @ + 1]
        /\ UNCHANGED <<dir, db, bg, repair, odd>>
        /\ group' = group /\ synced' = synced /\ logs' = logs /\ db' = db /\ bg' = bg
        /\ repair' = repair /\ bound' = bound
    BY DEF Enqueue, NotWriting, dir, promises
  <2>2. ProcessType /\ GroupInv /\ QueueInv
    BY DEF IInv, ProcessInv
  <2>3. queue \in Seq(Writer) /\ spent.writes \in Nat /\ bound \in Bounds /\ group.n \in Nat /\ synced \subseteq Nat
    BY <2>2 DEF ProcessType, Spent
  <2>4. w \in Writer /\ w.id = spent.writes + 1
    <3>1. size \in Nat
      BY <2>3, BoundsAssumption
    <3> QED
      BY <2>3, <3>1 DEF Writer
  <2> HIDE DEF w
  <2>5. /\ queue' \in Seq(Writer) /\ Len(queue') = Len(queue) + 1 /\ Len(queue) \in Nat
        /\ DOMAIN queue = 1 .. Len(queue) /\ DOMAIN queue' = 1 .. Len(queue) + 1
        /\ queue'[Len(queue) + 1] = w /\ \A i \in DOMAIN queue : queue'[i] = queue[i]
    BY <2>1, <2>3, <2>4
  <2>6. spent' \in Spent /\ spent'.writes = spent.writes + 1
    BY <2>1, <2>2, SpentOnWrite, Zenon DEF ProcessType
  <2>7. DirType' /\ DirInv' /\ OpeningInv' /\ RepairInv' /\ OpenInv' /\ SequenceInv' /\ EditInv'
    <3>1. InFlight' <=> InFlight
      BY <2>1 DEF InFlight
    <3> QED
      BY <2>1, <3>1, OnlyQueue
  <2>8. ProcessType'
    BY <2>1, <2>2, <2>3, <2>5, <2>6 DEF ProcessType
  <2>9. QueueInv'
    <3>1. \A i \in DOMAIN queue : queue[i].id \in Nat
      BY <2>3, <2>5, WriterLemma
    <3> QED
      BY <2>1, <2>2, <2>3, <2>4, <2>5, <2>6, <3>1 DEF QueueInv
  <2>10. GroupInv'
    <3>1. group.n <= Len(queue') /\ queue' # <<>>
      BY <2>2, <2>3, <2>5 DEF GroupInv
    <3>2. SubSeq(queue', 1, group.n) = SubSeq(queue, 1, group.n)
      BY <2>2, <2>3, <2>4, <2>1 DEF GroupInv
    <3>3. \A i \in 1 .. group.n : i \in DOMAIN queue /\ queue'[i] = queue[i]
      BY <2>2, <2>3, <2>5 DEF GroupInv
    <3>4. InFlight => 1 \in 1 .. group.n
      BY <2>2, <2>3 DEF GroupInv
    <3> QED
      BY <2>1, <2>2, <3>1, <3>2, <3>3, <3>4, Zenon DEF GroupInv, InFlight
  <2> QED
    BY <2>7, <2>8, <2>9, <2>10 DEF IInv, ProcessInv
\* The first n writers return.
<1>ReturnLemma. ASSUME queue \in Seq(Writer), QueueInv, NEW n \in 0 .. Len(queue), Return(n),
                       spent' = spent, spent.writes \in Nat,
                       \A i \in n + 1 .. Len(queue) : queue[i].id \notin synced',
                       \A p \in synced' : p <= spent.writes
                PROVE  queue' \in Seq(Writer) /\ group' = NoGroup /\ ~InFlight' /\ GroupInv' /\ QueueInv'
  <2> USE <1>ReturnLemma
  <2>1. queue' = SubSeq(queue, n + 1, Len(queue)) /\ group' = NoGroup
    BY DEF Return
  <2>2. ~InFlight' /\ group'.n = 0 /\ group'.pc = "none"
    BY <2>1 DEF InFlight, NoGroup
  <2>3. /\ queue' \in Seq(Writer) /\ Len(queue') = Len(queue) - n /\ DOMAIN queue' = 1 .. Len(queue')
        /\ Len(queue') \in Nat
        /\ \A i \in DOMAIN queue' : /\ i + n \in n + 1 .. Len(queue) /\ i + n \in DOMAIN queue
                                    /\ queue'[i] = queue[i + n]
    BY <2>1
  <2>4. GroupInv'
    BY <2>2, <2>3 DEF GroupInv
  <2>5. QueueInv'
    <3>1. \A i, j \in DOMAIN queue' : i + n = j + n => i = j
      BY <2>3
    <3> QED
      BY <2>3, <3>1 DEF QueueInv
  <2> QED
    BY <2>1, <2>2, <2>3, <2>4, <2>5
\* MakeRoomForWrite fails, and a writer returns.
<1>RoomFailsStep. ASSUME IInv, RoomFails
                  PROVE  IInv'
  <2> USE <1>RoomFailsStep
  <2>1. /\ AtFront /\ Return(1) /\ UNCHANGED <<dir, db, bg, repair, odd>>
        /\ db' = db /\ bg' = bg /\ repair' = repair /\ bound' = bound /\ synced' = synced /\ spent' = spent
    BY DEF RoomFails, NotWriting, dir, promises
  <2>2. queue' \in Seq(Writer) /\ group' = NoGroup /\ ~InFlight' /\ GroupInv' /\ QueueInv'
    BY <2>1, FrontFacts, <1>ReturnLemma
  <2>3. DirType' /\ DirInv' /\ OpeningInv' /\ RepairInv' /\ OpenInv' /\ SequenceInv' /\ EditInv'
    BY <2>1, <2>2, FrontFacts, OnlyQueue
  <2>4. ProcessType'
    BY <2>1, <2>2 DEF IInv, ProcessType, NoGroup
  <2> QED
    BY <2>2, <2>3, <2>4 DEF IInv, ProcessInv
\* MakeRoomForWrite switches to a new log.
<1>SwitchLogStep. ASSUME IInv, SwitchLog
                  PROVE  IInv'
  <2> USE <1>SwitchLogStep
  <2> DEFINE n == db.next_file_number
  <2>1. /\ AtFront /\ db.imm = {} /\ group' = [pc |-> "room", n |-> 0]
        /\ db' = [db EXCEPT !.logfile = n, !.next_file_number = n + 1, !.imm = {db.mem}, !.mem = {}]
        /\ logs' = Put(logs, n, Written(<<>>, 0))
        /\ queue' = queue /\ synced' = synced /\ spent' = spent /\ odd' = odd /\ manifests' = manifests
        /\ tables' = tables /\ current' = current /\ bg' = bg /\ repair' = repair /\ bound' = bound
    BY DEF SwitchLog, NotWriting, promises
  <2>2. /\ DirType /\ FilesInv /\ CurrentInv /\ EntriesInv /\ CompleteInv /\ PhaseInv
        /\ ProcessType /\ OpenInv /\ SequenceInv /\ EditInv /\ GroupInv /\ QueueInv
    BY DEF IInv, DirInv, OpeningInv, ProcessInv
  <2>3. /\ db.pc = "open" /\ ~InFlight /\ ~InFlight' /\ queue # <<>>
    BY <2>1, FrontFacts DEF AtFront, InFlight
  <2>4. /\ db \in DB /\ n \in Nat /\ db.logfile \in Nat /\ db.log_number \in Nat /\ db.manifest \in Nat
        /\ db.mem \in SUBSET Entry /\ db.last_sequence \in Nat
    BY <2>2 DEF ProcessType, DB
  <2>5. /\ db' \in DB /\ db'.pc = "open" /\ db'.logfile = n /\ db'.next_file_number = n + 1
        /\ db'.imm = {db.mem} /\ db'.mem = {} /\ db'.version = db.version /\ db'.manifest = db.manifest
        /\ db'.log_number = db.log_number /\ db'.last_sequence = db.last_sequence
        /\ db'.bg_error = db.bg_error
    <3>4. {db.mem} \in SUBSET SUBSET Entry /\ n + 1 \in Nat
      BY <2>4
    <3>1. PICK I \in SUBSET SUBSET Entry, N \in Nat : I = {db.mem} /\ N = n + 1
      BY <3>4, Zenon
    <3>2. db' = [db EXCEPT !.logfile = n, !.next_file_number = N, !.imm = I, !.mem = {}]
      BY <2>1, <3>1, Zenon
    <3> HIDE DEF n
    <3>3. /\ db' \in DB /\ db'.pc = "open" /\ db'.logfile = n /\ db'.next_file_number = N
          /\ db'.imm = I /\ db'.mem = {} /\ db'.version = db.version /\ db'.manifest = db.manifest
          /\ db'.log_number = db.log_number /\ db'.last_sequence = db.last_sequence
          /\ db'.bg_error = db.bg_error
      BY <2>3, <2>4, <3>2, Zenon DEF DB
    <3> QED
      BY <3>1, <3>3, Zenon
  <2>6. /\ Files(logs', Log) /\ DOMAIN logs' = DOMAIN logs \cup {n} /\ logs'[n] = Written(<<>>, 0)
        /\ \A i \in DOMAIN logs : i # n /\ logs'[i] = logs[i]
    <3>1. Files(logs, Log) /\ \A i \in DOMAIN logs : i <= db.logfile /\ db.logfile < n
      BY <2>2, <2>3 DEF DirType, OpenInv
    <3>2. Written(<<>>, 0) \in Log
      BY DEF Written, Log
    <3> QED
      BY <2>1, <2>4, <3>1, <3>2 DEF Files, Put
  <2>7. Written(<<>>, 0).data = <<>> /\ Written(<<>>, 0).synced = 0 /\ Len(<<>>) = 0 /\ DOMAIN <<>> = {}
    BY DEF Written
  <2> HIDE DEF n
  <2>8. DirType' /\ FilesInv'
    BY <2>1, <2>2, <2>6, <2>7 DEF DirType, FilesInv
  <2>9. CurrentInv'
    BY <2>1, <2>2, Zenon DEF CurrentInv
  <2>10. EntriesInv'
    <3>1. Held(db'.mem, db'.imm, tables', logs') \subseteq Held(db.mem, db.imm, tables, logs)
      BY <2>1, <2>5, <2>6, <2>7, HeldLemma
    <3> QED
      BY <2>1, <2>2, <2>4, <2>6, <3>1, EntriesStay, Zenon
  <2>11. CompleteInv'
    BY <2>1, <2>2, Zenon DEF CompleteInv, Trusted
  <2>12. OpeningInv' /\ RepairInv'
    BY <2>1, <2>2, <2>3, <2>5, OpenStays DEF PhaseInv
  <2>13. ProcessType'
    BY <2>1, <2>2, <2>5 DEF ProcessType
  <2>14. OpenInv'
    <3>1. /\ current = db.manifest /\ current \in DOMAIN manifests
          /\ db.log_number <= db.logfile /\ db.logfile < n /\ db.manifest < n
          /\ \A i \in DOMAIN logs : i <= db.logfile
          /\ \A i \in DOMAIN tables : i < n
      BY <2>2, <2>3 DEF OpenInv, n
    <3>2. DOMAIN logs \subseteq Nat /\ DOMAIN tables \subseteq Nat
      BY <2>3, OpenFacts
    <3>3. /\ db.log_number <= n /\ db.log_number # n /\ n < n + 1 /\ db.manifest < n + 1
          /\ \A i \in DOMAIN logs' : i <= n
          /\ \A i \in DOMAIN tables : i < n + 1
      BY <2>4, <2>6, <3>1, <3>2
    <3>4. db'.imm # {} /\ \A M, N \in db'.imm : M = N
      BY <2>5
    <3> QED
      BY <2>1, <2>5, <2>6, <3>1, <3>3, <3>4 DEF OpenInv
  <2>15. SequenceInv'
    BY <2>1, <2>2, <2>3, <2>5, <2>6, <2>7 DEF SequenceInv
  <2>16. EditInv'
    <3>1. \A e : ~Flush(e)
      BY <2>1 DEF Flush
    <3>2. \A e : Compaction(e) => Compaction(e)'
      BY <2>1, <2>5, Zenon DEF Compaction
    <3>3. \A k \in Kept(manifests[current]) : manifests[current].data[k].next <= n + 1
      BY <2>3, <2>4, OpenFacts DEF n
    <3> QED
      BY <2>1, <2>2, <2>3, <2>5, <3>1, <3>2, <3>3, Zenon DEF EditInv
  <2>17. GroupInv' /\ QueueInv'
    BY <2>1, <2>2, <2>3 DEF GroupInv, QueueInv, ProcessType
  <2> QED
    BY <2>8, <2>9, <2>10, <2>11, <2>12, <2>13, <2>14, <2>15, <2>16, <2>17
       DEF IInv, DirInv, ProcessInv
\* A record is appended to the log in use.
<1>LogGrows. ASSUME IInv, AtFront, NEW r \in SUBSET Entry,
                    logs' = [logs EXCEPT ![db.logfile].data = Append(@, r)]
             PROVE  /\ Files(logs', Log) /\ DOMAIN logs' = DOMAIN logs /\ db.logfile \in DOMAIN logs
                    /\ \A n \in DOMAIN logs : n # db.logfile => logs'[n] = logs[n]
                    /\ LET old == logs[db.logfile]
                           log == logs'[db.logfile]
                       IN /\ log.data = Append(old.data, r) /\ log.synced = old.synced
                          /\ Len(old.data) \in Nat /\ Len(log.data) = Len(old.data) + 1
                          /\ DOMAIN old.data = 1 .. Len(old.data) /\ DOMAIN log.data = 1 .. Len(old.data) + 1
                          /\ log.data[Len(log.data)] = r /\ old.synced \in Nat /\ old.synced <= Len(old.data)
                          /\ \A i \in DOMAIN old.data : log.data[i] = old.data[i]
  <2> USE <1>LogGrows
  <2> DEFINE old == logs[db.logfile]
             log == [old EXCEPT !.data = Append(@, r)]
  <2>1. /\ Files(logs, Log) /\ db.logfile \in DOMAIN logs /\ old \in Log /\ old.synced <= Len(old.data)
    BY FrontFacts, OpenFacts DEF IInv, DirType, DirInv, FilesInv
  <2>2. old.data \in Seq(SUBSET Entry) /\ old.synced \in Nat
    BY <2>1 DEF Log
  <2> HIDE DEF old
  <2>7. PICK d \in Seq(SUBSET Entry) : d = old.data
    BY <2>2, Zenon
  <2>8. /\ Append(d, r) \in Seq(SUBSET Entry) /\ Len(d) \in Nat /\ Len(Append(d, r)) = Len(d) + 1
        /\ DOMAIN d = 1 .. Len(d) /\ DOMAIN Append(d, r) = 1 .. Len(d) + 1
        /\ Append(d, r)[Len(d) + 1] = r /\ \A i \in DOMAIN d : Append(d, r)[i] = d[i]
    OBVIOUS
  <2>3. log \in Log /\ log.data = Append(d, r) /\ log.synced = old.synced
    <3>1. log = [old EXCEPT !.data = Append(d, r)]
      BY <2>7, Zenon
    <3>2. PICK a \in Seq(SUBSET Entry) : a = Append(d, r)
      BY <2>8, Zenon
    <3>3. log = [old EXCEPT !.data = a]
      BY <3>1, <3>2, Zenon
    <3> HIDE DEF log
    <3>4. log \in Log /\ log.data = a /\ log.synced = old.synced
      BY <2>1, <3>3, Zenon DEF Log
    <3> QED
      BY <3>2, <3>4, Zenon
  <2>4. logs' = [logs EXCEPT ![db.logfile] = log]
    BY DEF old
  <2> HIDE DEF log
  <2>5. /\ Files(logs', Log) /\ DOMAIN logs' = DOMAIN logs /\ logs'[db.logfile] = log
        /\ \A n \in DOMAIN logs : n # db.logfile => logs'[n] = logs[n]
    BY <2>1, <2>3, <2>4 DEF Files
  <2>6. /\ Len(old.data) \in Nat /\ Len(log.data) = Len(old.data) + 1
        /\ DOMAIN old.data = 1 .. Len(old.data) /\ DOMAIN log.data = 1 .. Len(old.data) + 1
        /\ log.data[Len(log.data)] = r
        /\ \A i \in DOMAIN old.data : log.data[i] = old.data[i]
    BY <2>3, <2>7, <2>8, Zenon
  <2> QED
    BY <2>1, <2>2, <2>3, <2>5, <2>6, <2>7, Zenon DEF old
\* A record is appended to the log in use, and the group is on its way.
<1>RecordAdded. ASSUME IInv, AtFront, NEW n, n = GroupSize, NEW r,
                       r = Numbered(SubSeq(queue, 1, n), db.last_sequence + 1),
                       logs' = [logs EXCEPT ![db.logfile].data = Append(@, r)],
                       group' = [pc |-> IF queue[1].sync THEN "sync" ELSE "insert", n |-> n],
                       UNCHANGED <<queue, db>>, UNCHANGED <<promises, spent, odd, NotWriting>>
                PROVE  IInv'
  <2> USE <1>RecordAdded
  <2> DEFINE old == logs[db.logfile]
             log == logs'[db.logfile]
  <2>1. /\ queue' = queue /\ db' = db /\ synced' = synced /\ spent' = spent /\ odd' = odd
        /\ manifests' = manifests /\ tables' = tables /\ current' = current /\ bg' = bg
        /\ repair' = repair /\ bound' = bound
    BY DEF NotWriting, promises
  <2>2. /\ DirType /\ FilesInv /\ CurrentInv /\ EntriesInv /\ CompleteInv /\ PhaseInv
        /\ ProcessType /\ OpenInv /\ SequenceInv /\ EditInv /\ QueueInv
    BY DEF IInv, DirInv, OpeningInv, ProcessInv
  <2>3. /\ db.pc = "open" /\ ~InFlight /\ queue # <<>> /\ queue \in Seq(Writer) /\ Len(queue) \in Nat
    BY FrontFacts DEF AtFront
  <2>4. n \in 1 .. Len(queue) /\ \A i \in 1 .. n : queue[i].sync => queue[1].sync
    BY <2>3, GroupSizeLemma
  <2>5. /\ r \in SUBSET Entry /\ Count(SubSeq(queue, 1, n)) \in Nat
        /\ \A x \in r : db.last_sequence < x[1] /\ x[1] <= db.last_sequence + Count(SubSeq(queue, 1, n))
        /\ \A a, b \in r : a[1] = b[1] => a = b
        /\ \A x \in Held(db.mem, db.imm, tables, logs) : x[1] <= db.last_sequence
    BY <2>4, RecordIsNew
  <2>6. /\ Files(logs', Log) /\ DOMAIN logs' = DOMAIN logs /\ db.logfile \in DOMAIN logs
        /\ \A i \in DOMAIN logs : i # db.logfile => logs'[i] = logs[i]
    BY <2>5, <1>LogGrows, Zenon
  <2>7. /\ log.data = Append(old.data, r) /\ log.synced = old.synced
        /\ Len(old.data) \in Nat /\ Len(log.data) = Len(old.data) + 1
        /\ DOMAIN old.data = 1 .. Len(old.data) /\ DOMAIN log.data = 1 .. Len(old.data) + 1
        /\ log.data[Len(log.data)] = r /\ old.synced \in Nat /\ old.synced <= Len(old.data)
        /\ \A i \in DOMAIN old.data : log.data[i] = old.data[i]
    BY <2>5, <1>LogGrows, Zenon
  <2>8. db.last_sequence \in Nat
    BY <2>2 DEF ProcessType, DB
  <2> HIDE DEF old, log
  <2>9. log = logs'[db.logfile] /\ old = logs[db.logfile]
    BY DEF log, old
  <2>10. DirType' /\ FilesInv'
    <3>1. log.synced <= Len(log.data)
      BY <2>7
    <3>2. \A i \in DOMAIN logs' : logs'[i].synced <= Len(logs'[i].data)
      BY <2>2, <2>6, <2>9, <3>1, Zenon DEF FilesInv
    <3> QED
      BY <2>1, <2>2, <2>6, <3>2, Zenon DEF DirType, FilesInv
  <2>11. CurrentInv' /\ CompleteInv'
    BY <2>1, <2>2, Zenon DEF CurrentInv, CompleteInv, Trusted
  <2>12. EntriesInv'
    <3> DEFINE H == Held(db.mem, db.imm, tables, logs)
               G == Held(db.mem, db.imm, tables, logs')
    <3>1. ASSUME NEW x \in G PROVE x \in H \cup r
      <4>1. ASSUME NEW i \in DOMAIN logs', NEW j \in DOMAIN logs'[i].data, x \in logs'[i].data[j]
            PROVE  x \in H \cup r
        <5>1. CASE i # db.logfile
          BY <2>6, <4>1, <5>1, HeldLemma, Zenon
        <5>2. CASE i = db.logfile /\ j \in DOMAIN old.data
          <6>1. x \in logs[i].data[j] /\ i \in DOMAIN logs /\ j \in DOMAIN logs[i].data
            BY <2>6, <2>7, <2>9, <4>1, <5>2, Zenon
          <6> QED
            BY <6>1, HeldLemma, Zenon
        <5>3. CASE i = db.logfile /\ j \notin DOMAIN old.data
          <6>1. j = Len(log.data)
            BY <2>7, <2>9, <4>1, <5>3, Intervals, Zenon
          <6> QED
            BY <2>7, <2>9, <4>1, <5>3, <6>1, Zenon
        <5> QED
          BY <5>1, <5>2, <5>3
      <4>2. \/ x \in db.mem \/ (\E M \in db.imm : x \in M) \/ (\E i \in DOMAIN tables : x \in tables[i])
            \/ \E i \in DOMAIN logs' : \E j \in DOMAIN logs'[i].data : x \in logs'[i].data[j]
        <5>1. PICK ls : ls = logs'
          OBVIOUS
        <5>2. x \in Held(db.mem, db.imm, tables, ls)
          BY <3>1, <5>1, Zenon
        <5>3. \/ x \in db.mem \/ (\E M \in db.imm : x \in M) \/ (\E i \in DOMAIN tables : x \in tables[i])
              \/ \E i \in DOMAIN ls : \E j \in DOMAIN ls[i].data : x \in ls[i].data[j]
          BY <5>2, HeldLemma
        <5> QED
          BY <5>1, <5>3, Zenon
      <4>3. \/ x \in db.mem \/ (\E M \in db.imm : x \in M) \/ (\E i \in DOMAIN tables : x \in tables[i])
            => x \in H
        BY HeldLemma
      <4> QED
        BY <4>1, <4>2, <4>3, Zenon
    <3>2. Unique(H) /\ Bounded(Seqs(H)) /\ Bounded(DOMAIN logs \cup DOMAIN tables)
      BY <2>2 DEF EntriesInv
    <3>3. \A x \in H : x[1] <= db.last_sequence
      BY <2>5
    <3> HIDE DEF H, G
    <3>4. Unique(G)
      <4> SUFFICES ASSUME NEW a \in G, NEW b \in G, a[1] = b[1] PROVE a = b
        BY DEF Unique
      <4>1. CASE a \in H /\ b \in H
        BY <3>2, <4>1 DEF Unique
      <4>2. CASE a \in r /\ b \in r
        BY <2>5, <4>2
      <4>3. CASE a \in r /\ b \in H
        <5>1. a[1] \in Nat /\ db.last_sequence < a[1] /\ a[1] <= db.last_sequence
          BY <2>5, <3>3, <4>3 DEF Entry
        <5> QED
          BY <2>8, <5>1
      <4>4. CASE a \in H /\ b \in r
        <5>1. b[1] \in Nat /\ db.last_sequence < b[1] /\ b[1] <= db.last_sequence
          BY <2>5, <3>3, <4>4 DEF Entry
        <5> QED
          BY <2>8, <5>1
      <4> QED
        BY <3>1, <4>1, <4>2, <4>3, <4>4
    <3>5. Bounded(Seqs(G))
      <4>1. PICK b \in Nat : \A s \in Seqs(H) : s <= b
        BY <3>2 DEF Bounded
      <4> DEFINE c == db.last_sequence + Count(SubSeq(queue, 1, n))
      <4>2. c \in Nat /\ db.last_sequence <= c /\ \A x \in r : x[1] <= c
        BY <2>5, <2>8
      <4> HIDE DEF c
      <4>3. \A x \in G : x[1] <= c
        <5> SUFFICES ASSUME NEW x \in G PROVE x[1] <= c
          OBVIOUS
        <5>1. CASE x \in r
          BY <4>2, <5>1
        <5>2. CASE x \in H
          <6>1. x[1] \in Nat /\ x[1] <= db.last_sequence
            BY <2>2, <3>3, <5>2, HeldType DEF Entry, H
          <6> QED
            BY <2>8, <4>2, <6>1
        <5> QED
          BY <3>1, <5>1, <5>2
      <4> QED
        BY <4>2, <4>3 DEF Bounded, Seqs
    <3> QED
      BY <2>1, <2>6, <3>2, <3>4, <3>5, Zenon DEF EntriesInv, G
  <2>13. OpeningInv' /\ RepairInv'
    BY <2>1, <2>2, <2>3, OpenStays DEF PhaseInv
  <2>14. ProcessType'
    <3>1. group' \in [pc : {"none", "room", "sync", "insert", "failed"}, n : Nat]
      BY <2>3, <2>4
    <3> QED
      BY <2>1, <2>2, <3>1, Zenon DEF ProcessType
  <2>15. OpenInv'
    BY <2>1, <2>2, <2>6, Zenon DEF OpenInv
  <2>16. InFlight' /\ group'.n = n /\ group'.pc # "failed" /\ (group'.pc = "insert" => ~queue[1].sync)
    BY DEF InFlight
  <2>17. SequenceInv'
    <3>1. ASSUME NEW i \in DOMAIN logs', NEW j \in DOMAIN logs'[i].data
          PROVE  \/ i = db.logfile /\ j = Len(logs'[i].data)
                 \/ \A x \in logs'[i].data[j] : x[1] <= db.last_sequence
      <4>1. CASE i # db.logfile
        BY <2>2, <2>3, <2>6, <3>1, <4>1 DEF SequenceInv
      <4>2. CASE i = db.logfile /\ j \in DOMAIN old.data
        <5>1. logs'[i].data[j] = logs[i].data[j] /\ i \in DOMAIN logs /\ j \in DOMAIN logs[i].data
          BY <2>6, <2>7, <2>9, <4>2, Zenon
        <5> QED
          BY <2>2, <2>3, <5>1, Zenon DEF SequenceInv
      <4>3. CASE i = db.logfile /\ j \notin DOMAIN old.data
        BY <2>7, <2>9, <3>1, <4>3
      <4> QED
        BY <4>1, <4>2, <4>3
    <3> QED
      BY <2>1, <2>2, <2>16, <3>1, Zenon DEF SequenceInv
  <2>18. EditInv'
    BY <2>1, <2>2, Zenon DEF EditInv, Flush, Compaction
  <2>19. GroupInv'
    <3>1. n <= Len(queue) /\ n # 0 /\ Len(log.data) # 0
      BY <2>3, <2>4, <2>7
    <3> QED
      BY <2>1, <2>3, <2>4, <2>7, <2>9, <2>16, <3>1, Zenon DEF GroupInv
  <2>20. QueueInv'
    BY <2>1, <2>2, Zenon DEF QueueInv
  <2> QED
    BY <2>10, <2>11, <2>12, <2>13, <2>14, <2>15, <2>17, <2>18, <2>19, <2>20
       DEF IInv, DirInv, ProcessInv
\* The numbers of a group are used up and its writers return.
<1>NumbersUsed. ASSUME IInv, db.pc = "open", NEW mem \in SUBSET Entry, NEW N \in Nat, NEW err \in BOOLEAN,
                       db' = [db EXCEPT !.mem = mem, !.last_sequence = N, !.bg_error = err],
                       db.bg_error => err,
                       logs' = logs, UNCHANGED <<odd, NotWriting>>, spent' = spent,
                       queue' \in Seq(Writer), group' = NoGroup, ~InFlight', GroupInv', QueueInv',
                       synced' \subseteq Nat,
                       mem \subseteq Held(db.mem, db.imm, tables, logs),
                       \A x \in Held(db.mem, db.imm, tables, logs) : x[1] <= N
                PROVE  IInv'
  <2> USE <1>NumbersUsed
  <2>1. /\ odd' = odd /\ manifests' = manifests /\ tables' = tables /\ current' = current /\ bg' = bg
        /\ repair' = repair /\ bound' = bound
    BY DEF NotWriting
  <2>2. /\ DirType /\ FilesInv /\ CurrentInv /\ EntriesInv /\ CompleteInv /\ PhaseInv
        /\ ProcessType /\ OpenInv /\ SequenceInv /\ EditInv
    BY DEF IInv, DirInv, OpeningInv, ProcessInv
  <2>3. db \in DB
    BY <2>2 DEF ProcessType
  <2>4. /\ db' \in DB /\ db'.pc = "open" /\ db'.mem = mem /\ db'.last_sequence = N /\ db'.bg_error = err
        /\ db'.imm = db.imm /\ db'.version = db.version /\ db'.manifest = db.manifest
        /\ db'.log_number = db.log_number /\ db'.logfile = db.logfile
        /\ db'.next_file_number = db.next_file_number
    BY <2>3, Zenon DEF DB
  <2>5. DirType' /\ FilesInv' /\ CurrentInv'
    BY <2>1, <2>2, DirStays DEF dir
  <2>6. EntriesInv'
    <3>1. Held(db'.mem, db'.imm, tables', logs') \subseteq Held(db.mem, db.imm, tables, logs)
      BY <2>1, <2>4, HeldLemma
    <3> QED
      BY <2>1, <2>2, <3>1, EntriesStay
  <2>7. CompleteInv'
    BY <2>1, <2>2, Zenon DEF CompleteInv, Trusted
  <2>8. OpeningInv' /\ RepairInv'
    BY <2>1, <2>2, <2>4, OpenStays DEF PhaseInv
  <2>9. ProcessType'
    BY <2>1, <2>2, <2>4 DEF ProcessType, NoGroup
  <2>10. OpenInv'
    BY <2>1, <2>2, <2>4, Zenon DEF OpenInv
  <2>11. SequenceInv'
    <3>1. /\ \A x \in mem : x[1] <= N
          /\ \A M \in db.imm : \A x \in M : x[1] <= N
          /\ \A n \in DOMAIN tables : \A x \in tables[n] : x[1] <= N
          /\ \A n \in DOMAIN logs : \A i \in DOMAIN logs[n].data : \A x \in logs[n].data[i] : x[1] <= N
      BY HeldLemma
    <3> QED
      BY <2>1, <2>4, <3>1, Zenon DEF SequenceInv
  <2>12. EditInv'
    BY <2>1, <2>2, <2>4, Zenon DEF EditInv, Flush, Compaction
  <2> QED
    BY <2>5, <2>6, <2>7, <2>8, <2>9, <2>10, <2>11, <2>12 DEF IInv, DirInv, ProcessInv
\* A group is written to the log.
<1>AddRecordStep. ASSUME IInv, AddRecord
                  PROVE  IInv'
  <2> USE <1>AddRecordStep
  <2> DEFINE n == GroupSize
             r == Numbered(SubSeq(queue, 1, n), db.last_sequence + 1)
             N == NextSequence(SubSeq(queue, 1, n))
  <2>1. AtFront /\ UNCHANGED <<promises, spent, odd, NotWriting>>
    BY DEF AddRecord
  <2>2. \/ /\ logs' = [logs EXCEPT ![db.logfile].data = Append(@, r)]
           /\ group' = [pc |-> IF queue[1].sync THEN "sync" ELSE "insert", n |-> n]
           /\ UNCHANGED <<queue, db>>
        \/ db' = [db EXCEPT !.last_sequence = N] /\ Return(n) /\ UNCHANGED logs
        \/ Return(1) /\ UNCHANGED <<logs, db>>
    BY DEF AddRecord
  <2>3. CASE /\ logs' = [logs EXCEPT ![db.logfile].data = Append(@, r)]
             /\ group' = [pc |-> IF queue[1].sync THEN "sync" ELSE "insert", n |-> n]
             /\ UNCHANGED <<queue, db>>
    BY <2>1, <2>3, <1>RecordAdded, Zenon
  <2>4. CASE db' = [db EXCEPT !.last_sequence = N] /\ Return(n) /\ UNCHANGED logs
    <3>1. /\ queue \in Seq(Writer) /\ queue # <<>> /\ db.pc = "open" /\ QueueInv /\ db \in DB
          /\ synced \subseteq Nat /\ db.mem \in SUBSET Entry /\ db.bg_error \in BOOLEAN
          /\ db.last_sequence \in Nat
      BY <2>1, FrontFacts DEF AtFront, IInv, ProcessType, DB
    <3>2. n \in 1 .. Len(queue) /\ n \in 0 .. Len(queue)
      BY <3>1, GroupSizeLemma
    <3>3. synced' = synced /\ spent' = spent /\ odd' = odd /\ UNCHANGED NotWriting
      BY <2>1 DEF promises
    <3>4. /\ spent.writes \in Nat /\ \A i \in n + 1 .. Len(queue) : queue[i].id \notin synced'
          /\ \A p \in synced' : p <= spent.writes
      BY <2>1, <3>2, <3>3, FrontFacts
    <3>5. queue' \in Seq(Writer) /\ group' = NoGroup /\ ~InFlight' /\ GroupInv' /\ QueueInv'
      BY <2>4, <3>1, <3>2, <3>3, <3>4, <1>ReturnLemma
    <3>6. /\ Count(SubSeq(queue, 1, n)) \in Nat
          /\ \A x \in Held(db.mem, db.imm, tables, logs) : x[1] <= db.last_sequence
      BY <2>1, <3>2, RecordIsNew
    <3>7. N \in Nat /\ db.last_sequence <= N
      BY <3>1, <3>6 DEF NextSequence
    <3>8. \A x \in Held(db.mem, db.imm, tables, logs) : x[1] <= N
      <4>1. \A x \in Held(db.mem, db.imm, tables, logs) : x[1] \in Nat
        BY HeldType DEF IInv, Entry
      <4> HIDE DEF N
      <4> QED
        BY <3>1, <3>6, <3>7, <4>1
    <3>9. db' = [db EXCEPT !.mem = db.mem, !.last_sequence = N, !.bg_error = db.bg_error]
      <4> HIDE DEF N
      <4> QED
        BY <2>4, <3>1, Zenon DEF DB
    <3>10. db.mem \subseteq Held(db.mem, db.imm, tables, logs)
      BY HeldLemma
    <3> HIDE DEF N
    <3> QED
      BY <2>4, <3>1, <3>3, <3>5, <3>7, <3>8, <3>9, <3>10, <1>NumbersUsed, Zenon
  <2>5. CASE Return(1) /\ UNCHANGED <<logs, db>>
    <3>1. /\ UNCHANGED <<dir, db, bg, repair, odd>>
          /\ db' = db /\ bg' = bg /\ repair' = repair /\ bound' = bound /\ synced' = synced /\ spent' = spent
      BY <2>1, <2>5 DEF NotWriting, dir, promises
    <3>2. queue' \in Seq(Writer) /\ group' = NoGroup /\ ~InFlight' /\ GroupInv' /\ QueueInv'
      BY <2>1, <2>5, <3>1, FrontFacts, <1>ReturnLemma
    <3>3. DirType' /\ DirInv' /\ OpeningInv' /\ RepairInv' /\ OpenInv' /\ SequenceInv' /\ EditInv'
      BY <2>1, <3>1, <3>2, FrontFacts, OnlyQueue
    <3>4. ProcessType'
      BY <3>1, <3>2 DEF IInv, ProcessType, NoGroup
    <3> QED
      BY <3>2, <3>3, <3>4 DEF IInv, ProcessInv
  <2> QED
    BY <2>2, <2>3, <2>4, <2>5
\* The log is synced, or that fails.
<1>SyncLogStep. ASSUME IInv, SyncLog
                PROVE  IInv'
  <2> USE <1>SyncLogStep
  <2>1. /\ group.pc = "sync" /\ InFlight /\ db' = db /\ queue' = queue /\ synced' = synced
        /\ spent' = spent /\ odd' = odd /\ manifests' = manifests /\ tables' = tables
        /\ current' = current /\ bg' = bg /\ repair' = repair /\ bound' = bound
    BY DEF SyncLog, InFlight, NotWriting, promises
  <2>2. /\ DirType /\ FilesInv /\ CurrentInv /\ EntriesInv /\ CompleteInv /\ PhaseInv
        /\ ProcessType /\ OpenInv /\ SequenceInv /\ EditInv /\ GroupInv /\ QueueInv
    BY DEF IInv, DirInv, OpeningInv, ProcessInv
  <2>3. db.pc = "open" /\ group \in [pc : {"none", "room", "sync", "insert", "failed"}, n : Nat]
    BY <2>1, <2>2, FlightFacts DEF ProcessType
  <2>4. CASE group' = [group EXCEPT !.pc = "failed"] /\ logs' = logs
    <3>1. group'.pc = "failed" /\ group'.n = group.n /\ InFlight'
          /\ group' \in [pc : {"none", "room", "sync", "insert", "failed"}, n : Nat]
      BY <2>3, <2>4 DEF InFlight
    <3>2. DirType' /\ DirInv' /\ OpeningInv' /\ RepairInv' /\ OpenInv' /\ SequenceInv' /\ EditInv'
      BY <2>1, <2>3, <2>4, <3>1, OnlyQueue DEF dir
    <3>3. ProcessType' /\ QueueInv'
      BY <2>1, <2>2, <3>1, Zenon DEF ProcessType, QueueInv
    <3>4. GroupInv'
      <4>1. "insert" # "failed" /\ "none" # "sync"
        OBVIOUS
      <4> QED
        BY <2>1, <2>2, <2>4, <3>1, <4>1, Zenon DEF GroupInv
    <3> QED
      BY <3>2, <3>3, <3>4 DEF IInv, ProcessInv
  <2>5. CASE /\ logs' = [logs EXCEPT ![db.logfile].synced = Len(logs[db.logfile].data)]
             /\ group' = [group EXCEPT !.pc = "insert"]
    <3>1. group'.pc = "insert" /\ group'.n = group.n /\ InFlight'
          /\ group' \in [pc : {"none", "room", "sync", "insert", "failed"}, n : Nat]
      BY <2>3, <2>5 DEF InFlight
    <3>2. /\ Files(logs', Log) /\ DOMAIN logs' = DOMAIN logs
          /\ \A n \in DOMAIN logs : n # db.logfile => logs'[n] = logs[n]
          /\ \A n \in DOMAIN logs : logs'[n].data = logs[n].data
          /\ logs'[db.logfile].synced = Len(logs[db.logfile].data)
      <4> DEFINE log == [logs[db.logfile] EXCEPT !.synced = Len(logs[db.logfile].data)]
      <4>1. /\ Files(logs, Log) /\ db.logfile \in DOMAIN logs /\ logs[db.logfile] \in Log
            /\ Len(logs[db.logfile].data) \in Nat
        BY <2>1, <2>2, FlightFacts DEF DirType
      <4>2. log \in Log /\ log.data = logs[db.logfile].data /\ log.synced = Len(logs[db.logfile].data)
        BY <4>1 DEF Log
      <4>3. logs' = [logs EXCEPT ![db.logfile] = log]
        BY <2>5
      <4> HIDE DEF log
      <4> QED
        BY <4>1, <4>2, <4>3 DEF Files
    <3>3. DirType' /\ FilesInv'
      <4>1. Len(logs[db.logfile].data) \in Nat
        BY <2>1, FlightFacts
      <4>2. \A n \in DOMAIN logs' : logs'[n].synced <= Len(logs'[n].data)
        BY <2>2, <3>2, <4>1 DEF FilesInv
      <4> QED
        BY <2>1, <2>2, <3>2, <4>2, Zenon DEF DirType, FilesInv
    <3>4. CurrentInv' /\ CompleteInv'
      BY <2>1, <2>2, Zenon DEF CurrentInv, CompleteInv, Trusted
    <3>5. EntriesInv'
      <4>1. Held(db'.mem, db'.imm, tables', logs') \subseteq Held(db.mem, db.imm, tables, logs)
        BY <2>1, <3>2, HeldLemma
      <4> QED
        BY <2>1, <2>2, <3>2, <4>1, EntriesStay
    <3>6. OpeningInv' /\ RepairInv'
      BY <2>1, <2>2, <2>3, OpenStays DEF PhaseInv
    <3>7. ProcessType' /\ QueueInv'
      BY <2>1, <2>2, <3>1, Zenon DEF ProcessType, QueueInv
    <3>8. OpenInv'
      BY <2>1, <2>2, <3>2, Zenon DEF OpenInv
    <3>9. SequenceInv'
      BY <2>1, <2>2, <3>1, <3>2, Zenon DEF SequenceInv
    <3>10. EditInv'
      BY <2>1, <2>2, Zenon DEF EditInv, Flush, Compaction
    <3>11. GroupInv'
      <4>1. logs'[db.logfile].data = logs[db.logfile].data
        BY <2>1, <3>2, FlightFacts
      <4> QED
        BY <2>1, <2>2, <3>1, <3>2, <4>1 DEF GroupInv
    <3> QED
      BY <3>3, <3>4, <3>5, <3>6, <3>7, <3>8, <3>9, <3>10, <3>11 DEF IInv, DirInv, ProcessInv
  <2> QED
    BY <2>4, <2>5 DEF SyncLog
\* A group ends: its entries are in the memtable unless the sync failed.
<1>WriteEndsStep. ASSUME IInv, WriteEnds
                  PROVE  IInv'
  <2> USE <1>WriteEndsStep
  <2> DEFINE n == group.n
             data == logs[db.logfile].data
             record == data[Len(data)]
             failed == group.pc = "failed"
             ws == SubSeq(queue, 1, n)
             mem == IF failed THEN db.mem ELSE db.mem \cup record
             N == NextSequence(ws)
             err == db.bg_error \/ failed
  <2>1. /\ InFlight /\ Return(n) /\ logs' = logs /\ spent' = spent /\ odd' = odd /\ UNCHANGED NotWriting
        /\ db' = [db EXCEPT !.mem = mem, !.last_sequence = N, !.bg_error = err]
        /\ synced' \subseteq synced \cup Ids(record) \cup {queue[i].id : i \in 1 .. n}
    BY DEF WriteEnds, InFlight
  <2>2. /\ db.pc = "open" /\ queue \in Seq(Writer) /\ Len(queue) \in Nat
        /\ n \in 1 .. Len(queue) /\ db.last_sequence \in Nat /\ db.logfile \in DOMAIN logs
        /\ Len(data) \in DOMAIN data /\ record = Numbered(ws, db.last_sequence + 1)
    BY <2>1, FlightFacts
  <2>3. /\ ProcessType /\ DirType /\ SequenceInv /\ QueueInv
    BY DEF IInv, ProcessInv
  <2>4. /\ Count(ws) \in Nat /\ record \subseteq Entry
        /\ \A x \in record : x[1] < db.last_sequence + 1 + Count(ws)
        /\ \A x \in record : \E i \in 1 .. n : x[2] = queue[i].id
    <3>1. ws \in Seq(Writer) /\ DOMAIN ws = 1 .. n /\ (\A i \in 1 .. n : ws[i] = queue[i])
          /\ db.last_sequence + 1 \in Nat
      BY <2>2
    <3>2. PICK w \in Seq(Writer), s \in Nat : w = ws /\ s = db.last_sequence + 1
      BY <3>1, Zenon
    <3>3. /\ Count(w) \in Nat /\ Numbered(w, s) \subseteq Entry
          /\ \A x \in Numbered(w, s) : x[1] < s + Count(w)
          /\ \A x \in Numbered(w, s) : \E i \in DOMAIN w : x[2] = w[i].id
      BY NumberedLemma
    <3>4. Numbered(w, s) = record
      BY <2>2, <3>2, Zenon
    <3>5. \A x \in record : \E i \in 1 .. n : x[2] = queue[i].id
      <4> HIDE DEF record, ws
      <4> QED
        BY <3>1, <3>2, <3>3, <3>4
    <3> HIDE DEF record, ws
    <3> QED
      BY <3>2, <3>3, <3>4, <3>5
  <2>5. N \in Nat /\ db.last_sequence <= N /\ N = db.last_sequence + Count(ws)
    BY <2>2, <2>4 DEF NextSequence
  <2> HIDE DEF N, ws
  <2>6. \A x \in record : x[1] <= N
    BY <2>2, <2>4, <2>5 DEF Entry
  <2>7. \A x \in Held(db.mem, db.imm, tables, logs) : x[1] <= N
    <3> SUFFICES ASSUME NEW x \in Held(db.mem, db.imm, tables, logs) PROVE x[1] <= N
      OBVIOUS
    <3>1. x[1] \in Nat
      BY <2>3, HeldType DEF Entry
    <3>2. x[1] <= db.last_sequence \/ x \in record
      BY <2>2, <2>3, HeldLemma DEF SequenceInv
    <3> HIDE DEF record
    <3> QED
      BY <2>2, <2>5, <2>6, <3>1, <3>2
  <2>8. record \subseteq Held(db.mem, db.imm, tables, logs) /\ db.mem \subseteq Held(db.mem, db.imm, tables, logs)
    BY <2>2, HeldLemma
  <2> HIDE DEF record
  <2>9. mem \in SUBSET Entry /\ mem \subseteq Held(db.mem, db.imm, tables, logs)
    BY <2>3, <2>4, <2>8 DEF ProcessType, DB
  <2>10. err \in BOOLEAN /\ (db.bg_error => err)
    BY <2>3 DEF ProcessType, DB
  <2>11. /\ \A i \in n + 1 .. Len(queue) : queue[i].id \notin synced'
         /\ \A p \in synced' : p <= spent.writes /\ p \in Nat
         /\ spent.writes \in Nat
    <3>1. \A i \in 1 .. Len(queue) : /\ i \in DOMAIN queue /\ queue[i].id \in Nat
                                     /\ queue[i].id <= spent.writes /\ queue[i].id \notin synced
      BY <2>2, <2>3, WriterLemma DEF QueueInv
    <3>2. \A p \in synced' : p \in synced \/ \E i \in 1 .. n : p = queue[i].id
      BY <2>1, <2>4 DEF Ids
    <3>3. \A i \in 1 .. n : i \in 1 .. Len(queue)
      BY <2>2
    <3>4. \A i \in n + 1 .. Len(queue) : i \in 1 .. Len(queue) /\ \A j \in 1 .. n : i # j
      BY <2>2
    <3>5. \A p \in synced : p \in Nat /\ p <= spent.writes
      BY <2>3 DEF ProcessType, QueueInv
    <3>6. spent.writes \in Nat
      BY <2>3 DEF ProcessType, Spent
    <3>7. \A i, j \in DOMAIN queue : queue[i].id = queue[j].id => i = j
      BY <2>3 DEF QueueInv
    <3>8. \A i \in n + 1 .. Len(queue) : queue[i].id \notin synced'
      BY <3>1, <3>2, <3>3, <3>4, <3>7
    <3>9. \A p \in synced' : p <= spent.writes /\ p \in Nat
      BY <3>1, <3>2, <3>3, <3>5
    <3> QED
      BY <3>6, <3>8, <3>9
  <2>12. queue' \in Seq(Writer) /\ group' = NoGroup /\ ~InFlight' /\ GroupInv' /\ QueueInv'
    <3>1. n \in 0 .. Len(queue)
      BY <2>2
    <3> QED
      BY <2>1, <2>2, <2>3, <2>11, <3>1, <1>ReturnLemma
  <2>13. synced' \subseteq Nat
    BY <2>11
  <2> HIDE DEF mem, err
  <2> QED
    BY <2>1, <2>2, <2>5, <2>7, <2>9, <2>10, <2>12, <2>13, <1>NumbersUsed, Zenon
<1> QED
  BY <1>EnqueueStep, <1>RoomFailsStep, <1>SwitchLogStep, <1>AddRecordStep, <1>SyncLogStep,
     <1>WriteEndsStep DEF Writing

\* The steps of DB::Write keep what is promised.
LEMMA WritingIsDurable ==
    ASSUME NumberFacts
    PROVE  IInv /\ IInv' /\ DInv /\ ((\E s \in bound.sizes, sync \in BOOLEAN : Enqueue(s, sync)) \/ Writing) => DInv'
\* A writer queues up.
<1>EnqueueDurable. ASSUME IInv, IInv', DInv, NEW size, NEW sync, Enqueue(size, sync)
                   PROVE  DInv'
  <2> USE <1>EnqueueDurable
  <2>1. /\ db.pc = "open" /\ db' = db /\ group' = group
        /\ UNCHANGED <<logs, manifests, tables, current, promised, synced, odd>>
    BY DEF Enqueue, promises, NotWriting
  <2>2. InFlight' <=> InFlight
    BY <2>1 DEF InFlight
  <2>3. db.bg_error \in BOOLEAN
    BY DEF IInv, ProcessType, DB
  <2> QED
    BY <2>1, <2>2, <2>3, QuietDurable
\* MakeRoomForWrite fails.
<1>RoomFailsDurable. ASSUME IInv, IInv', DInv, RoomFails
                     PROVE  DInv'
  <2> USE <1>RoomFailsDurable
  <2>1. /\ db.pc = "open" /\ db' = db /\ ~InFlight
        /\ UNCHANGED <<logs, manifests, tables, current, promised, synced, odd>>
    BY DEF RoomFails, AtFront, promises, NotWriting, InFlight
  <2>2. db.bg_error \in BOOLEAN
    BY DEF IInv, ProcessType, DB
  <2> QED
    BY <2>1, <2>2, QuietDurable
\* More logs hold more.
<1>LogsGrow. ASSUME NEW ls, NEW ks, \A n \in DOMAIN ls : n \in DOMAIN ks /\ ks[n] = ls[n], NEW l
             PROVE  LogsFrom(l, ls) \subseteq LogsFrom(l, ks) /\ SafeFrom(l, ls) \subseteq SafeFrom(l, ks)
  BY <1>LogsGrow, InLogs
\* A new log and memtable: the log written so far holds what the memtable held.
<1>SwitchLogDurable. ASSUME IInv, IInv', DInv, SwitchLog
                     PROVE  DInv'
  <2> USE <1>SwitchLogDurable
  <2> DEFINE n == db.next_file_number
  <2>1. /\ db.pc = "open" /\ ~InFlight /\ ~db.bg_error /\ db.imm = {}
        /\ db' = [db EXCEPT !.logfile = n, !.next_file_number = n + 1, !.imm = {db.mem}, !.mem = {}]
        /\ logs' = Put(logs, n, Written(<<>>, 0))
        /\ UNCHANGED <<manifests, tables, current, promised, synced, odd>>
    BY DEF SwitchLog, AtFront, promises, NotWriting, InFlight
  <2>2. /\ manifests' = manifests /\ tables' = tables /\ current' = current
        /\ promised' = promised /\ odd' = odd /\ (Fine' <=> Fine) /\ Safe' = Safe
    BY <2>1 DEF Fine, Safe
  <2>3. db \in DB /\ n \in Nat /\ db.logfile \in Nat /\ db.log_number \in Nat /\ Files(logs, Log)
    BY DEF IInv, ProcessType, DB, DirType
  <2>4. /\ db.log_number = db.logfile /\ db.logfile < n /\ db.logfile \in DOMAIN logs
        /\ \A i \in DOMAIN logs : i <= db.logfile
    BY <2>1 DEF IInv, ProcessInv, OpenInv
  <2>5. /\ db'.pc = "open" /\ db'.logfile = n /\ db'.imm = {db.mem} /\ db'.mem = {}
        /\ db'.version = db.version /\ db'.log_number = db.log_number
    <3>1. PICK a, b : b = {db.mem} /\ db' = [db EXCEPT !.logfile = n, !.next_file_number = a, !.imm = b, !.mem = {}]
      BY <2>1, Zenon
    <3> QED
      BY <2>1, <2>3, <3>1 DEF DB
  <2>6. /\ DOMAIN logs' = DOMAIN logs \cup {n} /\ logs'[n] = Written(<<>>, 0) /\ n \notin DOMAIN logs
        /\ \A i \in DOMAIN logs : logs'[i] = logs[i]
    <3>1. n \notin DOMAIN logs
      BY <2>3, <2>4 DEF Files
    <3> QED
      BY <2>1, <2>3, <3>1 DEF Files, Put
  <2>7. DOMAIN logs'[n].data = {}
    <3>1. Written(<<>>, 0).data = <<>>
      BY DEF Written
    <3> QED
      BY <2>6, <3>1
  <2> HIDE DEF n
  <2>8. Contents' = Contents
    BY <2>1, <2>2, <2>5 DEF Contents
  <2>9. PICK ks, d, m : ks = logs' /\ d = db' /\ m = manifests[current]
    OBVIOUS
  <2>10. SafeFrom(db.log_number, logs) \subseteq SafeFrom(db.log_number, ks)
    BY <2>6, <2>9, <1>LogsGrow
  <2>11. ASSUME Fine PROVE Safe \subseteq Ids(TablesOf(db.version, tables) \cup SafeFrom(db.log_number, ks))
    <3>1. Safe \subseteq Ids(TablesOf(db.version, tables) \cup SafeFrom(db.log_number, logs))
      BY <2>1, <2>11, Zenon DEF DInv, ContentsInv
    <3>2. TablesOf(db.version, tables) \cup SafeFrom(db.log_number, logs)
             \subseteq TablesOf(db.version, tables) \cup SafeFrom(db.log_number, ks)
      BY <2>10
    <3> QED
      BY <3>1, <3>2, IdsGrow, Zenon
  <2>12. ASSUME Fine, NEW k \in Kept(m) PROVE Covers(m, k, d, tables)
    <3>1. Covers(m, k, db, tables)
      BY <2>1, <2>9, <2>12, Zenon DEF DInv, ContentsInv
    <3>2. m.data[k].log \in Nat
      <4>1. m \in Manifest /\ k \in 1 .. Len(m.data) /\ Full(m.data[k])
        BY <2>1, <2>9, <2>12, OpenFacts
      <4> QED
        BY <4>1, ManifestLemma
    <3>3. /\ TablesOf(d.version, tables) \subseteq TablesOf(Ver(m.data, k), tables)
          /\ m.data[k].log <= db.logfile
      BY <2>5, <2>9, <3>1 DEF Covers
    <3>4. m.data[k].log <= d.logfile /\ m.data[k].log <= d.log_number
      <4>1. db.logfile <= n /\ m.data[k].log <= db.logfile
        BY <2>3, <2>4, <3>3, BelowNext, Zenon
      <4>2. m.data[k].log <= n
        BY <2>3, <3>2, <4>1, AtMostThrough, Zenon
      <4> QED
        BY <2>4, <2>5, <2>9, <4>1, <4>2, Zenon
    <3> QED
      BY <3>3, <3>4 DEF Covers
  <2>13. ASSUME Fine, NEW x \in UNION db'.imm
         PROVE  \E i \in DOMAIN logs' : i >= db'.log_number /\ \E j \in DOMAIN logs'[i].data : x \in logs'[i].data[j]
    <3>1. x \in db.mem
      BY <2>5, <2>13
    <3>2. \E j \in DOMAIN logs[db.logfile].data : x \in logs[db.logfile].data[j]
      BY <2>1, <2>13, <3>1 DEF DInv, ContentsInv
    <3>3. db.logfile >= db'.log_number
      BY <2>3, <2>4, <2>5
    <3> QED
      BY <2>4, <2>6, <3>2, <3>3
  <2>14. ASSUME Fine, NEW i \in DOMAIN logs', db'.log_number <= i, i < db'.logfile, NEW j \in DOMAIN logs'[i].data
         PROVE  logs'[i].data[j] \subseteq UNION db'.imm
    <3>1. i # n /\ i \in DOMAIN logs
      BY <2>3, <2>5, <2>6, <2>14
    <3>2. i = db.logfile
      BY <2>3, <2>4, <2>5, <2>14, <3>1 DEF Files
    <3>3. logs[db.logfile].data[j] \subseteq db.mem
      BY <2>1, <2>6, <2>14, <3>1, <3>2 DEF DInv, ContentsInv
    <3> QED
      BY <2>5, <2>6, <3>1, <3>2, <3>3
  <2>15. ContentsInv'
    <3>1. Fine => promised \subseteq Ids(Contents)
      BY <2>1 DEF DInv, ContentsInv
    <3>2. db'.mem = {} /\ DOMAIN logs'[db'.logfile].data = {}
      BY <2>5, <2>7
    <3> QED
      BY <2>2, <2>5, <2>8, <2>9, <2>11, <2>12, <2>13, <2>14, <3>1, <3>2, Zenon DEF ContentsInv
  <2>16. Fine' => "repair" \notin odd'
    BY <2>1, <2>2 DEF DInv, RecoveryInv
  <2> QED
    BY <2>5, <2>15, <2>16, OpenDurable
\* Logs that grow, or of which more is safe, hold more.
<1>LogsExtend. ASSUME NEW ls, NEW ks, DOMAIN ks = DOMAIN ls,
                      \A n \in DOMAIN ls : \A i \in DOMAIN ls[n].data :
                         i \in DOMAIN ks[n].data /\ ks[n].data[i] = ls[n].data[i],
                      \A n \in DOMAIN ls : \A i \in 1 .. ls[n].synced :
                         i \in 1 .. ks[n].synced /\ ks[n].data[i] = ls[n].data[i],
                      NEW l
               PROVE  LogsFrom(l, ls) \subseteq LogsFrom(l, ks) /\ SafeFrom(l, ls) \subseteq SafeFrom(l, ks)
  <2> USE <1>LogsExtend
  <2>1. LogsFrom(l, ls) \subseteq LogsFrom(l, ks)
    BY InLogs
  <2>2. SafeFrom(l, ls) \subseteq SafeFrom(l, ks)
    BY InLogs
  <2> QED
    BY <2>1, <2>2
\* The log in use grows, or more of it is safe, while a group writes.
<1>LogDurable. ASSUME IInv, IInv', DInv, db.pc = "open", db' = db, InFlight',
                      UNCHANGED <<manifests, tables, current, promised, synced, odd>>,
                      DOMAIN logs' = DOMAIN logs,
                      \A n \in DOMAIN logs : n # db.logfile => logs'[n] = logs[n],
                      LET f == logs[db.logfile]
                          g == logs'[db.logfile]
                      IN /\ f.synced <= g.synced /\ Len(f.data) <= Len(g.data)
                         /\ \A i \in DOMAIN f.data : g.data[i] = f.data[i]
                         /\ Len(g.data) = IF InFlight THEN Len(f.data) ELSE Len(f.data) + 1
               PROVE  DInv'
  <2> USE <1>LogDurable
  <2> DEFINE f == logs[db.logfile]
             g == logs'[db.logfile]
  <2>1. /\ manifests' = manifests /\ tables' = tables /\ current' = current
        /\ promised' = promised /\ odd' = odd /\ (Fine' <=> Fine) /\ Safe' = Safe
    BY Zenon DEF Fine, Safe
  <2>2. /\ db.logfile \in DOMAIN logs /\ f \in Log /\ g \in Log /\ f.synced <= Len(f.data)
        /\ db.logfile \in Nat
    BY DEF IInv, ProcessType, DB, ProcessInv, OpenInv, DirType, Files, DirInv, FilesInv
  <2>3. /\ f.data \in Seq(SUBSET Entry) /\ g.data \in Seq(SUBSET Entry) /\ f.synced \in Nat /\ g.synced \in Nat
    BY <2>2, Zenon DEF Log
  <2>4. /\ Len(f.data) \in Nat /\ Len(g.data) \in Nat
        /\ DOMAIN f.data = 1 .. Len(f.data) /\ DOMAIN g.data = 1 .. Len(g.data)
        /\ f.synced <= g.synced /\ Len(f.data) <= Len(g.data)
        /\ \A i \in DOMAIN f.data : g.data[i] = f.data[i]
        /\ Len(g.data) = IF InFlight THEN Len(f.data) ELSE Len(f.data) + 1
    BY <2>3, SeqPlaces, Zenon
  <2> HIDE DEF f, g
  <2>5. /\ \A i \in DOMAIN f.data : i \in DOMAIN g.data /\ g.data[i] = f.data[i]
        /\ \A i \in 1 .. f.synced : i \in 1 .. g.synced /\ g.data[i] = f.data[i]
    BY <2>2, <2>3, <2>4, Intervals, Zenon
  <2>6. PICK ks : ks = logs'
    OBVIOUS
  <2>7. /\ \A n \in DOMAIN logs : \A i \in DOMAIN logs[n].data :
              i \in DOMAIN ks[n].data /\ ks[n].data[i] = logs[n].data[i]
        /\ \A n \in DOMAIN logs : \A i \in 1 .. logs[n].synced :
              i \in 1 .. ks[n].synced /\ ks[n].data[i] = logs[n].data[i]
    <3>1. ASSUME NEW n \in DOMAIN logs, n # db.logfile
          PROVE  /\ \A i \in DOMAIN logs[n].data : i \in DOMAIN ks[n].data /\ ks[n].data[i] = logs[n].data[i]
                 /\ \A i \in 1 .. logs[n].synced : i \in 1 .. ks[n].synced /\ ks[n].data[i] = logs[n].data[i]
      <4>1. DOMAIN ks[n].data = DOMAIN logs[n].data /\ ks[n] = logs[n]
        BY <2>6, <3>1
      <4>2. logs[n].data \in Seq(SUBSET Entry) /\ logs[n].synced <= Len(logs[n].data) /\ logs[n].synced \in Nat
        BY ZenonT(60) DEF IInv, DirType, Files, Log, DirInv, FilesInv
      <4> QED
        BY <4>1, <4>2
    <3> QED
      BY <2>5, <2>6, <3>1, ZenonT(60) DEF f, g
  <2>8. SafeFrom(db.log_number, logs) \subseteq SafeFrom(db.log_number, ks)
    BY <2>6, <2>7, <1>LogsExtend
  <2>9. ASSUME Fine PROVE Safe \subseteq Ids(TablesOf(db.version, tables) \cup SafeFrom(db.log_number, ks))
    <3>1. Safe \subseteq Ids(TablesOf(db.version, tables) \cup SafeFrom(db.log_number, logs))
      BY <2>9, ZenonT(60) DEF DInv, ContentsInv
    <3>2. TablesOf(db.version, tables) \cup SafeFrom(db.log_number, logs)
             \subseteq TablesOf(db.version, tables) \cup SafeFrom(db.log_number, ks)
      BY <2>8
    <3> QED
      BY <3>1, <3>2, IdsGrow, Zenon
  <2>10. ASSUME Fine, NEW x \in db.mem PROVE \E i \in DOMAIN g.data : x \in g.data[i]
    <3>1. PICK i \in DOMAIN f.data : x \in f.data[i]
      BY <2>10, ZenonT(60) DEF DInv, ContentsInv, f
    <3> QED
      BY <2>5, <3>1, Zenon
  <2>11. ASSUME Fine, ~db.bg_error, NEW i \in DOMAIN g.data
         PROVE  g.data[i] \subseteq db.mem \/ i = Len(g.data)
    <3>1. i # Len(g.data) => i \in DOMAIN f.data /\ ~(InFlight /\ i = Len(f.data))
      <4>1. CASE InFlight
        BY <2>4, <2>11, <4>1, Zenon
      <4>2. CASE ~InFlight
        <5>1. i \in 1 .. Len(f.data) + 1 /\ Len(g.data) = Len(f.data) + 1
          BY <2>4, <2>11, <4>2, Zenon
        <5> QED
          BY <2>4, <4>2, <5>1, Intervals, Zenon
      <4> QED
        BY <4>1, <4>2, Zenon
    <3>2. i # Len(g.data) => f.data[i] \subseteq db.mem
      BY <2>11, <3>1, ZenonT(60) DEF DInv, ContentsInv, f
    <3> QED
      BY <2>5, <3>1, <3>2
  <2>12. ASSUME Fine, NEW x \in UNION db.imm
         PROVE  \E n \in DOMAIN ks : n >= db.log_number /\ \E i \in DOMAIN ks[n].data : x \in ks[n].data[i]
    <3>1. PICK n \in DOMAIN logs : n >= db.log_number /\ \E i \in DOMAIN logs[n].data : x \in logs[n].data[i]
      BY <2>12, Zenon DEF DInv, ContentsInv
    <3> QED
      BY <2>6, <2>7, <3>1, ZenonT(60)
  <2>13. ASSUME Fine, NEW n \in DOMAIN ks, db.log_number <= n, n < db.logfile, NEW i \in DOMAIN ks[n].data
         PROVE  ks[n].data[i] \subseteq UNION db.imm
    <3>1. n # db.logfile
      BY <2>2, <2>13
    <3>2. n \in DOMAIN logs /\ ks[n] = logs[n]
      BY <2>6, <2>13, <3>1
    <3> QED
      BY <2>13, <3>2 DEF DInv, ContentsInv
  <2>14. Contents' = Contents
    BY <2>1 DEF Contents
  <2>15. ContentsInv'
    <3>1. Fine => /\ promised \subseteq Ids(Contents)
                  /\ \A k \in Kept(manifests[current]) : Covers(manifests[current], k, db, tables)
      BY Zenon DEF DInv, ContentsInv
    <3> QED
      BY <2>1, <2>6, <2>9, <2>10, <2>11, <2>12, <2>13, <2>14, <3>1, Zenon DEF ContentsInv, g
  <2>16. Fine' => "repair" \notin odd'
    BY <2>1 DEF DInv, RecoveryInv
  <2> QED
    BY <2>15, <2>16, OpenDurable
\* The group's record is appended.
<1>AddRecordDurable. ASSUME IInv, IInv', DInv, AddRecord
                     PROVE  DInv'
  <2> USE <1>AddRecordDurable
  <2> DEFINE size == GroupSize
             record == Numbered(SubSeq(queue, 1, size), db.last_sequence + 1)
  <2>1. /\ AtFront /\ ~db.bg_error /\ UNCHANGED <<promises, odd, NotWriting>>
        /\ \/ /\ logs' = [logs EXCEPT ![db.logfile].data = Append(@, record)]
              /\ group' = [pc |-> IF queue[1].sync THEN "sync" ELSE "insert", n |-> size] /\ db' = db
           \/ db' = [db EXCEPT !.last_sequence = NextSequence(SubSeq(queue, 1, size))] /\ logs' = logs
           \/ db' = db /\ logs' = logs
    BY DEF AddRecord
  <2>2. ~InFlight /\ db.pc = "open" /\ UNCHANGED <<manifests, tables, current, promised, synced, odd>>
    BY <2>1 DEF AtFront, InFlight, promises, NotWriting
  <2>3. record \in SUBSET Entry
    <3>1. AtFront /\ queue \in Seq(Writer) /\ queue # <<>>
      BY <2>1, FrontFacts DEF AtFront
    <3>2. size \in 1 .. Len(queue)
      BY <3>1, GroupSizeLemma
    <3> HIDE DEF size
    <3> QED
      BY <3>1, <3>2, RecordIsNew
  <2> HIDE DEF size, record
  <2>4. CASE /\ logs' = [logs EXCEPT ![db.logfile].data = Append(@, record)]
             /\ group' = [pc |-> IF queue[1].sync THEN "sync" ELSE "insert", n |-> size] /\ db' = db
    <3>1. PICK r \in SUBSET Entry : logs' = [logs EXCEPT ![db.logfile].data = Append(@, r)]
      BY <2>3, <2>4, Zenon
    <3>2. Files(logs, Log) /\ db.logfile \in DOMAIN logs /\ Files(logs', Log)
      BY <2>2, Zenon DEF IInv, DirType, ProcessInv, OpenInv
    <3>3. /\ DOMAIN logs' = DOMAIN logs
          /\ \A n \in DOMAIN logs : n # db.logfile => logs'[n] = logs[n]
          /\ logs'[db.logfile].data = Append(logs[db.logfile].data, r)
          /\ logs'[db.logfile].synced = logs[db.logfile].synced
      BY <3>1, <3>2, Zenon DEF Files, Log
    <3>4. InFlight'
      BY <2>4 DEF InFlight
    <3>5. PICK f, g : f = logs[db.logfile] /\ g = logs'[db.logfile]
      OBVIOUS
    <3>6. f.data \in Seq(SUBSET Entry) /\ f.synced \in Nat
      BY <3>2, <3>5 DEF Files, Log
    <3>7. r \in SUBSET Entry /\ g.data = Append(f.data, r) /\ g.synced = f.synced
      BY <3>1, <3>3, <3>5
    <3>8. /\ f.synced <= g.synced /\ Len(f.data) <= Len(g.data)
          /\ \A i \in DOMAIN f.data : g.data[i] = f.data[i]
          /\ Len(g.data) = Len(f.data) + 1
      BY <3>6, <3>7
    <3> QED
      BY <2>2, <2>4, <3>3, <3>4, <3>5, <3>8, <1>LogDurable
  <2>5. CASE /\ db' = [db EXCEPT !.last_sequence = NextSequence(SubSeq(queue, 1, size))] /\ logs' = logs
    <3>1. PICK s : db' = [db EXCEPT !.last_sequence = s]
      BY <2>5, Zenon
    <3>2. db \in DB
      BY DEF IInv, ProcessType
    <3>3. /\ db'.pc = db.pc /\ db'.mem = db.mem /\ db'.imm = db.imm /\ db'.version = db.version
          /\ db'.log_number = db.log_number /\ db'.logfile = db.logfile
      BY <3>1, <3>2 DEF DB
    <3> QED
      BY <2>1, <2>2, <2>5, <3>3, QuietDurable
  <2>6. CASE db' = db /\ logs' = logs
    BY <2>1, <2>2, <2>6, QuietDurable
  <2> QED
    BY <2>1, <2>4, <2>5, <2>6
\* The log in use is synced, or that fails.
<1>SyncLogDurable. ASSUME IInv, IInv', DInv, SyncLog
                   PROVE  DInv'
  <2> USE <1>SyncLogDurable
  <2>1. /\ InFlight /\ db' = db /\ UNCHANGED <<manifests, tables, current, promised, synced, odd>>
        /\ \/ /\ logs' = [logs EXCEPT ![db.logfile].synced = Len(logs[db.logfile].data)]
              /\ group' = [group EXCEPT !.pc = "insert"]
           \/ logs' = logs /\ group' = [group EXCEPT !.pc = "failed"]
    BY DEF SyncLog, InFlight, promises, NotWriting
  <2>2. InFlight'
    <3>1. group \in [pc : {"none", "room", "sync", "insert", "failed"}, n : Nat]
      BY DEF IInv, ProcessType
    <3> QED
      BY <2>1, <3>1 DEF InFlight
  <2>3. db.pc = "open" /\ db.logfile \in DOMAIN logs /\ Files(logs, Log) /\ db.bg_error \in BOOLEAN
    BY <2>1, FlightFacts DEF IInv, DirType, ProcessType, DB
  <2>4. CASE logs' = [logs EXCEPT ![db.logfile].synced = Len(logs[db.logfile].data)]
    <3>1. /\ DOMAIN logs' = DOMAIN logs
          /\ \A n \in DOMAIN logs : n # db.logfile => logs'[n] = logs[n]
          /\ logs'[db.logfile].data = logs[db.logfile].data
          /\ logs'[db.logfile].synced = Len(logs[db.logfile].data)
      BY <2>3, <2>4, Zenon DEF Files, Log
    <3>2. /\ logs[db.logfile].synced <= logs'[db.logfile].synced
          /\ Len(logs[db.logfile].data) <= Len(logs'[db.logfile].data)
      <4>1. logs[db.logfile].data \in Seq(SUBSET Entry) /\ logs[db.logfile].synced <= Len(logs[db.logfile].data)
        BY <2>3 DEF IInv, DirInv, FilesInv, Files, Log
      <4> QED
        BY <3>1, <4>1
    <3> QED
      BY <2>1, <2>2, <2>3, <3>1, <3>2, <1>LogDurable
  <2>5. CASE logs' = logs
    BY <2>1, <2>2, <2>3, <2>5, QuietDurable
  <2> QED
    BY <2>1, <2>4, <2>5
\* The group is applied to the memtable and its writers return: what is promised to those
\* who asked for sync is in the part of the log that is safe.
<1>WriteEndsDurable. ASSUME IInv, IInv', DInv, WriteEnds
                     PROVE  DInv'
  <2> USE <1>WriteEndsDurable
  <2> DEFINE log == logs[db.logfile]
             l == Len(log.data)
             record == log.data[l]
  <2>1. /\ InFlight /\ UNCHANGED <<logs, manifests, tables, current, odd>>
        /\ db' = [db EXCEPT !.mem = IF group.pc = "failed" THEN @ ELSE @ \cup record,
                            !.last_sequence = NextSequence(SubSeq(queue, 1, group.n)),
                            !.bg_error = @ \/ (group.pc = "failed")]
    BY DEF WriteEnds, InFlight, NotWriting
  <2>2. db \in DB /\ db.pc = "open" /\ db.bg_error \in BOOLEAN /\ Files(logs, Log)
    BY <2>1, FlightFacts, Zenon DEF IInv, ProcessType, DB, DirType
  <2>3. /\ db'.pc = "open" /\ db'.imm = db.imm /\ db'.version = db.version
        /\ db'.log_number = db.log_number /\ db'.logfile = db.logfile
        /\ db'.mem = (IF group.pc = "failed" THEN db.mem ELSE db.mem \cup record)
    <3>1. PICK m, s, e : /\ db' = [db EXCEPT !.mem = m, !.last_sequence = s, !.bg_error = e]
                         /\ m = (IF group.pc = "failed" THEN db.mem ELSE db.mem \cup record)
      BY <2>1, Zenon
    <3> QED
      BY <2>2, <3>1 DEF DB
  <2>4. db'.bg_error = (db.bg_error \/ (group.pc = "failed"))
    <3>1. PICK m, s, e : /\ db' = [db EXCEPT !.mem = m, !.last_sequence = s, !.bg_error = e]
                         /\ e = (db.bg_error \/ (group.pc = "failed"))
      BY <2>1, Zenon
    <3> QED
      BY <2>2, <3>1 DEF DB
  <2>5. CASE group.pc = "failed"
    <3>1. promised' = promised /\ synced' = synced
      BY <2>5 DEF WriteEnds
    <3> QED
      BY <2>1, <2>2, <2>3, <2>4, <2>5, <3>1, QuietDurable, Zenon
  <2>6. CASE group.pc = "insert"
    <3>1. /\ promised' = promised \cup Ids(record)
          /\ synced' = synced \cup (IF queue[1].sync THEN Ids(record) ELSE {})
                          \cup {queue[i].id : i \in {j \in 1 .. group.n : queue[j].sync /\ queue[j].size > 0}}
      BY <2>6 DEF WriteEnds
    <3>2. /\ db'.mem = db.mem \cup record /\ (db'.bg_error <=> db.bg_error)
          /\ logs' = logs /\ manifests' = manifests /\ tables' = tables /\ current' = current
          /\ odd' = odd /\ (Fine' <=> Fine)
      BY <2>1, <2>2, <2>3, <2>4, <2>6 DEF Fine
    <3>3. /\ queue \in Seq(Writer) /\ group.n \in 1 .. Len(queue) /\ l \in DOMAIN log.data
          /\ db.logfile \in DOMAIN logs /\ log \in Log /\ l \in Nat /\ l # 0 /\ db.last_sequence \in Nat
          /\ record = Numbered(SubSeq(queue, 1, group.n), db.last_sequence + 1)
          /\ \A i \in 1 .. group.n : queue[i].sync => queue[1].sync
          /\ queue[1].sync => log.synced = l
      BY <2>1, <2>6, FlightFacts
    <3> HIDE DEF log, l, record
    <3>4. PICK ws \in Seq(Writer), s \in Nat : ws = SubSeq(queue, 1, group.n) /\ s = db.last_sequence + 1
      <4>1. SubSeq(queue, 1, group.n) \in Seq(Writer) /\ db.last_sequence + 1 \in Nat
        BY <3>3
      <4> QED
        BY <4>1, Zenon
    <3>5. /\ \A x \in record : \E i \in 1 .. group.n : x[2] = queue[i].id
          /\ \A i \in 1 .. group.n : queue[i].size > 0 => \E x \in record : x[2] = queue[i].id
      <4>1. DOMAIN ws = 1 .. group.n /\ \A i \in 1 .. group.n : ws[i] = queue[i]
        BY <3>3, <3>4
      <4>2. record = Numbered(ws, s)
        BY <3>3, <3>4, Zenon
      <4>3. /\ \A x \in Numbered(ws, s) : \E i \in DOMAIN ws : x[2] = ws[i].id
            /\ \A i \in DOMAIN ws : ws[i].size > 0 => \E x \in Numbered(ws, s) : x[2] = ws[i].id
        BY NumberedLemma, Zenon
      <4> QED
        BY <4>1, <4>2, <4>3
    <3>6. \A i \in 1 .. group.n : queue[i].id \notin synced
      <4>1. \A i \in DOMAIN queue : queue[i].id \notin synced
        BY <2>6, Zenon DEF IInv, ProcessInv, QueueInv
      <4>2. \A m \in Nat : \A k \in 1 .. m : \A i \in 1 .. k : i \in 1 .. m
        OBVIOUS
      <4>3. DOMAIN queue = 1 .. Len(queue) /\ Len(queue) \in Nat
        BY <3>3, SeqPlaces, Zenon
      <4> QED
        BY <3>3, <4>1, <4>2, <4>3, Zenon
    <3>7. queue[1].sync \in BOOLEAN
      BY <3>3, WriterLemma
    <3>8. Safe' \subseteq Safe \cup (IF queue[1].sync THEN Ids(record) ELSE {})
      <4>1. ASSUME NEW p \in promised', p \in synced', p \notin Safe
            PROVE  queue[1].sync /\ p \in Ids(record)
        <5>1. CASE p \in synced
          <6>1. PICK x \in record : p = x[2]
            BY <3>1, <4>1, <5>1 DEF Safe, Ids
          <6> QED
            BY <3>5, <3>6, <5>1, <6>1
        <5>2. CASE p \notin synced
          <6>1. \/ queue[1].sync /\ p \in Ids(record)
                \/ \E i \in 1 .. group.n : queue[i].sync /\ queue[i].size > 0 /\ p = queue[i].id
            BY <3>1, <3>7, <4>1, <5>2
          <6> QED
            <7>1. CASE \E i \in 1 .. group.n : queue[i].sync /\ queue[i].size > 0 /\ p = queue[i].id
              <8>1. PICK i \in 1 .. group.n : queue[i].sync /\ queue[i].size > 0 /\ p = queue[i].id
                BY <7>1, Zenon
              <8>2. PICK x \in record : x[2] = queue[i].id
                BY <3>5, <8>1, Zenon
              <8> QED
                BY <3>3, <8>1, <8>2, Zenon DEF Ids
            <7> QED
              BY <6>1, <7>1, Zenon
        <5> QED
          BY <5>1, <5>2
      <4> QED
        BY <3>7, <4>1 DEF Safe
    <3>9. ASSUME Fine
          PROVE  Safe' \subseteq Ids(TablesOf(db.version, tables) \cup SafeFrom(db.log_number, logs))
      <4>1. Safe \subseteq Ids(TablesOf(db.version, tables) \cup SafeFrom(db.log_number, logs))
        BY <2>2, <3>9, Zenon DEF DInv, ContentsInv
      <4>2. ASSUME queue[1].sync PROVE record \subseteq SafeFrom(db.log_number, logs)
        <5>1. l \in 1 .. logs[db.logfile].synced /\ record = logs[db.logfile].data[l]
          BY <3>3, <4>2 DEF log, record
        <5>2. db.logfile >= db.log_number
          <6>1. db.log_number \in Nat /\ db.logfile \in Nat /\ db.log_number <= db.logfile
            BY <2>2, Zenon DEF DB, IInv, ProcessInv, OpenInv
          <6> QED
            BY <6>1, Zenon
        <5> QED
          BY <3>3, <5>1, <5>2, InLogs
      <4>3. ASSUME queue[1].sync
            PROVE  Ids(record) \subseteq Ids(TablesOf(db.version, tables) \cup SafeFrom(db.log_number, logs))
        BY <4>2, <4>3 DEF Ids
      <4> QED
        BY <3>7, <3>8, <4>1, <4>3, Zenon
    <3>10. Contents' = Contents \cup record
      BY <2>3, <3>2 DEF Contents
    <3>11. ASSUME Fine PROVE promised' \subseteq Ids(Contents')
      <4>1. promised \subseteq Ids(Contents)
        BY <2>2, <3>11, ZenonT(60) DEF DInv, ContentsInv
      <4> QED
        BY <3>1, <3>10, <4>1 DEF Ids
    <3>12. ASSUME NEW k, Covers(manifests[current], k, db, tables)
           PROVE  Covers(manifests'[current'], k, db', tables')
      BY <2>3, <3>2, <3>12 DEF Covers
    <3>13. ASSUME Fine, NEW x \in db'.mem
           PROVE  \E i \in DOMAIN logs[db.logfile].data : x \in logs[db.logfile].data[i]
      <4>1. x \in db.mem \/ x \in record
        BY <3>2, <3>13
      <4> QED
        BY <2>2, <3>3, <3>13, <4>1, ZenonT(60) DEF DInv, ContentsInv, log, record
    <3>14. ASSUME Fine, ~db.bg_error, NEW i \in DOMAIN logs[db.logfile].data
           PROVE  logs[db.logfile].data[i] \subseteq db'.mem
      <4>1. logs[db.logfile].data[i] \subseteq db.mem \/ logs[db.logfile].data[i] = record
        BY <2>2, <3>14, Zenon DEF DInv, ContentsInv, log, l, record
      <4> QED
        BY <3>2, <4>1
    <3>15. ContentsInv'
      BY <2>2, <2>3, <3>2, <3>9, <3>11, <3>12, <3>13, <3>14, Zenon DEF DInv, ContentsInv
    <3>16. Fine' => "repair" \notin odd'
      BY <2>2, <3>2 DEF DInv, RecoveryInv
    <3> QED
      BY <2>3, <3>15, <3>16, OpenDurable
  <2> QED
    BY <2>5, <2>6 DEF WriteEnds
<1> QED
  BY <1>EnqueueDurable, <1>RoomFailsDurable, <1>SwitchLogDurable, <1>AddRecordDurable,
     <1>SyncLogDurable, <1>WriteEndsDurable DEF Writing

-----------------------------------------------------------------------------
(* The background thread.                                                  *)

\* The background thread works on an open database.
LEMMA BackgroundFacts ==
    ASSUME IInv, bg.pc # "idle"
    PROVE  /\ db.pc = "open" /\ bg.edit \in Edit
           /\ LET m == manifests[current]
                  l == Len(m.data)
              IN /\ bg.pc = "log" => m.synced = l /\ Ver(m.data, l) = db.version
                 /\ bg.pc \in {"sync", "install"} =>
                       /\ l > 2 /\ m.data[l] = bg.edit /\ Ver(m.data, l - 1) = db.version
                       /\ m.synced = IF bg.pc = "sync" THEN l - 1 ELSE l
                 /\ \A n \in bg.edit.added : n \in DOMAIN tables
                 /\ Flush(bg.edit) \/ Compaction(bg.edit)
<1>1. db.pc = "open"
  BY DEF IInv, OpeningInv, PhaseInv, Quiet
<1>2. bg.edit \in Edit /\ EditInv
  BY Zenon DEF IInv, ProcessType, ProcessInv
<1> QED
  BY <1>1, <1>2, Zenon DEF EditInv

\* A new table has a number that no file has, and holds entries that are there already.
LEMMA TableAdded ==
    ASSUME IInv, db.pc = "open", NEW data, data \subseteq Held(db.mem, db.imm, tables, logs),
           NEW ts, ts = tables \/ ts = Put(tables, db.next_file_number, data)
    PROVE  /\ Files(ts, SUBSET Entry) /\ DOMAIN tables \subseteq DOMAIN ts
           /\ DOMAIN ts \subseteq DOMAIN tables \cup {db.next_file_number}
           /\ \A i \in DOMAIN tables : i < db.next_file_number /\ ts[i] = tables[i]
           /\ \A i \in DOMAIN ts : i \notin DOMAIN tables => ts[i] = data
           /\ SoundManifest(manifests[current], ts)
<1> DEFINE n == db.next_file_number
<1>1. /\ Files(tables, SUBSET Entry) /\ n \in Nat /\ data \in SUBSET Entry
      /\ \A i \in DOMAIN tables : i < n
  BY HeldType, SMTT(30) DEF IInv, DirType, ProcessType, ProcessInv, OpenInv, DB
<1>2. /\ Files(ts, SUBSET Entry) /\ DOMAIN tables \subseteq DOMAIN ts
      /\ DOMAIN ts \subseteq DOMAIN tables \cup {n}
      /\ \A i \in DOMAIN tables : ts[i] = tables[i]
      /\ \A i \in DOMAIN ts : i \notin DOMAIN tables => ts[i] = data
  <2>1. CASE ts = tables
    BY <1>1, <2>1
  <2>2. CASE ts = Put(tables, n, data)
    <3>1. n \notin DOMAIN tables
      BY <1>1
    <3> HIDE DEF n
    <3> QED
      BY <1>1, <2>2, <3>1 DEF Files, Put
  <2> QED
    BY <2>1, <2>2, Zenon
<1>3. SoundManifest(manifests[current], ts)
  <2>1. SoundManifest(manifests[current], tables)
    BY OpenFacts
  <2> HIDE DEF n
  <2> QED
    BY <1>2, <2>1, ZenonT(60) DEF SoundManifest, Sound
<1> QED
  BY <1>1, <1>2, <1>3, Zenon

\* The edits before the last one make the versions they made without it.
LEMMA VersionsStay ==
    ASSUME NEW d \in Seq(Edit), NEW e \in Edit, NEW k \in 0 .. Len(d)
    PROVE  Ver(Append(d, e), k) = Ver(d, k)
<1>1. SubSeq(Append(d, e), 1, k) = SubSeq(d, 1, k)
  OBVIOUS
<1> QED
  BY <1>1, Zenon DEF Ver

\* An edit is applied to the version before it.
LEMMA VersionApplies ==
    ASSUME NEW d \in Seq(Edit), NEW k \in 1 .. Len(d)
    PROVE  Ver(d, k) = Apply(Ver(d, k - 1), d[k])
<1>1. k \in Nat /\ k - 1 \in Nat /\ k \in 0 .. Len(d) /\ k - 1 \in 0 .. Len(d)
  OBVIOUS
<1>2. ASSUME NEW n, n \in Ver(d, k) PROVE n \in Apply(Ver(d, k - 1), d[k])
  <2>1. PICK i \in 1 .. k : n \in d[i].added /\ \A j \in i + 1 .. k : n \notin d[j].deleted
    BY <1>1, <1>2, InVersion, SMTT(30)
  <2>2. CASE i = k
    BY <2>1, <2>2 DEF Apply
  <2>3. CASE i # k
    <3>1. i \in 1 .. k - 1 /\ k \in i + 1 .. k /\ \A j \in i + 1 .. k - 1 : j \in i + 1 .. k
      BY <1>1, <2>3
    <3>2. n \in Ver(d, k - 1)
      BY <1>1, <2>1, <3>1, InVersion
    <3> QED
      BY <2>1, <3>1, <3>2 DEF Apply
  <2> QED
    BY <2>2, <2>3, SMTT(30)
<1>3. ASSUME NEW n, n \in Apply(Ver(d, k - 1), d[k]) PROVE n \in Ver(d, k)
  <2>1. CASE n \in d[k].added
    <3>1. k \in 1 .. k /\ \A j \in k + 1 .. k : n \notin d[j].deleted
      BY <1>1
    <3> QED
      BY <1>1, <2>1, <3>1, InVersion
  <2>2. CASE n \in Ver(d, k - 1) /\ n \notin d[k].deleted
    <3>1. PICK i \in 1 .. k - 1 : n \in d[i].added /\ \A j \in i + 1 .. k - 1 : n \notin d[j].deleted
      BY <1>1, <2>2, InVersion
    <3>2. i \in 1 .. k /\ \A j \in i + 1 .. k : j = k \/ j \in i + 1 .. k - 1
      BY <1>1
    <3> QED
      BY <1>1, <2>2, <3>1, <3>2, InVersion
  <2> QED
    BY <1>3, <2>1, <2>2 DEF Apply
<1> QED
  BY <1>2, <1>3, Zenon

\* An edit is appended to the MANIFEST in use.
LEMMA ManifestGrows ==
    ASSUME IInv, db.pc = "open", NEW e \in Edit,
           manifests' = [manifests EXCEPT ![db.manifest].data = Append(@, e)]
    PROVE  /\ Files(manifests', Manifest) /\ DOMAIN manifests' = DOMAIN manifests
           /\ \A n \in DOMAIN manifests : n # current => manifests'[n] = manifests[n]
           /\ LET old == manifests[current]
                  m == manifests'[current]
              IN /\ m.data = Append(old.data, e) /\ m.synced = old.synced /\ m.data \in Seq(Edit)
                 /\ Len(m.data) = Len(old.data) + 1
                 /\ DOMAIN old.data = 1 .. Len(old.data) /\ DOMAIN m.data = 1 .. Len(old.data) + 1
                 /\ m.data[Len(m.data)] = e /\ \A i \in DOMAIN old.data : m.data[i] = old.data[i]
<1> DEFINE old == manifests[current]
           m == [old EXCEPT !.data = Append(@, e)]
<1>1. /\ Files(manifests, Manifest) /\ current \in DOMAIN manifests /\ current = db.manifest
      /\ old \in Manifest /\ old.data \in Seq(Edit)
  BY OpenFacts DEF IInv, DirType
<1>2. manifests' = [manifests EXCEPT ![current] = m]
  BY <1>1
<1> HIDE DEF old
<1>3. PICK d \in Seq(Edit) : d = old.data
  BY <1>1, Zenon
<1>4. /\ Append(d, e) \in Seq(Edit) /\ Len(d) \in Nat /\ Len(Append(d, e)) = Len(d) + 1
      /\ DOMAIN d = 1 .. Len(d) /\ DOMAIN Append(d, e) = 1 .. Len(d) + 1
      /\ Append(d, e)[Len(d) + 1] = e /\ \A i \in DOMAIN d : Append(d, e)[i] = d[i]
  OBVIOUS
<1>5. PICK a \in Seq(Edit) : a = Append(d, e)
  BY <1>4, Zenon
<1>6. m \in Manifest /\ m.data = a /\ m.synced = old.synced
  <2>1. m = [old EXCEPT !.data = a]
    BY <1>3, <1>5, Zenon
  <2> HIDE DEF m
  <2> QED
    BY <1>1, <2>1, Zenon DEF Manifest
<1> HIDE DEF m
<1>7. /\ Files(manifests', Manifest) /\ DOMAIN manifests' = DOMAIN manifests /\ manifests'[current] = m
      /\ \A n \in DOMAIN manifests : n # current => manifests'[n] = manifests[n]
  BY <1>1, <1>2, <1>6 DEF Files
<1> QED
  BY <1>3, <1>4, <1>5, <1>6, <1>7, Zenon DEF old

\* Files that DeleteObsoleteFiles keeps.
LEMMA FilesKept ==
    ASSUME NEW T, NEW f, Files(f, T), NEW S, NEW g, g = f \/ g = Restrict(f, DOMAIN f \cap S)
    PROVE  /\ Files(g, T) /\ DOMAIN g \subseteq DOMAIN f /\ DOMAIN f \cap S \subseteq DOMAIN g
           /\ \A i \in DOMAIN g : g[i] = f[i]
<1>1. CASE g = f
  BY <1>1
<1>2. CASE g = Restrict(f, DOMAIN f \cap S)
  BY <1>2 DEF Files, Restrict
<1> QED
  BY <1>1, <1>2

\* What is known when the new version is installed and obsolete files are deleted.
LEMMA InstallFacts ==
    ASSUME IInv, Install
    PROVE  LET m == manifests[current]
               l == Len(m.data)
               V == (db.version \ bg.edit.deleted) \cup bg.edit.added
               I == IF bg.edit.deleted = {} THEN {} ELSE db.imm
               L == bg.edit.log
           IN /\ bg.pc = "install" /\ bg' = Quiet /\ current' = current
              /\ queue' = queue /\ group' = group /\ repair' = repair /\ synced' = synced /\ spent' = spent
              /\ bound' = bound /\ odd' = odd /\ promised' = promised
              /\ db.pc = "open" /\ bg.edit \in Edit /\ l > 2 /\ m.data[l] = bg.edit
              /\ Ver(m.data, l - 1) = db.version /\ m.synced = l
              /\ Flush(bg.edit) \/ Compaction(bg.edit)
              /\ current = db.manifest /\ current \in DOMAIN manifests /\ l \in Nat /\ m.data \in Seq(Edit)
              /\ SoundManifest(m, tables) /\ NumbersAfter(current, m) /\ m.synced >= 2
              /\ \A k \in Kept(m) : Readable(m, k) /\ m.data[k].next <= db.next_file_number
              /\ db.logfile \in DOMAIN logs /\ DOMAIN logs \subseteq Nat
              /\ db \in DB /\ db.version \subseteq DOMAIN tables /\ db.version \subseteq Nat
              /\ db.logfile \in Nat /\ db.log_number \in Nat /\ db.imm \in SUBSET SUBSET Entry
              /\ db.log_number <= db.logfile
              /\ L \in Nat /\ L <= db.logfile /\ I \subseteq db.imm /\ (I = {} <=> L = db.logfile)
              /\ V \in SUBSET Nat /\ V \subseteq DOMAIN tables /\ Ver(m.data, l) = V
              /\ db' \in DB /\ db'.pc = "open" /\ db'.version = V /\ db'.log_number = L /\ db'.imm = I
              /\ db'.mem = db.mem /\ db'.next_file_number = db.next_file_number
              /\ db'.last_sequence = db.last_sequence /\ db'.manifest = db.manifest
              /\ db'.logfile = db.logfile /\ db'.bg_error = db.bg_error
              /\ Files(logs', Log) /\ DOMAIN logs' \subseteq DOMAIN logs /\ db.logfile \in DOMAIN logs'
              /\ \A i \in DOMAIN logs' : logs'[i] = logs[i]
              /\ \A i \in DOMAIN logs : i >= L => i \in DOMAIN logs'
              /\ Files(manifests', Manifest) /\ DOMAIN manifests' \subseteq DOMAIN manifests
              /\ current \in DOMAIN manifests' /\ \A i \in DOMAIN manifests' : manifests'[i] = manifests[i]
              /\ Files(tables', SUBSET Entry) /\ DOMAIN tables' \subseteq DOMAIN tables
              /\ V \subseteq DOMAIN tables' /\ \A i \in DOMAIN tables' : tables'[i] = tables[i]
              /\ Kept(m) = {l}
<1> DEFINE m == manifests[current]
           l == Len(m.data)
           V == (db.version \ bg.edit.deleted) \cup bg.edit.added
           I == IF bg.edit.deleted = {} THEN {} ELSE db.imm
           L == bg.edit.log
<1>1. /\ bg.pc = "install" /\ bg' = Quiet /\ current' = current
      /\ queue' = queue /\ group' = group /\ repair' = repair /\ synced' = synced /\ spent' = spent
      /\ bound' = bound /\ odd' = odd /\ promised' = promised
      /\ db' = [db EXCEPT !.version = V, !.log_number = L, !.imm = I]
  BY DEF Install, NotBackground, promises, Apply
<1>2. /\ DirType /\ FilesInv /\ CurrentInv /\ EntriesInv /\ CompleteInv /\ PhaseInv
      /\ ProcessType /\ OpenInv /\ SequenceInv /\ GroupInv /\ QueueInv
  BY DEF IInv, DirInv, OpeningInv, ProcessInv
<1>3. /\ db.pc = "open" /\ bg.edit \in Edit /\ l > 2 /\ m.data[l] = bg.edit
      /\ Ver(m.data, l - 1) = db.version /\ m.synced = l
      /\ \A n \in bg.edit.added : n \in DOMAIN tables
      /\ Flush(bg.edit) \/ Compaction(bg.edit)
  BY <1>1, BackgroundFacts, ZenonT(60)
<1>4. /\ current = db.manifest /\ current \in DOMAIN manifests /\ l \in Nat /\ m.data \in Seq(Edit)
      /\ SoundManifest(m, tables) /\ NumbersAfter(current, m) /\ m.synced >= 2
      /\ \A k \in Kept(m) : Readable(m, k) /\ m.data[k].next <= db.next_file_number
      /\ db.logfile \in DOMAIN logs /\ DOMAIN logs \subseteq Nat
  BY <1>3, OpenFacts
<1>5. /\ db \in DB /\ db.version \subseteq DOMAIN tables /\ db.version \subseteq Nat
      /\ db.logfile \in Nat /\ db.log_number \in Nat /\ db.imm \in SUBSET SUBSET Entry
      /\ db.log_number <= db.logfile
  BY <1>2, <1>3, ZenonT(60) DEF ProcessType, DB, PhaseInv, OpenInv
<1>6. /\ L \in Nat /\ L <= db.logfile /\ I \subseteq db.imm
      /\ (I = {} <=> L = db.logfile)
  <2>1. db.imm = {} <=> db.log_number = db.logfile
    BY <1>2, <1>3, Zenon DEF OpenInv
  <2>2. CASE Flush(bg.edit)
    BY <1>5, <2>2 DEF Flush
  <2>3. CASE Compaction(bg.edit)
    BY <1>5, <2>1, <2>3 DEF Compaction
  <2> QED
    BY <1>3, <2>2, <2>3
<1>7. V \in SUBSET Nat /\ V \subseteq DOMAIN tables
  BY <1>3, <1>5 DEF Edit
<1>8. Ver(m.data, l) = V
  <2>1. PICK d \in Seq(Edit) : d = m.data
    BY <1>4, ZenonT(60)
  <2>2. l \in 1 .. Len(d)
    BY <1>3, <1>4, <2>1
  <2>3. Ver(d, l) = Apply(Ver(d, l - 1), d[l])
    BY <2>2, VersionApplies
  <2> HIDE DEF m, l
  <2> QED
    BY <1>3, <2>1, <2>3 DEF Apply
<1> HIDE DEF V, I, L, m, l
<1>9. /\ db' \in DB /\ db'.pc = "open" /\ db'.version = V /\ db'.log_number = L /\ db'.imm = I
      /\ db'.mem = db.mem /\ db'.next_file_number = db.next_file_number
      /\ db'.last_sequence = db.last_sequence /\ db'.manifest = db.manifest
      /\ db'.logfile = db.logfile /\ db'.bg_error = db.bg_error
  <2>1. I \in SUBSET SUBSET Entry
    BY <1>5, <1>6
  <2> QED
    BY <1>1, <1>3, <1>5, <1>6, <1>7, <2>1, Zenon DEF DB
<1>10. /\ Files(logs', Log) /\ DOMAIN logs' \subseteq DOMAIN logs /\ db.logfile \in DOMAIN logs'
       /\ \A i \in DOMAIN logs' : logs'[i] = logs[i]
       /\ \A i \in DOMAIN logs : i >= L => i \in DOMAIN logs'
  <2> DEFINE S == {n \in DOMAIN logs : n >= L}
  <2>1. logs' = logs \/ logs' = Restrict(logs, S)
    BY <1>9, Zenon DEF Install, DeleteObsoleteFiles
  <2>2. S = DOMAIN logs \cap S /\ db.logfile \in DOMAIN logs \cap S /\ Files(logs, Log)
        /\ \A i \in DOMAIN logs : i >= L => i \in DOMAIN logs \cap S
    BY <1>2, <1>4, <1>5, <1>6 DEF DirType
  <2>3. logs' = logs \/ logs' = Restrict(logs, DOMAIN logs \cap S)
    BY <2>1, <2>2, Zenon
  <2> HIDE DEF S
  <2> QED
    BY <2>2, <2>3, FilesKept, Zenon
<1>11. /\ Files(manifests', Manifest) /\ DOMAIN manifests' \subseteq DOMAIN manifests
       /\ current \in DOMAIN manifests' /\ \A i \in DOMAIN manifests' : manifests'[i] = manifests[i]
  <2> DEFINE S == {n \in DOMAIN manifests : n >= current}
  <2>1. manifests' = manifests \/ manifests' = Restrict(manifests, S)
    BY <1>4, <1>9 DEF Install, DeleteObsoleteFiles
  <2>2. S = DOMAIN manifests \cap S /\ current \in DOMAIN manifests \cap S /\ Files(manifests, Manifest)
    BY <1>2, <1>4 DEF DirType, Files
  <2>3. manifests' = manifests \/ manifests' = Restrict(manifests, DOMAIN manifests \cap S)
    BY <2>1, <2>2, Zenon
  <2> HIDE DEF S
  <2> QED
    BY <2>2, <2>3, FilesKept
<1>12. /\ Files(tables', SUBSET Entry) /\ DOMAIN tables' \subseteq DOMAIN tables
       /\ V \subseteq DOMAIN tables' /\ \A i \in DOMAIN tables' : tables'[i] = tables[i]
  <2>1. tables' = tables \/ tables' = Restrict(tables, DOMAIN tables \cap V)
    BY <1>9 DEF Install, DeleteObsoleteFiles
  <2>2. Files(tables, SUBSET Entry)
    BY <1>2 DEF DirType
  <2>3. /\ Files(tables', SUBSET Entry) /\ DOMAIN tables' \subseteq DOMAIN tables
        /\ DOMAIN tables \cap V \subseteq DOMAIN tables' /\ \A i \in DOMAIN tables' : tables'[i] = tables[i]
    <3>1. CASE tables' = tables
      BY <2>2, <3>1
    <3>2. CASE tables' = Restrict(tables, DOMAIN tables \cap V)
      BY <2>2, <3>2 DEF Files, Restrict
    <3> QED
      BY <2>1, <3>1, <3>2
  <2> QED
    BY <1>7, <2>3
<1>13. l = Len(m.data)
  BY Zenon DEF l
<1>14. Kept(m) = {l}
  BY <1>3, <1>4, <1>13 DEF Kept
<1> QED
  BY <1>1, <1>3, <1>4, <1>5, <1>6, <1>7, <1>8, <1>9, <1>10, <1>11, <1>12, <1>14 DEF m, l, V, I, L

\* The steps of the background thread keep the invariant.
LEMMA BackgroundKeepsInv ==
    ASSUME NumberFacts
    PROVE  IInv /\ Background => IInv'
\* BuildTable fails.
<1>BuildTableFails. ASSUME IInv, db.pc = "open", bg.pc = "idle",
                           db' = [db EXCEPT !.bg_error = TRUE, !.next_file_number = @ + 1],
                           UNCHANGED <<tables, bg>>, UNCHANGED <<logs, manifests, NotBackground>>
                    PROVE  IInv'
  <2> USE <1>BuildTableFails
  <2>1. /\ logs' = logs /\ manifests' = manifests /\ tables' = tables /\ current' = current /\ bg' = bg
        /\ queue' = queue /\ group' = group /\ repair' = repair /\ synced' = synced /\ spent' = spent
        /\ bound' = bound /\ odd' = odd
    BY DEF NotBackground, promises
  <2>2. /\ DirType /\ FilesInv /\ CurrentInv /\ EntriesInv /\ CompleteInv /\ PhaseInv
        /\ ProcessType /\ OpenInv /\ SequenceInv /\ EditInv /\ GroupInv /\ QueueInv
    BY DEF IInv, DirInv, OpeningInv, ProcessInv
  <2>3. db \in DB /\ db.next_file_number \in Nat
    BY <2>2 DEF ProcessType, DB
  <2>4. /\ db' \in DB /\ db'.pc = "open" /\ db'.bg_error = TRUE
        /\ db'.next_file_number = db.next_file_number + 1 /\ db'.last_sequence = db.last_sequence
        /\ db'.imm = db.imm /\ db'.version = db.version /\ db'.manifest = db.manifest
        /\ db'.log_number = db.log_number /\ db'.logfile = db.logfile /\ db'.mem = db.mem
    <3>1. db.next_file_number + 1 \in Nat
      BY <2>3
    <3>2. PICK N \in Nat : N = db.next_file_number + 1
      BY <3>1, Zenon
    <3>3. db' = [db EXCEPT !.bg_error = TRUE, !.next_file_number = N]
      BY <3>2
    <3>4. /\ db' \in DB /\ db'.pc = "open" /\ db'.bg_error = TRUE
          /\ db'.next_file_number = N /\ db'.last_sequence = db.last_sequence
          /\ db'.imm = db.imm /\ db'.version = db.version /\ db'.manifest = db.manifest
          /\ db'.log_number = db.log_number /\ db'.logfile = db.logfile /\ db'.mem = db.mem
      BY <2>3, <3>3, Zenon DEF DB
    <3> QED
      BY <3>2, <3>4, Zenon
  <2>5. DirType' /\ FilesInv' /\ CurrentInv'
    BY <2>1, <2>2, DirStays DEF dir
  <2>6. EntriesInv' /\ CompleteInv'
    BY <2>1, <2>2, <2>4, Zenon DEF EntriesInv, CompleteInv, Trusted
  <2>7. OpeningInv' /\ RepairInv'
    BY <2>1, <2>2, <2>4, OpenStays DEF PhaseInv
  <2>8. ProcessType'
    BY <2>1, <2>2, <2>4, Zenon DEF ProcessType
  <2>9. OpenInv'
    <3>1. DOMAIN tables \subseteq Nat /\ db.logfile \in Nat /\ db.manifest \in Nat
      BY <2>3, OpenFacts DEF DB
    <3> QED
      BY <2>1, <2>2, <2>3, <2>4, <3>1 DEF OpenInv
  <2>10. SequenceInv' /\ GroupInv' /\ QueueInv'
    BY <2>1, <2>2, <2>4, Zenon DEF SequenceInv, GroupInv, QueueInv, InFlight
  <2>11. EditInv'
    <3>1. \A k \in Kept(manifests[current]) : manifests[current].data[k].next <= db'.next_file_number
      BY <2>3, <2>4, OpenFacts
    <3>2. manifests[current].synced >= 2
      BY OpenFacts
    <3>3. "idle" # "log" /\ "idle" \notin {"sync", "install"}
      OBVIOUS
    <3> QED
      BY <2>1, <2>4, <3>1, <3>2, <3>3, Zenon DEF EditInv
  <2> QED
    BY <2>5, <2>6, <2>7, <2>8, <2>9, <2>10, <2>11 DEF IInv, DirInv, ProcessInv
\* A memtable or the tables of the version are written to a new table.
<1>BuildTableStep. ASSUME IInv, BuildTable
                   PROVE  IInv'
  <2> USE <1>BuildTableStep
  <2> DEFINE n == db.next_file_number
             flush == db.imm # {}
             data == IF flush THEN UNION db.imm ELSE UNION {tables[i] : i \in db.version}
             added == IF data = {} THEN {} ELSE {n}
             e == VersionEdit(IF flush THEN db.logfile ELSE db.log_number, n + 1, 0, added,
                              IF flush THEN {} ELSE db.version)
  <2>1. /\ db.pc = "open" /\ bg.pc = "idle" /\ ~db.bg_error /\ UNCHANGED <<logs, manifests, NotBackground>>
        /\ flush \/ Cardinality(db.version) > 1
    BY DEF BuildTable
  <2>2. \/ /\ tables' = IF data = {} THEN tables ELSE Put(tables, n, data)
           /\ bg' = [pc |-> "log", edit |-> e]
           /\ db' = [db EXCEPT !.next_file_number = @ + 1]
        \/ db' = [db EXCEPT !.bg_error = TRUE, !.next_file_number = @ + 1] /\ UNCHANGED <<tables, bg>>
    BY Zenon DEF BuildTable
  <2>3. CASE db' = [db EXCEPT !.bg_error = TRUE, !.next_file_number = @ + 1] /\ UNCHANGED <<tables, bg>>
    BY <2>1, <2>3, <1>BuildTableFails
  <2>4. CASE /\ tables' = IF data = {} THEN tables ELSE Put(tables, n, data)
             /\ bg' = [pc |-> "log", edit |-> e]
             /\ db' = [db EXCEPT !.next_file_number = @ + 1]
    <3>1. /\ logs' = logs /\ manifests' = manifests /\ current' = current
          /\ queue' = queue /\ group' = group /\ repair' = repair /\ synced' = synced /\ spent' = spent
          /\ bound' = bound /\ odd' = odd
      BY <2>1 DEF NotBackground, promises
    <3>2. /\ DirType /\ FilesInv /\ CurrentInv /\ EntriesInv /\ CompleteInv /\ PhaseInv
          /\ ProcessType /\ OpenInv /\ SequenceInv /\ EditInv /\ GroupInv /\ QueueInv
      BY DEF IInv, DirInv, OpeningInv, ProcessInv
    <3>3. /\ db \in DB /\ n \in Nat /\ db.version \subseteq DOMAIN tables /\ db.version \subseteq Nat
          /\ db.logfile \in Nat /\ db.log_number \in Nat /\ db.manifest \in Nat /\ db.last_sequence \in Nat
      BY <3>2 DEF ProcessType, PhaseInv, DB
    <3>4. /\ db' \in DB /\ db'.pc = "open" /\ db'.bg_error = db.bg_error
          /\ db'.next_file_number = n + 1 /\ db'.last_sequence = db.last_sequence
          /\ db'.imm = db.imm /\ db'.version = db.version /\ db'.manifest = db.manifest
          /\ db'.log_number = db.log_number /\ db'.logfile = db.logfile /\ db'.mem = db.mem
      BY <2>1, <2>4, <3>3 DEF DB
    <3>5. data \subseteq Held(db.mem, db.imm, tables, logs)
      <4>1. ASSUME NEW x \in data
            PROVE  (\E M \in db.imm : x \in M) \/ \E i \in DOMAIN tables : x \in tables[i]
        BY <3>3, <4>1, ZenonT(60) DEF data
      <4> QED
        BY <4>1, HeldLemma, Zenon
    <3>6. /\ e.log = (IF flush THEN db.logfile ELSE db.log_number) /\ e.added = added
          /\ e.deleted = (IF flush THEN {} ELSE db.version) /\ e \in Edit
      <4> HIDE DEF data
      <4> QED
        BY <3>3 DEF VersionEdit, Edit, Number
    <3>7. data # {} => n \in DOMAIN tables' /\ tables'[n] = data /\ n \notin DOMAIN tables
      <4>1. n \notin DOMAIN tables
        BY <2>1, <3>2, <3>3 DEF OpenInv
      <4> HIDE DEF data, n
      <4> QED
        BY <2>4, <4>1, Zenon DEF Put
    <3>8. /\ Files(tables', SUBSET Entry) /\ DOMAIN tables \subseteq DOMAIN tables'
          /\ DOMAIN tables' \subseteq DOMAIN tables \cup {n}
          /\ \A i \in DOMAIN tables : i < n /\ tables'[i] = tables[i]
          /\ \A i \in DOMAIN tables' : i \notin DOMAIN tables => tables'[i] = data
          /\ SoundManifest(manifests[current], tables')
      <4>1. tables' = tables \/ tables' = Put(tables, n, data)
        BY <2>4
      <4> HIDE DEF data
      <4> QED
        BY <2>1, <3>5, <4>1, TableAdded, Zenon
    <3> HIDE DEF e, data
    <3>9. bg'.pc = "log" /\ bg'.edit = e
      BY <2>4
    <3>10. DirType' /\ FilesInv'
      BY <3>1, <3>2, <3>8, Zenon DEF DirType, FilesInv
    <3>11. CurrentInv'
      BY <3>1, <3>2, <3>8, Zenon DEF CurrentInv
    <3>12. EntriesInv'
      <4>1. Held(db'.mem, db'.imm, tables', logs') \subseteq Held(db.mem, db.imm, tables, logs)
        <5>1. PICK ts : ts = tables'
          OBVIOUS
        <5>2. ASSUME NEW x \in Held(db.mem, db.imm, ts, logs) PROVE x \in Held(db.mem, db.imm, tables, logs)
          <6>1. CASE \E i \in DOMAIN ts : x \in ts[i]
            <7>1. PICK i \in DOMAIN ts : x \in ts[i]
              BY <6>1, Zenon
            <7>2. CASE i \in DOMAIN tables
              BY <3>8, <5>1, <7>1, <7>2, HeldLemma, Zenon
            <7>3. CASE i \notin DOMAIN tables
              BY <3>5, <3>8, <5>1, <7>1, <7>3, Zenon
            <7> QED
              BY <7>2, <7>3, Zenon
          <6>2. CASE ~ \E i \in DOMAIN ts : x \in ts[i]
            BY <5>2, <6>2, HeldLemma
          <6> QED
            BY <6>1, <6>2, Zenon
        <5> QED
          BY <3>1, <3>4, <5>1, <5>2, Zenon
      <4> QED
        BY <3>1, <3>2, <3>3, <3>8, <4>1, EntriesStay, Zenon
    <3>13. CompleteInv'
      BY <3>1, <3>2, Zenon DEF CompleteInv, Trusted
    <3>14. OpeningInv' /\ RepairInv'
      BY <2>1, <3>1, <3>3, <3>4, <3>8, OpenStays, Zenon
    <3>15. ProcessType'
      <4>1. bg' \in [pc : {"idle", "log", "sync", "install"}, edit : Edit \cup {NULL}]
        BY <2>4, <3>6
      <4> QED
        BY <3>1, <3>2, <3>4, <3>6, <3>9, <4>1, Zenon DEF ProcessType
    <3>16. OpenInv'
      <4>1. DOMAIN tables \subseteq Nat
        BY <2>1, OpenFacts, Zenon
      <4>2. ASSUME NEW i \in DOMAIN tables' PROVE i < n + 1
        <5>1. CASE i = n
          BY <3>3, <5>1, NextNumber, Zenon
        <5>2. CASE i \in DOMAIN tables
          <6>1. i \in Nat /\ i < n
            BY <3>8, <4>1, <5>2, Zenon
          <6> QED
            BY <3>3, <6>1, BelowNext, Zenon
        <5> QED
          BY <3>8, <4>2, <5>1, <5>2, Zenon
      <4>3. db.logfile < n /\ db.manifest < n /\ db.logfile < n + 1 /\ db.manifest < n + 1
        <5>1. db.logfile < db.next_file_number /\ db.manifest < db.next_file_number
          BY <2>1, <3>2, Zenon DEF OpenInv
        <5> QED
          BY <3>3, <5>1, BelowNext, Zenon
      <4> QED
        BY <2>1, <3>1, <3>2, <3>4, <4>2, <4>3, Zenon DEF OpenInv
    <3>17. SequenceInv'
      <4>1. \A x \in data : x[1] <= db.last_sequence
        BY <2>1, <3>2, <3>3 DEF SequenceInv, data
      <4>2. \A i \in DOMAIN tables' : \A x \in tables'[i] : x[1] <= db.last_sequence
        BY <2>1, <3>2, <3>8, <4>1, Zenon DEF SequenceInv
      <4> QED
        BY <2>1, <3>1, <3>2, <3>4, <4>2, Zenon DEF SequenceInv, InFlight
    <3>18. EditInv'
      <4>1. \A k \in Kept(manifests[current]) : manifests[current].data[k].next <= n + 1
        <5>1. \A k \in Kept(manifests[current]) :
                  manifests[current].data[k].next \in Nat /\ manifests[current].data[k].next <= n
          BY <2>1, OpenFacts, Zenon
        <5> QED
          BY <3>3, <5>1, BelowNext, Zenon
      <4>2. manifests[current].synced >= 2
        BY <2>1, OpenFacts
      <4>3. /\ manifests[current].synced = Len(manifests[current].data)
            /\ Ver(manifests[current].data, Len(manifests[current].data)) = db.version
        BY <2>1, <3>2, Zenon DEF EditInv
      <4>4. \A i \in added : i \in DOMAIN tables'
        BY <3>7
      <4>5. TablesOf(added, tables') = data
        BY <3>7 DEF TablesOf
      <4>9. PICK E : E = e
        OBVIOUS
      <4>10. /\ E.log = (IF flush THEN db.logfile ELSE db.log_number) /\ TablesOf(E.added, tables') = data
             /\ E.deleted = (IF flush THEN {} ELSE db.version) /\ \A i \in E.added : i \in DOMAIN tables'
        BY <3>6, <4>4, <4>5, <4>9, Zenon
      <4>6. ASSUME flush PROVE Flush(E)'
        <5>1. PICK M : M \in db.imm
          BY <4>6, Zenon
        <5>2. db.imm = {M}
          BY <2>1, <3>2, <5>1 DEF OpenInv
        <5>3. UNION {M} = M
          OBVIOUS
        <5>4. db.imm = {data}
          BY <4>6, <5>2, <5>3, Zenon DEF data
        <5> QED
          BY <3>4, <4>6, <4>10, <5>4, Zenon DEF Flush
      <4>7. ASSUME ~flush PROVE Compaction(E)'
        <5>1. db.version # {}
          <6>1. ~(0 > 1)
            OBVIOUS
          <6> QED
            BY <2>1, <4>7, <6>1, EmptyCount, Zenon
        <5>2. TablesOf(db.version, tables') = TablesOf(db.version, tables)
          BY <3>3, <3>8 DEF TablesOf
        <5>3. TablesOf(db.version, tables) = data
          BY <4>7, Zenon DEF TablesOf, data
        <5> QED
          BY <3>4, <4>7, <4>10, <5>1, <5>2, <5>3, Zenon DEF Compaction
      <4>8. /\ bg'.pc = "log" /\ bg'.pc \notin {"sync", "install"} /\ bg'.edit = E
            /\ Flush(E)' \/ Compaction(E)'
        BY <3>9, <4>6, <4>7, <4>9
      <4>11. Flush(bg.edit)' \/ Compaction(bg.edit)'
        BY <4>8, Zenon DEF Flush, Compaction
      <4> QED
        BY <3>1, <3>4, <4>1, <4>2, <4>3, <4>8, <4>10, <4>11, Zenon DEF EditInv
    <3>19. GroupInv' /\ QueueInv'
      BY <3>1, <3>2, <3>4, Zenon DEF GroupInv, QueueInv, InFlight
    <3> QED
      BY <3>10, <3>11, <3>12, <3>13, <3>14, <3>15, <3>16, <3>17, <3>18, <3>19 DEF IInv, DirInv, ProcessInv
  <2> QED
    BY <2>2, <2>3, <2>4, Zenon
\* LogAndApply writes the edit of the background thread.
<1>LogEditStep. ASSUME IInv, LogEdit
                PROVE  IInv'
  <2> USE <1>LogEditStep
  <2> DEFINE n == db.next_file_number
             old == manifests[current]
             m == manifests'[current]
             l == Len(old.data)
  <2>1. /\ bg.pc = "log" /\ logs' = logs /\ tables' = tables /\ db' = db /\ current' = current
        /\ queue' = queue /\ group' = group /\ repair' = repair /\ synced' = synced /\ spent' = spent
        /\ bound' = bound /\ odd' = odd
    BY DEF LogEdit, NotBackground, promises
  <2>2. PICK e : /\ e = [bg.edit EXCEPT !.next = db.next_file_number, !.last = db.last_sequence]
                 /\ manifests' = [manifests EXCEPT ![db.manifest].data = Append(@, e)]
                 /\ bg' = [pc |-> "sync", edit |-> e]
    BY Zenon DEF LogEdit
  <2>3. /\ DirType /\ FilesInv /\ CurrentInv /\ EntriesInv /\ CompleteInv /\ PhaseInv
        /\ ProcessType /\ OpenInv /\ SequenceInv /\ GroupInv /\ QueueInv
    BY DEF IInv, DirInv, OpeningInv, ProcessInv
  <2>4. /\ db.pc = "open" /\ bg.edit \in Edit /\ old.synced = l /\ Ver(old.data, l) = db.version
        /\ \A i \in bg.edit.added : i \in DOMAIN tables
        /\ Flush(bg.edit) \/ Compaction(bg.edit)
    BY <2>1, BackgroundFacts, Zenon
  <2>5. /\ db \in DB /\ n \in Nat /\ db.last_sequence \in Nat /\ db.logfile \in Nat /\ db.log_number \in Nat
        /\ db.version \subseteq DOMAIN tables /\ DOMAIN tables \subseteq Nat /\ db.manifest \in Nat
    BY <2>3, <2>4, OpenFacts, Zenon DEF ProcessType, DB, PhaseInv
  <2>6. /\ e \in Edit /\ e.next = n /\ e.last = db.last_sequence /\ e.log = bg.edit.log
        /\ e.added = bg.edit.added /\ e.deleted = bg.edit.deleted
    BY <2>2, <2>4, <2>5, Zenon DEF Edit, Number
  <2>7. e.log \in Nat /\ e.log <= n
    <3>1. db.log_number <= db.logfile /\ db.logfile < n
      BY <2>3, <2>4 DEF OpenInv
    <3>2. e.log = db.logfile \/ e.log = db.log_number
      BY <2>4, <2>6 DEF Flush, Compaction
    <3> QED
      BY <2>5, <3>1, <3>2
  <2>8. Full(e)
    BY <2>5, <2>6, <2>7, NullAssumption, Zenon DEF Full
  <2>9. /\ Files(manifests', Manifest) /\ DOMAIN manifests' = DOMAIN manifests
        /\ \A i \in DOMAIN manifests : i # current => manifests'[i] = manifests[i]
    BY <2>2, <2>4, <2>6, ManifestGrows, Zenon
  <2>10. /\ m.data = Append(old.data, e) /\ m.synced = old.synced /\ m.data \in Seq(Edit)
         /\ Len(m.data) = l + 1
         /\ DOMAIN old.data = 1 .. l /\ DOMAIN m.data = 1 .. l + 1
         /\ m.data[Len(m.data)] = e /\ \A i \in DOMAIN old.data : m.data[i] = old.data[i]
    BY <2>2, <2>4, <2>6, ManifestGrows, Zenon
  <2>11. /\ current = db.manifest /\ current \in DOMAIN manifests /\ l \in Nat /\ l >= 2
         /\ old.data \in Seq(Edit) /\ Orderly(old.data) /\ SoundManifest(old, tables)
         /\ NumbersAfter(current, old)
         /\ \A k \in Kept(old) : Readable(old, k) /\ old.data[k].next <= n
    BY <2>4, OpenFacts, Zenon
  <2>12. m = manifests'[current] /\ old = manifests[current]
    OBVIOUS
  <2> HIDE DEF m, old, l
  <2>13. Ver(m.data, l) = db.version /\ Ver(m.data, l + 1) = (db.version \ e.deleted) \cup e.added
    <3>1. Ver(m.data, l) = db.version
      <4>1. l \in 0 .. Len(old.data)
        BY <2>11 DEF l
      <4>2. Ver(Append(old.data, e), l) = Ver(old.data, l)
        BY <2>6, <2>11, <4>1, VersionsStay, Zenon
      <4> QED
        BY <2>4, <2>10, <4>2, Zenon
    <3>2. l + 1 \in 1 .. Len(m.data) /\ l + 1 - 1 = l
      <4>1. Len(m.data) = l + 1
        BY <2>10, Zenon DEF l
      <4> QED
        BY <2>11, <4>1
    <3>3. Ver(m.data, l + 1) = Apply(Ver(m.data, l), m.data[l + 1])
      <4>1. PICK d \in Seq(Edit) : d = m.data
        BY <2>10, Zenon
      <4>2. PICK k \in 1 .. Len(d) : k = l + 1
        BY <3>2, <4>1, Zenon
      <4>3. Ver(d, k) = Apply(Ver(d, k - 1), d[k])
        BY VersionApplies, Zenon
      <4>4. k - 1 = l
        BY <2>11, <4>2, NextNumber, Zenon
      <4> QED
        BY <4>1, <4>2, <4>3, <4>4
    <3> QED
      BY <2>10, <3>1, <3>2, <3>3, Zenon DEF Apply
  <2>14. Kept(m) = {l, l + 1} /\ l \in Kept(old) /\ l \in DOMAIN old.data /\ m.data[l] = old.data[l]
         /\ m.data[l + 1] = e
    <3>1. m.synced = l /\ Len(m.data) = l + 1 /\ old.synced = l /\ Len(old.data) = l
      BY <2>4, <2>10 DEF l
    <3> QED
      <4>1. Kept(m) = l .. l + 1 /\ Kept(old) = l .. l
        BY <3>1, Zenon DEF Kept
      <4>2. l .. l + 1 = {l, l + 1} /\ l .. l = {l} /\ l \in 1 .. l
        BY <2>11
      <4> QED
        BY <2>10, <3>1, <4>1, <4>2, Zenon
  <2>15. Sound(m, l + 1, tables)
    <3>1. \A i \in db.version \cup e.added : /\ i \in DOMAIN tables /\ i < n
                                             /\ \A x \in tables[i] : x[1] <= db.last_sequence
      BY <2>3, <2>4, <2>5, <2>6 DEF OpenInv, SequenceInv
    <3>2. n <= n
      BY <2>5
    <3> QED
      BY <2>6, <2>7, <2>10, <2>13, <2>14, <3>1, <3>2, Zenon DEF Sound
  <2>16. Sound(m, l, tables)
    <3>1. Sound(old, l, tables) /\ Ver(m.data, l) = Ver(old.data, l) /\ old.data[l].next <= n
      BY <2>4, <2>11, <2>13, <2>14, Zenon DEF SoundManifest
    <3> QED
      BY <2>6, <2>10, <2>14, <3>1, Zenon DEF Sound
  <2>17. SoundManifest(m, tables) /\ NumbersAfter(current, m)
    <3>1. SoundManifest(m, tables)
      BY <2>14, <2>15, <2>16, Zenon DEF SoundManifest
    <3>2. current # 1 => current < m.data[l].next
      BY <2>11, <2>14, Zenon DEF NumbersAfter
    <3>3. current < m.data[l + 1].next
      BY <2>3, <2>4, <2>6, <2>11, <2>14, ZenonT(60) DEF OpenInv
    <3> QED
      BY <2>14, <3>1, <3>2, <3>3 DEF NumbersAfter
  <2>18. Orderly(m.data)
    <3> SUFFICES ASSUME NEW i \in DOMAIN m.data PROVE Full(m.data[i]) \/ (i = 1 /\ Bare(m.data[1]))
      BY DEF Orderly
    <3>1. CASE i \in DOMAIN old.data
      BY <2>10, <2>11, <3>1, Zenon DEF Orderly
    <3>2. CASE i \notin DOMAIN old.data
      <4>1. i = l + 1
        BY <2>10, <2>11, <3>2
      <4> QED
        BY <2>8, <2>14, <4>1, ZenonT(60)
    <3> QED
      BY <3>1, <3>2
  <2>19. DirType' /\ FilesInv'
    <3>1. m.synced <= Len(m.data)
      <4>1. l <= l + 1
        BY <2>11, NextNumber, Zenon
      <4> QED
        BY <2>4, <2>10, <4>1, Zenon
    <3>2. \A i \in DOMAIN manifests' :
             manifests'[i].synced <= Len(manifests'[i].data) /\ Orderly(manifests'[i].data)
      BY <2>3, <2>9, <2>12, <2>18, <3>1, Zenon DEF FilesInv
    <3> QED
      BY <2>1, <2>3, <2>9, <3>2, Zenon DEF DirType, FilesInv
  <2>20. CurrentInv'
    BY <2>1, <2>12, <2>17, Zenon DEF CurrentInv
  <2>21. EntriesInv'
    BY <2>1, <2>3, Zenon DEF EntriesInv
  <2>22. CompleteInv'
    <3>1. m.synced >= 2 /\ Readable(m, Len(m.data))
      BY <2>4, <2>8, <2>10, <2>11 DEF Readable
    <3> QED
      BY <2>1, <2>9, <2>11, <2>12, <3>1, ZenonT(60) DEF CompleteInv
  <2>23. OpeningInv' /\ RepairInv'
    BY <2>1, <2>3, <2>4, OpenStays DEF PhaseInv
  <2>24. bg'.pc = "sync" /\ bg'.edit = e
         /\ bg' \in [pc : {"idle", "log", "sync", "install"}, edit : Edit \cup {NULL}]
    BY <2>2, <2>6
  <2>25. ProcessType' /\ GroupInv' /\ QueueInv' /\ SequenceInv' /\ OpenInv'
    BY <2>1, <2>3, <2>6, <2>9, <2>24, ZenonT(60) DEF ProcessType, GroupInv, QueueInv, SequenceInv, OpenInv, InFlight
  <2>26. EditInv'
    <3>1. /\ m.synced >= 2 /\ Len(m.data) > 2 /\ Len(m.data) - 1 = l /\ m.synced = Len(m.data) - 1
      BY <2>4, <2>10, <2>11
    <3>2. \A k \in Kept(m) : m.data[k].next <= n
      <4>1. old.data[l].next <= n /\ e.next <= n
        BY <2>5, <2>6, <2>11, <2>14, NextNumber, ZenonT(60)
      <4> QED
        BY <2>14, <4>1, Zenon
    <3>3. Flush(e)' \/ Compaction(e)'
      BY <2>1, <2>4, <2>6 DEF Flush, Compaction
    <3>4. Flush(bg.edit)' \/ Compaction(bg.edit)'
      BY <2>24, <3>3, Zenon DEF Flush, Compaction
    <3>5. "sync" # "log" /\ "sync" # "idle"
      OBVIOUS
    <3> QED
      BY <2>1, <2>4, <2>6, <2>10, <2>12, <2>13, <2>24, <3>1, <3>2, <3>4, <3>5, Zenon DEF EditInv, n
  <2> QED
    BY <2>19, <2>20, <2>21, <2>22, <2>23, <2>25, <2>26 DEF IInv, DirInv, ProcessInv
\* The MANIFEST is synced, or that fails and the edit is given up.
<1>SyncManifestStep. ASSUME IInv, SyncManifest
                     PROVE  IInv'
  <2> USE <1>SyncManifestStep
  <2> DEFINE old == manifests[current]
             l == Len(old.data)
  <2>1. /\ bg.pc = "sync" /\ logs' = logs /\ tables' = tables /\ current' = current
        /\ queue' = queue /\ group' = group /\ repair' = repair /\ synced' = synced /\ spent' = spent
        /\ bound' = bound /\ odd' = odd
    BY Zenon DEF SyncManifest, NotBackground, promises
  <2>2. /\ DirType /\ FilesInv /\ CurrentInv /\ EntriesInv /\ CompleteInv /\ PhaseInv
        /\ ProcessType /\ OpenInv /\ SequenceInv /\ EditInv /\ GroupInv /\ QueueInv
    BY DEF IInv, DirInv, OpeningInv, ProcessInv
  <2>3. /\ db.pc = "open" /\ bg.edit \in Edit /\ l > 2 /\ old.data[l] = bg.edit
        /\ Ver(old.data, l - 1) = db.version /\ old.synced = l - 1
        /\ \A n \in bg.edit.added : n \in DOMAIN tables
        /\ Flush(bg.edit) \/ Compaction(bg.edit)
    BY <2>1, BackgroundFacts
  <2>4. /\ current = db.manifest /\ current \in DOMAIN manifests /\ l \in Nat /\ old \in Manifest
        /\ old.synced \in Nat
        /\ SoundManifest(old, tables) /\ NumbersAfter(current, old) /\ Orderly(old.data)
        /\ \A k \in Kept(old) : Readable(old, k) /\ old.data[k].next <= db.next_file_number
    BY <2>3, OpenFacts, Zenon
  <2>5. db \in DB
    BY <2>2 DEF ProcessType
  <2>6. CASE db' = [db EXCEPT !.bg_error = TRUE] /\ bg' = Quiet /\ manifests' = manifests
    <3>1. /\ db' \in DB /\ db'.pc = "open" /\ db'.bg_error = TRUE /\ db'.mem = db.mem
          /\ db'.next_file_number = db.next_file_number /\ db'.last_sequence = db.last_sequence
          /\ db'.imm = db.imm /\ db'.version = db.version /\ db'.manifest = db.manifest
          /\ db'.log_number = db.log_number /\ db'.logfile = db.logfile
      BY <2>3, <2>5, <2>6, Zenon DEF DB
    <3>2. DirType' /\ FilesInv' /\ CurrentInv'
      BY <2>1, <2>2, <2>6, DirStays DEF dir
    <3>3. EntriesInv' /\ CompleteInv'
      BY <2>1, <2>2, <2>6, <3>1, Zenon DEF EntriesInv, CompleteInv, Trusted
    <3>4. OpeningInv' /\ RepairInv'
      BY <2>1, <2>2, <2>3, <3>1, OpenStays DEF PhaseInv
    <3>5. bg'.pc = "idle" /\ bg' \in [pc : {"idle", "log", "sync", "install"}, edit : Edit \cup {NULL}]
      BY <2>6 DEF Quiet
    <3>6. ProcessType' /\ GroupInv' /\ QueueInv'
      BY <2>1, <2>2, <3>1, <3>5, Zenon DEF ProcessType, GroupInv, QueueInv, InFlight
    <3>7. SequenceInv' /\ OpenInv'
      <4>1. InFlight' <=> InFlight
        BY <2>1 DEF InFlight
      <4>2. SequenceInv'
        BY <2>1, <2>2, <2>3, <3>1, <4>1, Zenon DEF SequenceInv
      <4>3. OpenInv'
        BY <2>1, <2>2, <2>3, <2>6, <3>1, Zenon DEF OpenInv
      <4> QED
        BY <4>2, <4>3
    <3>8. EditInv'
      <4>1. manifests[current].synced >= 2
        BY <2>3, OpenFacts, Zenon
      <4>2. bg'.pc # "log" /\ bg'.pc \notin {"sync", "install"}
        BY <3>5
      <4> QED
        BY <2>1, <2>4, <2>6, <3>1, <3>5, <4>1, <4>2, Zenon DEF EditInv
    <3> QED
      BY <3>2, <3>3, <3>4, <3>6, <3>7, <3>8 DEF IInv, DirInv, ProcessInv
  <2>7. CASE /\ manifests' = [manifests EXCEPT ![db.manifest].synced = Len(manifests[db.manifest].data)]
             /\ bg' = [bg EXCEPT !.pc = "install"] /\ db' = db
    <3> DEFINE m == [old EXCEPT !.synced = l]
    <3>1. m \in Manifest /\ m.data = old.data /\ m.synced = l
      BY <2>4 DEF Manifest
    <3>2. manifests' = [manifests EXCEPT ![current] = m]
      BY <2>4, <2>7, Zenon
    <3> HIDE DEF m, old, l
    <3>3. /\ Files(manifests', Manifest) /\ DOMAIN manifests' = DOMAIN manifests
          /\ manifests'[current] = m
          /\ \A n \in DOMAIN manifests : n # current => manifests'[n] = manifests[n]
      BY <2>2, <2>4, <3>1, <3>2 DEF DirType, Files
    <3>4. l = Len(old.data) /\ old = manifests[current]
      BY DEF l, old
    <3>5. Kept(m) = {l} /\ l \in Kept(old) /\ m.data = old.data
      BY <2>3, <2>4, <3>1, <3>4, LastPlaces, Intervals, Zenon DEF Kept
    <3>6. DirType' /\ FilesInv'
      <4>1. m.synced <= Len(m.data)
        BY <2>4, <3>1, <3>4
      <4>2. \A n \in DOMAIN manifests' :
               manifests'[n].synced <= Len(manifests'[n].data) /\ Orderly(manifests'[n].data)
        BY <2>2, <2>4, <3>1, <3>3, <4>1, Zenon DEF FilesInv
      <4> QED
        BY <2>1, <2>2, <3>3, <4>2, Zenon DEF DirType, FilesInv
    <3>7. CurrentInv'
      <4>1. SoundManifest(m, tables)
        BY <2>4, <3>5, Zenon DEF SoundManifest, Readable, Sound
      <4>2. NumbersAfter(current, m)
        BY <2>4, <3>5, Zenon DEF NumbersAfter, Readable
      <4> QED
        BY <2>1, <3>3, <4>1, <4>2, Zenon DEF CurrentInv
    <3>8. EntriesInv'
      BY <2>1, <2>2, <2>7, Zenon DEF EntriesInv
    <3>9. m.synced >= 2 /\ Readable(m, Len(m.data))
      BY <2>3, <2>4, <3>1, <3>4, <3>5, LastPlaces, Zenon DEF Readable
    <3>10. CompleteInv'
      BY <2>1, <2>4, <3>3, <3>9, Zenon DEF CompleteInv
    <3>11. OpeningInv' /\ RepairInv'
      BY <2>1, <2>2, <2>3, <2>7, OpenStays DEF PhaseInv
    <3>12. bg'.pc = "install" /\ bg'.edit = bg.edit
           /\ bg' \in [pc : {"idle", "log", "sync", "install"}, edit : Edit \cup {NULL}]
      BY <2>2, <2>7 DEF ProcessType
    <3>13. ProcessType' /\ GroupInv' /\ QueueInv'
      BY <2>1, <2>2, <2>3, <2>7, <3>12, Zenon DEF ProcessType, GroupInv, QueueInv, InFlight
    <3>14. SequenceInv' /\ OpenInv'
      BY <2>1, <2>2, <2>3, <2>7, <3>3, Zenon DEF SequenceInv, OpenInv, InFlight
    <3>15. EditInv'
      <4>1. Flush(bg.edit)' \/ Compaction(bg.edit)'
        BY <2>1, <2>3, <2>7, <3>12, Zenon DEF Flush, Compaction
      <4>2. \A k \in Kept(m) : m.data[k].next <= db.next_file_number
        BY <2>4, <3>5, Zenon
      <4>3. bg'.pc # "log" /\ bg'.pc # "idle" /\ bg'.pc # "sync"
        BY <3>12
      <4>4. /\ Len(m.data) > 2 /\ m.data[Len(m.data)] = bg.edit /\ Ver(m.data, Len(m.data) - 1) = db.version
            /\ m.synced = Len(m.data)
        BY <2>3, <3>1, <3>4, Zenon
      <4>5. manifests'[current'] = m /\ db'.pc = "open"
        BY <2>1, <2>3, <2>7, <3>3
      <4>6. /\ manifests'[current'].synced >= 2
            /\ \A k \in Kept(manifests'[current']) : manifests'[current'].data[k].next <= db'.next_file_number
        BY <2>7, <3>9, <4>2, <4>5, Zenon
      <4>7. /\ Len(manifests'[current'].data) > 2
            /\ manifests'[current'].data[Len(manifests'[current'].data)] = bg'.edit
            /\ Ver(manifests'[current'].data, Len(manifests'[current'].data) - 1) = db'.version
            /\ manifests'[current'].synced = Len(manifests'[current'].data)
        BY <2>7, <3>12, <4>4, <4>5, Zenon
      <4>8. \A n \in bg'.edit.added : n \in DOMAIN tables'
        BY <2>1, <2>3, <3>12, Zenon
      <4> QED
        BY <4>1, <4>3, <4>6, <4>7, <4>8, Zenon DEF EditInv
    <3> QED
      BY <3>6, <3>7, <3>8, <3>10, <3>11, <3>13, <3>14, <3>15 DEF IInv, DirInv, ProcessInv
  <2> QED
    BY <2>6, <2>7 DEF SyncManifest
\* The new version is installed and obsolete files are deleted.
<1>InstallStep. ASSUME IInv, Install
                PROVE  IInv'
  <2> USE <1>InstallStep
  <2> DEFINE m == manifests[current]
             l == Len(m.data)
             V == (db.version \ bg.edit.deleted) \cup bg.edit.added
             I == IF bg.edit.deleted = {} THEN {} ELSE db.imm
             L == bg.edit.log
  <2>1. /\ bg' = Quiet /\ current' = current
        /\ queue' = queue /\ group' = group /\ repair' = repair /\ synced' = synced /\ spent' = spent
        /\ bound' = bound /\ odd' = odd
    BY InstallFacts, Zenon
  <2>2. /\ DirType /\ FilesInv /\ CurrentInv /\ EntriesInv /\ CompleteInv /\ PhaseInv
        /\ ProcessType /\ OpenInv /\ SequenceInv /\ GroupInv /\ QueueInv
    BY DEF IInv, DirInv, OpeningInv, ProcessInv
  <2>3. db.pc = "open" /\ m.synced = l
    BY InstallFacts, Zenon
  <2>4. /\ current = db.manifest /\ current \in DOMAIN manifests /\ l \in Nat
        /\ SoundManifest(m, tables) /\ NumbersAfter(current, m) /\ m.synced >= 2
        /\ \A k \in Kept(m) : Readable(m, k) /\ m.data[k].next <= db.next_file_number
    BY InstallFacts, Zenon
  <2>5. DOMAIN logs \subseteq Nat /\ db.version \subseteq DOMAIN tables
    BY InstallFacts, Zenon
  <2>6. L \in Nat /\ L <= db.logfile /\ I \subseteq db.imm /\ (I = {} <=> L = db.logfile)
    BY InstallFacts, Zenon
  <2>8. Ver(m.data, l) = V
    BY InstallFacts, Zenon
  <2>9. /\ db' \in DB /\ db'.pc = "open" /\ db'.version = V /\ db'.log_number = L /\ db'.imm = I
        /\ db'.mem = db.mem /\ db'.next_file_number = db.next_file_number
        /\ db'.last_sequence = db.last_sequence /\ db'.manifest = db.manifest
        /\ db'.logfile = db.logfile /\ db'.bg_error = db.bg_error
    BY InstallFacts, Zenon
  <2>10. /\ Files(logs', Log) /\ DOMAIN logs' \subseteq DOMAIN logs /\ db.logfile \in DOMAIN logs'
         /\ \A i \in DOMAIN logs' : logs'[i] = logs[i]
    BY InstallFacts, Zenon
  <2>11. /\ Files(manifests', Manifest) /\ DOMAIN manifests' \subseteq DOMAIN manifests
         /\ current \in DOMAIN manifests' /\ \A i \in DOMAIN manifests' : manifests'[i] = manifests[i]
    BY InstallFacts, Zenon
  <2>12. /\ Files(tables', SUBSET Entry) /\ DOMAIN tables' \subseteq DOMAIN tables
         /\ V \subseteq DOMAIN tables' /\ \A i \in DOMAIN tables' : tables'[i] = tables[i]
    BY InstallFacts, Zenon
  <2>14. Kept(m) = {l}
    BY InstallFacts, Zenon
  <2> HIDE DEF V, I, L, m, l
  <2>13. l = Len(m.data) /\ manifests'[current'] = m
    BY <2>1, <2>11 DEF l, m
  <2>15. DirType' /\ FilesInv'
    BY <2>1, <2>2, <2>10, <2>11, <2>12, Zenon DEF DirType, FilesInv
  <2>16. CurrentInv'
    <3>1. Sound(m, l, tables)
      BY <2>4, <2>14 DEF SoundManifest
    <3>2. Sound(m, l, tables')
      BY <2>8, <2>12, <3>1, Zenon DEF Sound
    <3>3. SoundManifest(m, tables')
      BY <2>14, <3>2 DEF SoundManifest
    <3> QED
      BY <2>1, <2>4, <2>13, <3>3, Zenon DEF CurrentInv
  <2>17. EntriesInv'
    <3>1. Held(db'.mem, db'.imm, tables', logs') \subseteq Held(db.mem, db.imm, tables, logs)
      BY <2>6, <2>9, <2>10, <2>12, HeldLemma
    <3> QED
      BY <2>2, <2>5, <2>10, <2>12, <3>1, EntriesStay, ZenonT(60)
  <2>18. CompleteInv'
    <3>1. Readable(m, Len(m.data))
      BY <2>4, <2>13, <2>14, Zenon
    <3> QED
      BY <2>1, <2>4, <2>11, <2>13, <3>1, Zenon DEF CompleteInv
  <2>19. OpeningInv' /\ RepairInv'
    BY <2>1, <2>3, <2>9, <2>12, OpenStays
  <2>20. bg'.pc = "idle" /\ bg' \in [pc : {"idle", "log", "sync", "install"}, edit : Edit \cup {NULL}]
    BY <2>1 DEF Quiet
  <2>21. ProcessType' /\ QueueInv'
    BY <2>1, <2>2, <2>9, <2>20, Zenon DEF ProcessType, QueueInv
  <2>22. InFlight' <=> InFlight
    BY <2>1 DEF InFlight
  <2>23. GroupInv'
    <3>1. logs'[db.logfile] = logs[db.logfile]
      BY <2>10, Zenon
    <3> QED
      BY <2>1, <2>2, <2>9, <2>22, <3>1, Zenon DEF GroupInv
  <2>24. SequenceInv'
    BY <2>2, <2>3, <2>6, <2>9, <2>10, <2>12, <2>22 DEF SequenceInv
  <2>25. OpenInv'
    <3>1. \A M, N \in I : M = N
      BY <2>2, <2>3, <2>6, Zenon DEF OpenInv
    <3>2. /\ \A n \in DOMAIN logs' : n <= db.logfile
          /\ \A n \in DOMAIN tables' : n < db.next_file_number
      BY <2>2, <2>3, <2>10, <2>12 DEF OpenInv
    <3> QED
      BY <2>1, <2>2, <2>3, <2>4, <2>6, <2>9, <2>10, <2>11, <3>1, <3>2, Zenon DEF OpenInv
  <2>26. EditInv'
    <3>1. /\ manifests'[current'].synced >= 2
          /\ \A k \in Kept(manifests'[current']) : manifests'[current'].data[k].next <= db'.next_file_number
          /\ manifests'[current'].synced = Len(manifests'[current'].data)
          /\ Ver(manifests'[current'].data, Len(manifests'[current'].data)) = db'.version
      BY <2>3, <2>4, <2>8, <2>9, <2>13, Zenon
    <3>2. bg'.pc # "log" /\ bg'.pc \notin {"sync", "install"}
      BY <2>20
    <3> QED
      BY <2>20, <3>1, <3>2, Zenon DEF EditInv
  <2> QED
    BY <2>15, <2>16, <2>17, <2>18, <2>19, <2>21, <2>23, <2>24, <2>25, <2>26 DEF IInv, DirInv, ProcessInv
<1> QED
  BY <1>BuildTableStep, <1>LogEditStep, <1>SyncManifestStep, <1>InstallStep DEF Background

\* The steps of the background thread keep what is promised.
LEMMA BackgroundIsDurable ==
    ASSUME NumberFacts
    PROVE  IInv /\ IInv' /\ DInv /\ Background => DInv'
\* A step of the background thread that leaves the version and the logs alone.
<1>TurnDurable. ASSUME IInv, IInv', DInv, db.pc = "open", db'.pc = "open",
                       UNCHANGED <<logs, current, group, promised, synced, odd>>,
                       db'.mem = db.mem, db'.imm = db.imm, db'.version = db.version,
                       db'.log_number = db.log_number, db'.logfile = db.logfile, db'.bg_error = db.bg_error,
                       \A n \in db.version : tables'[n] = tables[n],
                       Fine => \A k \in Kept(manifests'[current]) : Covers(manifests'[current], k, db', tables')
                PROVE  DInv'
  <2> USE <1>TurnDurable
  <2>1. /\ logs' = logs /\ current' = current /\ promised' = promised /\ odd' = odd
        /\ (Fine' <=> Fine) /\ Safe' = Safe /\ (InFlight' <=> InFlight)
    BY Zenon DEF Fine, Safe, InFlight
  <2>2. PICK us : us = tables'
    BY Zenon
  <2>3. TablesOf(db.version, us) = TablesOf(db.version, tables)
    BY <2>2, TablesSame
  <2>4. Contents' = Contents
    BY <2>2, <2>3, Zenon DEF Contents, TablesOf
  <2>5. ContentsInv'
    <3>1. TablesOf(db'.version, tables') = TablesOf(db.version, tables)
      BY <2>2, <2>3, Zenon
    <3> QED
      BY <2>1, <2>4, <3>1, Zenon DEF DInv, ContentsInv
  <2>6. Fine' => "repair" \notin odd'
    BY <2>1 DEF DInv, RecoveryInv
  <2> QED
    BY <2>5, <2>6, OpenDurable, Zenon
\* A table is built: no version names it yet.
<1>BuildTableDurable. ASSUME IInv, IInv', DInv, BuildTable
                      PROVE  DInv'
  <2> USE <1>BuildTableDurable
  <2> DEFINE n == db.next_file_number
             flush == db.imm # {}
             data == IF flush THEN UNION db.imm ELSE UNION {tables[i] : i \in db.version}
  <2>1. /\ db.pc = "open" /\ ~db.bg_error
        /\ UNCHANGED <<logs, manifests, current, group, promised, synced, odd>>
        /\ \/ /\ tables' = IF data = {} THEN tables ELSE Put(tables, n, data)
              /\ db' = [db EXCEPT !.next_file_number = @ + 1]
           \/ db' = [db EXCEPT !.bg_error = TRUE, !.next_file_number = @ + 1] /\ tables' = tables
    BY Zenon DEF BuildTable, NotBackground, promises
  <2>2. db \in DB /\ db.version \subseteq DOMAIN tables
    BY DEF IInv, ProcessType, OpeningInv, PhaseInv
  <2>3. CASE db' = [db EXCEPT !.bg_error = TRUE, !.next_file_number = @ + 1] /\ tables' = tables
    <3>1. PICK N : db' = [db EXCEPT !.bg_error = TRUE, !.next_file_number = N]
      BY <2>3, Zenon
    <3>2. /\ db'.pc = db.pc /\ db'.bg_error = TRUE /\ db'.imm = db.imm /\ db'.version = db.version
          /\ db'.log_number = db.log_number /\ db'.logfile = db.logfile /\ db'.mem = db.mem
      BY <2>2, <3>1 DEF DB
    <3> QED
      BY <2>1, <2>3, <3>2, QuietDurable
  <2>4. CASE /\ tables' = IF data = {} THEN tables ELSE Put(tables, n, data)
             /\ db' = [db EXCEPT !.next_file_number = @ + 1]
    <3>1. PICK N : db' = [db EXCEPT !.next_file_number = N]
      BY <2>4, Zenon
    <3>2. /\ db'.pc = db.pc /\ db'.bg_error = db.bg_error /\ db'.imm = db.imm /\ db'.version = db.version
          /\ db'.log_number = db.log_number /\ db'.logfile = db.logfile /\ db'.mem = db.mem
      BY <2>2, <3>1 DEF DB
    <3>3. data \subseteq Held(db.mem, db.imm, tables, logs)
      BY <2>2 DEF Held, AllEntries
    <3>4. PICK us, d, m : us = tables' /\ d = db' /\ m = manifests[current]
      OBVIOUS
    <3>5. us = tables \/ us = Put(tables, db.next_file_number, data)
      <4>1. tables' = IF data = {} THEN tables ELSE Put(tables, db.next_file_number, data)
        BY <2>4, Zenon
      <4> QED
        BY <3>4, <4>1, Zenon
    <3> HIDE DEF data, n, flush
    <3>6. \A i \in DOMAIN tables : us[i] = tables[i]
      BY <2>1, <3>3, <3>5, TableAdded, SMTT(30)
    <3>7. ASSUME Fine, NEW k \in Kept(m) PROVE Covers(m, k, d, us)
      <4>1. Covers(m, k, db, tables)
        BY <2>1, <3>4, <3>7, Zenon DEF DInv, ContentsInv
      <4>2. Ver(m.data, k) \subseteq DOMAIN tables
        BY <2>1, <3>4, <3>7, OpenFacts, Zenon DEF SoundManifest, Sound
      <4>3. /\ TablesOf(Ver(m.data, k), us) = TablesOf(Ver(m.data, k), tables)
            /\ TablesOf(db.version, us) = TablesOf(db.version, tables)
        BY <2>2, <3>6, <4>2, TablesSame, Zenon
      <4> QED
        BY <3>2, <3>4, <4>1, <4>3 DEF Covers
    <3> QED
      BY <2>1, <2>2, <3>2, <3>4, <3>6, <3>7, <1>TurnDurable
  <2> QED
    BY <2>1, <2>3, <2>4, Zenon
\* An edit that adds the immutable memtable, or the tables that take the place of the
\* version's, leaves out nothing.
<1>EditCovers. ASSUME IInv, db.pc = "open", NEW m \in Manifest, NEW k \in 1 .. Len(m.data),
                      Ver(m.data, k - 1) = db.version, Flush(m.data[k]) \/ Compaction(m.data[k])
               PROVE  Covers(m, k, db, tables)
  <2> USE <1>EditCovers
  <2>1. PICK e, V : e = m.data[k] /\ V = Ver(m.data, k)
    BY Zenon
  <2>2. V = (db.version \ e.deleted) \cup e.added
    BY <2>1, ManifestLemma, VersionApplies, Zenon DEF Apply
  <2>3. db.log_number \in Nat /\ db.logfile \in Nat /\ db.log_number <= db.logfile
    <3>1. db \in DB /\ OpenInv
      BY Zenon DEF IInv, ProcessType, ProcessInv
    <3> QED
      BY <3>1, Zenon DEF DB, OpenInv
  <2>4. CASE Flush(e)
    <3>1. V = db.version \cup e.added /\ UNION db.imm = TablesOf(e.added, tables) /\ e.log = db.logfile
      BY <2>2, <2>4, Zenon DEF Flush
    <3>2. TablesOf(db.version, tables) \subseteq TablesOf(V, tables) /\ UNION db.imm \subseteq TablesOf(V, tables)
      BY <3>1, InTables, Zenon
    <3>3. m.data[k].log <= db.logfile
      BY <2>1, <2>3, <3>1, NextNumber, Zenon
    <3> QED
      BY <2>1, <3>2, <3>3, Zenon DEF Covers
  <2>5. CASE Compaction(e)
    <3>1. V = e.added /\ TablesOf(V, tables) = TablesOf(db.version, tables) /\ e.log = db.log_number
      BY <2>2, <2>5, Zenon DEF Compaction
    <3> QED
      <4>1. e.log <= db.log_number /\ e.log <= db.logfile
        BY <2>3, <3>1, NextNumber, Zenon
      <4> QED
        BY <2>1, <3>1, <4>1, Zenon DEF Covers
  <2> QED
    BY <2>1, <2>4, <2>5, Zenon
\* The edit is written to the MANIFEST in use.
<1>LogEditDurable. ASSUME IInv, IInv', DInv, LogEdit
                   PROVE  DInv'
  <2> USE <1>LogEditDurable
  <2>1. /\ bg.pc = "log" /\ db' = db /\ tables' = tables
        /\ UNCHANGED <<logs, current, group, promised, synced, odd>>
    BY DEF LogEdit, NotBackground, promises
  <2>2. PICK e : /\ e = [bg.edit EXCEPT !.next = db.next_file_number, !.last = db.last_sequence]
                 /\ manifests' = [manifests EXCEPT ![db.manifest].data = Append(@, e)]
    BY Zenon DEF LogEdit
  <2>3. PICK old, m : old = manifests[current] /\ m = manifests'[current]
    BY SMTT(30)
  <2>4. /\ db.pc = "open" /\ bg.edit \in Edit /\ old.synced = Len(old.data)
        /\ Ver(old.data, Len(old.data)) = db.version /\ (Flush(bg.edit) \/ Compaction(bg.edit))
    BY <2>1, <2>3, BackgroundFacts
  <2>5. db.next_file_number \in Nat /\ db.last_sequence \in Nat
    BY DEF IInv, ProcessType, DB
  <2>6. e \in Edit /\ e.log = bg.edit.log /\ e.added = bg.edit.added /\ e.deleted = bg.edit.deleted
    BY <2>2, <2>4, <2>5, Zenon DEF Edit, Number
  <2>7. Flush(e) \/ Compaction(e)
    BY <2>4, <2>6, Zenon DEF Flush, Compaction
  <2>8. /\ m.data = Append(old.data, e) /\ m.synced = old.synced /\ Len(m.data) = Len(old.data) + 1
        /\ m.data[Len(m.data)] = e /\ \A i \in DOMAIN old.data : m.data[i] = old.data[i]
        /\ DOMAIN old.data = 1 .. Len(old.data)
    <3>1. /\ manifests'[current].data = Append(manifests[current].data, e)
          /\ manifests'[current].synced = manifests[current].synced
          /\ Len(manifests'[current].data) = Len(manifests[current].data) + 1
          /\ DOMAIN manifests[current].data = 1 .. Len(manifests[current].data)
          /\ manifests'[current].data[Len(manifests'[current].data)] = e
          /\ \A i \in DOMAIN manifests[current].data :
                manifests'[current].data[i] = manifests[current].data[i]
      BY <2>2, <2>4, <2>6, ManifestGrows, Zenon
    <3> QED
      BY <2>3, <3>1, Zenon
  <2>9. /\ current \in DOMAIN manifests /\ old \in Manifest /\ Len(old.data) \in Nat /\ old.data \in Seq(Edit)
        /\ old.synced >= 2 /\ old.synced \in Nat
    BY <2>3, <2>4, OpenFacts, Zenon
  <2>10. m \in Manifest
    BY <2>2, <2>3, <2>4, <2>6, <2>9, ManifestGrows, Zenon DEF Files
  <2>11. ASSUME Fine, NEW k \in Kept(m) PROVE Covers(m, k, db, tables)
    <3>1. k \in Kept(old) \/ k = Len(m.data)
      BY <2>8, <2>9, <2>11 DEF Kept
    <3>2. CASE k = Len(m.data)
      <4>1. k \in 1 .. Len(m.data) /\ k - 1 = Len(old.data) /\ Len(old.data) \in 0 .. Len(old.data)
        <5>1. PICK a \in Nat : a = Len(old.data)
          BY <2>9, Zenon
        <5>2. k = a + 1 /\ Len(m.data) = a + 1
          BY <2>8, <3>2, <5>1, Zenon
        <5> QED
          BY <5>1, <5>2, NextNumber, Intervals, Zenon
      <4>2. Ver(m.data, k - 1) = db.version
        BY <2>4, <2>6, <2>8, <2>9, <4>1, VersionsStay
      <4> QED
        BY <2>4, <2>7, <2>8, <2>10, <3>2, <4>1, <4>2, <1>EditCovers, Zenon
    <3>3. CASE k \in Kept(old)
      <4>1. Covers(old, k, db, tables)
        BY <2>3, <2>4, <2>11, <3>3, Zenon DEF DInv, ContentsInv
      <4>2. k \in 0 .. Len(old.data) /\ k \in DOMAIN old.data
        <5>1. PICK a, b \in Nat : a = Len(old.data) /\ b = old.synced
          BY <2>9, Zenon
        <5>2. \A i \in b .. a : i \in 0 .. a /\ i \in 1 .. a
          BY <2>9, <5>1, SMTT(30)
        <5> QED
          BY <2>8, <3>3, <5>1, <5>2, Zenon DEF Kept
      <4>3. Ver(m.data, k) = Ver(old.data, k) /\ m.data[k] = old.data[k]
        BY <2>6, <2>8, <2>9, <4>2, VersionsStay
      <4> QED
        BY <4>1, <4>3, Zenon DEF Covers
    <3> QED
      BY <3>1, <3>2, <3>3
  <2> QED
    BY <2>1, <2>3, <2>4, <2>11, <1>TurnDurable, Zenon
\* The MANIFEST in use is synced, or that fails.
<1>SyncManifestDurable. ASSUME IInv, IInv', DInv, SyncManifest
                        PROVE  DInv'
  <2> USE <1>SyncManifestDurable
  <2>1. /\ bg.pc = "sync" /\ UNCHANGED <<logs, tables, current, group, promised, synced, odd>>
        /\ \/ /\ manifests' = [manifests EXCEPT ![db.manifest].synced = Len(manifests[db.manifest].data)]
              /\ db' = db
           \/ db' = [db EXCEPT !.bg_error = TRUE] /\ manifests' = manifests
    BY DEF SyncManifest, NotBackground, promises
  <2>2. db.pc = "open" /\ db \in DB
    BY <2>1, BackgroundFacts DEF IInv, ProcessType
  <2>3. CASE /\ manifests' = [manifests EXCEPT ![db.manifest].synced = Len(manifests[db.manifest].data)]
             /\ db' = db
    <3>1. PICK old, m : old = manifests[current] /\ m = manifests'[current]
      OBVIOUS
    <3>2. /\ current = db.manifest /\ current \in DOMAIN manifests /\ old \in Manifest
          /\ old.synced <= Len(old.data) /\ Len(old.data) \in Nat /\ old.synced \in Nat
      BY <2>2, <3>1, OpenFacts
    <3>3. m.data = old.data /\ m.synced = Len(old.data)
      <4>1. m = [old EXCEPT !.synced = Len(old.data)]
        BY <2>3, <3>1, <3>2, ZenonT(60)
      <4> QED
        BY <3>2, <4>1 DEF Manifest
    <3>4. ASSUME Fine, NEW k \in Kept(m) PROVE Covers(m, k, db, tables)
      <4>1. k \in Kept(old)
        BY <3>2, <3>3, <3>4 DEF Kept
      <4>2. Covers(old, k, db, tables)
        BY <2>2, <3>1, <3>4, <4>1, Zenon DEF DInv, ContentsInv
      <4> QED
        BY <3>3, <4>2 DEF Covers
    <3> QED
      BY <2>1, <2>2, <2>3, <3>1, <3>4, <1>TurnDurable, ZenonT(60)
  <2>4. CASE db' = [db EXCEPT !.bg_error = TRUE] /\ manifests' = manifests
    <3>1. /\ db'.pc = db.pc /\ db'.bg_error = TRUE /\ db'.imm = db.imm /\ db'.version = db.version
          /\ db'.log_number = db.log_number /\ db'.logfile = db.logfile /\ db'.mem = db.mem
      BY <2>2, <2>4 DEF DB
    <3> QED
      BY <2>1, <2>2, <2>4, <3>1, QuietDurable
  <2> QED
    BY <2>1, <2>3, <2>4
\* The new version is installed: the tables that take the place of the old ones, or of the
\* immutable memtable and its log, hold what those held.
<1>InstallDurable. ASSUME IInv, IInv', DInv, Install
                   PROVE  DInv'
  <2> USE <1>InstallDurable
  <2> DEFINE V == (db.version \ bg.edit.deleted) \cup bg.edit.added
             I == IF bg.edit.deleted = {} THEN {} ELSE db.imm
             L == bg.edit.log
  <2>1. /\ current' = current /\ group' = group /\ odd' = odd /\ promised' = promised
        /\ db.pc = "open" /\ (Fine' <=> Fine) /\ Safe' = Safe /\ (InFlight' <=> InFlight)
    BY InstallFacts, Zenon DEF Fine, Safe, InFlight
  <2>2. PICK m, l, ks, us, d : /\ m = manifests[current] /\ l = Len(m.data) /\ ks = logs' /\ us = tables' /\ d = db'
    BY Zenon
  <2>3. /\ m.data[l] = bg.edit /\ Kept(m) = {l} /\ Ver(m.data, l) = V /\ manifests'[current] = m
    BY <2>2, InstallFacts, Zenon
  <2>4. /\ db.logfile \in Nat /\ db.log_number \in Nat /\ L \in Nat /\ L <= db.logfile
        /\ DOMAIN logs \subseteq Nat /\ db.logfile \in DOMAIN logs /\ db.log_number <= db.logfile
    BY InstallFacts, Zenon
  <2>5. /\ d.pc = "open" /\ d.version = V /\ d.log_number = L /\ d.imm = I /\ d.mem = db.mem
        /\ d.logfile = db.logfile /\ d.bg_error = db.bg_error
    BY <2>2, InstallFacts, Zenon
  <2>6. /\ DOMAIN ks \subseteq DOMAIN logs /\ db.logfile \in DOMAIN ks
        /\ \A i \in DOMAIN ks : ks[i] = logs[i]
        /\ \A i \in DOMAIN logs : i >= L => i \in DOMAIN ks
    BY <2>2, InstallFacts, Zenon
  <2>7. \A i \in V : us[i] = tables[i]
    BY <2>2, InstallFacts, Zenon
  <2>8. Flush(bg.edit) \/ Compaction(bg.edit)
    BY InstallFacts, Zenon
  <2>9. /\ TablesOf(db.version, tables) \subseteq TablesOf(V, us)
        /\ \/ UNION db.imm \subseteq TablesOf(V, us) /\ I = {} /\ L = db.logfile
           \/ I = db.imm /\ L = db.log_number
    <3>1. TablesOf(V, us) = TablesOf(V, tables)
      BY <2>7, TablesSame, Zenon
    <3>2. CASE Flush(bg.edit)
      <4>1. V = db.version \cup bg.edit.added /\ UNION db.imm = TablesOf(bg.edit.added, tables)
        BY <3>2 DEF Flush
      <4>2. I = {} /\ L = db.logfile
        BY <3>2, Zenon DEF Flush
      <4> HIDE DEF V
      <4>3. TablesOf(db.version, tables) \subseteq TablesOf(V, tables) /\ UNION db.imm \subseteq TablesOf(V, tables)
        BY <4>1, InTables, Zenon
      <4> QED
        BY <3>1, <4>2, <4>3
    <3>3. CASE Compaction(bg.edit)
      <4>1. V = bg.edit.added /\ I = db.imm /\ L = db.log_number
        BY <3>3, Zenon DEF Compaction
      <4> HIDE DEF V
      <4> QED
        BY <3>1, <3>3, <4>1, Zenon DEF Compaction
    <3> QED
      BY <2>8, <3>2, <3>3, Zenon
  <2> HIDE DEF V, I, L
  <2>10. Contents \subseteq Contents'
    <3>1. /\ Contents = db.mem \cup (UNION db.imm) \cup TablesOf(db.version, tables)
          /\ Contents' = db.mem \cup (UNION I) \cup TablesOf(V, us)
      BY <2>2, <2>5 DEF Contents, TablesOf
    <3> QED
      BY <2>9, <3>1
  <2>11. ASSUME Fine PROVE promised \subseteq Ids(Contents')
    <3>1. promised \subseteq Ids(Contents)
      BY <2>1, <2>11, Zenon DEF DInv, ContentsInv
    <3> QED
      BY <2>10, <3>1, IdsGrow
  <2>12. ASSUME Fine PROVE Safe \subseteq Ids(TablesOf(V, us) \cup SafeFrom(L, ks))
    <3>1. Safe \subseteq Ids(TablesOf(db.version, tables) \cup SafeFrom(db.log_number, logs))
      BY <2>1, <2>12, Zenon DEF DInv, ContentsInv
    <3>2. ASSUME NEW x \in SafeFrom(db.log_number, logs)
          PROVE  x \in TablesOf(V, us) \cup SafeFrom(L, ks)
      <4>1. PICK n \in DOMAIN logs : n >= db.log_number /\ \E i \in 1 .. logs[n].synced : x \in logs[n].data[i]
        BY <3>2, InLogs, Zenon
      <4>2. PICK i \in 1 .. logs[n].synced : x \in logs[n].data[i]
        BY <4>1, Zenon
      <4>3. CASE n >= L
        <5>1. n \in DOMAIN ks /\ ks[n] = logs[n]
          BY <2>6, <4>3, Zenon
        <5> QED
          BY <4>2, <4>3, <5>1, InLogs, Zenon
      <4>4. CASE ~(n >= L)
        <5>1. n < db.logfile /\ db.log_number <= n /\ UNION db.imm \subseteq TablesOf(V, us)
          BY <2>4, <2>9, <4>1, <4>4, BelowNext, Zenon
        <5>2. i \in DOMAIN logs[n].data
          <6>1. logs[n].data \in Seq(SUBSET Entry) /\ logs[n].synced \in Nat /\ logs[n].synced <= Len(logs[n].data)
            BY DEF IInv, DirType, Files, Log, DirInv, FilesInv
          <6> QED
            BY <6>1
        <5>3. logs[n].data[i] \subseteq UNION db.imm
          BY <2>1, <2>12, <5>1, <5>2, Zenon DEF DInv, ContentsInv
        <5> QED
          BY <4>2, <5>1, <5>3, Zenon
      <4> QED
        BY <4>3, <4>4, Zenon
    <3>3. TablesOf(db.version, tables) \cup SafeFrom(db.log_number, logs) \subseteq TablesOf(V, us) \cup SafeFrom(L, ks)
      BY <2>9, <3>2, Zenon
    <3> QED
      BY <3>1, <3>3, IdsGrow
  <2>13. ASSUME NEW k \in Kept(m) PROVE Covers(m, k, d, us)
    <3>1. k = l /\ m.data[k].log = L /\ Ver(m.data, k) = V
      BY <2>3, <2>13, Zenon DEF L
    <3>2. m.data[k].log <= d.logfile /\ m.data[k].log <= d.log_number
      BY <2>4, <2>5, <3>1
    <3> QED
      BY <2>5, <3>1, <3>2 DEF Covers
  <2>14. ks[db.logfile] = logs[db.logfile]
    BY <2>6, Zenon
  <2>15. ASSUME Fine, NEW x \in UNION I
         PROVE  \E n \in DOMAIN ks : n >= L /\ \E i \in DOMAIN ks[n].data : x \in ks[n].data[i]
    <3>1. I = db.imm /\ L = db.log_number
      BY <2>9, <2>15
    <3>2. PICK n \in DOMAIN logs : n >= db.log_number /\ \E i \in DOMAIN logs[n].data : x \in logs[n].data[i]
      BY <2>1, <2>15, <3>1, Zenon DEF DInv, ContentsInv
    <3> QED
      BY <2>6, <3>1, <3>2, Zenon
  <2>16. ASSUME Fine, NEW n \in DOMAIN ks, L <= n, n < db.logfile, NEW i \in DOMAIN ks[n].data
         PROVE  ks[n].data[i] \subseteq UNION I
    <3>1. I = db.imm /\ L = db.log_number /\ n \in DOMAIN logs /\ ks[n] = logs[n]
      BY <2>4, <2>6, <2>9, <2>16
    <3>2. logs[n].data[i] \subseteq UNION db.imm
      BY <2>1, <2>16, <3>1, Zenon DEF DInv, ContentsInv
    <3> QED
      BY <3>1, <3>2, Zenon
  <2>17. ContentsInv'
    <3>1. Fine => /\ \A x \in db.mem : \E i \in DOMAIN logs[db.logfile].data : x \in logs[db.logfile].data[i]
                  /\ ~db.bg_error => \A i \in DOMAIN logs[db.logfile].data :
                        logs[db.logfile].data[i] \subseteq db.mem \/ (InFlight /\ i = Len(logs[db.logfile].data))
      BY <2>1, Zenon DEF DInv, ContentsInv
    <3>2. /\ logs' = ks /\ tables' = us /\ db' = d /\ manifests'[current'] = m /\ promised' = promised
          /\ Safe' = Safe /\ (Fine' => Fine)
      BY <2>1, <2>2, <2>3, Zenon
    <3>3. Fine => /\ \A x \in d.mem : \E i \in DOMAIN ks[d.logfile].data : x \in ks[d.logfile].data[i]
                  /\ ~d.bg_error => \A i \in DOMAIN ks[d.logfile].data :
                        ks[d.logfile].data[i] \subseteq d.mem \/ (InFlight' /\ i = Len(ks[d.logfile].data))
      BY <2>1, <2>5, <2>14, <3>1, Zenon
    <3>4. Fine => /\ \A x \in UNION d.imm : \E n \in DOMAIN ks :
                        n >= d.log_number /\ \E i \in DOMAIN ks[n].data : x \in ks[n].data[i]
                  /\ \A n \in DOMAIN ks : d.log_number <= n /\ n < d.logfile =>
                        \A i \in DOMAIN ks[n].data : ks[n].data[i] \subseteq UNION d.imm
      BY <2>5, <2>15, <2>16
    <3>5. Fine => /\ promised \subseteq Ids(Contents')
                  /\ Safe \subseteq Ids(TablesOf(d.version, us) \cup SafeFrom(d.log_number, ks))
                  /\ \A k \in Kept(m) : Covers(m, k, d, us)
      BY <2>5, <2>11, <2>12, <2>13, Zenon
    <3> QED
      BY <3>2, <3>3, <3>4, <3>5, Zenon DEF ContentsInv
  <2>18. Fine' => "repair" \notin odd'
    BY <2>1, Zenon DEF DInv, RecoveryInv
  <2>19. db'.pc = "open"
    BY <2>2, <2>5
  <2> QED
    BY <2>17, <2>18, <2>19, OpenDurable
<1> QED
  BY <1>BuildTableDurable, <1>LogEditDurable, <1>SyncManifestDurable, <1>InstallDurable, Zenon DEF Background

=============================================================================
