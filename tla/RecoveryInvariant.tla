------------------------- MODULE RecoveryInvariant -------------------------
(***************************************************************************)
(* The inductive invariant behind the theorems about module Recovery:      *)
(* IInv describes every state of the directory and of the process that has *)
(* it open; DInv says where the writes are that must not be lost, LogInv   *)
(* which log must be there.                                                *)
(*                                                                         *)
(* The proofs that the actions keep them are in RecoveryOpenProofs         *)
(* (DB::Open), RecoveryWriteProofs (DB::Write and the background thread)   *)
(* and RecoveryProofs (closing, crashes, RepairDB, and the theorems).      *)
(***************************************************************************)
EXTENDS Recovery

-----------------------------------------------------------------------------
(* Types.                                                                  *)

\* An entry of a table, a memtable or a log record: its sequence number and its write.
Entry == Nat \X Nat
Log == [data : Seq(SUBSET Entry), synced : Nat]
Number == Nat \cup {NULL}
Edit == [log : Number, next : Number, last : Number, added : SUBSET Nat, deleted : SUBSET Nat]
Manifest == [data : Seq(Edit), synced : Nat]
Writer == [id : Nat, size : Nat, sync : BOOLEAN]

DB == [pc : {"closed", "newdb", "recover", "logs", "sync", "current", "install", "open"},
       mem : SUBSET Entry, imm : SUBSET SUBSET Entry, last_sequence : Nat,
       next_file_number : Nat, log_number : Nat, manifest : Nat, logfile : Nat,
       version : SUBSET Nat, bg_error : BOOLEAN,
       todo : SUBSET Nat, read : Nat, max_sequence : Nat, added : SUBSET Nat, ok : BOOLEAN]

Spent == [opens : Nat, writes : Nat, crashes : Nat]

Files(f, T) == DOMAIN f \subseteq Nat /\ f \in [DOMAIN f -> T]

DirType ==
    /\ Files(logs, Log) /\ Files(manifests, Manifest) /\ Files(tables, SUBSET Entry)
    /\ current \in Number

ProcessType ==
    /\ db \in DB
    /\ queue \in Seq(Writer)
    /\ group \in [pc : {"none", "room", "sync", "insert", "failed"}, n : Nat]
    /\ bg \in [pc : {"idle", "log", "sync", "install"}, edit : Edit \cup {NULL}]
    /\ bg.pc # "idle" => bg.edit \in Edit
    /\ repair \in [pc : {"none", "logs", "current"}, next : Nat, found : SUBSET Nat]
    /\ synced \subseteq Nat /\ spent \in Spent
    /\ bound \in Bounds

-----------------------------------------------------------------------------
(* MANIFESTs.                                                              *)

Full(e) == e.log # NULL /\ e.next # NULL /\ e.last # NULL
Bare(e) == e.log = NULL /\ e.next = NULL /\ e.last = NULL

\* Only the first edit of a MANIFEST, the snapshot, may lack the counters.
Orderly(edits) == \A i \in DOMAIN edits : Full(edits[i]) \/ (i = 1 /\ Bare(edits[1]))

\* The tables of the version that the first k edits make.
Ver(edits, k) == Built(SubSeq(edits, 1, k))

\* The lengths that a crash of the machine may leave the file m.
Kept(m) == m.synced .. Len(m.data)

\* Recover accepts the first k edits of m.
Readable(m, k) == k # 0 /\ Full(m.data[k])

\* What the first k edits of m say of the tables ts is true.
Sound(m, k, ts) ==
    /\ \A n \in Ver(m.data, k) :
          n \in DOMAIN ts /\ n < m.data[k].next /\ \A x \in ts[n] : x[1] <= m.data[k].last
    /\ m.data[k].log <= m.data[k].next /\ m.data[k].next <= m.data[Len(m.data)].next

SoundManifest(m, ts) == \A k \in Kept(m) : Readable(m, k) => Sound(m, k, ts)

\* A MANIFEST names numbers after its own, unless it is the first.
NumbersAfter(n, m) == n # 1 => \A k \in Kept(m) : Readable(m, k) => n < m.data[k].next

\* The MANIFEST of NewDB.
NewDescriptor == Written(<<VersionEdit(0, 2, 0, {}, {})>>, 0)

\* The MANIFEST that Open writes: a snapshot of the version v, and an edit that adds the
\* tables a.
NewManifest(v, log, last, a, s) ==
    Written(<<VersionEdit(NULL, NULL, NULL, v, {}), VersionEdit(log, log + 1, last, a, {})>>, s)

\* What is known of it: only both edits together can be read.
Described(m, v, log, last, a, s) ==
    /\ m \in Manifest /\ m.synced = s /\ Len(m.data) = 2 /\ Orderly(m.data)
    /\ m.synced <= Len(m.data) /\ Readable(m, 2) /\ 2 \in Kept(m)
    /\ \A k \in Kept(m) : Readable(m, k) => k = 2
    /\ m.data[2].log = log /\ m.data[2].next = log + 1 /\ m.data[2].last = last
    /\ Ver(m.data, 2) = v \cup a

\* The MANIFEST that RepairDB writes.
RepairDescriptor ==
    Written(<<VersionEdit(0, repair.next, Largest(Seqs(AllEntries(tables))), repair.found, {})>>, 0)

-----------------------------------------------------------------------------
(* The directory.                                                          *)

FilesInv ==
    /\ \A n \in DOMAIN logs : logs[n].synced <= Len(logs[n].data)
    /\ \A n \in DOMAIN manifests :
          manifests[n].synced <= Len(manifests[n].data) /\ Orderly(manifests[n].data)

CurrentInv ==
    current \in DOMAIN manifests =>
        SoundManifest(manifests[current], tables) /\ NumbersAfter(current, manifests[current])

\* The entries of the memtables, tables and logs.
Held(mem, imm, ts, ls) ==
    mem \cup (UNION imm) \cup AllEntries(ts) \cup UNION {EntriesOf(ls[n]) : n \in DOMAIN ls}

Unique(S) == \A a, b \in S : a[1] = b[1] => a = b
Bounded(S) == \E b \in Nat : \A x \in S : x <= b

\* No two entries have one sequence number, and numbers do not run away.
EntriesInv ==
    /\ Unique(Held(db.mem, db.imm, tables, logs))
    /\ Bounded(Seqs(Held(db.mem, db.imm, tables, logs)))
    /\ Bounded(DOMAIN logs \cup DOMAIN tables)

\* Whether CURRENT can be relied on.
Trusted == odd \cap {"unsynced", "repair", "unrepaired", "removed"} = {}

\* CURRENT names a MANIFEST with the counters, whatever a crash cuts off.
CompleteInv ==
    current # NULL /\ repair = NoRepair /\ Trusted =>
        /\ current \in DOMAIN manifests
        /\ LET m == manifests[current]
           IN IF current = 1 THEN Readable(m, Len(m.data)) ELSE m.synced >= 2

DirInv == FilesInv /\ CurrentInv /\ EntriesInv /\ CompleteInv

-----------------------------------------------------------------------------
(* Open.                                                                   *)

PhaseInv ==
    /\ db.pc = "closed" => db = Closed
    /\ db.pc = "newdb" => /\ db = [Closed EXCEPT !.pc = "newdb"] /\ current = NULL
                          /\ 1 \in DOMAIN manifests /\ manifests[1] = NewDescriptor
    /\ db.pc = "recover" => db = [Closed EXCEPT !.pc = "recover"]
    /\ db.pc # "open" => queue = <<>> /\ group = NoGroup /\ bg = Quiet
    /\ db.pc # "closed" => repair = NoRepair
    /\ db.version \subseteq DOMAIN tables

\* While the logs are read.
LogsInv ==
    db.pc = "logs" =>
        /\ current \in DOMAIN manifests
        /\ LET m == manifests[current]
               l == Len(m.data)
           IN /\ Readable(m, l) /\ db.version = Ver(m.data, l) /\ db.manifest = m.data[l].next
              /\ db.last_sequence = m.data[l].last /\ db.log_number = m.data[l].log
        /\ db.manifest < db.next_file_number /\ db.imm = {}
        /\ db.todo \subseteq DOMAIN logs
        /\ \A n \in DOMAIN logs : n \in db.todo \/ n < db.next_file_number
        /\ \A n \in db.added : /\ n \in DOMAIN tables /\ n < db.next_file_number
                               /\ \A x \in tables[n] : x[1] <= db.max_sequence
        /\ \A x \in db.mem : x[1] <= db.max_sequence
        /\ db.todo = {} => db.mem = {}
        /\ db.todo # {} =>
              LET log == logs[Smallest(db.todo)]
              IN /\ db.read <= Len(log.data)
                 /\ \A x \in db.mem : \E i \in DOMAIN log.data : x \in log.data[i]

\* The state d of the process within a turn of Recover's loop.
Reading(d) ==
    /\ d \in DB /\ d.pc = "logs" /\ d.version = db.version /\ d.imm = db.imm
    /\ d.manifest = db.manifest /\ d.last_sequence = db.last_sequence
    /\ d.log_number = db.log_number /\ d.next_file_number = db.next_file_number
    /\ d.todo = db.todo /\ d.added = db.added /\ db.max_sequence <= d.max_sequence
    /\ d.mem \subseteq Held(db.mem, db.imm, tables, logs)
    /\ \A x \in d.mem : x[1] <= d.max_sequence

\* The MANIFEST that Open has written.
OpenDescriptor ==
    Written(<<VersionEdit(NULL, NULL, NULL, db.version, {}),
              VersionEdit(db.logfile, db.logfile + 1, db.last_sequence, db.added, {})>>,
            IF db.pc = "sync" THEN 0 ELSE 2)

Ending == db.pc \in {"sync", "current", "install"}

EndDescribed ==
    Described(manifests[db.manifest], db.version, db.logfile, db.last_sequence, db.added,
              IF db.pc = "sync" THEN 0 ELSE 2)

\* When they are read: the new MANIFEST and the new log.
EndInv ==
    db.pc \in {"sync", "current", "install"} =>
        /\ db.manifest \in DOMAIN manifests /\ manifests[db.manifest] = OpenDescriptor
        /\ db.logfile \in DOMAIN logs /\ logs[db.logfile] = Written(<<>>, 0)
        /\ db.next_file_number = db.logfile + 1 /\ db.manifest < db.logfile
        /\ \A n \in DOMAIN logs : n <= db.logfile
        /\ \A n \in db.version \cup db.added :
              /\ n \in DOMAIN tables /\ n < db.logfile
              /\ \A x \in tables[n] : x[1] <= db.last_sequence
        /\ db.mem = {} /\ db.imm = {}
        /\ db.pc = "install" => current = db.manifest

OpeningInv == PhaseInv /\ LogsInv /\ EndInv

-----------------------------------------------------------------------------
(* The open database.                                                      *)

\* The record of the group at work is the last of the log.
InFlight == group.pc \in {"sync", "insert", "failed"}

\* The files of an open database, and the counters.
OpenInv ==
    db.pc = "open" =>
        /\ current = db.manifest /\ current \in DOMAIN manifests
        /\ db.logfile \in DOMAIN logs /\ db.log_number <= db.logfile
        /\ db.logfile < db.next_file_number /\ db.manifest < db.next_file_number
        /\ \A n \in DOMAIN logs : n <= db.logfile
        /\ \A n \in DOMAIN tables : n < db.next_file_number
        /\ db.imm = {} <=> db.log_number = db.logfile
        /\ \A M, N \in db.imm : M = N

\* The last sequence number is after all others, but for the record in flight.
SequenceInv ==
    db.pc = "open" =>
        /\ \A x \in db.mem : x[1] <= db.last_sequence
        /\ \A M \in db.imm : \A x \in M : x[1] <= db.last_sequence
        /\ \A n \in DOMAIN tables : \A x \in tables[n] : x[1] <= db.last_sequence
        /\ \A n \in DOMAIN logs : \A i \in DOMAIN logs[n].data :
              \/ InFlight /\ n = db.logfile /\ i = Len(logs[n].data)
              \/ \A x \in logs[n].data[i] : x[1] <= db.last_sequence

\* The entries of the tables v of ts.
TablesOf(v, ts) == UNION {ts[n] : n \in v}

\* An edit of the background thread: a flush or a compaction.
Flush(e) == e.deleted = {} /\ db.imm = {TablesOf(e.added, tables)} /\ e.log = db.logfile

Compaction(e) ==
    /\ e.deleted = db.version /\ db.version # {} /\ e.log = db.log_number
    /\ TablesOf(e.added, tables) = TablesOf(db.version, tables)

\* The MANIFEST of an open database, and the edit that the background thread works on.
EditInv ==
    db.pc = "open" =>
        LET m == manifests[current]
            l == Len(m.data)
        IN /\ m.synced >= 2
           /\ \A k \in Kept(m) : m.data[k].next <= db.next_file_number
           /\ bg.pc = "log" \/ (bg.pc = "idle" /\ ~db.bg_error) =>
                 m.synced = l /\ Ver(m.data, l) = db.version
           /\ bg.pc \in {"sync", "install"} =>
                 /\ l > 2 /\ m.data[l] = bg.edit /\ Ver(m.data, l - 1) = db.version
                 /\ m.synced = IF bg.pc = "sync" THEN l - 1 ELSE l
           /\ bg.pc # "idle" =>
                 /\ \A n \in bg.edit.added : n \in DOMAIN tables
                 /\ Flush(bg.edit) \/ Compaction(bg.edit)

\* The group of writers at the front of the queue, and its record in the log.
GroupInv ==
    /\ group.n <= Len(queue)
    /\ group.pc # "none" => queue # <<>>
    /\ InFlight =>
          LET log == logs[db.logfile]
              l == Len(log.data)
          IN /\ group.n # 0 /\ l # 0
             /\ log.data[l] = Numbered(SubSeq(queue, 1, group.n), db.last_sequence + 1)
             /\ \A i \in 1 .. group.n : queue[i].sync => queue[1].sync
             /\ group.pc = "insert" /\ queue[1].sync => log.synced = l

\* Writes that wait are not acknowledged.
QueueInv ==
    /\ \A i \in DOMAIN queue : queue[i].id <= spent.writes /\ queue[i].id \notin synced
    /\ \A i, j \in DOMAIN queue : queue[i].id = queue[j].id => i = j
    /\ \A p \in synced : p <= spent.writes

ProcessInv == OpenInv /\ SequenceInv /\ EditInv /\ GroupInv /\ QueueInv

-----------------------------------------------------------------------------
(* RepairDB.                                                               *)

RepairInv ==
    repair.pc # "none" =>
        /\ db = Closed
        /\ repair.found = DOMAIN tables
        /\ \A n \in DOMAIN tables \cup DOMAIN logs : n < repair.next
        /\ repair.pc = "current" =>
              /\ DOMAIN logs = {}
              /\ manifests = Put(NoFile, 1, Written(<<VersionEdit(0, repair.next,
                                Largest(Seqs(AllEntries(tables))), repair.found, {})>>, 0))

IInv == DirType /\ ProcessType /\ DirInv /\ OpeningInv /\ ProcessInv /\ RepairInv

-----------------------------------------------------------------------------
(* Where the writes are that must not be lost.                             *)

\* The entries of the logs from number l on, and those of their synced parts.
LogsFrom(l, ls) ==
    UNION {UNION {ls[n].data[i] : i \in DOMAIN ls[n].data} : n \in {j \in DOMAIN ls : j >= l}}
SafeFrom(l, ls) ==
    UNION {UNION {ls[n].data[i] : i \in 1 .. ls[n].synced} : n \in {j \in DOMAIN ls : j >= l}}

\* The records that Open has still to read.
Unread(todo, read, ls) ==
    UNION {UNION {ls[n].data[i] : i \in {j \in DOMAIN ls[n].data :
                                            n = Smallest(todo) => j > read}} : n \in todo}

\* What Open has read and has still to read.
Known(v, mem, todo, read, ts, ls) == TablesOf(v, ts) \cup mem \cup Unread(todo, read, ls)

Fine == odd \cap {"overlooked", "unrepaired"} = {}

\* What a crash of the machine may not take.
Safe == promised \cap synced

\* RepairDB finds what was promised p, and what of it is safe s.
OnDisk(p, s, ls, ts) ==
    /\ p \subseteq Ids(AllEntries(ts) \cup LogsFrom(0, ls))
    /\ s \subseteq Ids(AllEntries(ts) \cup SafeFrom(0, ls))

\* Open finds it with the MANIFEST m.
Recoverable(p, s, m, ls, ts) ==
    /\ \A k \in Kept(m) : Readable(m, k) =>
          s \subseteq Ids(TablesOf(Ver(m.data, k), ts) \cup SafeFrom(m.data[k].log, ls))
    /\ Readable(m, Len(m.data)) =>
          p \subseteq Ids(TablesOf(Ver(m.data, Len(m.data)), ts)
                             \cup LogsFrom(m.data[Len(m.data)].log, ls))

\* While the database is not open.
DiskInv ==
    Fine /\ db.pc # "open" =>
        /\ OnDisk(promised, Safe, logs, tables)
        /\ repair = NoRepair /\ "repair" \notin odd /\ current \in DOMAIN manifests =>
              Recoverable(promised, Safe, manifests[current], logs, tables)

\* While Open reads it.
RecoveryInv ==
    Fine =>
        /\ db.pc # "closed" => "repair" \notin odd
        /\ current = NULL => promised = {}
        /\ db.pc = "logs" /\ db.ok =>
              promised \subseteq Ids(Known(db.version \cup db.added, db.mem, db.todo, db.read, tables, logs))
        /\ db.pc \in {"sync", "current", "install"} =>
              promised \subseteq Ids(TablesOf(db.version \cup db.added, tables))

\* What the k-th edit of m leaves out is in the logs that it keeps.
Covers(m, k, d, ts) ==
    /\ TablesOf(d.version, ts) \subseteq TablesOf(Ver(m.data, k), ts)
    /\ m.data[k].log <= d.logfile
    /\ m.data[k].log <= d.log_number \/ UNION d.imm \subseteq TablesOf(Ver(m.data, k), ts)

\* While it is open.
ContentsInv ==
    Fine /\ db.pc = "open" =>
        /\ promised \subseteq Ids(Contents)
        /\ Safe \subseteq Ids(TablesOf(db.version, tables) \cup SafeFrom(db.log_number, logs))
        /\ \A k \in Kept(manifests[current]) : Covers(manifests[current], k, db, tables)
        /\ \A x \in db.mem : \E i \in DOMAIN logs[db.logfile].data : x \in logs[db.logfile].data[i]
        /\ ~db.bg_error => \A i \in DOMAIN logs[db.logfile].data :
              logs[db.logfile].data[i] \subseteq db.mem \/ (InFlight /\ i = Len(logs[db.logfile].data))
        /\ \A x \in UNION db.imm : \E n \in DOMAIN logs :
              n >= db.log_number /\ \E i \in DOMAIN logs[n].data : x \in logs[n].data[i]
        /\ \A n \in DOMAIN logs : db.log_number <= n /\ n < db.logfile =>
              \A i \in DOMAIN logs[n].data : logs[n].data[i] \subseteq UNION db.imm

DInv == DiskInv /\ RecoveryInv /\ ContentsInv

-----------------------------------------------------------------------------
(* The logs that are needed.                                               *)

\* The log that the edits of m start from is there; 0 is none.
LogsKept(m, ls) == \A k \in Kept(m) : Readable(m, k) => m.data[k].log \in DOMAIN ls \cup {0}

\* The MANIFEST that CURRENT names, and the open database, start from a log that is there.
LogInv ==
    /\ current # NULL /\ repair = NoRepair /\ Trusted => LogsKept(manifests[current], logs)
    /\ db.pc = "open" => db.log_number \in DOMAIN logs

\* So does the MANIFEST that Open has written.
EndLogged == LogsKept(manifests[db.manifest], logs)

-----------------------------------------------------------------------------
(* Facts about numbers that the steps rest on; RecoveryProofs proves them. *)

\* The entries of a group have the numbers from s on, each its own, and the ids of the
\* writers whose batch is not empty (Write, WriteBatchInternal::SetSequence).
GroupNumbered(ws, s) ==
    /\ Count(ws) \in Nat /\ Numbered(ws, s) \subseteq Entry
    /\ \A x \in Numbered(ws, s) : s <= x[1] /\ x[1] < s + Count(ws)
    /\ \A a, b \in Numbered(ws, s) : a[1] = b[1] => a = b
    /\ \A x \in Numbered(ws, s) : \E i \in DOMAIN ws : x[2] = ws[i].id
    /\ \A i \in DOMAIN ws : ws[i].size > 0 => \E x \in Numbered(ws, s) : x[2] = ws[i].id

NumberFacts ==
    /\ \A S \in SUBSET Nat : S # {} => \E x \in S : \A y \in S : x <= y
    /\ Cardinality({}) = 0
    /\ \A ws \in Seq(Writer), s \in Nat : GroupNumbered(ws, s)
=============================================================================
