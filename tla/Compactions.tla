---------------------------- MODULE Compactions ----------------------------
(***************************************************************************)
(* The background work of a LevelDB database                               *)
(* (leveldb-1.15.0/db/db_impl.cc): the memtable becomes immutable, the     *)
(* background thread writes it to a table and merges tables into the next  *)
(* level, while clients write, read, take snapshots, ask for a compaction  *)
(* of a range and close the database.  Each action is what one thread does *)
(* between taking and releasing mutex_, or one turn of the loop over the   *)
(* compaction's input, which runs without it.                              *)
(*                                                                         *)
(* The MANIFEST is written with the mutex released, but only this thread   *)
(* changes the version: LogAndApply is one step here.  How many seeks a    *)
(* file may be charged is left open: any charge may be the last.           *)
(***************************************************************************)
EXTENDS Versions

CONSTANTS
    Users,          \* user keys
    Writes,         \* <<user key, type>>: what may be written
    WriteBuffer,    \* entries that fill a memtable
    kL0_StopWritesTrigger,
    Ranges,         \* ranges that CompactRange may be called with
    Bounds          \* how much of what a behaviour may have: records of
                    \* seq (writes), snapshots (live ones), calls (of CompactRange),
                    \* reads, fail (whether writing may fail), close, and start

VARIABLES
    mem, imm,         \* sets of internal keys; imm may be NULL
    last_sequence,
    written,          \* every internal key ever written
    snapshots,        \* the list of snapshots, oldest first
    version,          \* versions_->current()
    file_to_compact,  \* NULL or [level, file]
    compact_pointer,
    next_file_number,
    pending_outputs,
    disk,             \* numbers of the table files in the directory
    bg,               \* the background thread
    caller,           \* a thread in CompactRange
    manual,           \* manual_compaction_ # NULL
    get,              \* a thread in Get
    bg_error, shutting_down,
    bound,            \* the bounds of this behaviour
    odd               \* what has happened that some properties exclude

memVars == <<mem, imm, last_sequence, written>>
versionVars == <<version, file_to_compact, compact_pointer>>
fileVars == <<next_file_number, pending_outputs, disk>>
callVars == <<caller, manual>>
flags == <<bg_error, shutting_down, bound>>
vars == <<memVars, snapshots, versionVars, fileVars, bg, callVars, get, flags, odd>>

Idle == [pc |-> "idle", number |-> 0, c |-> NULL]

NoCall == [pc |-> "none", calls |-> 0, seq |-> 0, level |-> 0, max |-> 0, range |-> NULL,
           begin |-> NoBegin, done |-> FALSE, waits |-> FALSE]

NoGet == [reads |-> 0, key |-> NULL, version |-> NULL, tables |-> NULL]

NeedsCompaction == SizeCompaction(version) \/ file_to_compact # NULL

\* The condition under which MaybeScheduleCompaction schedules.
Needed ==
    /\ ~shutting_down /\ ~bg_error
    /\ imm # NULL \/ manual \/ NeedsCompaction

\* The last conjunct of an action, when the other variables have their next values.
MaybeScheduleCompaction ==
    bg' = IF bg.pc = "idle" /\ Needed' THEN [bg EXCEPT !.pc = "scheduled"] ELSE bg

\* bg_cv_.SignalAll().
Woken(k) == [k EXCEPT !.waits = FALSE]

-----------------------------------------------------------------------------
(* Clients.                                                                *)

\* DBImpl::Write when the memtable has room.  BuildBatchGroup may take the NULL batch of a
\* thread in CompactRange into the group, and then that thread forces nothing.
Write(u, t) ==
    /\ ~shutting_down /\ ~bg_error
    /\ last_sequence < bound.seq /\ Cardinality(mem) < WriteBuffer
    /\ LET k == InternalKey(u, last_sequence + 1, t)
       IN mem' = mem \cup {k} /\ written' = written \cup {k}
    /\ last_sequence' = last_sequence + 1
    /\ \/ caller' = caller /\ odd' = odd
       \/ /\ caller.pc = "force"
          /\ caller' = [caller EXCEPT !.pc = "flush"] /\ odd' = odd \cup {"joined"}
    /\ UNCHANGED <<imm, snapshots, versionVars, fileVars, bg, manual, get, flags>>

\* logfile_->Sync() fails in Write: the memtable does not get the record.  The sequence
\* number is used up.
SyncFails ==
    /\ bound.fail /\ ~shutting_down /\ ~bg_error
    /\ last_sequence < bound.seq /\ Cardinality(mem) < WriteBuffer
    /\ last_sequence' = last_sequence + 1
    /\ bg_error' = TRUE
    /\ caller' = Woken(caller)
    /\ UNCHANGED <<mem, imm, written, snapshots, versionVars, fileVars, bg, manual, get,
                   shutting_down, bound, odd>>

\* MakeRoomForWrite: a new memtable and log file.  A thread in CompactRange forces it.
Switch(forced) ==
    /\ ~shutting_down /\ ~bg_error
    /\ imm = NULL /\ Len(version[0]) < kL0_StopWritesTrigger
    /\ imm' = mem /\ mem' = {}
    /\ next_file_number' = next_file_number + 1
    /\ \/ /\ ~forced /\ last_sequence < bound.seq /\ Cardinality(mem) >= WriteBuffer
          /\ caller' = caller
       \/ /\ forced /\ caller.pc = "force"
          /\ caller' = [caller EXCEPT !.pc = "flush"]
    /\ UNCHANGED <<last_sequence, written, snapshots, versionVars, pending_outputs, disk,
                   manual, get, flags, odd>>
    /\ MaybeScheduleCompaction

GetSnapshot ==
    /\ ~shutting_down /\ Len(snapshots) < bound.snapshots
    /\ snapshots' = Append(snapshots, last_sequence)
    /\ UNCHANGED <<memVars, versionVars, fileVars, bg, callVars, get, flags, odd>>

ReleaseSnapshot(i) ==
    /\ snapshots' = [j \in 1 .. Len(snapshots) - 1 |-> snapshots[IF j < i THEN j ELSE j + 1]]
    /\ UNCHANGED <<memVars, versionVars, fileVars, bg, callVars, get, flags, odd>>

\* Get takes references under the mutex and reads without it.
GetBegins(u, s) ==
    /\ ~shutting_down /\ get.reads < bound.reads /\ get.version = NULL
    /\ get' = [reads |-> get.reads + 1, key |-> LookupKey(u, s), version |-> version,
               tables |-> <<mem, imm>>]
    /\ UNCHANGED <<memVars, snapshots, versionVars, fileVars, bg, callVars, flags, odd>>

\* The memtable, then the immutable one, then the tables.
InMemory(tables, key) ==
    LET m == Lookup(tables[1], key)
    IN IF m # NULL THEN m ELSE IF tables[2] = NULL THEN NULL ELSE Lookup(tables[2], key)

DBGet(tables, v, key) ==
    IF InMemory(tables, key) # NULL THEN InMemory(tables, key) ELSE VersionGet(v, key).entry

\* UpdateStats on a version that may no longer be the current one.
UpdateStats(v, seek) ==
    \/ file_to_compact' = file_to_compact
    \/ /\ seek # NULL /\ v = version /\ file_to_compact = NULL
       /\ file_to_compact' = seek

GetEnds ==
    /\ get.version # NULL
    /\ UpdateStats(get.version,
           IF InMemory(get.tables, get.key) # NULL THEN NULL
           ELSE VersionGet(get.version, get.key).seek_file)
    /\ get' = [NoGet EXCEPT !.reads = get.reads]
    /\ UNCHANGED <<memVars, snapshots, version, compact_pointer, fileVars, callVars, flags, odd>>
    /\ MaybeScheduleCompaction

\* DBImpl::RecordReadSample, called by an iterator.
ReadSample(u) ==
    /\ ~shutting_down /\ get.reads < bound.reads
    /\ get' = [get EXCEPT !.reads = @ + 1]
    /\ UpdateStats(version, RecordReadSample(version, LookupKey(u, last_sequence)))
    /\ UNCHANGED <<memVars, snapshots, version, compact_pointer, fileVars, callVars, flags, odd>>
    /\ MaybeScheduleCompaction

\* The destructor, up to its wait for the background thread.
Close ==
    /\ bound.close /\ ~shutting_down /\ caller.pc = "none" /\ get.version = NULL
    /\ shutting_down' = TRUE
    /\ UNCHANGED <<memVars, snapshots, versionVars, fileVars, bg, callVars, get, bg_error, bound, odd>>

-----------------------------------------------------------------------------
(* CompactRange: forces the memtable out and compacts level after level.   *)

NotCaller == <<memVars, snapshots, versionVars, fileVars, get, flags, odd>>

CompactRangeBegins(r) ==
    /\ ~shutting_down /\ caller.pc = "none" /\ caller.calls < bound.calls
    /\ LET over == {l \in 1 .. kNumLevels - 1 : OverlapInLevel(version, l, r[1], r[2])}
       IN caller' = [NoCall EXCEPT !.pc = "force", !.calls = caller.calls + 1,
                         !.seq = last_sequence, !.range = r, !.begin = r[1],
                         !.max = CHOOSE l \in over \cup {1} : \A k \in over : k <= l]
    /\ UNCHANGED <<bg, manual, NotCaller>>

\* Write(NULL) fails after an error, which TEST_CompactMemTable returns and CompactRange
\* ignores; otherwise it waits for imm_ to be written.
MemTableIsOut ==
    /\ \/ caller.pc = "force" /\ bg_error
       \/ caller.pc = "flush" /\ ~caller.waits /\ (imm = NULL \/ bg_error)
    /\ caller' = [caller EXCEPT !.pc = "level"]
    /\ UNCHANGED <<bg, manual, NotCaller>>

Stops == caller.done \/ shutting_down \/ bg_error

\* bg_cv_.Wait() in TEST_CompactMemTable and in the loop of TEST_CompactRange.
Waits ==
    /\ ~caller.waits
    /\ \/ caller.pc = "flush" /\ imm # NULL /\ ~bg_error
       \/ caller.pc = "level" /\ ~Stops /\ manual
    /\ caller' = [caller EXCEPT !.waits = TRUE]
    /\ UNCHANGED <<bg, manual, NotCaller>>

Requests ==
    /\ caller.pc = "level" /\ ~caller.waits /\ ~Stops /\ ~manual
    /\ manual' = TRUE
    /\ UNCHANGED <<caller, NotCaller>>
    /\ MaybeScheduleCompaction

\* TEST_CompactRange returns; a request that is still there is cancelled.
LevelIsDone ==
    /\ caller.pc = "level" /\ ~caller.waits /\ Stops
    /\ manual' = FALSE
    /\ caller' = IF caller.level + 1 < caller.max
                 THEN [caller EXCEPT !.level = @ + 1, !.begin = caller.range[1], !.done = FALSE]
                 ELSE [NoCall EXCEPT !.calls = caller.calls]
    /\ UNCHANGED <<bg, NotCaller>>

-----------------------------------------------------------------------------
(* The background thread.                                                  *)

\* A deviation: the outputs of a running compaction are not live.
DevForgetsPending(files, c) ==
    disk' = IF bg_error' THEN files
            ELSE files \cap (FilesOf(version')
                             \cup (IF get.version = NULL THEN {} ELSE FilesOf(get.version))
                             \cup (IF c = NULL THEN {} ELSE FilesOf(c.version)))

\* DeleteObsoleteFiles: what no live version and no pending output needs.
DeleteObsoleteFiles(files, c) ==
    disk' = IF bg_error' THEN files
            ELSE files \cap (pending_outputs' \cup FilesOf(version')
                             \cup (IF get.version = NULL THEN {} ELSE FilesOf(get.version))
                             \cup (IF c = NULL THEN {} ELSE FilesOf(c.version)))

\* A deviation: nothing is scheduled after a call.
DevNoReschedule == bg' = Idle

\* The end of BackgroundCall: another call may be needed, and everyone is woken.
EndOfCall == bg' = IF Needed' THEN [Idle EXCEPT !.pc = "scheduled"] ELSE Idle

InputsOf(c) == Range(c.inputs[1]) \cup Range(c.inputs[2])

Numbers(files) == {f.number : f \in Range(files)}

AtLevel(l, S) == [k \in Levels |-> IF k = l THEN S ELSE {}]

AddInputDeletions(c) ==
    [k \in Levels |-> CASE k = c.level -> Numbers(c.inputs[1])
                        [] k = c.level + 1 -> Numbers(c.inputs[2])
                        [] OTHER -> {}]

NewVersion(v) == version' = v /\ file_to_compact' = NULL

\* The state of DoCompactionWork at its start.
CompactionState(c) ==
    c @@ [todo |-> Sorted(UNION {f.entries : f \in InputsOf(c)}),
          out |-> {}, number |-> 0, outputs |-> {}, opened |-> {},
          user |-> NULL, last |-> kMaxSequenceNumber,
          gp |-> 1, seen |-> FALSE, bytes |-> 0, flushed |-> FALSE,
          smallest_snapshot |-> IF snapshots = <<>> THEN last_sequence ELSE Head(snapshots),
          version |-> version, manual |-> manual]

\* WriteLevel0Table up to BuildTable, which runs without the mutex.
FlushBegins ==
    /\ bg' = [bg EXCEPT !.pc = "flush", !.number = next_file_number]
    /\ next_file_number' = next_file_number + 1
    /\ pending_outputs' = pending_outputs \cup {next_file_number}
    /\ disk' = disk \cup {next_file_number}
    /\ UNCHANGED <<versionVars, callVars>>

\* What BackgroundCompaction does with the compaction that was chosen.
Compact(c) ==
    \/ /\ c = NULL
       /\ manual' = FALSE
       /\ caller' = Woken(IF manual THEN [caller EXCEPT !.done = TRUE] ELSE caller)
       /\ UNCHANGED <<versionVars, fileVars>>
       /\ EndOfCall
    \/ /\ c # NULL /\ ~manual /\ IsTrivialMove(c)
       /\ NewVersion(SaveTo(version, AtLevel(c.level, Numbers(c.inputs[1])),
                            AtLevel(c.level + 1, Range(c.inputs[1]))))
       /\ compact_pointer' = [compact_pointer EXCEPT ![c.level] = c.pointer]
       /\ caller' = Woken(caller)
       /\ UNCHANGED <<manual, fileVars>>
       /\ EndOfCall
    \/ /\ c # NULL /\ (manual \/ ~IsTrivialMove(c))
       /\ bg' = [bg EXCEPT !.pc = "work", !.c = CompactionState(c)]
       /\ compact_pointer' = [compact_pointer EXCEPT ![c.level] = c.pointer]
       /\ UNCHANGED <<version, file_to_compact, callVars, fileVars>>

BackgroundCall ==
    /\ bg.pc = "scheduled"
    /\ UNCHANGED <<memVars, snapshots, get, flags, odd>>
    /\ \/ /\ shutting_down \/ bg_error
          /\ caller' = Woken(caller)
          /\ UNCHANGED <<versionVars, fileVars, manual>>
          /\ EndOfCall
       \/ ~shutting_down /\ ~bg_error /\ imm # NULL /\ FlushBegins
       \/ /\ ~shutting_down /\ ~bg_error /\ imm = NULL
          /\ Compact(IF manual
                     THEN CompactRange(version, caller.level, caller.begin, caller.range[2])
                     ELSE PickCompaction(version, compact_pointer, file_to_compact))

\* Every turn of DoCompactionWork's loop first looks for an immutable memtable, once.
FlushInCompaction ==
    /\ bg.pc = "work" /\ bg.c.todo # <<>> /\ ~shutting_down
    /\ imm # NULL /\ ~bg.c.flushed
    /\ FlushBegins
    /\ UNCHANGED <<memVars, snapshots, get, flags, odd>>

\* A table written between the inputs of a running manual compaction, at its output level.
InGap(l, f) ==
    /\ bg.c # NULL /\ l = bg.c.level + 1 /\ bg.c.manual
    /\ LET h == Hull(bg.c.inputs[1] \o bg.c.inputs[2])
       IN ~UserLess(f.smallest.user, h.begin) /\ ~UserLess(h.end, f.largest.user)

\* After a flush: back to the compaction it interrupted, or the end of the call.
AfterFlush ==
    IF bg.c # NULL THEN bg' = [bg EXCEPT !.pc = "work", !.number = 0, !.c.flushed = TRUE]
    ELSE EndOfCall

\* The rest of WriteLevel0Table and CompactMemTable.  An empty table is not kept.
FlushEnds ==
    /\ bg.pc = "flush" /\ ~shutting_down
    /\ LET f == FileMetaData(bg.number, imm)
           l == PickLevelForMemTableOutput(version, f.smallest.user, f.largest.user)
       IN IF imm = {}
          THEN version' = version /\ odd' = odd
          ELSE /\ version' = SaveTo(version, AtLevel(0, {}), AtLevel(l, {f}))
               /\ odd' = IF InGap(l, f) THEN odd \cup {"gap"} ELSE odd
    /\ file_to_compact' = NULL
    /\ imm' = NULL
    /\ pending_outputs' = pending_outputs \ {bg.number}
    /\ caller' = Woken(caller)
    /\ UNCHANGED <<mem, last_sequence, written, snapshots, compact_pointer, next_file_number,
                   manual, get, flags>>
    /\ DeleteObsoleteFiles(IF imm = {} THEN disk \ {bg.number} ELSE disk, bg.c)
    /\ AfterFlush

\* BuildTable or LogAndApply fails, or the database is being closed.
FlushFails ==
    /\ bg.pc = "flush" /\ (bound.fail \/ shutting_down)
    /\ bg_error' = TRUE
    /\ pending_outputs' = pending_outputs \ {bg.number}
    /\ caller' = Woken(caller)
    /\ disk' \in {disk, disk \ {bg.number}}
    /\ UNCHANGED <<memVars, snapshots, versionVars, next_file_number, manual, get,
                   shutting_down, bound, odd>>
    /\ AfterFlush

-----------------------------------------------------------------------------
(* DoCompactionWork.                                                       *)

\* Compaction::ShouldStopBefore: passes the grandparents that end before the key.
Passed(c, key) ==
    LET past == {i \in c.gp .. Len(c.grandparents) : \A j \in c.gp .. i :
                    InternalBefore(c.grandparents[j].largest, key)}
        bytes == c.bytes + IF c.seen THEN TotalFileSize(SubSeq(c.grandparents, c.gp,
                                              c.gp + Cardinality(past) - 1)) ELSE 0
    IN [c EXCEPT !.gp = @ + Cardinality(past), !.seen = TRUE, !.bytes = bytes]

FinishCompactionOutputFile(c) ==
    [c EXCEPT !.outputs = @ \cup {FileMetaData(c.number, c.out)}, !.out = {}]

StoppedBefore(c, key) ==
    LET p == Passed(c, key)
        stop == p.bytes > kMaxGrandParentOverlapBytes
        q == IF stop THEN [p EXCEPT !.bytes = 0] ELSE p
    IN IF stop /\ c.out # {} THEN FinishCompactionOutputFile(q) ELSE q

\* A deviation: deeper levels are not asked.
DevDropsDeletions(c, key) ==
    LET last == IF c.user = key.user THEN c.last ELSE kMaxSequenceNumber
    IN \/ last <= c.smallest_snapshot
       \/ key.type = kTypeDeletion /\ key.seq <= c.smallest_snapshot

\* Hidden by a newer entry that every snapshot sees, or a deletion that every snapshot
\* sees of a key that no deeper level has.
Dropped(c, key) ==
    LET last == IF c.user = key.user THEN c.last ELSE kMaxSequenceNumber
    IN \/ last <= c.smallest_snapshot
       \/ /\ key.type = kTypeDeletion /\ key.seq <= c.smallest_snapshot
          /\ IsBaseLevelForKey(c.version, c, key.user)

Added(c, key, n) ==
    LET d == [c EXCEPT !.out = @ \cup {key}, !.number = IF c.out = {} THEN n ELSE @,
                       !.opened = IF c.out = {} THEN @ \cup {n} ELSE @]
    IN IF Cardinality(d.out) >= MaxFileSize THEN FinishCompactionOutputFile(d) ELSE d

\* One turn of the loop.  The output file is opened when the first key is kept.
WorkOnKey ==
    /\ bg.pc = "work" /\ bg.c.todo # <<>> /\ ~shutting_down
    /\ imm = NULL \/ bg.c.flushed
    /\ LET key == Head(bg.c.todo)
           c == StoppedBefore(bg.c, key)
           opens == ~Dropped(c, key) /\ c.out = {}
           d == IF Dropped(c, key) THEN c ELSE Added(c, key, next_file_number)
       IN /\ bg' = [bg EXCEPT !.c = [d EXCEPT !.todo = Tail(@), !.user = key.user,
                                              !.last = key.seq, !.flushed = FALSE]]
          /\ next_file_number' = next_file_number + IF opens THEN 1 ELSE 0
          /\ pending_outputs' = pending_outputs \cup IF opens THEN {next_file_number} ELSE {}
          /\ disk' = disk \cup IF opens THEN {next_file_number} ELSE {}
    /\ UNCHANGED <<memVars, snapshots, versionVars, callVars, get, flags, odd>>

\* The end of a manual compaction: what is left of the range, unless it failed.  The
\* caller may have cancelled the request, and then manual_compaction_ is NULL.
ManualEnds(c, ok) ==
    /\ manual' = FALSE
    /\ caller' = Woken(CASE ~c.manual \/ ~manual -> caller
                         [] ~ok -> [caller EXCEPT !.done = TRUE]
                         [] OTHER -> [caller EXCEPT !.begin =
                                        c.inputs[1][Len(c.inputs[1])].largest.user])

EndOfCompaction(c) ==
    IF c.manual /\ ~manual THEN bg' = [Idle EXCEPT !.pc = "crashed"] ELSE EndOfCall

\* A user key in two files of one level.
Split(v) ==
    \E l \in Levels \ {0} : \E i \in 2 .. Len(v[l]) :
        v[l][i - 1].largest.user = v[l][i].smallest.user

InstallCompactionResults ==
    /\ bg.pc = "work" /\ bg.c.todo = <<>> /\ ~shutting_down
    /\ LET c == IF bg.c.out = {} THEN bg.c ELSE FinishCompactionOutputFile(bg.c)
       IN /\ NewVersion(SaveTo(version, AddInputDeletions(c), AtLevel(c.level + 1, c.outputs)))
          /\ pending_outputs' = pending_outputs \ c.opened
          /\ ManualEnds(c, TRUE)
    /\ odd' = IF Split(version') THEN odd \cup {"split"} ELSE odd
    /\ UNCHANGED <<memVars, snapshots, compact_pointer, next_file_number, get, flags>>
    /\ DeleteObsoleteFiles(disk, NULL)
    /\ EndOfCompaction(bg.c)

\* An output or the MANIFEST cannot be written, or the database is being closed.
CompactionFails ==
    /\ bg.pc = "work" /\ (bound.fail \/ shutting_down)
    /\ bg_error' = TRUE
    /\ pending_outputs' = pending_outputs \ bg.c.opened
    /\ ManualEnds(bg.c, FALSE)
    /\ UNCHANGED <<memVars, snapshots, versionVars, next_file_number, get, shutting_down, bound, odd>>
    /\ DeleteObsoleteFiles(disk, NULL)
    /\ EndOfCompaction(bg.c)

-----------------------------------------------------------------------------
\* The version after these writes, each in a table of its own and none merged yet.
RECURSIVE Loaded(_)
Loaded(ops) ==
    IF ops = <<>> THEN NoFiles
    ELSE LET n == Len(ops)
             v == Loaded(SubSeq(ops, 1, n - 1))
             u == ops[n][1]
         IN SaveTo(v, AtLevel(0, {}),
                AtLevel(PickLevelForMemTableOutput(v, u, u),
                        {FileMetaData(n, {InternalKey(u, n, ops[n][2])})}))

\* The database is empty, or has seen the writes of bound.start and is idle.
Init ==
    /\ bound \in Bounds
    /\ mem = {} /\ imm = NULL /\ snapshots = <<>>
    /\ last_sequence = Len(bound.start)
    /\ written = {InternalKey(bound.start[i][1], i, bound.start[i][2]) : i \in DOMAIN bound.start}
    /\ version = Loaded(bound.start) /\ file_to_compact = NULL
    /\ compact_pointer = [l \in Levels |-> NULL]
    /\ next_file_number = Len(bound.start) + 1 /\ pending_outputs = {}
    /\ disk = 1 .. Len(bound.start)
    /\ caller = NoCall /\ manual = FALSE /\ get = NoGet
    /\ bg_error = FALSE /\ shutting_down = FALSE /\ odd = {}
    /\ bg = IF Needed THEN [Idle EXCEPT !.pc = "scheduled"] ELSE Idle

Background ==
    \/ BackgroundCall \/ FlushInCompaction \/ FlushEnds \/ FlushFails
    \/ WorkOnKey \/ InstallCompactionResults \/ CompactionFails

Calls == MemTableIsOut \/ Waits \/ Requests \/ LevelIsDone \/ Switch(TRUE)

Next ==
    \/ \E w \in Writes : Write(w[1], w[2])
    \/ SyncFails \/ Switch(FALSE) \/ GetSnapshot \/ Close
    \/ \E i \in DOMAIN snapshots : ReleaseSnapshot(i)
    \/ \E u \in Users : \/ \E s \in {last_sequence} \cup Range(snapshots) : GetBegins(u, s)
                        \/ ReadSample(u)
    \/ GetEnds
    \/ \E r \in Ranges : CompactRangeBegins(r)
    \/ Calls \/ Background

\* When Background and Calls can take a step.
BackgroundReady == bg.pc \in {"scheduled", "flush", "work"}

CallsReady ==
    /\ caller.pc # "none" /\ ~caller.waits
    /\ caller.pc = "force" =>
          bg_error \/ (imm = NULL /\ Len(version[0]) < kL0_StopWritesTrigger)

\* Weak fairness of both threads, with what enables them written out.
Fairness ==
    /\ []<>~BackgroundReady \/ []<><<Background>>_vars
    /\ []<>~CallsReady \/ []<><<Calls>>_vars

Spec == Init /\ [][Next]_vars /\ Fairness

-----------------------------------------------------------------------------
TypeOK ==
    /\ mem \subseteq written /\ (imm = NULL \/ imm \subseteq written)
    /\ last_sequence \in 0 .. bound.seq
    /\ bg.pc \in {"idle", "scheduled", "flush", "work", "crashed"}
    /\ bg.c # NULL => bg.c.level + 1 < kNumLevels /\ Cardinality(bg.c.out) < MaxFileSize

\* Writers wait when level 0 is full, although the background thread prefers a memtable
\* to a compaction of level 0 (kL0_StopWritesTrigger).
Level0IsBounded == Len(version[0]) <= kL0_StopWritesTrigger

\* Two tables of one level above 0 have disjoint ranges (the assertion of
\* Builder::MaybeAddFile), unless a memtable was flushed between the inputs of a manual
\* compaction, into the level of its outputs.
LevelsAreDisjoint ==
    "gap" \notin odd =>
        \A l \in Levels \ {0} : \A i \in 2 .. Len(version[l]) :
            InternalBefore(version[l][i - 1].largest, version[l][i].smallest)

\* The levels are as MaybeAddFile and MakeRoomForWrite promise: all of the above.
LevelsAreSound == TypeOK /\ LevelsAreDisjoint /\ Level0IsBounded

\* What a client gets: the sequence number that wrote the value, 0 when there is none.
Value(e) == IF e = NULL \/ e.type = kTypeDeletion THEN 0 ELSE e.seq

\* Get at the last sequence number and at every snapshot gives what was written, at any
\* point of flushes and compactions, unless a user key was split between two tables of a
\* level or a level's tables overlap.
ReadsAreRight ==
    odd \cap {"gap", "split"} = {} =>
        \A s \in {last_sequence} \cup Range(snapshots), u \in Users :
            LET k == LookupKey(u, s)
            IN Value(DBGet(<<mem, imm>>, version, k)) = Value(Lookup(written, k))

\* The tables of the current version, of a version that a reader holds and of a running
\* compaction are in the directory: DeleteObsoleteFiles never takes one of them.
LiveFilesExist ==
    /\ FilesOf(version) \subseteq disk
    /\ get.version # NULL => FilesOf(get.version) \subseteq disk
    /\ bg.c # NULL => FilesOf(bg.c.version) \cup bg.c.opened \subseteq disk
    /\ bg.pc = "flush" => bg.number \in disk

\* Of the step: TEST_CompactRange withdraws a request that is being worked on, which
\* BackgroundCompaction will still use.
Withdraws == bg.c # NULL /\ bg.c.manual /\ manual /\ ~manual' /\ bg' = bg

\* Of the step: CompactRange returns without an error, and its NULL batch did not join
\* another thread's group.
Compacted == caller.pc = "level" /\ caller'.pc = "none" /\ ~bg_error /\ odd = {}

\* TEST_CompactRange withdraws a request under BackgroundCompaction only after an error made
\* it return; and when CompactRange returns without one, what was written to its range
\* before it began is in none of the levels it went through.
CompactRangeIsSound ==
    [][/\ Withdraws => bg_error
       /\ Compacted =>
             \A l \in 0 .. caller.max - 1 : \A f \in Range(version[l]) : \A e \in f.entries :
                 \/ e.seq > caller.seq
                 \/ UserLess(e.user, caller.range[1])
                 \/ UserLess(caller.range[2], e.user)]_vars

\* Work ends: every memtable is written and every level comes within its limit, and
\* CompactRange returns, unless the process crashed.
WorkSettles ==
    /\ Needed ~> (~Needed \/ bg.pc = "crashed")
    /\ caller.pc # "none" ~> (caller.pc = "none" \/ bg.pc = "crashed")
=============================================================================
