------------------------------ MODULE PosixEnv ------------------------------
(***************************************************************************)
(* util/env_posix.cc: the lock on a database directory, the limit on       *)
(* memory-mapped files and the queue of the background thread.             *)
(*                                                                         *)
(* The lock is an fcntl lock, which the operating system gives to a        *)
(* process, and the process's own table locked_files_.  The system drops   *)
(* the lock of a process when the process closes any descriptor of the     *)
(* file.  Mapping and queue are those of one process, its threads Thread.  *)
(***************************************************************************)
EXTENDS Integers, Sequences, FiniteSets

CONSTANTS Process, Thread,
          MaxMmaps,    \* the slots of MmapLimiter
          MaxItems,    \* calls of Schedule
          None         \* no process, no item

ASSUME EnvAssumption ==
  /\ IsFiniteSet(Thread) /\ MaxMmaps \in Nat
  /\ None \notin Process /\ None \notin Nat

VARIABLES lpc,         \* where each thread of each process is in LockFile and UnlockFile
          locked,      \* the processes whose locked_files_ has the file
          oslock,      \* the process that has the fcntl lock
          slipped,     \* a process lost it by closing a descriptor
          mpc,         \* where a thread is in NewRandomAccessFile
          allowed,     \* allowed_
          started_bgthread, queue, bgpc, item,  \* of PosixEnv and BGThread
          sent, ran,   \* the items scheduled and run so far
          part         \* which of the three this behaviour is about

lockVars == <<lpc, locked, oslock, slipped>>
mmapVars == <<mpc, allowed>>
queueVars == <<started_bgthread, queue, bgpc, item, sent, ran>>
envVars == <<lockVars, mmapVars, queueVars, part>>

EnvIdle ==
  /\ lpc = [x \in Process \X Thread |-> "out"] /\ locked = {} /\ oslock = None /\ slipped = FALSE
  /\ mpc = [t \in Thread |-> "out"] /\ allowed = MaxMmaps
  /\ started_bgthread = FALSE /\ queue = <<>> /\ bgpc = "none" /\ item = None /\ sent = <<>> /\ ran = <<>>

EnvInit == EnvIdle /\ part \in {"lock", "mmap", "queue"}

(***************************************************************************)
(* LockFile and UnlockFile.  x is <<process, thread>>.                     *)
(***************************************************************************)
GoLock(x, label) == lpc' = [lpc EXCEPT ![x] = label]

(* close(fd), which also drops the fcntl lock of the process *)
CloseFd(p) ==
  /\ oslock' = IF oslock = p THEN None ELSE oslock
  /\ slipped' = (slipped \/ oslock = p)

OpenLockFile(x) ==
  /\ lpc[x] = "out"
  /\ GoLock(x, "insert")
  /\ UNCHANGED <<locked, oslock, slipped, mmapVars, queueVars>>

(* Deviation: only the operating system is asked. *)
DevNoTable(p) == TRUE

(* locked_files_.insert(fname).second *)
Inserts(p) == p \notin locked

InsertLock(x) ==
  /\ lpc[x] = "insert"
  /\ IF Inserts(x[1])
     THEN locked' = locked \cup {x[1]} /\ GoLock(x, "fcntl") /\ UNCHANGED <<oslock, slipped>>
     ELSE GoLock(x, "out") /\ CloseFd(x[1]) /\ UNCHANGED locked
  /\ UNCHANGED <<mmapVars, queueVars>>

(* F_SETLK succeeds unless another process has the lock. *)
LockOrUnlock(x) ==
  /\ lpc[x] = "fcntl"
  /\ IF oslock \in {None, x[1]}
     THEN oslock' = x[1] /\ GoLock(x, "held") /\ UNCHANGED <<locked, slipped>>
     ELSE CloseFd(x[1]) /\ GoLock(x, "remove") /\ UNCHANGED locked
  /\ UNCHANGED <<mmapVars, queueVars>>

(* LockFile failed, and the name leaves the table. *)
RemoveLock(x) ==
  /\ lpc[x] = "remove"
  /\ locked' = locked \ {x[1]} /\ GoLock(x, "out")
  /\ UNCHANGED <<oslock, slipped, mmapVars, queueVars>>

UnlockFile(x) ==
  /\ lpc[x] = "held"
  /\ oslock' = IF oslock = x[1] THEN None ELSE oslock
  /\ GoLock(x, "unlocked")
  /\ UNCHANGED <<locked, slipped, mmapVars, queueVars>>

UnlockRemoves(x) ==
  /\ lpc[x] = "unlocked"
  /\ locked' = locked \ {x[1]} /\ GoLock(x, "close")
  /\ UNCHANGED <<oslock, slipped, mmapVars, queueVars>>

UnlockCloses(x) ==
  /\ lpc[x] = "close"
  /\ CloseFd(x[1]) /\ GoLock(x, "out")
  /\ UNCHANGED <<locked, mmapVars, queueVars>>

(***************************************************************************)
(* NewRandomAccessFile: mmap while slots are left, pread otherwise.        *)
(***************************************************************************)
(* The first look at allowed_, without the mutex. *)
Acquire(t) ==
  /\ mpc[t] = "out"
  /\ mpc' = [mpc EXCEPT ![t] = IF allowed <= 0 THEN "pread" ELSE "locked"]
  /\ UNCHANGED <<lockVars, allowed, queueVars>>

(* Deviation: the first look is trusted. *)
DevTrusts(t) ==
  /\ mpc[t] = "locked"
  /\ mpc' = [mpc EXCEPT ![t] = "map"] /\ allowed' = allowed - 1
  /\ UNCHANGED <<lockVars, queueVars>>

(* The second, with it. *)
AcquireLocked(t) ==
  /\ mpc[t] = "locked"
  /\ IF allowed <= 0
     THEN mpc' = [mpc EXCEPT ![t] = "pread"] /\ UNCHANGED allowed
     ELSE mpc' = [mpc EXCEPT ![t] = "map"] /\ allowed' = allowed - 1
  /\ UNCHANGED <<lockVars, queueVars>>

(* mmap succeeds, or the slot is given back at once. *)
Map(t) ==
  /\ mpc[t] = "map"
  /\ \/ mpc' = [mpc EXCEPT ![t] = "mapped"] /\ UNCHANGED allowed
     \/ mpc' = [mpc EXCEPT ![t] = "out"] /\ allowed' = allowed + 1
  /\ UNCHANGED <<lockVars, queueVars>>

(* The file is deleted: ~PosixMmapReadableFile, ~PosixRandomAccessFile. *)
Release(t) ==
  /\ mpc[t] \in {"mapped", "pread"}
  /\ mpc' = [mpc EXCEPT ![t] = "out"]
  /\ allowed' = IF mpc[t] = "mapped" THEN allowed + 1 ELSE allowed
  /\ UNCHANGED <<lockVars, queueVars>>

(***************************************************************************)
(* Schedule and BGThread.  What happens under mu_ is one step; a thread in *)
(* pthread_cond_wait is "waiting", and may wake without a signal.           *)
(***************************************************************************)
(* Deviation: a signal is thought to be needed only when there is work. *)
DevSignals == queue # <<>>

(* A waiting thread is signalled when the queue is empty. *)
Signals == queue = <<>>

Schedule ==
  /\ Len(sent) < MaxItems
  /\ started_bgthread' = TRUE
  /\ bgpc' = IF ~started_bgthread \/ (bgpc = "waiting" /\ Signals) THEN "top" ELSE bgpc
  /\ queue' = Append(queue, Len(sent) + 1)
  /\ sent' = Append(sent, Len(sent) + 1)
  /\ UNCHANGED <<lockVars, mmapVars, item, ran>>

(* The loop waits while the queue is empty, and takes the first item. *)
BGThread ==
  /\ bgpc = "top"
  /\ IF queue = <<>> THEN bgpc' = "waiting" /\ UNCHANGED <<queue, item>>
                     ELSE bgpc' = "run" /\ item' = Head(queue) /\ queue' = Tail(queue)
  /\ UNCHANGED <<lockVars, mmapVars, started_bgthread, sent, ran>>

(* pthread_cond_wait may return without a signal. *)
SpuriousWakeup ==
  /\ bgpc = "waiting" /\ bgpc' = "top"
  /\ UNCHANGED <<lockVars, mmapVars, started_bgthread, queue, item, sent, ran>>

(* The function is called without the mutex. *)
Run ==
  /\ bgpc = "run"
  /\ ran' = Append(ran, item) /\ item' = None /\ bgpc' = "top"
  /\ UNCHANGED <<lockVars, mmapVars, started_bgthread, queue, sent>>

EnvNext ==
  /\ \/ part = "lock" /\ \E x \in Process \X Thread :
          \/ OpenLockFile(x) \/ InsertLock(x) \/ LockOrUnlock(x) \/ RemoveLock(x)
          \/ UnlockFile(x) \/ UnlockRemoves(x) \/ UnlockCloses(x)
     \/ part = "mmap" /\ \E t \in Thread : Acquire(t) \/ AcquireLocked(t) \/ Map(t) \/ Release(t)
     \/ part = "queue" /\ (Schedule \/ BGThread \/ SpuriousWakeup \/ Run)
  /\ UNCHANGED part

(* The background thread goes on while it can. *)
EnvSpec == EnvInit /\ [][EnvNext]_envVars /\ WF_envVars(part = "queue" /\ (BGThread \/ Run) /\ UNCHANGED part)

-----------------------------------------------------------------------------
Holding == {x \in Process \X Thread : lpc[x] = "held"}

\* doc/index.html: "A database may only be opened by one process at a time."  It is
\* not so once a process that has the database open tries to open it again.
OneProcessHolds == \A x, y \in Holding : x[1] = y[1]

\* A process never gives the lock to two of its threads, and no two processes have
\* it unless one of them closed another descriptor of the file meanwhile: a second
\* LockFile that is refused, or an UnlockFile that closes late.
LocksExclude ==
  /\ \A x, y \in Holding : x[1] = y[1] => x = y
  /\ ~slipped => /\ OneProcessHolds
                 /\ \A x \in Holding : oslock = x[1]

MmapsAreCounted ==
  /\ allowed >= 0
  /\ allowed + Cardinality({t \in Thread : mpc[t] \in {"map", "mapped"}}) = MaxMmaps

ItemsRunInOrder == sent = ran \o (IF item = None THEN <<>> ELSE <<item>>) \o queue

\* No more files are mapped than allowed, and every slot comes back, though threads
\* look at allowed_ before they take the mutex and mmap may fail.  Scheduled functions
\* run once each, one at a time and in order, whenever the background thread wakes.
EnvKeepsCount == MmapsAreCounted /\ ItemsRunInOrder

=============================================================================
