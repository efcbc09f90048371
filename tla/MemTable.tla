------------------------------ MODULE MemTable ------------------------------
(***************************************************************************)
(* leveldb db/memtable.cc: the skip list of internal keys, filled by the   *)
(* thread at the head of the write queue without holding DBImpl::mutex_    *)
(* and read at the sequence number published last.  The entry's value is   *)
(* its sequence number.                                                    *)
(***************************************************************************)
EXTENDS SkipList, InternalKeys

CONSTANTS Users,     \* user keys
          Entries,   \* <<user key, type>>: what may be added
          MaxSeq     \* how many entries are added

VARIABLES last_sequence,  \* versions_->LastSequence()
          added,          \* how many entries the writer has added
          get             \* the reader's MemTable::Get

mvars == <<last_sequence, added, get>>
allvars == <<vars, mvars>>

(* What the memtable asks of its parameters: the user's comparator orders  *)
(* the user keys, and the list is one of internal keys.                    *)
MemTableAssumptions ==
    /\ kMaxHeight \in Nat \ {0} /\ MaxSeq \in Nat
    /\ head_ \notin Key /\ NULL \notin Key /\ Garbage \notin Key
    /\ head_ # NULL /\ head_ # Garbage /\ NULL # Garbage
    /\ Key = [user : Users, seq : 0..MaxSeq, type : {kTypeDeletion, kTypeValue}]
    /\ Entries \subseteq Users \X {kTypeDeletion, kTypeValue}
    /\ \A a, b \in Key : Before(a, b) <=> InternalBefore(a, b)
    /\ \A a \in Users : ~ UserLess(a, a)
    /\ \A a, b, c \in Users : UserLess(a, b) /\ UserLess(b, c) => UserLess(a, c)
    /\ \A a, b \in Users : a = b \/ UserLess(a, b) \/ UserLess(b, a)

NoGet == [user |-> NULL, snapshot |-> 0, ret |-> <<"none", 0>>]

(* MemTable::Add of the next entry of a batch. *)
Add(user, type) ==
    /\ added < MaxSeq
    /\ Insert(InternalKey(user, added + 1, type))
    /\ added' = added + 1
    /\ UNCHANGED <<last_sequence, get>>

(* The writer, in the middle of an Insert. *)
AddGoesOn == Writer /\ UNCHANGED mvars

(* A deviation: published while the batch is being inserted. *)
DevPublishEarly ==
    /\ last_sequence < added
    /\ last_sequence' = added
    /\ UNCHANGED <<vars, added, get>>

(* DBImpl::Write, after InsertInto: SetLastSequence. *)
SetLastSequence ==
    /\ w.pc = "idle" /\ last_sequence < added
    /\ last_sequence' = added
    /\ UNCHANGED <<vars, added, get>>

(* MemTable::Get at a snapshot: the Seek begins. *)
GetBegins(r, user, snapshot) ==
    /\ Seek(r, LookupKey(user, snapshot))
    /\ get' = [get EXCEPT ![r] = [user |-> user, snapshot |-> snapshot, ret |-> <<"seeking", 0>>]]
    /\ UNCHANGED <<last_sequence, added>>

(* What Get makes of the entry the Seek found. *)
Answer(node, user) ==
    IF node = NULL \/ node.user # user THEN <<"absent", 0>>
    ELSE IF node.type = kTypeValue THEN <<"found", node.seq>> ELSE <<"deleted", 0>>

GetReturns(r) ==
    /\ get[r].ret[1] = "seeking" /\ Quiet(r)
    /\ get' = [get EXCEPT ![r].ret = Answer(it[r].node, get[r].user)]
    /\ UNCHANGED <<vars, last_sequence, added>>

(* MemTableIterator, for a reader that is not inside Get. *)
Iterate(r) ==
    /\ get[r].ret[1] # "seeking"
    /\ SeekToFirst(r) \/ Next_(r) \/ Prev(r) \/ SeekToLast(r)
    /\ get' = [get EXCEPT ![r] = NoGet]
    /\ UNCHANGED <<last_sequence, added>>

Walks(r) == Walk(r) /\ UNCHANGED mvars

MInit ==
    /\ Init
    /\ last_sequence = 0 /\ added = 0
    /\ get = [r \in Readers |-> NoGet]

MNext ==
    \/ \E e \in Entries : Add(e[1], e[2])
    \/ AddGoesOn
    \/ SetLastSequence
    \/ \E r \in Readers, u \in Users, s \in 0..last_sequence :
          get[r].ret[1] # "seeking" /\ GetBegins(r, u, s)
    \/ \E r \in Readers : GetReturns(r) \/ Iterate(r) \/ Walks(r)

MSpec == MInit /\ [][MNext]_allvars /\ WF_allvars(AddGoesOn)
         /\ \A r \in Readers : WF_allvars(Walks(r))

-----------------------------------------------------------------------------
MTypeOK ==
    /\ TypeOK
    /\ last_sequence \in 0..added /\ added \in 0..MaxSeq
    /\ \A r \in Readers : get[r].ret \in {"none", "seeking", "absent", "deleted", "found"} \X (0..MaxSeq)

(* The entries for user up to snapshot s, and what they say of it. *)
Visible(user, s) == {k \in DOMAIN next \ {head_} : k.user = user /\ k.seq <= s}
SnapshotAnswer(V) ==
    LET newest == CHOOSE k \in V : \A j \in V : j.seq <= k.seq
    IN IF V = {} THEN <<"absent", 0>>
       ELSE IF newest.type = kTypeDeletion THEN <<"deleted", 0>>
       ELSE <<"found", newest.seq>>

(* Get at a snapshot gives what the writes up to the snapshot say, even    *)
(* while the writer is linking later ones (memtable.cc:119 "We do not      *)
(* check the sequence number since the Seek() call above should have       *)
(* skipped all entries with overly large sequence numbers").               *)
SnapshotReads ==
    \A r \in Readers : get[r].ret[1] \notin {"none", "seeking"} =>
       get[r].ret = SnapshotAnswer(Visible(get[r].user, get[r].snapshot))

(* The searches of the skip list meet no pointer that was not written,     *)
(* find every level sorted, and skip no key that was linked when they      *)
(* began.                                                                  *)
SearchesAreRight == MTypeOK /\ LevelsAreSorted /\ ReadsWrittenPointers /\ LandsOnNearest
=============================================================================
