---------------------------- MODULE InternalKeys ----------------------------
(***************************************************************************)
(* Internal keys (leveldb db/dbformat.h, dbformat.cc): a user key with the *)
(* sequence number of the write and its type.  The user's comparator is a  *)
(* parameter, as it is in Options.                                         *)
(***************************************************************************)
EXTENDS Integers

CONSTANT UserLess(_, _)  \* user_comparator_->Compare(a, b) < 0

kTypeDeletion == 0
kTypeValue == 1
kValueTypeForSeek == kTypeValue

InternalKey(user, seq, type) == [user |-> user, seq |-> seq, type |-> type]

(* The eight low bits of the tag hold the type: the tag orders by sequence *)
(* number first.                                                           *)
PackSequenceAndType(seq, t) == seq * 2 + t
Tag(k) == PackSequenceAndType(k.seq, k.type)

(* InternalKeyComparator::Compare(a, b) < 0 *)
InternalBefore(a, b) ==
    \/ UserLess(a.user, b.user)
    \/ a.user = b.user /\ Tag(a) > Tag(b)

LookupKey(user, seq) == InternalKey(user, seq, kValueTypeForSeek)
=============================================================================
