------------------------------ MODULE Records ------------------------------
(***************************************************************************)
(* Records, as the external sort sees them.  A record is opaque data of a  *)
(* fixed size; the only thing the sort asks of two records is how their    *)
(* sort attributes compare.  Key gives each record the rank of its sort    *)
(* attributes, so two distinct records may have the same key; module       *)
(* Schema shows that the comparison of the bytes follows such a rank.      *)
(***************************************************************************)
EXTENDS Integers, Sequences

CONSTANTS Record,     \* the records a file may hold
          Key,        \* the rank of a record's sort attributes
          NULL,       \* the null pointer
          Garbage,    \* the content of memory that was never written
          RecordSize  \* schema->record_size, in bytes

ASSUME RecordAssumption == /\ Key \in [Record -> Int]
                           /\ NULL \notin Record
                           /\ Garbage \notin Record
                           /\ NULL # Garbage

ASSUME RecordSizeAssumption == RecordSize \in Nat \ {0}

(***************************************************************************)
(* The sign of strncmp on the first sort attribute that differs.           *)
(***************************************************************************)
record_object_comparator(r1, r2) == Key[r1] - Key[r2]

(***************************************************************************)
(* What a sorted sequence of records is, for mk_runs and merge_runs alike. *)
(***************************************************************************)
Sorted(s) ==
    \A i, j \in 1 .. Len(s) :
        i < j => record_object_comparator(s[i], s[j]) =< 0

(***************************************************************************)
(* Files are sequences of records, and a position in a file counts the     *)
(* records before it.                                                      *)
(***************************************************************************)

\* fread: how many of n records from position pos file f can deliver.
FreadCount(f, pos, n) ==
    IF Len(f) =< pos THEN 0 ELSE IF Len(f) - pos < n THEN Len(f) - pos ELSE n

=============================================================================
