------------------------------- MODULE Cursor -------------------------------
(***************************************************************************)
(* What leveldb/iterator.h promises of every iterator: a position in a     *)
(* sorted sequence of entries, or none.                                    *)
(***************************************************************************)
EXTENDS Integers, Sequences, FiniteSets

CONSTANTS NULL, Targets, Before(_, _)

VARIABLES
    data,   \* the keys, in order
    pos,    \* 0 if the iterator is not valid
    call    \* the call <<operation, target>> in progress, or NULL

vars == <<data, pos, call>>

Init == pos = 0 /\ call = NULL

\* Next and Prev may only be called on a valid iterator.
Call ==
    /\ call = NULL
    /\ \/ call' \in {<<"first", NULL>>, <<"last", NULL>>} \union {<<"seek", t>> : t \in Targets}
       \/ pos # 0 /\ call' \in {<<"next", NULL>>, <<"prev", NULL>>}
    /\ UNCHANGED <<data, pos>>

Destination(op, t) ==
    CASE op = "first" -> 1
      [] op = "last" -> Len(data)
      [] op = "next" -> pos + 1
      [] op = "prev" -> pos - 1
      [] op = "seek" -> Cardinality({i \in DOMAIN data : Before(data[i], t)}) + 1

Return ==
    /\ call # NULL
    /\ LET to == Destination(call[1], call[2])
       IN pos' = IF to \in DOMAIN data THEN to ELSE 0
    /\ call' = NULL
    /\ UNCHANGED data

Next == Call \/ Return

Spec == Init /\ [][Next]_vars
=============================================================================
