------------------------------- MODULE Schema -------------------------------
(***************************************************************************)
(* The schema of a file and the comparison of two records by it:           *)
(* read_schema takes the attributes from the JSON file, init_sort_attrs    *)
(* finds the attributes named on the command line, and                     *)
(* record_object_comparator compares the bytes of two records attribute by *)
(* attribute.  One step per turn of each of the three loops.               *)
(*                                                                         *)
(* A byte is a small number: 0 ends a string, Separator stands after every *)
(* field (a comma, or the newline), Letters make up the fields.            *)
(***************************************************************************)
EXTENDS Integers, Sequences, FiniteSets, SequencesExt

CONSTANTS Name,      \* attribute names
          Letters,   \* the bytes of a field
          Decls,     \* the JSON files: sequences of attributes, NULL if unreadable
          Wanted,    \* the sort attributes of the command line
          Numbers,   \* record numbers, as sequences of digits
          NULL, Garbage

Separator == 1

VARIABLES root,        \* the JSON value
          wanted,      \* the attribute names of the command line
          attrs, record_size, sort_attrs,  \* the Schema
          pc, i,       \* where the program is, and its loop index
          r1, r2,      \* the bytes of the two records
          fields,      \* the fields r1 and r2 were written from
          return_val

input == <<root, wanted>>
schema == <<attrs, record_size, sort_attrs>>
records == <<r1, r2, fields>>
vars == <<input, schema, pc, i, records, return_val>>

nattrs == Len(root)

TypeOK == /\ attrs \in Seq([name : Name, length : Nat])
          /\ record_size \in Nat
          /\ \A j \in DOMAIN sort_attrs : sort_attrs[j] \in 1 .. Len(attrs) \cup {Garbage}
          /\ pc \in {"schema", "unreadable", "attrs", "missing", "records", "compare", "done"}
          /\ i \in Nat \ {0}
          /\ {Len(r1), Len(r2)} \subseteq {0, record_size}
          /\ return_val \in Int

\* A record has as many separators as attributes.
InitialSize == IF root = NULL THEN 0 ELSE nattrs

Init == /\ root \in Decls
        /\ wanted \in Wanted
        /\ attrs = << >>
        /\ record_size = InitialSize
        /\ sort_attrs = [j \in DOMAIN wanted |-> Garbage]
        /\ pc = IF root = NULL THEN "unreadable" ELSE "schema"
        /\ i = 1
        /\ r1 = << >> /\ r2 = << >> /\ fields = << << >>, << >> >>
        /\ return_val = 0

\* A turn of read_schema's loop; a missing length is 0.
ReadAttribute ==
    /\ pc = "schema"
    /\ IF i =< nattrs
       THEN LET attribute == [root[i] EXCEPT !.length = IF @ = NULL THEN 0 ELSE @]
            IN  /\ attrs' = Append(attrs, attribute)
                /\ record_size' = record_size + attribute.length
                /\ i' = i + 1
                /\ UNCHANGED pc
       ELSE pc' = "attrs" /\ i' = 1 /\ UNCHANGED <<attrs, record_size>>
    /\ UNCHANGED <<input, sort_attrs, records, return_val>>

\* The attributes with name n.
Named(n) == {j \in 1 .. nattrs : attrs[j].name = n}

\* A turn of init_sort_attrs' loop.  A missing attribute leaves the rest of the
\* malloc'ed sort_attrs as it is.
InitSortAttr ==
    /\ pc = "attrs"
    /\ IF i > Len(wanted) THEN pc' = "records" /\ i' = 1 /\ UNCHANGED sort_attrs
       ELSE IF Named(wanted[i]) = {} THEN pc' = "missing" /\ UNCHANGED <<i, sort_attrs>>
       ELSE /\ sort_attrs' = [sort_attrs EXCEPT ![i] = Min(Named(wanted[i]))]
            /\ i' = i + 1
            /\ UNCHANGED pc
    /\ UNCHANGED <<input, attrs, record_size, records, return_val>>

\* offset_to_attribute, for attributes counted from 1; bsort sums the same
\* lengths when it builds a key.
offset_to_attribute(attr) == MapThenSumSet(LAMBDA j : 1 + attrs[j].length, 1 .. attr - 1)

\* The bytes of attribute attr of record r.
Attribute(r, attr) ==
    SubSeq(r, offset_to_attribute(attr) + 1, offset_to_attribute(attr) + attrs[attr].length)

\* The lines that fit the schema, as the fields they are made of.
Lines == {f \in [1 .. nattrs -> BoundedSeq(Letters, Max({attrs[j].length : j \in 1 .. nattrs} \cup {0}))] :
             \A j \in 1 .. nattrs : Len(f[j]) = attrs[j].length}

Line(f) == FlattenSeq([j \in 1 .. nattrs |-> Append(f[j], Separator)])

\* Two records are read; the second may be the unterminated last one of the
\* file, of which only n bytes exist and the rest of the buffer is zero.
ReadRecords ==
    /\ pc = "records"
    /\ \E f, g \in Lines, n \in 1 .. record_size :
          /\ r1' = Line(f)
          /\ r2' = [j \in 1 .. record_size |-> IF j =< n THEN Line(g)[j] ELSE 0]
          /\ fields' = <<f, IF n = record_size THEN g ELSE << >> >>
    /\ pc' = "compare"
    /\ UNCHANGED <<input, schema, i, return_val>>

\* strncmp on two byte sequences of one length.
strncmp(s, t) ==
    LET stops == {j \in DOMAIN s : s[j] # t[j] \/ s[j] = 0}
    IN  IF stops = {} THEN 0 ELSE s[Min(stops)] - t[Min(stops)]

\* Deviation: a difference does not end the loop.
DevNoBreak(val) == i < Len(sort_attrs)

\* The loop of record_object_comparator goes on after a comparison with result val.
GoesOn(val) == val = 0 /\ i < Len(sort_attrs)

\* A turn of record_object_comparator's loop.
CompareAttribute ==
    /\ pc = "compare"
    /\ return_val' = strncmp(Attribute(r1, sort_attrs[i]), Attribute(r2, sort_attrs[i]))
    /\ IF GoesOn(return_val') THEN i' = i + 1 /\ pc' = pc
                              ELSE pc' = "done" /\ i' = i
    /\ UNCHANGED <<input, schema, records>>

\* The key under which bsort puts record r, with the digits num of its number.
BsortKey(r, num) ==
    FlattenSeq([j \in DOMAIN sort_attrs |-> Attribute(r, sort_attrs[j])]) \o num

Next == ReadAttribute \/ InitSortAttr \/ ReadRecords \/ CompareAttribute

Spec == Init /\ [][Next]_vars

-----------------------------------------------------------------------------
(***************************************************************************)
(* Properties                                                              *)
(***************************************************************************)

\* The fields of a line are where offset_to_attribute says, and record_size is
\* the length of the line: the sizes that read_schema adds up and the offsets
\* that the comparator adds up agree with the layout of the file, empty fields
\* and missing lengths included.
FieldsAreFound ==
    pc \in {"compare", "done"} =>
        /\ Len(r1) = record_size
        /\ \A j \in 1 .. nattrs : Attribute(r1, j) = fields[1][j]

\* The rank of record r: the bytes of its sort attributes, in the order of the
\* command line, as one number.
Rank(r) ==
    LET Base == 1 + Max(Letters)
    IN  FoldLeft(LAMBDA acc, byte : acc * Base + byte, 0,
                 FlattenSeq([j \in DOMAIN sort_attrs |-> Attribute(r, sort_attrs[j])]))

Sign(x) == IF x < 0 THEN -1 ELSE IF x > 0 THEN 1 ELSE 0

\* record_object_comparator has the sign of the difference of two ranks: it is a
\* total preorder, as qsort and the merge require, the first attribute decides
\* before the second, and a record cut short sorts as if it were filled with
\* zeros.  The other modules take their Key from this.
ComparatorFollowsRank ==
    pc = "done" => Sign(return_val) = Sign(Rank(r1) - Rank(r2))

\* The order of LevelDB's keys: bytewise, a prefix first.
ByteBefore(s, t) ==
    \/ IsStrictPrefix(s, t)
    \/ \E j \in 1 .. Min({Len(s), Len(t)}) : /\ s[j] < t[j]
                                             /\ \A l \in 1 .. j - 1 : s[l] = t[l]

\* bsort and msort agree on the order of complete records with different sort
\* attributes, whatever their numbers: all keys have the same length before the
\* number, so that a number is never compared with a field.
KeysFollowComparator ==
    pc = "done" /\ fields[2] # << >> /\ return_val # 0 =>
        \A m, n \in Numbers : ByteBefore(BsortKey(r1, m), BsortKey(r2, n)) <=> return_val < 0

=============================================================================
