------------------------------- MODULE BSort -------------------------------
(***************************************************************************)
(* bsort's main, one or more invocations in the same directory.  It puts   *)
(* every line of the input into the LevelDB tree of directory leveldb_dir  *)
(* and then writes the values of the tree to the output in key order.  The *)
(* tree is neither emptied when it is opened nor removed at the end, so it *)
(* carries over to the next invocation, and so does what a killed          *)
(* invocation has put into it.                                             *)
(*                                                                         *)
(* A tree key is the bytes of the sort attributes followed by the decimal  *)
(* record number.  The bytes are abstracted to their rank in byte order;   *)
(* all choices of sort attributes are taken to give keys of one width.     *)
(***************************************************************************)
EXTENDS Records, FiniteSets, SequencesExt

CONSTANTS Ranks,           \* the orders that sort attributes can give the records
          Invocations,     \* the command lines and inputs to consider
          MaxInvocations   \* how many invocations share the directory

ASSUME RanksAssumption == Ranks \subseteq [Record -> Nat]

ASSUME InvocationsAssumption ==
    Invocations \subseteq [ args   : BOOLEAN,                    \* there are enough arguments
                            schema : BOOLEAN,                    \* the schema file parses
                            rank   : Ranks \cup {NULL},          \* NULL: no such attribute
                            input  : Seq(Record) \cup {NULL},    \* NULL: no such file
                            tail   : Record \cup {NULL},         \* unterminated last line
                            output : BOOLEAN,                    \* the output can be opened
                            tree   : BOOLEAN ]                   \* LevelDB opens the tree

ASSUME MaxInvocationsAssumption == MaxInvocations \in Nat \ {0}

VARIABLES inv,      \* the current invocation
          count,    \* how many invocations there have been
          tree,     \* leveldb_dir: values by key
          out,      \* the output file, NULL if absent
          main,     \* where main is
          rank,     \* the order given by sort_attrs; NULL if it crashes
          counter,  \* records put into the tree, or lines written
          loaded    \* history: what the tree was loaded with since it was empty

vars == <<inv, count, tree, out, main, rank, counter, loaded>>

Exits == {"exit0", "exit1", "exit2", "exit3", "exit4", "exit5", "segv", "killed"}

TreeKey == Nat \X Seq(0 .. 9)

\* The lines that the loop sees: feof is set by the fgets that meets the end of
\* the file, so the unterminated last line is read and not used.
Lines == inv.input

TypeOK == /\ inv \in Invocations
          /\ count \in 1 .. MaxInvocations
          /\ DOMAIN tree \subseteq TreeKey
          /\ \A key \in DOMAIN tree : tree[key] \in Record
          /\ out \in Seq(Record) \cup {NULL}
          /\ main \in {"start", "put", "write"} \cup Exits
          /\ rank \in Ranks \cup {NULL}
          /\ main = "put" => counter \in 0 .. Len(Lines)
          /\ main = "write" => counter \in 0 .. Cardinality(DOMAIN tree)
          /\ loaded \subseteq Invocations

Init == /\ inv \in Invocations
        /\ count = 1
        /\ tree = << >> /\ out = NULL
        /\ main = "start" /\ rank = NULL /\ counter = 0
        /\ loaded = {}

\* Where main goes before it opens the tree.  A missing sort attribute is
\* reported and does not end the program.
ArgumentError ==
    IF ~inv.args THEN "exit1"
    ELSE IF ~inv.schema THEN "exit2"
    ELSE IF inv.input = NULL THEN "exit3"
    ELSE IF ~inv.output THEN "exit4"
    ELSE "ok"

Refuse ==
    /\ main = "start"
    /\ ArgumentError # "ok"
    /\ main' = ArgumentError
    /\ UNCHANGED <<inv, count, tree, out, rank, counter, loaded>>

\* The output is truncated, then the tree is opened.  If init_sort_attrs failed,
\* sort_attrs was not written: the keys are built from some attribute, or the
\* program crashes when it builds the first key.
Open ==
    /\ main = "start"
    /\ ArgumentError = "ok"
    /\ out' = << >>
    /\ IF inv.tree
       THEN /\ main' = "put"
            /\ rank' \in IF inv.rank # NULL THEN {inv.rank} ELSE Ranks \cup {NULL}
       ELSE main' = "exit5" /\ rank' = rank
    /\ UNCHANGED <<inv, count, tree, counter, loaded>>

\* sprintf "%d"
Digits[n \in Nat] == IF n < 10 THEN <<n>> ELSE Append(Digits[n \div 10], n % 10)

\* Deviation: the record number comes before the sort attributes.
DevNumberFirst(r, n) == <<n, <<rank[r] % 10>> >>

\* The key of record r, the n-th of the input (from 0).
KeyOf(r, n) == <<rank[r], Digits[n]>>

\* Deviation: the loop does not read the next line.
DevSameLine ==
    /\ main = "put"
    /\ counter < Len(Lines)
    /\ IF rank = NULL
       THEN main' = "segv" /\ UNCHANGED <<tree, counter, loaded>>
       ELSE /\ tree' = [key \in {KeyOf(Lines[counter + 1], counter)} |-> Lines[counter + 1]] @@ tree
            /\ loaded' = loaded \cup {inv}
            /\ UNCHANGED <<main, counter>>
    /\ UNCHANGED <<inv, count, out, rank>>

\* A turn of the loop: db->Put replaces the value of a key that exists.
PutRecord ==
    /\ main = "put"
    /\ counter < Len(Lines)
    /\ IF rank = NULL
       THEN main' = "segv" /\ UNCHANGED <<tree, counter, loaded>>
       ELSE /\ tree' = [key \in {KeyOf(Lines[counter + 1], counter)} |-> Lines[counter + 1]] @@ tree
            /\ counter' = counter + 1
            /\ loaded' = loaded \cup {inv}
            /\ UNCHANGED main
    /\ UNCHANGED <<inv, count, out, rank>>

\* The input is read: an iterator is placed on the first key.
SeekToFirst ==
    /\ main = "put"
    /\ counter = Len(Lines)
    /\ main' = "write"
    /\ counter' = 0
    /\ UNCHANGED <<inv, count, tree, out, rank, loaded>>

\* strcmp of two numbers in decimal.
DigitsBefore(d, e) ==
    \/ IsStrictPrefix(d, e)
    \/ \E j \in 1 .. Len(d) : /\ j =< Len(e) /\ d[j] < e[j]
                              /\ \A i \in 1 .. j - 1 : d[i] = e[i]

\* The order of LevelDB's keys, bytewise.
KeyBefore(a, b) == a[1] < b[1] \/ (a[1] = b[1] /\ DigitsBefore(a[2], b[2]))

\* The key that the tree's iterator visits after n others.
KeyAt(n) == CHOOSE key \in DOMAIN tree :
                Cardinality({l \in DOMAIN tree : KeyBefore(l, key)}) = n

\* A turn of the second loop: a value is written and flushed.
WriteLine ==
    /\ main = "write"
    /\ counter < Cardinality(DOMAIN tree)
    /\ out' = Append(out, tree[KeyAt(counter)])
    /\ counter' = counter + 1
    /\ UNCHANGED <<inv, count, tree, main, rank, loaded>>

\* The iterator is no longer valid: the files are closed.
Finish ==
    /\ main = "write"
    /\ counter = Cardinality(DOMAIN tree)
    /\ main' = "exit0"
    /\ UNCHANGED <<inv, count, tree, out, rank, counter, loaded>>

\* The process is killed; what it has put is in LevelDB's log.
Kill ==
    /\ main \notin Exits
    /\ main' = "killed"
    /\ UNCHANGED <<inv, count, tree, out, rank, counter, loaded>>

\* bsort is invoked again in the same directory, possibly after an
\* rm -rf leveldb_dir like the one of run_tests.sh.
InvokeAgain ==
    /\ main \in Exits
    /\ count < MaxInvocations
    /\ inv' \in Invocations
    /\ count' = count + 1
    /\ main' = "start" /\ rank' = NULL /\ counter' = 0
    /\ \/ UNCHANGED <<tree, loaded>>
       \/ tree' = << >> /\ loaded' = {}
    /\ UNCHANGED out

Step == Refuse \/ Open \/ PutRecord \/ SeekToFirst \/ WriteLine \/ Finish

Next == Step \/ Kill \/ InvokeAgain

\* A running invocation keeps taking steps until it ends; nobody is obliged to
\* kill it or to invoke bsort again.
Spec == Init /\ [][Next]_vars /\ WF_vars(Step)

-----------------------------------------------------------------------------
(***************************************************************************)
(* Properties                                                              *)
(***************************************************************************)
Copies(s, r) == Cardinality({j \in 1 .. Len(s) : s[j] = r})

\* The tree was loaded, since it was last empty, with inputs in the order this
\* invocation uses.
OneOrder == \A i \in loaded : i.rank = rank

\* The output is in key order at every moment it is written, whatever earlier
\* invocations, complete or killed, have left in the tree, as long as they
\* sorted by the same attributes.
WritesInOrder ==
    main \in {"write", "exit0"} /\ OneOrder =>
        \A i, j \in 1 .. Len(out) : i < j => rank[out[i]] =< rank[out[j]]

\* "Append record # to allow duplicates.": when bsort exits, every record of its
\* input is in the output as often as in the input at least.  Equal records have
\* different numbers, and leftovers of earlier invocations may be replaced but
\* never replace a record of this one.
KeepsEveryRecord ==
    main = "exit0" =>
        \A j \in 1 .. Len(inv.input) : Copies(out, inv.input[j]) >= Copies(inv.input, inv.input[j])

\* The position in the output of the p-th record of the input: the records are
\* ordered by key, and those with equal keys by their numbers in decimal, so the
\* eleventh (number 10) comes before the third (number 2).
Place(p) ==
    LET KeyAtLine(q) == KeyOf(inv.input[q], q - 1)
    IN  1 + Cardinality({q \in 1 .. Len(inv.input) : KeyBefore(KeyAtLine(q), KeyAtLine(p))})

\* An invocation that was killed is repaired by running it again: the keys only
\* depend on the input, so the second run replaces what the first has put, and
\* the output is exactly the sorted input.  This includes an undisturbed sort in
\* a directory without a tree.
RerunRepairs ==
    main = "exit0" /\ loaded \subseteq {inv} /\ inv.rank # NULL =>
        /\ Len(out) = Len(inv.input)
        /\ \A p \in 1 .. Len(inv.input) : out[Place(p)] = inv.input[p]

=============================================================================
