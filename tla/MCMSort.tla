------------------------------ MODULE MCMSort ------------------------------
(***************************************************************************)
(* Small instances of MSort.  A record is its key and its position in the  *)
(* input.  The shape of a sort depends on the number of records, the       *)
(* capacity and k, so these vary and the keys follow a few patterns.       *)
(***************************************************************************)
EXTENDS MSort

CONSTANTS MaxFile, MaxKey

MCRecord == [key : 0 .. MaxKey, id : 0 .. MaxFile]
MCKey == [r \in MCRecord |-> r.key]

\* Inputs with keys in descending order, in pairs, and with a stride.
Descending(len) == [p \in 1 .. len |-> [key |-> MaxKey + 1 - p, id |-> p]]
Paired(len) == [p \in 1 .. len |-> [key |-> (MaxFile - p) \div 2, id |-> p]]
Strided(len) == [p \in 1 .. len |-> [key |-> (p * 5) % (MaxKey + 1), id |-> p]]

LastLine == [key |-> 1, id |-> 0]

Invocation(m, k, inp, t) ==
    [mem |-> m, k |-> k, schema |-> TRUE, attrs |-> TRUE, input |-> inp, tail |-> t]

\* Command lines that are refused, and one without an input file.
Refused == { [Invocation(1, 2, Paired(2), NULL) EXCEPT !.schema = FALSE],
             [Invocation(1, 2, Paired(2), NULL) EXCEPT !.attrs = FALSE],
             Invocation(1, 2, Paired(2), NULL),
             Invocation(6, 2, NULL, NULL) }

\* Up to three passes with buffers of no record, of one and of several records.
MCInvocations ==
    Refused \cup
    { Invocation(m, k, x[1], x[2]) :
        m \in {6, 9, 12, 20}, k \in {2, 3, 4},
        x \in UNION {{<<Paired(len), NULL>>, <<Strided(len), NULL>>, <<Strided(len), LastLine>>} :
                     len \in {0, 1, 3, 7, 9, 12, 13}} }

\* A sort whose iterators run into the last run.
MCOverread == {Invocation(26, 3, Descending(14), NULL), Invocation(26, 3, Strided(14), NULL)}

\* One invocation for each way a sort may end, for use with kills: two passes
\* through tmp_file2 with and without output, one pass, full runs in one pass and
\* in two, no pass.
MCKilled == { Invocation(8, 3, Strided(13), NULL),
              Invocation(6, 2, Strided(7), NULL),
              Invocation(8, 3, Paired(6), LastLine),
              Invocation(8, 3, Descending(8), NULL),
              Invocation(8, 3, Descending(16), NULL),
              Invocation(8, 3, Paired(3), NULL) }

MCAllInvocations == MCInvocations \cup MCOverread \cup MCKilled
MCNone == {}

=============================================================================
