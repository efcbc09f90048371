----------------------------- MODULE PassSizes -----------------------------
(***************************************************************************)
(* The numbers that msort's main and library.cc compute from the size of   *)
(* the input, with the widths of the code: ftell's long becomes an int,    *)
(* the division by record_size is one of unsigned longs, and the number of *)
(* runs goes through float.  MSort has the same computation with unbounded *)
(* numbers.  The widths are parameters, so that small files reach them.    *)
(***************************************************************************)
EXTENDS Integers

CONSTANTS IntBits, FloatBits,  \* of int (32) and of the mantissa of float (24)
          Bytes, RecordSizes, RunLengths, Ks  \* input sizes, and what the command line gives

VARIABLES bytes, record_size, k,
          num_records,  \* main's variables; run_length is a long, wide enough
          run_length, num_runs,
          at            \* "measure", "loop" (the while condition) or "pass"

vars == <<bytes, record_size, k, num_records, run_length, num_runs, at>>

ToInt(x) == ((x + 2 ^ (IntBits - 1)) % (2 ^ IntBits)) - 2 ^ (IntBits - 1)
ToUnsignedLong(x) == x % (2 ^ (2 * IntBits))

-----------------------------------------------------------------------------
(* float: the quotient n / d >= 1 rounded to FloatBits bits, half to even, *)
(* is the first over the second component.                                 *)
Rounded(n, d) ==
    LET q == n \div d
        r == n % d
    IN  IF 2 * r < d \/ (2 * r = d /\ q % 2 = 0) THEN q ELSE q + 1

FloatDiv(n, d) ==
    LET e == CHOOSE x \in 0 .. 2 * IntBits : 2 ^ x * d =< n /\ n < 2 ^ (x + 1) * d
        s == FloatBits - 1 - e
    IN  IF s >= 0 THEN <<Rounded(n * 2 ^ s, d), 2 ^ s>>
        ELSE <<Rounded(n, d * 2 ^ (-s)) * 2 ^ (-s), 1>>

Float(n) == LET f == FloatDiv(n, 1) IN f[1] \div f[2]

-----------------------------------------------------------------------------
filesize == ToInt(bytes)

number_of_records == ToInt(ToUnsignedLong(filesize) \div record_size)

\* Deviation: the quotient is cut off, and one run more is always made.
DevOneMore == 1 + num_records \div run_length

\* ceil((float)num_records / run_length)
NumRuns == LET f == FloatDiv(Float(num_records), Float(run_length))
           IN  ToInt((f[1] + f[2] - 1) \div f[2])

Init ==
    /\ bytes \in Bytes /\ record_size \in RecordSizes /\ k \in Ks /\ run_length \in RunLengths
    /\ num_records = 0 /\ num_runs = 0 /\ at = "measure"

Measure ==
    /\ at = "measure" /\ at' = "loop"
    /\ num_records' = number_of_records
    /\ UNCHANGED <<bytes, record_size, k, run_length, num_runs>>

OpenPass ==
    /\ at = "loop" /\ run_length < num_records
    /\ num_runs' = NumRuns /\ at' = "pass"
    /\ UNCHANGED <<bytes, record_size, k, num_records, run_length>>

ClosePass ==
    /\ at = "pass" /\ at' = "loop"
    /\ run_length' = run_length * k
    /\ UNCHANGED <<bytes, record_size, k, num_records, num_runs>>

Next == Measure \/ OpenPass \/ ClosePass

Spec == Init /\ [][Next]_vars

-----------------------------------------------------------------------------
\* Below 2 GB (2^31 bytes) msort counts the records right, and below 2^24 records
\* every pass has exactly the runs that hold the file, though number_of_records and
\* num_runs are ints and the quotient is a float: the rounding never crosses an
\* integer.  Above either limit it is not so.
PassesCoverFile ==
    LET n == bytes \div record_size
    IN  bytes < 2 ^ (IntBits - 1) =>
          /\ at # "measure" => num_records = n
          /\ at = "pass" /\ n =< 2 ^ FloatBits =>
               (num_runs - 1) * run_length < n /\ n =< num_runs * run_length
=============================================================================
