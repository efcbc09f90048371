--------------------------- MODULE RunIteratorOps ---------------------------
(***************************************************************************)
(* The methods of class RunIterator, as operators.  An iterator is a       *)
(* record of the class's fields; a file is a sequence of records, and a    *)
(* file position counts the records before it (every position the code     *)
(* seeks to is a multiple of record_size).  All iterators of a merge share *)
(* one stdio stream, so a method takes the stream's position fp besides    *)
(* the iterator and returns both, with its result in the field ret.        *)
(***************************************************************************)
EXTENDS Records

Iterator ==
    [ file_pos       : Nat,             \* where the next refill reads
      end_file_pos   : Nat,             \* start_pos + run_length
      run_length     : Nat,
      records_left   : Nat,             \* records of the run not yet returned
      buf_size       : Nat,             \* in bytes
      buffer         : Seq(Record),     \* what the last refill read
      buffer_pointer : Nat,             \* index of the next record in buffer
      left_in_buf    : Nat,             \* records of buffer not yet returned
      current_record : Record \cup {NULL, Garbage} ]

\* RunIterator::RunIterator.  The record behind current_record is allocated
\* and not initialised.
new_RunIterator(start_pos, run_length, buf_size) ==
    [ file_pos       |-> start_pos,
      end_file_pos   |-> start_pos + run_length,
      run_length     |-> run_length,
      records_left   |-> run_length,
      buf_size       |-> buf_size,
      buffer         |-> << >>,
      buffer_pointer |-> 1,
      left_in_buf    |-> 0,
      current_record |-> Garbage ]

\* The position at which iterator it starts in its file.
StartPos(it) == it.end_file_pos - it.run_length

\* How many records fit in it's buffer.
BufRecords(it) == it.buf_size \div RecordSize

\* How many records a refill asks for: a full buffer, or the whole run if
\* that is smaller.
RefillSize(it) ==
    IF BufRecords(it) < it.run_length THEN BufRecords(it) ELSE it.run_length

\* Deviation: the fseek of read_into_buffer is left out.
DevNoSeek(it, fp) == fp

\* fseek to the iterator's own position before it reads the shared stream.
SeekPos(it, fp) == it.file_pos

\* A short read means the file has ended: what was read is all that is left.
RecordsLeftAfter(it, got) == IF got < RefillSize(it) THEN got ELSE it.records_left

\* RunIterator::read_into_buffer.
read_into_buffer(f, fp, it) ==
    IF it.left_in_buf > 0 \/ it.records_left = 0
    THEN [it |-> it, fp |-> fp]
    ELSE LET pos == SeekPos(it, fp)
             got == FreadCount(f, pos, RefillSize(it))
         IN  [ it |-> [it EXCEPT !.buffer         = SubSeq(f, pos + 1, pos + got),
                                 !.buffer_pointer = 1,
                                 !.left_in_buf    = got,
                                 !.records_left   = RecordsLeftAfter(it, got),
                                 !.file_pos       = @ + got],
               fp |-> pos + got ]

\* What has_next answers once the buffer has been refilled.  The first byte
\* of the buffer is non-zero when the last refill read a record.
HasRecord(it) ==
    /\ it.records_left > 0
    /\ it.left_in_buf > 0 \/ it.buffer # << >>

\* RunIterator::has_next.
has_next(f, fp, it) ==
    LET s == IF it.left_in_buf = 0 THEN read_into_buffer(f, fp, it)
                                   ELSE [it |-> it, fp |-> fp]
    IN  [it |-> s.it, fp |-> s.fp, ret |-> HasRecord(s.it)]

\* strncpy from buffer_pointer; past what was read there is no record.
RecordAtPointer(it) ==
    IF it.buffer_pointer \in 1 .. Len(it.buffer)
    THEN it.buffer[it.buffer_pointer]
    ELSE Garbage

\* Deviation: next looks into the buffer without refilling it.
DevNextNoRefill(f, fp, it) ==
    IF ~HasRecord(it) \/ it.left_in_buf = 0
    THEN [it |-> [it EXCEPT !.current_record = NULL], fp |-> fp, ret |-> NULL]
    ELSE [it |-> [it EXCEPT !.current_record = RecordAtPointer(it),
                            !.buffer_pointer = @ + 1,
                            !.left_in_buf    = @ - 1,
                            !.records_left   = @ - 1],
          fp |-> fp,
          ret |-> RecordAtPointer(it)]

\* RunIterator::next.
next(f, fp, it) ==
    LET s == has_next(f, fp, it)
    IN  IF ~s.ret
        THEN [it |-> [s.it EXCEPT !.current_record = NULL], fp |-> s.fp, ret |-> NULL]
        ELSE [it |-> [s.it EXCEPT !.current_record = RecordAtPointer(s.it),
                                  !.buffer_pointer = @ + 1,
                                  !.left_in_buf    = @ - 1,
                                  !.records_left   = @ - 1],
              fp |-> s.fp,
              ret |-> RecordAtPointer(s.it)]

\* Deviation: get_current_record does not read the first record.
DevNoFirstRead(f, fp, it) == [it |-> it, fp |-> fp, ret |-> it.current_record]

\* RunIterator::get_current_record.  An iterator that still has its whole run
\* left has not read a record yet.
get_current_record(f, fp, it) ==
    IF it.records_left = it.run_length
    THEN next(f, fp, it)
    ELSE [it |-> it, fp |-> fp, ret |-> it.current_record]

=============================================================================
