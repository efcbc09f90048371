------------------------------- MODULE MemEnv -------------------------------
(***************************************************************************)
(* helpers/memenv/memenv.cc: a file system in memory.  A FileState is      *)
(* counted: the map from names holds one reference and every open file     *)
(* one.  Its bytes lie in blocks of kBlockSize.                            *)
(***************************************************************************)
EXTENDS Integers, Sequences, FiniteSets, FiniteSetsExt, SequencesExt

CONSTANTS Name, Handle, State,  \* file names, open files, FileStates
          kBlockSize, MaxSize,  \* the bytes of a block; the longest file
          MaxAppend,            \* the longest Slice appended or read
          NULL

VARIABLES file_map,  \* the FileState of a name, or NULL
          refs, blocks, size,  \* of each FileState
          open,      \* per handle: NULL, or the kind, the FileState and pos_
          content    \* what was appended to each FileState

vars == <<file_map, refs, blocks, size, open, content>>

Free == [f \in State |-> 0]

Init ==
  /\ file_map = [n \in Name |-> NULL] /\ refs = Free /\ size = Free
  /\ blocks = [f \in State |-> <<>>] /\ content = [f \in State |-> <<>>]
  /\ open = [h \in Handle |-> NULL]

(* Unref: the last reference frees the blocks. *)
Unref(r, f) == [r EXCEPT ![f] = @ - 1]

Freed(b, r) == [f \in State |-> IF r[f] = 0 THEN <<>> ELSE b[f]]

Sized(s, r) == [f \in State |-> IF r[f] = 0 THEN 0 ELSE s[f]]

SetRefs(r) ==
  /\ refs' = r
  /\ blocks' = Freed(blocks, r) /\ content' = Freed(content, r) /\ size' = Sized(size, r)

(* NewWritableFile: a file of that name is deleted, a new FileState gets    *)
(* the references of the map and of the handle.                             *)
NewWritableFile(n, h) ==
  /\ open[h] = NULL
  /\ LET f == CHOOSE g \in State : refs[g] = 0
     IN  /\ SetRefs([(IF file_map[n] = NULL THEN refs ELSE Unref(refs, file_map[n])) EXCEPT ![f] = 2])
         /\ file_map' = [file_map EXCEPT ![n] = f]
         /\ open' = [open EXCEPT ![h] = [kind |-> "w", file |-> f, pos |-> 0]]

(* NewSequentialFile, NewRandomAccessFile *)
NewReadableFile(n, h, kind) ==
  /\ open[h] = NULL /\ file_map[n] # NULL
  /\ open' = [open EXCEPT ![h] = [kind |-> kind, file |-> file_map[n], pos |-> 0]]
  /\ refs' = [refs EXCEPT ![file_map[n]] = @ + 1]
  /\ UNCHANGED <<file_map, blocks, size, content>>

Close(h) ==
  /\ open[h] # NULL
  /\ SetRefs(Unref(refs, open[h].file))
  /\ open' = [open EXCEPT ![h] = NULL]
  /\ UNCHANGED file_map

RECURSIVE AppendBlocks(_, _, _)

(* The loop of FileState::Append. *)
AppendBlocks(b, sz, src) ==
  IF src = <<>> THEN [blocks |-> b, size |-> sz]
  ELSE LET offset == sz % kBlockSize
           c      == IF offset # 0 THEN b ELSE Append(b, <<>>)
           avail  == Min({kBlockSize - offset, Len(src)})
       IN  AppendBlocks([c EXCEPT ![Len(c)] = @ \o SubSeq(src, 1, avail)], sz + avail, SubSeq(src, avail + 1, Len(src)))

AppendData(h) ==
  /\ open[h] # NULL /\ open[h].kind = "w"
  /\ LET f == open[h].file
     IN  \E n \in 1 .. MaxAppend :
           LET data == [i \in 1 .. n |-> size[f] + i]
               r    == AppendBlocks(blocks[f], size[f], data)
           IN  /\ size[f] + n <= MaxSize
               /\ blocks' = [blocks EXCEPT ![f] = r.blocks] /\ size' = [size EXCEPT ![f] = r.size]
               /\ content' = [content EXCEPT ![f] = @ \o data]
  /\ UNCHANGED <<file_map, refs, open>>

RECURSIVE CopyBlocks(_, _, _, _)

(* The loop of FileState::Read. *)
CopyBlocks(b, block, offset, n) ==
  IF n = 0 THEN <<>>
  ELSE LET avail == Min({kBlockSize - offset, n})
       IN  SubSeq(b[block + 1], offset + 1, offset + avail) \o CopyBlocks(b, block + 1, 0, n - avail)

(* FileState::Read from an offset within the file; what one block has is    *)
(* not copied.                                                              *)
ReadState(f, offset, n) ==
  LET m == Min({n, size[f] - offset})
      block == offset \div kBlockSize
      block_offset == offset % kBlockSize
  IN  IF m = 0 THEN <<>>
      ELSE IF m <= kBlockSize - block_offset THEN SubSeq(blocks[f][block + 1], block_offset + 1, block_offset + m)
      ELSE CopyBlocks(blocks[f], block, block_offset, m)

(* Nobody reads a file that is being written. *)
Writing(f) == \E h \in Handle : open[h] # NULL /\ open[h].kind = "w" /\ open[h].file = f

(* SequentialFileImpl::Read; the one of RandomAccessFileImpl changes        *)
(* nothing.                                                                 *)
Read(h) ==
  /\ open[h] # NULL /\ open[h].kind = "s" /\ ~Writing(open[h].file)
  /\ \E n \in 1 .. MaxAppend : open' = [open EXCEPT ![h].pos = @ + Len(ReadState(open[h].file, @, n))]
  /\ UNCHANGED <<file_map, refs, blocks, size, content>>

Skip(h) ==
  /\ open[h] # NULL /\ open[h].kind = "s" /\ ~Writing(open[h].file)
  /\ \E n \in 1 .. MaxAppend : open' = [open EXCEPT ![h].pos = @ + Min({n, size[open[h].file] - @})]
  /\ UNCHANGED <<file_map, refs, blocks, size, content>>

DeleteFile(n) ==
  /\ file_map[n] # NULL
  /\ SetRefs(Unref(refs, file_map[n]))
  /\ file_map' = [file_map EXCEPT ![n] = NULL]
  /\ UNCHANGED open

(* Deviation: the target is replaced and not deleted. *)
DevLeaks(target) == refs

(* DeleteFileInternal(target) *)
TargetDeleted(target) == IF file_map[target] = NULL THEN refs ELSE Unref(refs, file_map[target])

(* The callers rename to another name. *)
RenameFile(src, target) ==
  /\ src # target /\ file_map[src] # NULL
  /\ SetRefs(TargetDeleted(target))
  /\ file_map' = [file_map EXCEPT ![target] = file_map[src], ![src] = NULL]
  /\ UNCHANGED open

Next ==
  \/ \E n \in Name, h \in Handle : NewWritableFile(n, h) \/ \E k \in {"s", "r"} : NewReadableFile(n, h, k)
  \/ \E h \in Handle : Close(h) \/ AppendData(h) \/ Read(h) \/ Skip(h)
  \/ \E n \in Name : DeleteFile(n) \/ \E m \in Name : RenameFile(n, m)

Spec == Init /\ [][Next]_vars

-----------------------------------------------------------------------------
Expected(f, offset, n) == SubSeq(content[f], offset + 1, Min({offset + n, Len(content[f])}))

\* A read returns the bytes appended, whatever blocks they lie in and wherever it
\* starts.  A file lives exactly as long as it has a name or is open: one that is
\* deleted, or replaced by a new one or a renamed one, can still be read.
FilesAreKept ==
  /\ \A f \in State : \A o \in 0 .. size[f], n \in 1 .. MaxAppend : ReadState(f, o, n) = Expected(f, o, n)
  /\ \A f \in State :
       /\ refs[f] = Cardinality({n \in Name : file_map[n] = f}) + Cardinality({h \in Handle : open[h] # NULL /\ open[h].file = f})
       /\ size[f] = Len(content[f]) /\ FlattenSeq(blocks[f]) = content[f]
       /\ \A i \in 1 .. Len(blocks[f]) - 1 : Len(blocks[f][i]) = kBlockSize
=============================================================================
