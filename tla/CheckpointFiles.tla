---------------------------- MODULE CheckpointFiles ----------------------------
(***************************************************************************)
(* How a shard's checkpoint gets into files and back: LocalTable            *)
(* (kernel/local-table.cc) writes the table to a file and the updates that  *)
(* arrive later to a .delta file, as chunks of a RecordFile, which may be   *)
(* compressed by an LZOFile, over a buffered LocalFile (util/file.cc).      *)
(*                                                                         *)
(* A file is the sequence of its cells <<e, c, i>>: the i-th cell of chunk  *)
(* c of entry e, where cell 0 is the length word of the chunk; <<0, n, 0>>  *)
(* is the length word of a compressed block of n cells.  Between the        *)
(* program and the disk there are four places: block (LZOFile), stdio (the  *)
(* FILE's buffer), os (what the kernel has) and disk (what is known to be   *)
(* on the disk).                                                            *)
(***************************************************************************)
EXTENDS Naturals, Sequences, SequencesExt, FiniteSetsExt

CONSTANTS
  ChunkSize,    \* the lengths of the chunks of an entry: key, v1, v2, v3
  kBlockSize,   \* LZOFile::kBlockSize
  StdioSize,    \* kFileBufferSize
  TableSize,    \* the number of entries of the table
  MaxDeltas     \* bound: entries written to the delta file

VARIABLES
  lzo,          \* are the files compressed?  A LocalTableCoder's are; the
                \* RecordFile of checkpoint.finished is not
  base, delta,  \* the two files
  entries,      \* the number of entries written so far, to either file
  process,      \* "running", "finished", "crashed" or "power" (failure)
  restored      \* what restore did: the status, and the entries it applied

vars == <<lzo, base, delta, entries, process, restored>>

(* A file that has not been opened.                                         *)
NoFile == [state |-> "none", block |-> <<>>, stdio |-> <<>>, os |-> <<>>,
           disk |-> <<>>]

(* A LocalFile that has been opened for writing.                            *)
NewFile == [NoFile EXCEPT !.state = "open"]

(* restore has not been called.                                             *)
NotYet == [status |-> "none", entries |-> <<>>]

Init ==
  /\ lzo \in BOOLEAN
  /\ base = NoFile /\ delta = NoFile
  /\ entries = 0
  /\ process = "running"
  /\ restored = NotYet

-----------------------------------------------------------------------------
(* Writing                                                                  *)

(* fwrite to a fully buffered FILE: full buffers go to the kernel.          *)
fwrite(f, cells) ==
  LET all == f.stdio \o cells
      full == (Len(all) \div StdioSize) * StdioSize
  IN [f EXCEPT !.os = @ \o SubSeq(all, 1, full),
               !.stdio = SubSeq(all, full + 1, Len(all))]

(* LZOFile::write_block.                                                    *)
write_block(f) ==
  IF f.block = <<>> THEN f
  ELSE [fwrite(f, <<<<0, Len(f.block), 0>>>> \o f.block) EXCEPT !.block = <<>>]

RECURSIVE LZOwrite(_, _)

(* LZOFile::write: a piece that does not fit begins a block.                *)
LZOwrite(f, cells) ==
  LET g == IF Len(f.block) + Len(cells) > kBlockSize THEN write_block(f) ELSE f
      n == Min({kBlockSize - Len(g.block), Len(cells)})
      filled == [g EXCEPT !.block = @ \o SubSeq(cells, 1, n)]
  IN IF n = Len(cells) THEN filled
     ELSE LZOwrite(filled, SubSeq(cells, n + 1, Len(cells)))

fpwrite(f, cells) == IF lzo THEN LZOwrite(f, cells) ELSE fwrite(f, cells)

(* RecordFile::writeChunk: the length, then the data.                       *)
writeChunk(f, e, c) ==
  fpwrite(fpwrite(f, <<<<e, c, 0>>>>), [i \in 1 .. ChunkSize[c] |-> <<e, c, i>>])

(* LocalTableCoder::WriteEntryToFile.                                       *)
WriteEntryToFile(f, e) ==
  FoldLeft(LAMBDA g, c : writeChunk(g, e, c), f, [c \in DOMAIN ChunkSize |-> c])

-----------------------------------------------------------------------------
(* Closing: ~RecordFile, a step at a time                                   *)

(* fp->sync: fsync of what the kernel has.                                  *)
Synced(f) == [f EXCEPT !.disk = f.os, !.state = "synced"]

(* File::Move from the .tmp name to the final one.                          *)
Renamed(f) == [f EXCEPT !.state = "renamed"]

(* ~LocalFile: fflush and fclose.                                           *)
Flushed(f) == [f EXCEPT !.os = @ \o f.stdio, !.stdio = <<>>, !.state = "closed"]

(* Mutant of Deleted: the last block is forgotten.                          *)
DeletedWithoutBlock(f) == Flushed(f)

(* delete fp: ~LZOFile writes the last block before the file is closed.     *)
Deleted(f) == Flushed(write_block(f))

(* LocalTable::start_checkpoint opens the file, serializeToFile writes the  *)
(* table to it.                                                             *)
start_checkpoint ==
  /\ process = "running" /\ base.state = "none"
  /\ base' = NewFile
  /\ UNCHANGED <<lzo, delta, entries, process, restored>>

serializeToFile ==
  /\ process = "running" /\ base.state = "open" /\ entries < TableSize
  /\ base' = WriteEntryToFile(base, entries + 1)
  /\ entries' = entries + 1
  /\ UNCHANGED <<lzo, delta, process, restored>>

(* The delta file is opened before the end of start_checkpoint, where the   *)
(* destructor of the base file runs.                                        *)
openDelta ==
  /\ process = "running" /\ base.state = "open" /\ entries = TableSize
  /\ delta.state = "none"
  /\ delta' = NewFile
  /\ UNCHANGED <<lzo, base, entries, process, restored>>

closeBase ==
  /\ process = "running" /\ delta.state = "open"
  /\ \/ base.state = "open" /\ base' = Synced(base)
     \/ base.state = "synced" /\ base' = Renamed(base)
     \/ base.state = "renamed" /\ base' = Deleted(base)
  /\ UNCHANGED <<lzo, delta, entries, process, restored>>

(* LocalTable::write_delta of an update that arrives.                       *)
write_delta ==
  /\ process = "running" /\ base.state = "closed" /\ delta.state = "open"
  /\ entries < TableSize + MaxDeltas
  /\ delta' = WriteEntryToFile(delta, entries + 1)
  /\ entries' = entries + 1
  /\ UNCHANGED <<lzo, base, process, restored>>

(* LocalTable::finish_checkpoint: the destructor of the delta file.         *)
finish_checkpoint ==
  /\ process = "running" /\ base.state = "closed"
  /\ \/ delta.state = "open" /\ delta' = Synced(delta) /\ UNCHANGED process
     \/ delta.state = "synced" /\ delta' = Renamed(delta) /\ UNCHANGED process
     \/ delta.state = "renamed" /\ delta' = Deleted(delta) /\ process' = "finished"
  /\ UNCHANGED <<lzo, base, entries, restored>>

-----------------------------------------------------------------------------
(* Failures.  A process that dies loses block and stdio; with the power,    *)
(* what the kernel has and was not synced is lost from some cell on.        *)

crash ==
  /\ process \in {"running", "finished"}
  /\ process' = "crashed"
  /\ UNCHANGED <<lzo, base, delta, entries, restored>>

Survives(f, n) == [f EXCEPT !.os = SubSeq(@, 1, n)]

powerFailure ==
  /\ process \in {"running", "finished"}
  /\ process' = "power"
  /\ \E n \in Len(base.disk) .. Len(base.os) : base' = Survives(base, n)
  /\ \E n \in Len(delta.disk) .. Len(delta.os) : delta' = Survives(delta, n)
  /\ UNCHANGED <<lzo, entries, restored>>

-----------------------------------------------------------------------------
(* Reading                                                                  *)

(* LZOFile::read_block: a block must be there to its last cell, or a CHECK  *)
(* ends the process.                                                        *)
read_block(cells) ==
  LET n == cells[1][2]
      end == Min({n + 1, Len(cells)})
  IN [ok |-> end = n + 1, raw |-> SubSeq(cells, 2, end),
      rest |-> SubSeq(cells, end + 1, Len(cells))]

RECURSIVE LZOread(_)

(* LZOFile::read, to the end of the file.                                   *)
LZOread(cells) ==
  IF cells = <<>> THEN [ok |-> TRUE, cells |-> <<>>]
  ELSE LET block == read_block(cells)
       IN IF ~block.ok THEN [ok |-> FALSE, cells |-> <<>>]
          ELSE LET later == LZOread(block.rest)
               IN [later EXCEPT !.cells = block.raw \o @]

(* RecordFile::readChunk at the beginning of cells: what it read and what   *)
(* is left.  Only the length word is required; the data may be short.       *)
readChunk(cells) ==
  IF cells = <<>> THEN [data |-> <<>>, rest |-> <<>>]
  ELSE LET n == Min({1 + ChunkSize[cells[1][2]], Len(cells)})
       IN [data |-> SubSeq(cells, 1, n), rest |-> SubSeq(cells, n + 1, Len(cells))]

(* LocalTableCoder::ReadEntryFromFile: only the first chunk is required.    *)
ReadEntryFromFile(cells) ==
  FoldLeft(LAMBDA r, c : LET chunk == readChunk(r.rest)
                         IN [data |-> r.data \o chunk.data, rest |-> chunk.rest],
           [data |-> <<>>, rest |-> cells], ChunkSize)

(* The cells of entry e as they should be.                                  *)
Whole(e) ==
  FlattenSeq([c \in DOMAIN ChunkSize |->
                [i \in 1 .. ChunkSize[c] + 1 |-> <<e, c, i - 1>>]])

RECURSIVE ReadEntries(_)

(* The loops of restore: the entries read, and whether each is whole.       *)
ReadEntries(cells) ==
  IF cells = <<>> THEN <<>>
  ELSE LET r == ReadEntryFromFile(cells)
           e == cells[1][1]
       IN <<[entry |-> e, whole |-> r.data = Whole(e)]>> \o ReadEntries(r.rest)

Exists(f) == f.state \in {"renamed", "closed"}

(* What the files hold for a reader: [ok, cells].                           *)
Content(f) == IF lzo THEN LZOread(f.os) ELSE [ok |-> TRUE, cells |-> f.os]

(* LocalTable::restore, in a new process.  Without the file it does nothing *)
(* and without the delta file it dies.                                      *)
restore ==
  /\ process # "running" /\ restored = NotYet
  /\ restored' =
       IF ~Exists(base) THEN [status |-> "done", entries |-> <<>>]
       ELSE IF ~Exists(delta) \/ ~Content(base).ok \/ ~Content(delta).ok
       THEN [status |-> "died", entries |-> <<>>]
       ELSE [status |-> "done",
             entries |-> ReadEntries(Content(base).cells)
                         \o ReadEntries(Content(delta).cells)]
  /\ UNCHANGED <<lzo, base, delta, entries, process>>

Next ==
  \/ start_checkpoint \/ serializeToFile \/ openDelta \/ closeBase \/ write_delta
  \/ finish_checkpoint \/ crash \/ powerFailure \/ restore

Spec == Init /\ [][Next]_vars

-----------------------------------------------------------------------------
(* The entries 1 .. n, whole and in order.                                  *)
AllWhole(n) == [e \in 1 .. n |-> [entry |-> e, whole |-> TRUE]]

(* Both files are closed and the machine stayed up: restore applies every   *)
(* entry of the table and then every update, whole and in order, however    *)
(* they fall on blocks and buffers.  And whatever is lost, and when,        *)
(* restore never takes an entry from behind the gap: of each file it        *)
(* applies the first entries, and at most the last of them may be cut       *)
(* short.                                                                   *)
Restores ==
  /\ process # "power" /\ delta.state = "closed" /\ restored # NotYet =>
       restored = [status |-> "done", entries |-> AllWhole(entries)]
  /\ restored.status = "done" =>
       \E n \in 0 .. TableSize, m \in 0 .. MaxDeltas, torn1, torn2 \in BOOLEAN :
         restored.entries =
           [i \in 1 .. n + m |->
              [entry |-> IF i <= n THEN i ELSE TableSize + i - n,
               whole |-> IF i = n THEN ~torn1 ELSE IF i = n + m THEN ~torn2 ELSE TRUE]]

(* master.h: "When this call returns, all requested tables in the system    *)
(* will have been committed to disk."  ~RecordFile syncs before the last    *)
(* block and the buffer are written, and never again.                       *)
CommittedToDisk ==
  process = "finished" => base.disk = base.os /\ delta.disk = delta.os
=============================================================================
