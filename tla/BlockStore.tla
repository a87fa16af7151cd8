------------------------------ MODULE BlockStore ------------------------------
(***************************************************************************)
(* The block store: BlockWriter (store/blockwriter.h) packs the lines of a  *)
(* file of key-value pairs into blocks of a fixed size and notes the first  *)
(* key of every block (its master); Index (store/index.h) finds the block   *)
(* of a key among the masters; BlockReader (store/blockreader.h) and        *)
(* KVReader (store/kvreader.h) turn a block back into pairs.  A line is a   *)
(* key and the number of its characters.  What getBlockText reads behind a  *)
(* full block, up to a zero byte, is taken to hold no separators.           *)
(***************************************************************************)
EXTENDS Naturals, Sequences, SequencesExt, FiniteSets

CONSTANTS
  BlockSize,    \* BLOCK_SIZE
  LineSize,     \* the sizes of lines, at most BlockSize
  MaxLines      \* bound: lines of the input

VARIABLES
  in,           \* the lines still to be read
  buffer,       \* buffer, as the lines it holds
  blocks,       \* the file: the sequence of the blocks written
  masters,      \* masters
  writer,       \* "running", or "done" when the masters are saved
  all           \* history: the input

vars == <<in, buffer, blocks, masters, writer, all>>

(* The lines come in the order of their keys, which Index relies on.        *)
Init ==
  /\ \E sizes \in BoundedSeq(LineSize, MaxLines) :
       all = [i \in DOMAIN sizes |-> [key |-> i, size |-> sizes[i]]]
  /\ in = all /\ buffer = <<>> /\ blocks = <<>> /\ masters = <<>>
  /\ writer = "running"

(* The characters of records: handleLine adds a separator to each.          *)
Chars(records) == FoldLeft(LAMBDA n, r : n + r.size + 1, 0, records)

(* setMasters: the master of a block.                                       *)
FirstKey(records) == records[1].key

(* setMasters and write of the block in the buffer.  What does not fit in   *)
(* BlockSize is overwritten by the next block, or is past the last one.     *)
Written(pad) ==
  /\ masters' = Append(masters, FirstKey(buffer))
  /\ blocks' = Append(blocks, [records |-> buffer, chars |-> Chars(buffer) + pad])

(* fillBuffer: the characters it appends.                                   *)
fillBuffer == IF Chars(buffer) < BlockSize THEN BlockSize - Chars(buffer) ELSE 0

(* Mutant of NoRoom: the separator is counted.                              *)
NoRoomLate(line) == Chars(buffer) + line.size > BlockSize + 1

(* The test of batchedWrite, which does not count the separator.            *)
NoRoom(line) == Chars(buffer) + line.size > BlockSize

(* The loop of batchedWrite, for one line.                                  *)
batchedWrite ==
  /\ writer = "running" /\ in # <<>>
  /\ in' = Tail(in)
  /\ IF NoRoom(Head(in))
     THEN Written(fillBuffer) /\ buffer' = <<Head(in)>>
     ELSE buffer' = Append(buffer, Head(in)) /\ UNCHANGED <<masters, blocks>>
  /\ UNCHANGED <<writer, all>>

(* The last block of batchedWrite, which is padded after it is written, and *)
(* saveMasters.                                                             *)
lastBlock ==
  /\ writer = "running" /\ in = <<>>
  /\ IF buffer # <<>> THEN Written(0) ELSE UNCHANGED <<masters, blocks>>
  /\ writer' = "done"
  /\ UNCHANGED <<in, buffer, all>>

Next == batchedWrite \/ lastBlock

Spec == Init /\ [][Next]_vars

-----------------------------------------------------------------------------
(* Index::getBlockAddr: the last block whose master is not above the key,   *)
(* counted from 1 here.                                                     *)
getBlockAddr(key) ==
  Cardinality({i \in DOMAIN masters : masters[i] <= key})

(* The separators at the end of a block as it is read: its last record's    *)
(* (unless it was cut off) and the padding.                                 *)
Separators(b) ==
  IF b.chars > BlockSize THEN 0 ELSE 1 + b.chars - Chars(b.records)

(* KVReader::splitString cuts the text off until it ends with four          *)
(* separators, and never returns when it holds no four of them.             *)
Returns(b) == Separators(b) >= 4

(* getRecordList, where it returns.                                         *)
getRecordList(b) == b.records

(* No record is lost, torn over two blocks or out of the reach of the       *)
(* index: the block that the index gives for a key holds the key, and at    *)
(* most the separator behind the last record of a block falls off its end.  *)
(* Of the blocks, splitString returns from those with three characters to   *)
(* spare, but never from the last one, which is not padded.                 *)
BlockLookup ==
  writer = "done" =>
    /\ \A i \in DOMAIN all :
         LET b == blocks[getBlockAddr(all[i].key)]
         IN /\ all[i] \in ToSet(getRecordList(b))
            /\ Chars(b.records) <= BlockSize + 1
    /\ \A i \in DOMAIN blocks :
         Returns(blocks[i]) <=> /\ i < Len(blocks)
                                /\ Chars(blocks[i].records) + 3 <= BlockSize
=============================================================================
