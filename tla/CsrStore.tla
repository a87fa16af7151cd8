------------------------------ MODULE CsrStore ------------------------------
(***************************************************************************)
(* The adjacency store on disk: Writer (store/writer.cpp) turns a text file *)
(* with one adjacency list per line into two files of longs (FlatFile), vec *)
(* with the lists one after the other and hdr with the places where they    *)
(* begin; Reader (store/reader.cpp) maps both files and finds list i        *)
(* between hdr[i] and hdr[i + 1].  Nothing ties the two files together: the *)
(* writer may stop between any two of its writes.                           *)
(***************************************************************************)
EXTENDS Naturals, Sequences, SequencesExt

CONSTANTS
  Vertex,       \* what the lists hold
  MaxLines,     \* bound: lines of the input
  MaxDegree     \* bound: length of a line

VARIABLES
  in,           \* the lines still to be read
  adjvec,       \* the line between its two writes, or <<>>
  hdr, vec,     \* the contents of the two files
  writer,       \* "created", "running", "done", or "stopped" before its end
  lines         \* history: the lines of which both writes are done

vars == <<in, adjvec, hdr, vec, writer, lines>>

Line == BoundedSeq(Vertex, MaxDegree)

Init ==
  /\ in \in BoundedSeq(Line, MaxLines)
  /\ adjvec = <<>> /\ hdr = <<>> /\ vec = <<>> /\ lines = <<>>
  /\ writer = "created"

(* write: the header begins with a 0.                                       *)
writeStart ==
  /\ writer = "created"
  /\ hdr' = Append(hdr, 0)
  /\ writer' = "running"
  /\ UNCHANGED <<in, adjvec, vec, lines>>

(* Mutant of writeTotal: the header gets the length of the list.            *)
writeTotalLength ==
  /\ writer = "running" /\ adjvec = <<>> /\ in # <<>> /\ Head(in) # <<>>
  /\ adjvec' = Head(in)
  /\ hdr' = Append(hdr, Len(Head(in)))
  /\ in' = Tail(in)
  /\ UNCHANGED <<vec, writer, lines>>

(* The loop of write, to the first flatwrite: total, the sum of the lengths *)
(* so far, goes to the header.                                              *)
writeTotal ==
  /\ writer = "running" /\ adjvec = <<>> /\ in # <<>> /\ Head(in) # <<>>
  /\ adjvec' = Head(in)
  /\ hdr' = Append(hdr, Last(hdr) + Len(Head(in)))
  /\ in' = Tail(in)
  /\ UNCHANGED <<vec, writer, lines>>

(* handleLine of an empty line: lexical_cast throws, and nobody catches.    *)
handleLineThrows ==
  /\ writer = "running" /\ adjvec = <<>> /\ in # <<>> /\ Head(in) = <<>>
  /\ writer' = "stopped"
  /\ UNCHANGED <<in, adjvec, hdr, vec, lines>>

(* The second flatwrite of the loop.                                        *)
writeAdjacency ==
  /\ writer = "running" /\ adjvec # <<>>
  /\ vec' = vec \o adjvec
  /\ lines' = Append(lines, adjvec)
  /\ adjvec' = <<>>
  /\ UNCHANGED <<in, hdr, writer>>

(* The loop of write ends with the input.                                   *)
writeEnd ==
  /\ writer = "running" /\ adjvec = <<>> /\ in = <<>>
  /\ writer' = "done"
  /\ UNCHANGED <<in, adjvec, hdr, vec, lines>>

(* The writer is killed.                                                    *)
stop ==
  /\ writer = "running"
  /\ writer' = "stopped"
  /\ UNCHANGED <<in, adjvec, hdr, vec, lines>>

Next ==
  \/ writeStart \/ writeTotal \/ handleLineThrows \/ writeAdjacency
  \/ writeEnd \/ stop

Spec == Init /\ [][Next]_vars

-----------------------------------------------------------------------------
(* Reader::read on the files as they are; index counts from 0.  What lies   *)
(* beyond the end of vec is not there to be read.                           *)
read(index) ==
  LET pos == hdr[index + 1]
      dist == hdr[index + 2] - hdr[index + 1]
  IN SubSeq(vec, pos + 1, pos + dist)

(* However far the writer came, every line it finished reads back as it     *)
(* was, and the header never describes more than one line that vec does not *)
(* hold; when the writer is done it describes no such line, and all of vec. *)
ReadsLines ==
  /\ \A i \in 1 .. Len(lines) : read(i - 1) = lines[i]
  /\ hdr # <<>> => Len(hdr) - 1 - Len(lines) \in {0, 1}
  /\ writer = "done" => Len(hdr) = Len(lines) + 1 /\ Last(hdr) = Len(vec)
=============================================================================
