---------------------------- MODULE MCCheckpoint ----------------------------
(***************************************************************************)
(* Instances of Checkpoint for TLC.                                         *)
(***************************************************************************)
EXTENDS Checkpoint

Job(types, puts, inOrder) == [types |-> types, puts |-> puts, inOrder |-> inOrder]

M == "MASTER_CONTROLLED"
R == "ROLLING"

(* Two rolling checkpoints with a put in order: the second meets what the   *)
(* first left behind.  And a master-controlled checkpoint between rolling   *)
(* ones, with messages in any order.                                        *)
MCJobs == {Job(<<R, R>>, 1, TRUE), Job(<<R, M, R>>, 0, FALSE)}

MCEarly == {Job(<<M>>, 0, TRUE)}

MCReorder == {Job(<<R>>, 1, FALSE)}
=============================================================================
