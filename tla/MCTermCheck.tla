---------------------------- MODULE MCTermCheck -----------------------------
(* Instances of TermCheck for TLC.                                          *)
EXTENDS TermCheck

(* All workers report, or worker 1 never does.                              *)
MCReporters == {Worker, {0}}

(* Worker 0 converges after one pass and can have several reports under     *)
(* way, which may overtake each other.  The numbers of two reports, the one *)
(* that is remembered and the one before it, may not be used meanwhile.     *)
MCMaxProgress == [w \in Worker |-> IF w = 0 THEN 1 ELSE 0]
MCMaxIndex == [w \in Worker |-> IF w = 0 THEN 4 ELSE 2]
=============================================================================
