--------------------------- MODULE CheckpointVars ---------------------------
(***************************************************************************)
(* The variables that a program keeps in the master across restarts         *)
(* (Master::get_cp_var), in a MarshalledMap (kernel/kernel.h): p_ holds the *)
(* values that were put or read, serialized_ those that came in a message   *)
(* and were not read yet.  A checkpoint writes the map to a file, from      *)
(* which the next master's restore takes it.                                *)
(***************************************************************************)
EXTENDS Naturals, TLC

CONSTANTS
  Name,         \* the names of the variables
  Value,        \* their values
  Default       \* defval, a value

VARIABLES
  p,            \* p_, a function of the names it has
  serialized,   \* serialized_, as well
  file,         \* the Args in the last checkpoint.finished
  known,        \* history: the value the program must see of each variable;
                \* a variable that is not there is new to it
  used,         \* history: the variables it has used since the last restart
  saved,        \* history: the values known at the last checkpoint, of the
                \* variables used by then
  got           \* the value returned last, and its name

vars == <<p, serialized, file, known, used, saved, got>>

Nothing == <<>>

Init ==
  /\ p = Nothing /\ serialized = Nothing
  /\ file = Nothing /\ known = Nothing /\ used = {} /\ saved = Nothing
  /\ got = Nothing

Without(f, k) == [x \in DOMAIN f \ {k} |-> f[x]]

contains(k) == k \in DOMAIN p \/ k \in DOMAIN serialized

(* put: an older value, read or not, is gone.                               *)
put(k, v) ==
  /\ p' = (k :> v) @@ p
  /\ serialized' = Without(serialized, k)

(* Mutant of get: the message's value stays and is read again.              *)
getAgain(k) ==
  /\ p' = IF k \in DOMAIN serialized THEN (k :> serialized[k]) @@ p ELSE p
  /\ UNCHANGED serialized

(* get: what has come in a message is unmarshalled when it is first read.   *)
get(k) ==
  /\ p' = IF k \in DOMAIN serialized THEN (k :> serialized[k]) @@ p ELSE p
  /\ serialized' = Without(serialized, k)

(* Master::get_cp_var, the program reads a variable: put if it is new, then *)
(* get.                                                                     *)
get_cp_var(k) ==
  /\ IF contains(k) THEN get(k) ELSE put(k, Default)
  /\ known' = known @@ (k :> Default)
  /\ used' = used \cup {k}
  /\ got' = <<k, p'[k]>>
  /\ UNCHANGED <<file, saved>>

(* The program assigns to the reference that it got from get_cp_var.        *)
assign(k, v) ==
  /\ got # Nothing /\ got[1] = k
  /\ p' = (k :> v) @@ p
  /\ known' = (k :> v) @@ known
  /\ got' = Nothing
  /\ UNCHANGED <<serialized, file, used, saved>>

(* ToMessage: only what is in p_.                                           *)
ToMessage == p

(* finish_checkpoint writes checkpoint.finished.                            *)
finish_checkpoint ==
  /\ file' = ToMessage
  /\ saved' = [k \in used |-> known[k]]
  /\ got' = Nothing
  /\ UNCHANGED <<p, serialized, known, used>>

(* The master is started again and restores: FromMessage of the file.       *)
restore ==
  /\ file # Nothing
  /\ p' = Nothing
  /\ serialized' = file
  /\ known' = saved /\ used' = {}
  /\ got' = Nothing
  /\ UNCHANGED <<file, saved>>

Next ==
  \/ \E k \in Name : get_cp_var(k) \/ \E v \in Value : assign(k, v)
  \/ finish_checkpoint \/ restore

Spec == Init /\ [][Next]_vars

-----------------------------------------------------------------------------
(* A variable has the value that was given to it last; after a restart, the *)
(* one it had at the last checkpoint if the program had used it between the *)
(* restart before and this checkpoint, and otherwise the default: its value *)
(* was still in serialized_ then, ToMessage has left it out, and it is lost.*)
ReadsLatest == got # Nothing => got[2] = known[got[1]]
=============================================================================
