----------------------------- MODULE MCLogFile -----------------------------
(* Items of LogFile for TLC: a text and numbers of 8 bits. *)
EXTENDS LogFile

Symmetry == Permutations(Thread)

TheItems == {[kind |-> "text", text |-> <<"t", "t", "t">>],
             [kind |-> "integer", value |-> -12],
             [kind |-> "integer", value |-> 105],
             [kind |-> "pointer", value |-> 15]}
=============================================================================
