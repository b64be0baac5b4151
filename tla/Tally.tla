------------------------------- MODULE Tally -------------------------------
(***************************************************************************)
(* Two recursions along a sequence, from its first element to its last, as *)
(* recursive functions a proof can unfold: the total of a sequence of      *)
(* numbers (what a queue of chunks holds in bytes, what a channel of ticks *)
(* holds in time), and the elements of a sequence that are in a set, in    *)
(* their order (retain, filter).                                           *)
(***************************************************************************)
EXTENDS Integers, Sequences

Total(q) ==
    LET upto[i \in 0 .. Len(q)] == IF i = 0 THEN 0 ELSE upto[i - 1] + q[i]
    IN  upto[Len(q)]

Sifted(q, S) ==
    LET upto[i \in 0 .. Len(q)] ==
          IF i = 0 THEN <<>> ELSE IF q[i] \in S THEN Append(upto[i - 1], q[i]) ELSE upto[i - 1]
    IN  upto[Len(q)]
=============================================================================
