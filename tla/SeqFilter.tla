----------------------------- MODULE SeqFilter ------------------------------
(***************************************************************************)
(* The elements of a sequence that lie in a set, in their order: what      *)
(* remains of a linked list when nodes are unlinked from it.  SelectSeq    *)
(* with a set for its test, as a recursive function, so that the proofs    *)
(* can say what it computes.                                               *)
(***************************************************************************)
EXTENDS Integers, Sequences

Filter(s, S) ==
    LET F[n \in 0 .. Len(s)] ==
            IF n = 0 THEN <<>>
            ELSE IF s[n] \in S THEN Append(F[n - 1], s[n]) ELSE F[n - 1]
    IN  F[Len(s)]
=============================================================================
