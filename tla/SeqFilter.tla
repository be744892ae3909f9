------------------------------ MODULE SeqFilter ------------------------------
(***************************************************************************)
(* Filtering a sequence, as retain and the loops that skip elements do.    *)
(***************************************************************************)
EXTENDS Naturals, Sequences, FiniteSets, Functions

(* The members of seq that are in S, in their order: the j-th of them is at *)
(* the position with j such positions up to it.                            *)
Keep(seq, S) ==
    LET positions == {i \in DOMAIN seq : seq[i] \in S}
    IN  [j \in 1 .. Cardinality(positions) |->
            seq[CHOOSE i \in positions : Cardinality(positions \cap 1..i) = j]]

=============================================================================
