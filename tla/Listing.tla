-------------------------------- MODULE Listing --------------------------------
(***************************************************************************)
(* Sequences as the tools make them: filtered, mapped and sorted.  They    *)
(* are what SelectSeq and SortSeq give, told in a way that a proof can     *)
(* unfold: a filter is a recursive function, and an element of a sorted    *)
(* sequence is at the place that its predecessors leave to it.             *)
(***************************************************************************)
EXTENDS Integers, FiniteSets, Sequences

Mapped(seq, Op(_)) == [i \in DOMAIN seq |-> Op(seq[i])]

\* The elements of a sequence at these places, up to each place of the sequence.
At(seq, places) ==
    LET Kept[n \in 0 .. Len(seq)] ==
            IF n = 0 THEN <<>> ELSE IF n \in places THEN Append(Kept[n - 1], seq[n]) ELSE Kept[n - 1]
    IN Kept

\* The elements of a sequence that pass a test.
Where(seq, Test(_)) == At(seq, {i \in DOMAIN seq : Test(seq[i])})[Len(seq)]

\* The elements of a sequence by a total order of its places.
Sorted(seq, Before(_, _)) ==
    [n \in DOMAIN seq |->
        seq[CHOOSE i \in DOMAIN seq : Cardinality({j \in DOMAIN seq : Before(j, i)}) = n - 1]]
================================================================================
