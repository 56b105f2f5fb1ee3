----------------------------- MODULE Selection -----------------------------
(***************************************************************************)
(* What is left of a sequence when only some of its places are kept: the   *)
(* operations of the journal that are not deleted (idempotency.js), and    *)
(* the logs of a range of blocks that match a filter (events.js).          *)
(***************************************************************************)
EXTENDS Naturals, FiniteSets

\* The elements at these places, in their order.
Selected(elements, places) ==
    LET rank(i) == Cardinality({j \in places : j <= i})
    IN [n \in 1 .. Cardinality(places) |-> elements[CHOOSE i \in places : rank(i) = n]]
=============================================================================
