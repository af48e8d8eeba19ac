---------------------------- MODULE Subsequences ----------------------------
(***************************************************************************)
(* The part of a sequence at some of its positions, in order.  The loops   *)
(* of the server that go through a list and take some of its elements use  *)
(* it where SelectSeq would do: its elements are found without recursion.  *)
(***************************************************************************)
EXTENDS Integers, FiniteSets, Sequences

\* The elements of a finite set of numbers from the smallest on.
Ascending(is) ==
    [k \in 1 .. Cardinality(is) |-> CHOOSE i \in is : Cardinality({j \in is : j <= i}) = k]

Pick(s, is) == [k \in DOMAIN Ascending(is) |-> s[Ascending(is)[k]]]

=============================================================================
