------------------------------ MODULE ListContract ------------------------------
(***************************************************************************)
(* What a list of libdvbsubdec promises its users (lslist.h): a sequence   *)
(* of data pointers that grows at either end, gives up one element or all, *)
(* and can be destroyed only when it is empty.  A call may fail for lack   *)
(* of memory and then changes nothing.                                     *)
(***************************************************************************)
EXTENDS Integers, SequencesExt

VARIABLES exists, items

Init == exists = FALSE /\ items = << >>

Create == ~exists /\ exists' /\ UNCHANGED items

Destroy == exists /\ items = << >> /\ exists' = FALSE /\ UNCHANGED items

Grow == exists /\ UNCHANGED exists /\ Len(items') = Len(items) + 1

AddLast == Grow /\ Front(items') = items

AddFirst == Grow /\ Tail(items') = items

TakeOne == (\E i \in DOMAIN items : items' = RemoveAt(items, i)) /\ UNCHANGED exists

Clear == exists /\ items' = << >> /\ UNCHANGED exists

Next == Create \/ Destroy \/ AddLast \/ AddFirst \/ TakeOne \/ Clear

Spec == Init /\ [][Next]_<< exists, items >>

=============================================================================
