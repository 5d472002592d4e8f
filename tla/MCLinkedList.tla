------------------------------ MODULE MCLinkedList ------------------------------
(***************************************************************************)
(* An instance of LinkedList for TLC.                                      *)
(***************************************************************************)
EXTENDS LinkedList

\* One and two units, so that blocks of different sizes leave holes.
BlockBytes == {1, 3}

=============================================================================
