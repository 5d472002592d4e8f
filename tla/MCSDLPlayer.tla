------------------------------ MODULE MCSDLPlayer ------------------------------
(***************************************************************************)
(* An instance of SDLPlayer for TLC.                                       *)
(***************************************************************************)
EXTENDS SDLPlayer

Threads == {"feed", "reader"}

=============================================================================
