------------------------------- MODULE MCPage -------------------------------
(***************************************************************************)
(* Page for TLC: two orders may be typed and one may be stopped.           *)
(***************************************************************************)
EXTENDS Page
=============================================================================
