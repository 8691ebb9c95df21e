----------------------------- MODULE MCOperator -----------------------------
(***************************************************************************)
(* Operator for TLC: a single payment.                                     *)
(***************************************************************************)
EXTENDS Operator, TLC

CONSTANTS p1, h1

MCCommits == p1 :> {h1}
MCNonce   == h1 :> 0
=============================================================================
