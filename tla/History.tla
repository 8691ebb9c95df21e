------------------------------ MODULE History -------------------------------
(***************************************************************************)
(* How the web page reads the execution history (getExecutions in          *)
(* apps/web/src/lib/flare.ts): the RPC refuses to look at more than        *)
(* MAX_LOG_SPAN blocks at once, so the page asks for windows of that many  *)
(* blocks, from the head backwards.                                        *)
(*                                                                         *)
(* The loop is given by its iterations: the k-th, from 0, exists as long   *)
(* as its upper end is above the earliest block.                           *)
(***************************************************************************)
EXTENDS Integers

\* MAX_LOG_SPAN, the latest block, and how many windows are asked for.
Look == [span: Nat \ {0}, head: Nat, windows: Nat]

Span(l) == l.span * l.windows

Earliest(l) == IF l.head > Span(l) THEN l.head - Span(l) ELSE 0

To(l, k) == l.head - k * l.span

\* Bug: both ends of a request counted as one block.
FromBelow(l, k) ==
    IF To(l, k) - l.span > Earliest(l) THEN To(l, k) - l.span ELSE Earliest(l)

From(l, k) ==
    IF To(l, k) - l.span + 1 > Earliest(l) THEN To(l, k) - l.span + 1 ELSE Earliest(l)

Asked(l, k) == To(l, k) > Earliest(l)

\* Window k looks at block b.
Sees(l, k, b) == Asked(l, k) /\ From(l, k) <= b /\ b <= To(l, k)
=============================================================================
