----------------------------- MODULE MintLimits -----------------------------
(***************************************************************************)
(* When a mint that is over the limit may be tried again: the arithmetic   *)
(* of apps/operator/src/spike/mintLimits.ts.  The asset manager writes the *)
(* state of its limiter when it mints; the script slides it forward to the *)
(* present, and says when a proposed amount will be allowed.               *)
(*                                                                         *)
(* A window is [start |-> .., used |-> ..]; size and limit belong to it.   *)
(***************************************************************************)
EXTENDS Integers

Positive == Nat \ {0}

Window == [start: Positive, used: Nat]

\* Whole windows between the start of w and a later time.
Elapsed(w, t, size) == (t - w.start) \div size

Left(used, drained) == IF drained >= used THEN 0 ELSE used - drained

\* windowState: a whole window takes a whole limit off what was used.
WindowState(w, t, limit, size) ==
    IF t >= w.start + size
    THEN [start |-> w.start + Elapsed(w, t, size) * size,
          used  |-> Left(w.used, Elapsed(w, t, size) * limit)]
    ELSE w

Remaining(w, limit) == IF limit > w.used THEN limit - w.used ELSE 0

\* Bug: what the window has already used is forgotten.
WindowAllowedAtAlone(w, t, proposed, limit, size) ==
    IF w.used + proposed <= limit THEN t ELSE w.start + (size * proposed) \div limit

\* windowAllowedAt, for a limit that is set and not lifted.
WindowAllowedAt(w, t, proposed, limit, size) ==
    IF proposed = 0 \/ w.used + proposed <= limit
    THEN t
    ELSE w.start + (size * (w.used + proposed)) \div limit

(* The pre-flight, from what the script reads: two limiters, hourly and      *)
(* daily, the amount from which a mint is large, its delay, and whether the  *)
(* limiters are lifted for the time being.                                   *)

Limiter == [window: Window, limit: Positive, size: Positive]

Greater(a, b) == IF a > b THEN a ELSE b
Lesser(a, b)  == IF a < b THEN a ELSE b

Slid(l, t) == WindowState(l.window, t, l.limit, l.size)

AllowedBy(l, t, proposed, lifted) ==
    IF lifted THEN t ELSE WindowAllowedAt(Slid(l, t), t, proposed, l.limit, l.size)

AllowedAt(hourly, daily, threshold, delay, t, proposed, lifted) ==
    Greater(AllowedBy(hourly, t, proposed, lifted),
            Greater(AllowedBy(daily, t, proposed, lifted),
                    IF proposed > threshold THEN t + delay ELSE t))

Free(l, t, lifted) == IF lifted THEN l.limit ELSE Remaining(Slid(l, t), l.limit)

\* The largest mint with no delay.
Headroom(hourly, daily, threshold, t, lifted) ==
    Lesser(Lesser(Free(hourly, t, lifted), Free(daily, t, lifted)), threshold)
=============================================================================
