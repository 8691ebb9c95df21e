--------------------------- MODULE MCInstructions ---------------------------
(***************************************************************************)
(* Instructions for TLC: one account, orders of one or two runs of one     *)
(* unit, an interval of one tick.                                          *)
(***************************************************************************)
EXTENDS Figures

Params(cap) ==
    {[vault |-> v, amountPerRun |-> 1, totalSpendCap |-> cap, intervalSecs |-> 1,
      maxRuns |-> 0, trigger |-> "TIME", startAt |-> 0] : v \in Vaults}

MCOne     == Params(2)
MCOneTwo  == Params(1) \cup Params(2)

MCPayments == [c \in Clients |-> IF c = "cli" THEN 3 ELSE 2]
MCThree    == [c \in Clients |-> 3]
=============================================================================
