----------------------------- MODULE MCExecution -----------------------------
(***************************************************************************)
(* Execution for TLC.  v1 is a vault that has orders of its own, so that   *)
(* while it is called it can do all that an account can.                   *)
(***************************************************************************)
EXTENDS Execution

CONSTANTS a1, v1, v2

Params(v, amount, cap) ==
    [vault |-> v, amountPerRun |-> amount, totalSpendCap |-> cap, intervalSecs |-> 1,
     maxRuns |-> 0, trigger |-> "TIME", startAt |-> 0]

MCParams == {Params(v1, 1, 2), Params(v2, 2, 2)}

MCFunds == [h \in Holders |-> IF h = a1 THEN 3 ELSE IF h = v1 THEN 1 ELSE 0]

\* The vault has one order, which pays the other vault; at most one token is
\* sent to the executor by mistake.
InInstance ==
    /\ chain.nonces[v1] <= 1
    /\ \A id \in Ids : id[1] = v1 => chain.rules[id].vault = v2
    /\ ~Running => chain.balance[Self] <= 1

MCNext == Next /\ InInstance'

MCSpec == Init /\ [][MCNext]_vars
=============================================================================
