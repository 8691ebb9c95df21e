---------------------------- MODULE MCRuleEngine ----------------------------
(***************************************************************************)
(* RuleEngine for TLC.  An interval is one tick, a run moves one or two    *)
(* units, runsDone counts to two so that it wraps within a behaviour.      *)
(*                                                                         *)
(* A behaviour is of one of two instances: "orders", where two orders of   *)
(* one account meet in batches of one executor, or "rotation", where two   *)
(* accounts have one order each and the registry moves between two         *)
(* executors.  InInstance keeps it there.                                  *)
(***************************************************************************)
EXTENDS RuleEngine

CONSTANTS a1, a2, e1, e2

VARIABLE instance

Params(amount, cap, interval, runs, trigger, start) ==
    {[vault |-> v, amountPerRun |-> amount, totalSpendCap |-> cap,
      intervalSecs |-> interval, maxRuns |-> runs, trigger |-> trigger,
      startAt |-> start] : v \in Vaults}

\* Arguments createRule rejects, one per guard.
MCRejected ==
    UNION {Params(0, 1, 1, 0, "TIME", 0), Params(2, 1, 1, 0, "TIME", 0),
           Params(1, 2, 0, 0, "TIME", 0), Params(1, 2, 3, 0, "TIME", 0),
           Params(1, 2, 1, 0, "PRICE_BELOW", 0)}

\* A limited order, one whose cap is no multiple of its amount and that
\* starts late, and one that runs until its cap, past what runsDone counts.
MCTwoRules ==
    UNION {Params(1, 3, 1, 2, "TIME", 0), Params(2, 3, 2, 0, "TIME", 3),
           Params(1, 4, 1, 0, "TIME", 0)}

\* A short order, for the instance with two executors.
MCShort == Params(1, 2, 1, 0, "TIME", 0)

MCParams == UNION {MCRejected, MCTwoRules, MCShort}

MCOrders ==
    /\ nonces[a2] = 0 /\ balance[a2] = 0 /\ executor # e2
    /\ \A i \in DOMAIN batch : batch[i][1] = e1
    /\ \A a \in Accounts, e \in Executors : <<a, e>> # <<a1, e1>> => allowance[a][e] = 0
    /\ \A id \in Ids : rules[id].totalSpendCap # 2

MCRotation ==
    /\ now <= 2 /\ Len(batch) <= 1
    /\ \A a \in Accounts : nonces[a] <= 1 /\ balance[a] <= 2
    /\ \A id \in Ids : rules[id].totalSpendCap = 2

InInstance ==
    /\ e2 \notin paused
    /\ IF instance = "orders" THEN MCOrders ELSE MCRotation

MCInit == Init /\ instance \in {"orders", "rotation"}

MCNext == Next /\ instance' = instance /\ InInstance'

MCSpec == MCInit /\ [][MCNext]_<<vars, instance>>
=============================================================================
