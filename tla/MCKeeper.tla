------------------------------ MODULE MCKeeper ------------------------------
(***************************************************************************)
(* Keeper for TLC: each order is of an account of its own, unless the      *)
(* instance has one account only.  Gas is counted in units of 10k, with    *)
(* the default values of config.ts.                                        *)
(***************************************************************************)
EXTENDS Keeper

CONSTANTS a1, a2

Order1(cap) ==
    [vault |-> CHOOSE v \in Vaults : TRUE, amountPerRun |-> 1, totalSpendCap |-> cap,
     intervalSecs |-> 1, maxRuns |-> 0, trigger |-> "TIME", startAt |-> 0]

At(x1, x2) == [a \in Accounts |-> IF a = a1 THEN x1 ELSE x2]

\* Room for many rules in a transaction, or for less than one.
Roomy == 600
Tight == 60

\* Two orders on two accounts, the first without funds; every disturbance but
\* new orders.
MCTwo == <<<<a1, Order1(2)>>, <<a2, Order1(2)>>>>
MCDisturbed ==
    {[orders |-> MCTwo, funds |-> At(0, 2), allowances |-> At(1, 2), maxTxGas |-> gas,
      stringErrors |-> gas = Roomy, disturbances |-> Kinds \ {"create"}] : gas \in {Roomy, Tight}}

\* Two orders, unfunded or not, before a funded one, and the keeper almost alone.
MCDeadFirst == <<<<a1, Order1(2)>>, <<a1, Order1(1)>>, <<a2, Order1(2)>>>>
MCQuiet ==
    {[orders |-> MCDeadFirst, funds |-> At(x1, 2), allowances |-> At(x1, 2), maxTxGas |-> gas,
      stringErrors |-> gas = Tight, disturbances |-> {"cancel"}] :
        x1 \in {0, 3}, gas \in {Roomy, Tight}}

\* Three orders to begin with, two of them unfunded, and the second account places
\* another one meanwhile; any of them may be run by others or be cancelled.
MCChoices == {Order1(1)}
MCGrowing ==
    {[orders |-> <<<<a1, Order1(1)>>, <<a1, Order1(1)>>, <<a2, Order1(1)>>>>,
      funds |-> At(0, 2), allowances |-> At(0, 2),
      maxTxGas |-> Roomy, stringErrors |-> TRUE, disturbances |-> {"create", "cancel", "others"}]}

MCAll == MCDisturbed \cup MCQuiet \cup MCGrowing

\* A single funded order, and the owner who pauses for a while.
MCPaused ==
    {[orders |-> <<<<a1, Order1(3)>>>>, funds |-> At(3, 0), allowances |-> At(3, 0),
      maxTxGas |-> Roomy, stringErrors |-> FALSE, disturbances |-> {"owner"}]}
=============================================================================
