----------------------------- MODULE MintPrice ------------------------------
(***************************************************************************)
(* What a payment has to carry (packages/shared/src/directMinting.ts), the *)
(* quotes the web page shows from a fee schedule it read once (apps/web),  *)
(* and what the scripts pay from one they read at the time (createRule.ts).*)
(*                                                                         *)
(* The page and the asset manager use different schedules when the fees    *)
(* change between the quote and the mint.  Amounts are drops.              *)
(***************************************************************************)
EXTENDS Integers

Bips == 10000

\* getMintingFees
Fees == [feeBIPS: Nat, minimumFeeUBA: Nat, executorFeeUBA: Nat]

Proportional(net, f) == (net * f.feeBIPS) \div Bips

MintingFee(net, f) ==
    IF Proportional(net, f) > f.minimumFeeUBA THEN Proportional(net, f) ELSE f.minimumFeeUBA

\* computeDirectMintingPaymentUBA
PaymentUBA(net, f) == net + MintingFee(net, f) + f.executorFeeUBA

\* Bug (an earlier version of the source): every payment priced at fees only.
QuoteFees(f, net) ==
    [amountUBA |-> PaymentUBA(0, f), netMintUBA |-> net,
     mintingFeeUBA |-> MintingFee(0, f), executorFeeUBA |-> f.executorFeeUBA]

\* quoteFor: the parts are computed once more, next to the sum.
Quote(f, net) ==
    [amountUBA |-> PaymentUBA(net, f), netMintUBA |-> net,
     mintingFeeUBA |-> IF Proportional(net, f) > f.minimumFeeUBA
                       THEN Proportional(net, f) ELSE f.minimumFeeUBA,
     executorFeeUBA |-> f.executorFeeUBA]

\* createQuote: what is missing for the order to fund itself is minted.
CreateQuote(f, cap, held) == Quote(f, IF cap > held THEN cap - held ELSE 0)

\* cancelQuote
CancelQuote(f) == Quote(f, 0)

\* computePaymentXrp, with the schedule of the moment.
ScriptPayment(net, current) == PaymentUBA(net, current)

\* The asset manager, with schedule f, mints net of a payment ("anything less
\* and the mint reverts").
Mints(paid, net, f) == paid >= PaymentUBA(net, f)

\* No part of schedule g is above f.
NoDearer(g, f) ==
    /\ g.feeBIPS <= f.feeBIPS
    /\ g.minimumFeeUBA <= f.minimumFeeUBA
    /\ g.executorFeeUBA <= f.executorFeeUBA
=============================================================================
