---------------------------- MODULE MCAttestation ----------------------------
(***************************************************************************)
(* Attestation and LegacyPayment for TLC.  Completions of different        *)
(* payments share nothing but the rounds, so one payment shows what any    *)
(* number of them do.  In an instance there are completions or handlers;   *)
(* to a handler a completion is ExecutedElsewhere.                         *)
(***************************************************************************)
EXTENDS LegacyPayment

CONSTANTS
    p1,
    MaxHandlerTime   \* bound: the clock of an instance with handlers, whose
                     \* ledgers are bounded by Confirmations + 2

NoJob     == \A p \in Payments : job[p].pc = "idle"
NoHandler == handler = [h \in Handlers |-> Unused] /\ used = {}

\* Flare's own values; completions do not look at the configuration.
OwnValues == [start |-> FirstRound, epoch |-> Epoch]

InInstance ==
    \/ NoHandler /\ fdc = OwnValues
    \/ NoJob /\ now <= MaxHandlerTime /\ ledger <= Confirmations + 2

MCNext == LegacyNext /\ InInstance'

MCSpec == LegacyInit /\ [][MCNext]_legacyVars
=============================================================================
