------------------------------- MODULE Rules -------------------------------
(***************************************************************************)
(* The standing-order record of contracts/src/RuleRegistry.sol and the     *)
(* pure functions the registry, the keeper and the dashboard compute from  *)
(* it.  No state here: RuleEngine and the off-chain modules extend this.   *)
(*                                                                         *)
(* Amounts and times are naturals (uint128 and uint64 are far from any     *)
(* value the program meets); runsDone keeps its uint16 width because it is *)
(* incremented in an unchecked block.  thresholdPrice is stored by the     *)
(* contract and never read, so the record leaves it out.                   *)
(***************************************************************************)
EXTENDS Integers, Sequences, FiniteSets

CONSTANTS
    Accounts,      \* personal accounts (one per XRPL address)
    Vaults,        \* ERC-4626 vaults
    MinInterval,   \* MIN_INTERVAL_SECS
    MaxInterval,   \* MAX_INTERVAL_SECS
    RunsModulus    \* 2^16: runsDone is an uint16

ASSUME IntervalAssumption ==
    /\ MinInterval \in Nat \ {0}
    /\ MaxInterval \in Nat
    /\ MinInterval <= MaxInterval

ASSUME RunsModulusAssumption == RunsModulus \in Nat \ {0}

Trigger == {"TIME", "PRICE_BELOW", "PRICE_ABOVE"}

\* keccak256(abi.encode(msg.sender, nonce)): injective in the pair.
RuleId == Accounts \X Nat

Rule == [account: Accounts, vault: Vaults,
         amountPerRun: Nat, totalSpendCap: Nat, totalSpent: Nat,
         nextRunAt: Nat, intervalSecs: Nat,
         maxRuns: 0..(RunsModulus - 1), runsDone: 0..(RunsModulus - 1),
         trigger: Trigger, active: BOOLEAN]

CreateRuleParams == [vault: Vaults, amountPerRun: Nat, totalSpendCap: Nat,
                     intervalSecs: Nat, maxRuns: 0..(RunsModulus - 1),
                     trigger: Trigger, startAt: Nat]

-----------------------------------------------------------------------------
(* RuleRegistry *)

\* What createRule accepts, the vault allowlist aside.
ValidParams(p) ==
    /\ p.amountPerRun # 0
    /\ p.totalSpendCap >= p.amountPerRun
    /\ p.intervalSecs \in MinInterval..MaxInterval
    /\ p.trigger = "TIME"

\* startAt = 0 asks for "now".
FirstRunAt(p, t) == IF p.startAt = 0 THEN t ELSE p.startAt

NewRule(a, p, t) ==
    [account |-> a, vault |-> p.vault,
     amountPerRun |-> p.amountPerRun, totalSpendCap |-> p.totalSpendCap,
     totalSpent |-> 0, nextRunAt |-> FirstRunAt(p, t),
     intervalSecs |-> p.intervalSecs, maxRuns |-> p.maxRuns, runsDone |-> 0,
     trigger |-> p.trigger, active |-> TRUE]

\* Bug: one run more than the limit.
IsExhaustedOneMore(r) ==
    \/ r.maxRuns # 0 /\ r.runsDone > r.maxRuns
    \/ r.totalSpent + r.amountPerRun > r.totalSpendCap

IsExhausted(r) ==
    \/ r.maxRuns # 0 /\ r.runsDone >= r.maxRuns
    \/ r.totalSpent + r.amountPerRun > r.totalSpendCap

\* Bug: off by one at the boundary second.
IsDueOneEarly(r, t) ==
    r.active /\ r.trigger = "TIME" /\ t + 1 >= r.nextRunAt /\ ~IsExhausted(r)

IsDue(r, t) ==
    /\ r.active
    /\ r.trigger = "TIME"
    /\ t >= r.nextRunAt
    /\ ~IsExhausted(r)

\* Bug: the next run counted from the schedule, not from the run.
CountedCatchUp(r, t) ==
    [r EXCEPT !.totalSpent = @ + r.amountPerRun,
              !.runsDone   = (@ + 1) % RunsModulus,
              !.nextRunAt  = @ + r.intervalSecs]

\* The counters after a run; the addition to runsDone is unchecked.
Counted(r, t) ==
    [r EXCEPT !.totalSpent = @ + r.amountPerRun,
              !.runsDone   = (@ + 1) % RunsModulus,
              !.nextRunAt  = t + r.intervalSecs]

\* The rule record markExecuted leaves behind.
MarkedExecuted(r, t) ==
    LET c == Counted(r, t) IN [c EXCEPT !.active = @ /\ ~IsExhausted(c)]

-----------------------------------------------------------------------------
(* packages/shared: what the dashboard and the instruction builders read   *)
(* off a rule.                                                             *)

\* Bug (an earlier version of the source): active looked at first.
DeriveStatusActiveFirst(r, t) ==
    IF ~r.active THEN "cancelled"
    ELSE IF IsExhausted(r) THEN "exhausted"
    ELSE IF r.nextRunAt > t THEN "active" ELSE "due"

DeriveStatus(r, t) ==
    IF IsExhausted(r) THEN "exhausted"
    ELSE IF ~r.active THEN "cancelled"
    ELSE IF r.nextRunAt > t THEN "active" ELSE "due"

RunsByCap(spendable, r) == spendable \div r.amountPerRun

\* Bug: the run limit forgotten.
RemainingRunsByCap(r) == RunsByCap(r.totalSpendCap - r.totalSpent, r)

RemainingRuns(r) ==
    LET byCap  == RunsByCap(r.totalSpendCap - r.totalSpent, r)
        byRuns == r.maxRuns - r.runsDone
    IN  IF r.maxRuns = 0 \/ byCap < byRuns THEN byCap ELSE byRuns

\* What an active rule can still draw; an inactive one draws nothing.
Commitment(r) ==
    IF r.active /\ r.totalSpendCap > r.totalSpent
    THEN r.totalSpendCap - r.totalSpent ELSE 0
=============================================================================
