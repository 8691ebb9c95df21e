----------------------------- MODULE RuleEngine -----------------------------
(***************************************************************************)
(* The on-chain engine: contracts/src/RuleRegistry.sol, the entry points   *)
(* of contracts/src/RuleExecutor.sol, and what they use of the FXRP token  *)
(* (balances, allowances) and of the ERC-4626 vaults (deposits credited to *)
(* an account).                                                            *)
(*                                                                         *)
(* A transaction is atomic, so execute is one action.  executeBatch is one *)
(* action per rule of the batch, because each rule may fail on its own;    *)
(* while a batch is running no other transaction can.  A call that reverts *)
(* changes nothing: it has no action.  A vault may refuse any deposit, so  *)
(* a runnable rule need not run.                                           *)
(*                                                                         *)
(* Several executors may be deployed over time; the registry names one.    *)
(* book is history: it records what happened, and guards nothing.          *)
(***************************************************************************)
EXTENDS Rules, Lists

CONSTANTS
    Executors,      \* deployments of RuleExecutor
    NoExecutor,     \* address(0): the registry before setExecutor
    ParamChoices,   \* arguments createRule is called with
    MintAmounts,    \* FXRP amounts minted to accounts
    Approvals,      \* allowances accounts set
    MaxBatch,       \* MAX_BATCH
    MaxRules,       \* bound: rules per account
    MaxBalance,     \* bound: FXRP minted until the account holds this much
    MaxTime         \* bound: the clock

ASSUME EngineAssumption ==
    /\ NoExecutor \notin Executors
    /\ ParamChoices \subseteq CreateRuleParams
    /\ MintAmounts \subseteq Nat /\ Approvals \subseteq Nat
    /\ MaxBatch \in Nat /\ MaxRules \in Nat
    /\ MaxBalance \in Nat /\ MaxTime \in Nat

VARIABLES
    rules,         \* _rules: rule id |-> rule, for the ids that exist
    nonces,        \* nonces[account]
    allRuleIds,    \* _allRuleIds
    vaultAllowed,  \* the vaults on the allowlist
    executor,      \* the registry's executor
    paused,        \* the executors that are paused
    batch,         \* calls the running executeBatch still has to make
    balance,       \* FXRP.balanceOf(account)
    allowance,     \* FXRP.allowance(account, executor)
    position,      \* FXRP deposited into a vault with the account as receiver
    now,           \* block.timestamp
    book           \* history: rule id |-> what has happened to it

registryVars == <<rules, nonces, allRuleIds, vaultAllowed, executor>>
tokenVars    == <<balance, allowance, position>>
vars == <<rules, nonces, allRuleIds, vaultAllowed, executor, paused, batch,
          balance, allowance, position, now, book>>

Ids == DOMAIN rules

Entry == [startAt: Nat, runs: Nat, paid: Nat, lastAt: Nat, stopped: BOOLEAN]

NewEntry(from) ==
    [startAt |-> from, runs |-> 0, paid |-> 0, lastAt |-> 0, stopped |-> FALSE]

PaidEntry(b, x, t) ==
    [b EXCEPT !.runs = @ + 1, !.paid = @ + x, !.lastAt = t]

StoppedEntry(b, wasActive) == [b EXCEPT !.stopped = @ \/ wasActive]

TypeOK ==
    /\ rules \in [Ids -> Rule] /\ Ids \subseteq RuleId
    /\ nonces \in [Accounts -> Nat]
    /\ allRuleIds \in Seq(Ids)
    /\ vaultAllowed \subseteq Vaults
    /\ executor \in Executors \cup {NoExecutor}
    /\ paused \subseteq Executors
    /\ batch \in Seq(Executors \X RuleId)
    /\ balance \in [Accounts -> Nat]
    /\ allowance \in [Accounts -> [Executors -> Nat]]
    /\ position \in [Accounts -> [Vaults -> Nat]]
    /\ now \in Nat
    /\ book \in [Ids -> Entry]

\* Nothing has happened yet.
Fresh ==
    /\ rules = [id \in {} |-> {}]
    /\ nonces = [a \in Accounts |-> 0]
    /\ allRuleIds = <<>>
    /\ paused = {}
    /\ batch = <<>>
    /\ balance = [a \in Accounts |-> 0]
    /\ allowance = [a \in Accounts |-> [e \in Executors |-> 0]]
    /\ position = [a \in Accounts |-> [v \in Vaults |-> 0]]
    /\ now = 1
    /\ book = [id \in {} |-> {}]

Init == Fresh /\ vaultAllowed = {} /\ executor = NoExecutor

\* No transaction is in the middle of a batch.
Idle == batch = <<>>

-----------------------------------------------------------------------------
(* RuleRegistry *)

SetExecutor(e) ==
    /\ Idle
    /\ executor' = e
    /\ UNCHANGED <<rules, nonces, allRuleIds, vaultAllowed, paused, batch,
                   balance, allowance, position, now, book>>

SetVaultAllowed(v, allowed) ==
    /\ Idle
    /\ vaultAllowed' = IF allowed THEN vaultAllowed \cup {v} ELSE vaultAllowed \ {v}
    /\ UNCHANGED <<rules, nonces, allRuleIds, executor, paused, batch,
                   balance, allowance, position, now, book>>

\* The writes of createRule, called by account a.
DoCreateRule(a, p) ==
    LET id == <<a, nonces[a]>>
    IN  /\ p.vault \in vaultAllowed
        /\ ValidParams(p)
        /\ nonces' = [nonces EXCEPT ![a] = @ + 1]
        /\ rules' = [x \in Ids \cup {id} |->
                       IF x = id THEN NewRule(a, p, now) ELSE rules[x]]
        /\ allRuleIds' = Append(allRuleIds, id)
        /\ book' = [x \in Ids \cup {id} |->
                      IF x = id THEN NewEntry(FirstRunAt(p, now)) ELSE book[x]]

CreateRule(a, p) ==
    /\ Idle
    /\ nonces[a] < MaxRules
    /\ DoCreateRule(a, p)
    /\ UNCHANGED <<vaultAllowed, executor, paused, batch, tokenVars, now>>

\* The writes of cancelRule, called by account a; cancelling an inactive rule
\* succeeds and does nothing.
DoCancelRule(a, id) ==
    /\ id \in Ids
    /\ rules[id].account = a
    /\ rules' = [rules EXCEPT ![id] = [@ EXCEPT !.active = FALSE]]
    /\ book' = [book EXCEPT ![id] = StoppedEntry(@, rules[id].active)]

CancelRule(a, id) ==
    /\ Idle
    /\ DoCancelRule(a, id)
    /\ UNCHANGED <<nonces, allRuleIds, vaultAllowed, executor, paused, batch,
                   tokenVars, now>>

\* dueRules(offset, limit): the due rules of one window of _allRuleIds, and
\* where the next window starts.
DueRules(offset, limit) ==
    LET total == Len(allRuleIds)
        end   == IF offset + limit > total THEN total ELSE offset + limit
    IN  IF offset >= total
        THEN [ids |-> <<>>, nextOffset |-> total]
        ELSE [ids |-> Those(SubSeq(allRuleIds, offset + 1, end),
                            {id \in Ids : IsDue(rules[id], now)}),
              nextOffset |-> end]

-----------------------------------------------------------------------------
(* RuleExecutor *)

SetPaused(e, value) ==
    /\ Idle
    /\ paused' = IF value THEN paused \cup {e} ELSE paused \ {e}
    /\ UNCHANGED <<registryVars, batch, tokenVars, now, book>>

\* Bug: both active checks dropped.
MarkAcceptedInactive(e, id) ==
    /\ executor = e
    /\ id \in Ids
    /\ IsDue([rules[id] EXCEPT !.active = TRUE], now)

\* Bug: any executor may mark.
MarkAcceptedAnyExecutor(e, id) ==
    /\ id \in Ids
    /\ IsDue(rules[id], now)

\* markExecuted, called by executor e, does not revert.
MarkAccepted(e, id) ==
    /\ executor = e
    /\ id \in Ids
    /\ rules[id].active
    /\ IsDue(rules[id], now)
    /\ rules[id].totalSpent + rules[id].amountPerRun <= rules[id].totalSpendCap

\* Bug: the allowance alone taken for funds.
TransferAcceptedUnfunded(e, id) ==
    allowance[rules[id].account][e] >= rules[id].amountPerRun

\* transferFrom(account, executor, amount), called by executor e, does not revert.
TransferAccepted(e, id) ==
    LET r == rules[id]
    IN  /\ allowance[r.account][e] >= r.amountPerRun
        /\ balance[r.account] >= r.amountPerRun

\* _execute: mark, pull the tokens, deposit them for the account.  The vault
\* takes the whole amount: one that takes less leaves a residue, and the
\* residue reverts the call.
DoExecute(e, id) ==
    LET r == rules[id]
    IN  /\ MarkAccepted(e, id)
        /\ TransferAccepted(e, id)
        /\ rules' = [rules EXCEPT ![id] = MarkedExecuted(r, now)]
        /\ balance' = [balance EXCEPT ![r.account] = @ - r.amountPerRun]
        /\ allowance' = [allowance EXCEPT ![r.account][e] = @ - r.amountPerRun]
        /\ position' = [position EXCEPT ![r.account][r.vault] = @ + r.amountPerRun]
        /\ book' = [book EXCEPT ![id] = PaidEntry(@, r.amountPerRun, now)]

\* execute(ruleId): anyone may call it.
Execute(e, id) ==
    /\ Idle
    /\ e \notin paused
    /\ DoExecute(e, id)
    /\ UNCHANGED <<nonces, allRuleIds, vaultAllowed, executor, paused, batch, now>>

\* executeBatch(ruleIds): anyone may call it, with any ids.
ExecuteBatch(e, ids) ==
    /\ Idle
    /\ e \notin paused
    /\ Len(ids) \in 1..MaxBatch
    /\ batch' = [i \in 1..Len(ids) |-> <<e, ids[i]>>]
    /\ UNCHANGED <<registryVars, paused, tokenVars, now, book>>

\* One iteration of its loop: executeOne succeeds, or it reverts, whatever
\* the reason, and the rule is skipped.
BatchRuns ==
    /\ batch # <<>>
    /\ DoExecute(Head(batch)[1], Head(batch)[2])
    /\ batch' = Tail(batch)
    /\ UNCHANGED <<nonces, allRuleIds, vaultAllowed, executor, paused, now>>

BatchSkips ==
    /\ batch # <<>>
    /\ batch' = Tail(batch)
    /\ UNCHANGED <<registryVars, paused, tokenVars, now, book>>

-----------------------------------------------------------------------------
(* The token and the clock *)

\* FXRP minted to an account.
Mint(a, x) ==
    /\ Idle
    /\ balance[a] + x <= MaxBalance
    /\ balance' = [balance EXCEPT ![a] = @ + x]
    /\ UNCHANGED <<registryVars, paused, batch, allowance, position, now, book>>

\* Bug: increase the allowance instead of setting it.
DoApproveMore(a, e, x) == allowance' = [allowance EXCEPT ![a][e] = @ + x]

\* approve(e, x), called by account a.
DoApprove(a, e, x) == allowance' = [allowance EXCEPT ![a][e] = x]

Approve(a, e, x) ==
    /\ Idle
    /\ DoApprove(a, e, x)
    /\ UNCHANGED <<registryVars, paused, batch, balance, position, now, book>>

Tick ==
    /\ Idle
    /\ now < MaxTime
    /\ now' = now + 1
    /\ UNCHANGED <<registryVars, paused, batch, tokenVars, book>>

-----------------------------------------------------------------------------
OwnerNext ==
    \/ \E e \in Executors : SetExecutor(e)
    \/ \E v \in Vaults, allowed \in BOOLEAN : SetVaultAllowed(v, allowed)
    \/ \E e \in Executors, value \in BOOLEAN : SetPaused(e, value)

AccountNext ==
    \/ \E a \in Accounts, p \in ParamChoices : CreateRule(a, p)
    \/ \E a \in Accounts, id \in Ids : CancelRule(a, id)
    \/ \E a \in Accounts, x \in MintAmounts : Mint(a, x)
    \/ \E a \in Accounts, e \in Executors, x \in Approvals : Approve(a, e, x)

ExecutorNext ==
    \/ \E e \in Executors, id \in Ids : Execute(e, id)
    \/ \E e \in Executors, n \in 1..MaxBatch : \E ids \in [1..n -> Ids] : ExecuteBatch(e, ids)
    \/ BatchRuns
    \/ BatchSkips

Next == OwnerNext \/ AccountNext \/ ExecutorNext \/ Tick

Spec == Init /\ [][Next]_vars

-----------------------------------------------------------------------------
(* Properties *)

\* README.md, invariant I2 and the uint16 counter: an order with a run limit
\* never runs more often than that, although the contract counts runs modulo
\* 2^16, and what the registry believes was spent is exactly what the token
\* moved and never exceeds the cap.
RunsAndSpendBounded ==
    \A id \in Ids :
        LET r == rules[id]
        IN  /\ r.maxRuns # 0 => book[id].runs <= r.maxRuns
            /\ book[id].paid = r.totalSpent
            /\ book[id].paid = book[id].runs * r.amountPerRun
            /\ book[id].paid <= r.totalSpendCap

\* packages/shared/src/types.ts deriveStatus: an inactive order is shown as
\* cancelled exactly when its owner stopped it, and as exhausted exactly when
\* it ran to its end; an order shown as live has a run left.
StatusTellsWhy ==
    \A id \in Ids :
        LET s == DeriveStatus(rules[id], now)
        IN  /\ s = "cancelled" <=> book[id].stopped
            /\ s = "exhausted" <=> ~rules[id].active /\ ~book[id].stopped
            /\ s \in {"active", "due"} => RemainingRuns(rules[id]) > 0

\* packages/shared/src/types.ts remainingRuns: for a live order, the runs made
\* and the runs shown as remaining always add up to what the order was created
\* to make.
RemainingRunsExact ==
    \A id \in Ids :
        LET r     == rules[id]
            byCap == RunsByCap(r.totalSpendCap, r)
            total == IF r.maxRuns = 0 \/ byCap < r.maxRuns THEN byCap ELSE r.maxRuns
        IN  book[id].runs + RemainingRuns(r) = total

\* An order that stopped, whichever way, never runs again and never comes back.
ClosedIsFinal ==
    [][\A id \in Ids : ~rules[id].active =>
          /\ ~rules'[id].active
          /\ book'[id].runs = book[id].runs]_vars

\* FXRP leaves an account only as one instalment of one of its own live orders,
\* through the executor the registry names at that moment, out of the allowance
\* given to that executor: an allowance left with a retired executor, or with
\* one that is paused between batches, moves nothing (RuleRegistry.setExecutor,
\* RuleExecutor.setPaused).
OnlyNamedExecutorPulls ==
    [][\A a \in Accounts : balance'[a] # balance[a] /\ position'[a] # position[a] =>
          \E id \in Ids :
              /\ rules[id].account = a /\ rules[id].active
              /\ balance[a] - balance'[a] = rules[id].amountPerRun
              /\ allowance' = [allowance EXCEPT ![a][executor] = @ - rules[id].amountPerRun]
              /\ executor \notin paused]_vars

\* The inductive invariant behind the properties above.  An order and its
\* history agree: the registry's counters are what happened, active is neither
\* stale nor early, and the next run is one interval after the last.
Consistent(r, b) ==
    /\ r.amountPerRun > 0 /\ r.intervalSecs > 0 /\ r.trigger = "TIME"
    /\ r.amountPerRun <= r.totalSpendCap
    /\ b.paid = r.totalSpent /\ b.paid <= r.totalSpendCap
    /\ b.paid = b.runs * r.amountPerRun
    /\ r.maxRuns # 0 => b.runs = r.runsDone /\ b.runs <= r.maxRuns
    /\ r.active <=> ~b.stopped /\ ~IsExhausted(r)
    /\ b.stopped => ~IsExhausted(r)
    /\ r.nextRunAt = IF b.runs = 0 THEN b.startAt ELSE b.lastAt + r.intervalSecs

\* Every id was made from a nonce already used: the next createRule makes a new one.
IdsAreSpent ==
    \A id \in Ids : id[1] = rules[id].account /\ id[2] < nonces[id[1]]

EngineInv ==
    /\ TypeOK
    /\ IdsAreSpent
    /\ \A id \in Ids : Consistent(rules[id], book[id])

\* The batch that is running was begun by an executor that is not paused.
BatchIsOpen == \A i \in 1..Len(batch) : batch[i][1] \notin paused

\* What StandingOrder calls the terms of an order.
TermsOf(r) ==
    [account |-> r.account, vault |-> r.vault, amountPerRun |-> r.amountPerRun,
     totalSpendCap |-> r.totalSpendCap, intervalSecs |-> r.intervalSecs,
     maxRuns |-> r.maxRuns]

Order == INSTANCE StandingOrder
    WITH terms <- [id \in Ids |-> TermsOf(rules[id])],
         book <- book, purse <- balance, position <- position, clock <- now

\* The engine keeps the promises of StandingOrder.
ImplementsStandingOrder == Order!Spec
=============================================================================
