# GiroLedger: a verification of standing orders

GiroLedger runs standing orders ("rules") for holders of XRP. One XRP Ledger
payment mints FXRP into a personal account on Flare and, in the same
transaction, has that account approve an executor and create a rule. From then
on anybody may run the rule when it is due: the executor pulls an instalment
out of the account and deposits it into a vault in the account's name.

This directory holds TLA+ modules of that system, TLC configurations that check
them on small instances, and TLAPS proofs about each part: the contracts, from the
outside and from the inside of a transaction, instructions and payments, the keeper,
the attestation of payments, the operator, the web page's hand-over to it, and the
arithmetic in between. Every safety property that a run checks is also proved.

## 1. Inventory

| Part | Source | State it keeps | Operations |
|---|---|---|---|
| Registry | `contracts/src/RuleRegistry.sol` | rules, nonces, the list of ids, the vault allowlist, the executor | `setExecutor`, `setVaultAllowed`, `createRule`, `cancelRule`, `markExecuted`; reads `isDue`, `dueRules` |
| Executor | `contracts/src/RuleExecutor.sol` | paused; the reentrancy guard and approvals to vaults, within a transaction | `setPaused`, `execute`, `executeBatch`, `executeOne` |
| External chain | FXRP, ERC-4626 vaults, AssetManager, MasterAccountController | balances, allowances, positions, account nonces, spent transaction ids | approve, transferFrom, deposit, mint, run an instruction |
| Rule functions | `packages/shared/src/types.ts` | none | status, remaining runs |
| Instruction builder | `packages/shared/src/memo.ts`, `smartAccount.ts` | none | create and cancel instructions, the memo that commits to them |
| Scripts | `apps/operator/src/createRule.ts`, `cancelRule.ts`, `spike/pay.ts`, `spike/finishRule.ts` | what they have read so far | read, build, pay, prove, submit |
| Attestation | `createRule.ts`, lines 359-517 | none; the XRPL, the FdcHub and the data availability layer have it | wait, prepare, request, find the round, poll |
| Web page | `apps/web/src/routes/app.tsx`, `lib/flare.ts`, `components/SendWithGemWallet.tsx` | nonce, balance, rules, chosen target, each as last read; what is registered; the phase of each button | resolve, choose, show a payment, hand over, send |
| Price and limits | `packages/shared/src/directMinting.ts`, `lib/flare.ts`, `spike/mintLimits.ts` | none | fees, payment, quote; when a mint is allowed |
| Operator | `apps/operator/src/index.ts`, `store.ts`, `server.ts` | instructions and held payments, in memory and in one file | register, watch, complete |
| Keeper | `apps/keeper/src/index.ts`, `errors.ts`, `config.ts` | quarantine and strikes, in memory | scan, simulate, send, read the receipt |
| Older payment handler | `apps/operator/src/handlePayment.ts`, `fdc.ts` | none; nothing calls it | look up, prepare, request, wait for the Relay, fetch, submit |
| Diagnostic scripts | `apps/operator/src/spike/`: `inspectRule.ts`, `listRules.ts`, `resolveAccount.ts`, `simulateExecute.ts`, `vaults.ts`, `verifyLanding.ts` | none | read and print; simulate the calls of an execution one by one |

How they meet: the scripts and the page read the registry and pay on the XRP
Ledger; they hand the instruction itself to the operator over HTTP, since the
memo has room for its hash only; the operator sees the payment in a ledger
stream, waits for a proof of it, and submits both to Flare, where the personal
account runs the instruction; keepers read the registry and call the executor,
which calls the registry, the token and the vault.

What is hard about it, and what has to be right:

- **Contracts.** Cancels, executions, batches that fail in parts, allowances
  shared by orders, a counter that wraps. An order must stay within its cap,
  its number of runs and its pace, end for good, and pay only its owner. Vaults
  are somebody else's code, called in the middle of an execution with the tokens
  on the table.
- **Instructions.** They are built from a snapshot and take effect minutes
  later, at the mercy of whatever executed in between. The one allowance of an
  account must cover its live orders and must not exceed what was signed for;
  what was built from an old list of orders must bounce. Prices, windows and the
  list of vaults are computed once, from reads some of which fail.
- **Keeper.** The chain moves between its reads, its simulation, its
  transaction and its receipt, and `executeBatch` succeeds when everything in
  it failed. It must neither burn gas forever, nor starve a rule, nor give up a
  healthy one.
- **Attestation and page.** Ledgers, rounds and answers come when they like. A
  completion must ask for the right round, early enough to be refused by nobody
  and long enough to see it become final; the page must not let a user pay for
  what the operator has not been told.
- **Operator.** Two event sources in either order, long completions running
  side by side, a file, restarts. No payment whose instruction is known may be
  left lying, and none may be submitted twice.

`PROJECT.json` lists every component and every hazard with its line.

## 2. Modules

| Module | Models |
|---|---|
| `Lists` | what the code does to lists: skip some of their elements |
| `DataLemmas` | lemmas about lists and sums over sets, for the proofs of the other modules |
| `Rules` | the rule record and the pure functions on it (registry and `types.ts`) |
| `StandingOrder` | the abstract specification: what an order promises, with no flag, schedule, counter, allowance or executor |
| `RuleEngine` | registry, executor, token and vaults; implements `StandingOrder` |
| `RuleEngineProofs` | the theorems about `RuleEngine` |
| `Execution` | one transaction of the executor from the inside: the calls within one another, vaults that call back, what a revert restores |
| `ExecutionProofs` | the theorems about `Execution` |
| `Instructions` | `RuleEngine` with the accounts driven by a client that reads, builds and pays, and by payments that land |
| `InstructionsProofs` | the theorems about `Instructions`, `Figures` and the three modules it evaluates |
| `Keeper` | `RuleEngine` with a keeper, step by step, and the disturbances around it |
| `KeeperProofs` | the theorems about `Keeper` |
| `Operator` | the operator process, its file, the XRP Ledger stream and the mints |
| `Attestation` | how a completion obtains the proof of its payment, with the XRPL and Flare's rounds around it |
| `AttestationProofs` | the theorems about `Attestation` and `LegacyPayment` |
| `LegacyPayment` | the older handler beside `Attestation`, over the same ledgers and rounds |
| `Page` | the panels of the web page, the effects that React runs after a render, `registerInstruction`, the wallet buttons |
| `Delivery` | `Page` and `Operator` together: what is handed over and paid comes from the page |
| `OperatorProofs` | the theorems about `Operator` and `Delivery` |
| `PageProofs` | the theorems about `Page` |
| `MintPrice` | fees, the payment for an amount, the quotes of the page and of the scripts |
| `MintLimits` | `spike/mintLimits.ts`: sliding windows, the time a mint is allowed, the headroom |
| `History` | the windows of blocks in which `getExecutions` looks for executions |
| `Figures` | what a client computes from its first reads, over small inputs: the list of vaults and the one selected, and the last three modules |
| `MC*` | values of the constants for TLC |

### RuleEngine
A transaction is one action, as it is atomic. `executeBatch` is several: one
that starts it, and one per rule, which runs (`BatchRuns`) or is caught
(`BatchSkips`); `Idle` keeps other transactions out until it is through. A
vault may refuse any deposit, so a runnable rule may be skipped. Each guard of
the Solidity is a conjunct, a revert is a disabled action. An id is the pair
(account, nonce) that `keccak256` is applied to. `runsDone` keeps its width
(`RunsModulus`), because it is incremented in an `unchecked` block; amounts and
times are naturals, which `uint128` and `uint64` never reach. `book` is a history
variable: what really happened to each order, against which the records are held.
It guards nothing.

Here an instalment is one step; what happens inside it is `Execution`. Ownership
transfer is left out; price triggers are refused by `createRule`, as in the code.

### Execution
`frames` is the stack of calls of the executor, the innermost first. A frame keeps
the chain as it was when it was called, and `Reverts` puts it back: that is all a
revert is. A call that reverts at once (not due, paused, guarded) has no action. The
registry and the token call nobody, so `_execute` is two steps: `Opened` up to the
call of `deposit`, and `Returns` after it, with the residue check. In between the
vault may take what it is approved for or less, hand tokens back, send its own to
the executor, act for itself on the registry and the token if it has orders too,
call `execute` and `executeBatch` again, try `executeOne`, or fail. The guard is
`chain.entered`, so a revert restores it too. In a batch the loop is a frame of
its own, `executeOne` a frame on top of it, and a caught failure goes on with
`NextId`. There is one executor, and every vault is on the list.

### Instructions
A client reads nonce, balance, ids and each rule by separate calls, in the order
of the source, and builds from what it has. The variable `client` says which one
it is, for the whole behaviour: "cli" reads all, pays once and forgets; "web"
shows each value as it arrives, keeps the old ones when a read fails, and lets
the user pay at any moment a nonce is shown, more
than once. `Land` is the whole transaction: nonce check, mint, approve, create or
cancel. The engine's `Approve`, `Mint` and `CreateRule` are replaced by it, since
a personal account acts only through instructions. Hash and encoding are
abstracted: a payment carries its instruction, so what collisions or a wrong hash
would do is not covered. `CanRebuild` and `Rebuilt` are `finishRule.ts`: whether it
gets past its look at the nonce, and the allowance in what it builds. The history
`whole` says that a payment was to bring the account up to the cap.

### Keeper
Each RPC of a tick is a step, with the chain moving between. `tick` holds the
local variables of `tick`, `collectDue`, `executeSingle` and `quarantineStillDue`.
An error is a kind (`IsPaused`, `registry`, `token`, `vault`, `network`), which
`Classify` maps as `errors.ts` does: it knows the executor's ABI only, so an
error of the registry has no name and is transient, and an `Error(string)` is
called "Error" and is permanent; `config.stringErrors` says which of these the
token and the vaults use. `config` is the instance and never changes: orders,
funds, gas ceiling, and the kinds of disturbances there are. The registry may grow
while the keeper runs (`RuleCreated`). Gas appears where it decides something: how many rules fit,
and whether `executeBatch` refuses for lack of it. What an iteration really uses
is left open between nothing and its cap, hence `MayStarve` and `MustStarve`.

### Operator
`phase` is the process (down, listening with `wiring` null, watching), `mem` and
`disk` the store and its file, `task[p]` the await at which the completion of `p`
stands; between two awaits the code is atomic, as in Node. Payments, mints,
somebody else's completion, the clock and crashes are the environment. A crash
may hit `writeFileSync` in the middle ("torn"), wherever the process may write next
(`MayWrite`).

### Delivery
`Page` models the operator as a set of instructions that never loses any, and
`Operator` models those who hand over and pay as anybody. `Delivery` puts the two
together: a hand-over is one step of both (`HandOver`), the payments are those the
wallet was asked for (`PaymentLands`), and `Client` is `Page` with `disk.stored` for
what the operator has and the nonce of the account for its changes. `ImplementsPage` says
that each step is one of `Page` or a stutter of it, restarts included, so what
`PageProofs` proves of `Page` is true of the page in front of this operator; a torn
write is the one thing that breaks it (`load()` takes what is left for an empty store).
`VouchedIsBegun` goes from the page to the operator: a payment that was made in trust of
what the page says is begun when the operator hears of it.

### Attestation
A unit of time is the pause between two polls; a round lasts `Epoch` of them and
its proofs are served at most `FinalWithin` later, which is the one assumption
about Flare (it stands in the guard of `Tick`). `job[p]` is the await at which
the completion of `p` stands. Completions of the operator and of the scripts that
pay wait for the XRPL; `finishRule.ts` does not, and may be refused. Of the
polls, `Outages` may go unanswered for no reason.

`LegacyPayment` adds `handleIncomingPayment`, which nothing calls any more: it looks
the payment up on the controller, does not wait for the XRPL, waits for the Relay
with a timeout instead of polling the layer, asks the layer once (which may be
behind the Relay), and submits. The payment may be executed elsewhere at any time.
It computes the round from its configuration (`fdc`, chosen in `LegacyInit` and never
changed), not from the chain as `createRule.ts` does, and the defaults of `config.ts` are
those of another network: so the round may be any, also a negative one, for which the
question cannot even be encoded. A question to the Relay is two steps, the
read (`AskRelay`) and the arrival of its answer (`RelayAnswers`), where the clock is
looked at; how late an answer may be is the assumption `AnswerWithin` about the client
library, which stands in the guard of the passage of time (`AnswersArrive`).

### Page
A change of state renders the panels, and the effects whose dependencies changed
run afterwards, before the next render: `due` holds them. `posts` are the calls
of `registerInstruction`, of which the last alone counts; `sends` are the presses
of the wallet buttons, which go on when the panel changes or goes. Resolves run
side by side, since the Enter key starts one at any time; the balance one of them brings
(`BalanceArrives`) changes what the create panel asks for, and with it its button, but no
instruction. One address is
modelled, and an order that may be stopped stays on the list.

### MintPrice, MintLimits, History, Figures
Arithmetic: operators that are translated from the source; the theorems about them are
in `InstructionsProofs`.
`Figures` evaluates them, and `getVaults` with the selection of `app.tsx`, over small
inputs in every state in which a client has read nothing yet, with the registry, the
orders and the clock of that state. Amounts are naturals in the smallest unit, divisions are
integer divisions, as with `bigint`. `MintLimits` is for limits that are set; a
limit of 0 means none to `windowAllowedAt` and no headroom to the caller.

## 3. Runs

Passing runs:

| Run | Instance | Shows |
|---|---|---|
| `engine` | two instances, told apart by `instance`: "orders", one account with two orders (one limited; one whose cap is no multiple and that starts late; one without limit that runs four times while `runsDone` counts to two), batches of two, clock to 4, arguments that each guard rejects; "rotation", two accounts, two executors | `EngineInv` (with the types), `RunsAndSpendBounded`, `StatusTellsWhy`, `RemainingRunsExact`, `ClosedIsFinal`, `OnlyNamedExecutorPulls`: an allowance left with a retired executor moves nothing; `ImplementsStandingOrder` |
| `execution` | an account with two orders and a vault with an order of its own, which can do all that an account can; batches of two, calls three deep, one token sent to the executor by mistake; clock to 2 | `ExecutionInv` (with the types); `StoppedTwiceOver`, each defence by itself; `KeepsNothing` (I5); `RunsOnceIfDue` (I3, I4, I6); `PaysWhatIsDue` (I2) |
| `instr_both` | one account, two orders; three payments by script, or two from the page, which pays from whatever it shows | `InstrTypeOK`; `ScriptsStarveNone`, `FundsItself`, `RebuiltAsksNoMore` for scripts; `NoBlindLanding`, `AuthorityBounded` for both; of `Figures`, `SelectedVaultIsTaken`, `WindowsPartition`, `QuotesSuffice`, `RetryFits` |
| `keeper_all` | several configurations: two orders, one funded for two runs and the other for none, with high and low gas ceiling, both kinds of errors and every disturbance; two dead orders before one that can run, with room for all or for less than one in a transaction; and three orders to which a fourth is added, at any moment; pages of one, batches of two, two strikes | `KeeperTypeOK`, `BatchNoopsBounded`, `ScanMissesNothing` in all; `DueIsServed` in those that only a cancel disturbs |
| `operator_all` | two instances, told apart by `instance`: "operator", alone, two payments for one instruction, one for the next, room to hold one, two crashes, which may hit a write, every other disturbance; "page", with the page, which hands over twice and pays once, and one restart | `OperatorTypeOK`, `NothingLeftBeside`, `SubmittedOnce`, `HeldUntilDue`, `KnownIsCarriedThrough`; `ImplementsPage`, `VouchedIsBegun` of the two together |
| `attestation` | one payment, completed by the operator and by hand, again and again; epoch 2, final within 1, one outage, five attempts; the older handler with a timeout of 4, answers up to 1 late, and nine configurations of start and epoch, of which one is right | `AttestationInv` (with the types), `WaitingIsEnough`, `PollsItsRound`, `OutlastsTheRound`; `WaitOutlastsTheRound` of `LegacyPayment` |

Runs TLC refutes; each is a statement of the repository that the code does not
keep (the quotes are in `PROJECT.json`, "findings"):

| Run | Statement | What happens |
|---|---|---|
| `instr_tighten` | a cancel only lowers the allowance | an execution between building and landing lowers it first, and the cancel raises it again |
| `instr_torn` | rules are read alongside the nonce | new nonce, old rules: the first order is starved |
| `keeper_pause` | a pause is transient, retried next tick | it strikes, and strikes quarantine for good |
| `operator_delay` | a rate-limited mint is retried | it is marked completed |
| `page_onscreen` | what is on screen is what the operator holds | with a cancel panel open, only the cancel is handed over; a create typed meanwhile is paid without the operator having it, and without a warning |
| `operator_startup` | a payment made during a restart is held | nothing looks for it |

None of these lets an order spend past its cap: `instr_both` and the
theorems below hold throughout.

The models show more of this kind, for which no run is kept, because each is
plain from the lines named under "hazards" in `PROJECT.json`: an approval is
left over when a create overlaps an execution; the page prices a second order
against a balance the first one counts on, and `FundsItself` fails for it, because
it reads the balance before the orders; a rule another keeper runs first, or
an account funded late, stays in quarantine; a single execution that reverts on
chain is never struck; a completion cut short by a crash or a failing call is
not resumed; a half-written file is read as none; a wallet that answers after the
memo has changed puts its "Payment sent" under the new one. A stranded payment can be
completed from the same nonce (README.md:396 of the repository) only if no order ran
meanwhile, as `finishRule.ts` knows. `app.tsx` means never to leave a vault selected
that is not on the list (line 110), and does when it could read of none that it is.
FXRP sent to the executor by mistake makes every deposit end in `ResidualBalance`,
and nothing takes it out again: `KeepsNothing` holds, as nothing runs.

**Bounds.** `MaxRules`, `MaxBalance`, `MaxTime`, `MaxPayments`, `MaxClock`,
`MaxRestarts`, `MaxLedger`, `MaxChain`, `MaxPosts`, `MaxPresses`, `MaxDepth` and
`MaxHandlerTime` stop the counters, in guards; `InInstance` of `MCExecution` keeps
the vault to one order, for the other vault, and the tokens sent by mistake to one; that of
`MCDelivery` keeps "operator" to two instructions, and "page" to a clock that stands,
one restart, no completion by hand or cut short that could have gone on, and taking
back what is typed only beside a cancel panel and before a press. The interesting cases need little:
two orders that share an allowance, one boundary second (an interval is one
tick), one execution between a read and a landing, a batch of two of which one
fails, a strike limit of two, one held payment too many, one restart and another
one after it. Five attempts are just enough for the rounds of `attestation`: with
four of them `Epoch + FinalWithin + Outages < Attempts` is false, and completions
do time out; and the older handler's timeout of 4 is just
`Epoch + FinalWithin + AnswerWithin`: with 3 it gives up on the right round.
A stack of three is never reached, as `StoppedTwiceOver` says: the bound is there so
that it could be. Every property of a passing run is matched by a plausible bug
(`PROJECT.json`, "mutants") that makes the same run fail, so no bound is too
small to reach the case the property is about.

**Fairness.** `RuleEngine`, `Execution`, `Instructions`, `Attestation`, `LegacyPayment`,
`Page` and `Delivery` have none. `Keeper`'s `FairSpec`
assumes that the keeper's loop goes on (`while (running)`, a tick follows a tick,
RPCs answer) and nothing of other keepers, owners or time. `Operator`'s assumes
that the host restarts the process, that Node runs what is ready, that awaited
calls answer and that a transaction that was sent is mined. It assumes no
payment, no registration and no help by hand. `MCDelivery` takes it as it is, for
both instances: the steps it is about are never withheld by a bound.

Deadlock is checked in every run but `page_onscreen`, whose bounds end it when
every call is answered and every press is over.

## 4. Proofs

`RuleEngineProofs` proves, for all accounts, vaults, executors, arguments,
widths of the run counter and bounds:

| Theorem | States |
|---|---|
| `EngineInvariant` | `Spec => []EngineInv`: types, ids from spent nonces, records that agree with the history |
| `RunsAndSpendAreBounded` | no order exceeds its runs or its cap; what the registry counts is what the token moved |
| `StatusIsTruthful` | "cancelled" and "exhausted" are shown exactly for the reason they name; a live order has a run left |
| `EngineImplements` | `Spec => Order!Spec`, the refinement of `StandingOrder` |
| `ClosedOrdersStayClosed` | an order that stopped never runs or revives |
| `RunsAddUp` | the runs an order has made and the runs shown as remaining are those it was made for |
| `OnlyTheNamedPulls` | FXRP leaves an account only as one instalment of a live order of its own, through the executor the registry names, which is not paused |

*Assumptions:* `IntervalAssumption` (the interval bounds are ordered and
positive, as the constants of the contract are), `RunsModulusAssumption` and
`EngineAssumption` (types of the constants; no executor is `address(0)`).

*The argument.* None of the properties is inductive. That an order is within its
cap after a run needs that it was not exhausted before, which the code checks
only through `active`; and `active` is trustworthy only if it was cleared at the
run that exhausted the order. `Consistent` says this: `active` holds exactly
when the order was neither stopped nor is exhausted; the counters are the
history; `runsDone` is the number of runs as long as there is a limit, which is
below the modulus, so no order with a limit wraps (`PaidConsistent`, the one
lemma with arithmetic in it); and `nextRunAt` is the last run plus the interval,
which is what refines the pace of `StandingOrder`. `IdsAreSpent` is there so that
`createRule` never overwrites an order. `StepCases` reduces a step of `Next` to
four kinds (leaves the books alone, creates, cancels, runs one order), and
`FrameStep`, `CreateStep`, `CancelStep` and `ExecuteStep` treat one each;
`CreatePlaces`, `CancelStops` and `RunPays` map the same kinds to the actions of
`StandingOrder`. `OnlyTheNamedPulls` needs that a batch under way was begun by an
executor that is not paused (`BatchIsOpen`): the steps of a batch do not look again.
`RunsAddUp` divides: what an order has left of its cap is its instalments left, and
less than one more (`InstalmentsLeft`).

`ExecutionProofs` proves, for all accounts, vaults, funds, sizes of batches and
depths, whatever a vault does while it is called:

| Theorem | States |
|---|---|
| `ExecutionInvariant` | `Spec => []ExecutionInv` |
| `NeverPaysInsideAPayment` | no deposit inside a deposit; the rule being paid is not due |
| `KeepsNothingHolds` | a transaction leaves no token and no approval behind, or has had no effect |
| `RunsOnceIfDueHolds` | in one transaction each rule runs at most once, and only if it was due |
| `PaysWhatIsDueHolds` | what the rules paid in a transaction is what their vaults credited, and an account has lost no more |

*Assumptions:* `ExecutionAssumption` (types of the constants; the executor is no
account and no vault) and those of `Rules`.

*The argument.* That a rule runs once per transaction is not inductive: it is about
what the transaction has done since it began, and a revert in the middle takes the
chain back to a state that must itself have been fine. `ExecutionInv` lists
the shapes the stack can have (`StackEmpty`, `StackExecute`, `StackLoop`, `StackOne`)
and says of each what holds of the chain and of every saved one under it: in a call
of a vault the rule was advanced and the vault can take no more than what is
there (`Called`); between two iterations nothing is approved, and either nothing is
left or nothing has happened yet (`Looping`), so that tokens sent by mistake
between transactions are allowed for. `RanSince` relates both to the chain at the
beginning: an interval is positive, so a rule that has run is not due again in the
same block, and a caught failure restores a chain of which `RanSince` held too.
`PaysWhatIsDueHolds` is about sums over all rules of an account and needs an invariant
of its own, `AccountsInv`: the books balance at every point of the transaction if the
deposit under way is taken as made, and in the chain saved before it, so a caught revert
restores books that balance; and a rule created on the way that is due has paid nothing
yet.

`InstructionsProofs` proves, for all accounts, orders, reads and payments, for the
scripts and the page:

| Theorem | States |
|---|---|
| `InstrInvariant` | `InstrSpec => []InstrInv`, of which `InstructionsAreTyped` is a part |
| `ScriptsNeverStarve` | with the scripts, the one allowance of an account covers what its live orders may still draw |
| `AuthorityIsSignedFor` | it never exceeds the caps of the orders placed, with either client |
| `NothingLandsBlindly` | of the instructions built from a nonce at most one takes effect; of a script, only on the orders its builder had read |
| `RebuildingAsksNoMore` | what `finishRule.ts` rebuilds asks for no more than was paid for |
| `CreatesFundThemselves` | a create of the script that mints what was missing brings the account up to the cap, but for what its other orders have drawn since they were read |
| `SelectsATakenVault`, `QuotesAreExact`, `RetriesFit`, `WindowsPartitionTheChain` | the properties of `Figures`, in every state |

*Assumptions:* `InstructionsAssumption` (types; `None` is neither a rule id nor a
number) and those of `RuleEngine`.

*The argument.* An instruction is computed from old reads, so a property of what lands
must be carried from the first read to the landing, past all that may run meanwhile.
`InstrInv` does this in three stages, each with the condition that the nonce read still
stands: what a client has read (`PageOK`), what a payment carries (`PaymentOK`), and
what the account has (`ScriptsStarveNone`, `AuthorityBounded`, which are inductive only with
the other two). The nonce is the version of an account's list of orders: a script reads
it first, so while it stands the ids read later are all there are (`ScriptCurrent`). What was read
of an order may be old, but what an order can still draw only falls, so it errs on
the safe side (`ReadingOK`). What leaves the balance leaves the allowance too, and the
commitment falls by as much at least, so executions keep all three; and a landing uses
the nonce up, which empties the condition for everything else built from it.
The page reads its values in no such order, which is why the script's theorems say
`client = "cli"`.

`KeeperProofs` proves, for every registry, page size, batch size, strike limit and mix
of disturbances:

| Theorem | States |
|---|---|
| `KeeperInvariant` | `KeeperSpec => []KeeperInv`, of which `KeeperIsTyped` is a part |
| `NoopsAreBounded` | between restarts a rule is put into at most `MaxNoopStrikes` batches without a deposit, and is then given up |
| `ScansMissNothing` | a scan that did not fill a batch holds each rule that was due throughout, and each once |
| `KeeperKeepsTheEngine` | the keeper's chain is a run of `RuleEngine` in which `EngineInv` holds |

*Assumptions:* `KeeperAssumption` (types; a page, a batch and the strike limit are at
least one, the batch at most the contract's; gas per rule is positive; the orders of
the configurations are such as `createRule` accepts) and those of `RuleEngine`. Nothing
is assumed of the gas ceiling: `config.ts` does not make it cover the overhead.

*The argument.* A scan pages through a list that others append to while rules run, are
cancelled and come due: `ScanOK` says that every position before the offset is accounted
for if its rule was due throughout, and that no position after it is; with ids listed
once (`ListOK`) the pages cannot give one rule twice. That strikes are bounded needs
that a quarantined rule is not in the batch that is mined: it cannot have been given up
between the scan and the receipt, since that is one tick. A strike counts at least
each batch without a deposit, so `noops` stays under `strikes`, and `strikes` under the limit.

`OperatorProofs` proves, for any number of payments, instructions, restarts, clock
readings and held payments:

| Theorem | States |
|---|---|
| `OperatorIsTyped` | memory, file and completions have their types, and no more payments are held than there is room for |
| `NothingIsLeftBeside` | while the operator watches, no payment lies held beside its instruction |
| `IsSubmittedOnce` | no payment is submitted twice, by one process or several in sequence |
| `IsHeldUntilDue` | a held payment goes only when its completion begins, when it is too old, or when `OrphanMax` later ones are held |
| `DeliveryImplementsPage` | `DeliverySpec => ImplementsPage`: a step of page and operator in which no write is torn is a step of `Page`, or none |
| `VouchedAlwaysBegun` | if no write is ever torn, a payment made in trust of the page is begun when it is heard of, or its instruction is done already |

*Assumptions:* `OperatorAssumption` (types; room for one held payment) and
`DeliveryAssumption` (each press makes a payment of its own). `VouchedAlwaysBegun` excludes
"torn" writes, which do break it.

*The argument.* `OpInv` follows a payment through its places. It is in the stream, in
the file or in a completion, never in two of them (`StreamOK`, `FileOK`); it comes into the
stream once; from the file it goes into a completion in the step that takes it out; and
no completion gives it back after it has submitted (`TasksOK`). So whatever is still in
the stream or the file has not been submitted, also after a crash, which empties stream
and completions and leaves the file. The file may hold what the memory does not, but
only payments that are too old (`OnlyOldBeyond`). `VouchedAlwaysBegun` puts this together with
`PageProofs`, instantiated with the operator's file for what the page believes to be
held: the payment of a press is that of its instruction (`PaidByPress`), which
`VouchedAlwaysHeld` says is held.

`AttestationProofs` proves, for any numbers that satisfy `AttestationAssumption`
(their types, and an epoch that is not empty) and `LegacyAssumption` (types; any start,
any epoch that is not empty):

| Theorem | States |
|---|---|
| `AttestationInvariant` | `Spec => []AttestationInv` |
| `WaitingSuffices` | who waited for the confirmations is not refused |
| `RoundIsPolled` | the round that is polled is the one in which the request was mined |
| `AttemptsSuffice` | with more attempts than epoch, finality and outages take together, no completion gives up |
| `LegacyInvariant` | `LegacySpec => []LegacyInv`, the older handler beside all of this |
| `WaitsLongEnough` | with a timeout that covers epoch, finality and a late answer, it gives up only on a round later than that of its request: with the right configuration, never |

*The argument.* The count of attempts is bounded through time: apart from
outages, each was made at a time of its own, after the request was mined and
before its round was final, and there are at most `Epoch + FinalWithin` such
times (`AttemptsTakeTime`). That a round is final in time (`FlareIsPrompt`) is
not assumed beside the model: the guard of `Tick` gives it. For the older handler,
`LegacyInv` looks at a call at the moment of each question (`WaitsFor`): a round no later
than that of the request which is not final yet was asked for before `Epoch + FinalWithin`
had passed, since the Relay has a round no later than the layer (`final \subseteq onRelay`)
and rounds end in their order; the answer is then at most `AnswerWithin` old when
the clock is looked at. What the layer has is asked for once, in the round of the configuration,
and only in the round of the request does it have a proof.

`PageProofs` proves, for any number of drafts, orders, readings, calls and
presses and with no assumption, `RegisteredAlwaysHeld` and `VouchedAlwaysHeld`:
what the page takes for registered is held by the operator, and so is what is
paid without a warning, except for a create while an order is being stopped,
which is the exception `page_onscreen` exhibits. *The argument* is about the last
call: once the effects have run it is the active instruction's (`LastIsActive`),
and "yes" is only ever said of it (`YesIsOfLast`), since an answer to an earlier
call does not count.

The second part of `InstructionsProofs` is arithmetic, for all numbers. `MintPrice`: the
parts of a quote add up and cover the cap (`QuoteAddsUp`); an old quote is enough unless
a fee has risen (`OldQuoteSuffices`); a payment cannot pass for a larger mint
(`PaymentIsExact`); a cancel costs fees only (`CancelCostsFeesOnly`). `MintLimits`: sliding a
window once or in steps is the same (`SlideComposes`); from the time the script names, the
mint fits (`RetryWillFit`); the printed headroom is exact (`HeadroomIsExact`). `History`: the
windows are wide enough for nothing to be refused, disjoint, and cover every block after
the earliest (`WindowsFit`, `WindowsAreDisjoint`, `WindowsCover`), but not the earliest itself,
which the page names as seen (`EarliestIsNotSeen`).

`DataLemmas` has what several proofs need: skipping elements of a list keeps the others,
once each and in order (`AtIndicesWalks`), and how a sum over a set changes with its members. The
induction rules of the library cannot be instantiated by the provers here; numbers and
finite sets are inducted over by a least counterexample instead, which is a statement
about a set (`NumberInduction`, `SetInduction`), and the sum of the community modules is shown to
be the one function with the expected recursion (`SumUnique`).

*Only model-checked:* liveness, which is out of the prover's reach (`KnownIsCarriedThrough` of
`Operator`, `DueIsServed` of `Keeper`), and what the refuted runs show. *Only proved:* what is
said of `Page` itself (but for `page_onscreen`), the arithmetic beyond the small inputs of
`Figures`, and `KeeperKeepsTheEngine`.

## 5. Not modelled

- Hashes, ABI packing, hex; gas beyond the guard of `executeBatch` (in `Execution`
  a call may run out of it anywhere); what the starved sub-calls of an instruction
  would do, which the doubled estimate avoids.
- In `Execution`: several executors, and a vault taken off the list meanwhile (the
  registry looks at the list when an order is created only); what else a vault's
  code may do to contracts that are not GiroLedger's.
- The count of transactions that all completions share, Merkle proofs, and the
  conversion between drops and XRP: in `Operator` the attestation is one step of a
  completion, which may fail for any reason.
- A page on which the address is edited between two resolves.
- Scripts that only read and print, and `simulateExecute.ts`, which simulates calls
  without sending them; rendering; logging; configuration, but for that of the rounds
  and of the keeper.

## 6. Plan

Written so far, in this order: the contracts and their abstract specification,
with proofs; instructions; keeper; operator; attestation, price, limits and
history, with proofs; the page, with proofs, and with the operator; the call stack
of an execution, with proofs; the older handler; what a client
computes first; then the proofs about instructions, operator and keeper, and what they
rest on.

All safety properties of the passing runs are proved. What is left:

1. That `Execution` refines the atomic step of `RuleEngine` for vaults that keep to
   ERC-4626.
2. That no step of a trimmed batch is refused for lack of gas when the keeper's budget
   covers the contract's.
3. `Delivery` with `Instructions`, up to the rule that exists, and with the count of
   transactions that completions share.
