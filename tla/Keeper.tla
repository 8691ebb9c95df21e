------------------------------- MODULE Keeper -------------------------------
(***************************************************************************)
(* The keeper (apps/keeper/src/index.ts, errors.ts, config.ts) against the *)
(* chain of RuleEngine.  A tick pages through the due rules, simulates,    *)
(* sends, reads the events and decides which rules to give up on; every    *)
(* RPC is a step of its own and the chain moves in between.  strikes and   *)
(* the quarantine are in memory: a restart forgets them.                   *)
(*                                                                         *)
(* config is the instance: the orders in the registry, what their accounts *)
(* hold, the keeper's gas ceiling, how tokens and vaults revert, and what  *)
(* disturbs it: other keepers, new orders, cancels, the owner's pause      *)
(* switch, top-ups, RPC failures, vaults that refuse deposits, restarts.   *)
(***************************************************************************)
EXTENDS RuleEngine, SequencesExt

CONSTANTS
    OurExecutor,       \* RULE_EXECUTOR_ADDRESS
    PageSize,          \* 100 in collectDue
    MaxBatchSize,      \* MAX_BATCH_SIZE
    MaxNoopStrikes,    \* MAX_NOOP_STRIKES
    GasPerRule,        \* GAS_PER_RULE of the keeper
    GasBatchOverhead,  \* GAS_BATCH_OVERHEAD
    InnerGas,          \* GAS_PER_RULE of RuleExecutor
    GasReserve,        \* GAS_RESERVE of RuleExecutor
    Configs            \* the instances, see Config

Kinds == {"others", "create", "cancel", "owner", "topup", "network", "vault", "restart"}

Config ==
    [orders:       Seq(Accounts \X {p \in CreateRuleParams : ValidParams(p)}),
     funds:        [Accounts -> Nat],
     allowances:   [Accounts -> Nat],
     maxTxGas:     Nat,       \* MAX_TX_GAS
     stringErrors: BOOLEAN,   \* tokens and vaults revert with Error(string)
     disturbances: SUBSET Kinds]

ASSUME KeeperAssumption ==
    /\ OurExecutor \in Executors
    /\ PageSize \in Nat \ {0}
    /\ MaxBatchSize \in 1..MaxBatch
    /\ MaxNoopStrikes \in Nat \ {0}
    /\ {GasPerRule, GasBatchOverhead, InnerGas, GasReserve} \subseteq Nat
    /\ GasPerRule > 0
    /\ Configs \subseteq Config

VARIABLES
    quarantine,  \* the map quarantine: rule id |-> reason
    strikes,     \* the map noopStrikes; 0 for an id it does not hold
    tick,        \* the tick under way
    noops,       \* history: rule id |-> batches with a receipt and no deposit of it,
                 \* since the last receipt with one
    config       \* the instance, never changed

keeperVars == <<quarantine, strikes, tick, noops, config>>
allVars    == <<vars, keeperVars>>

Asleep == [pc |-> "sleep", offset |-> 0, due |-> <<>>, left |-> <<>>,
           deposited |-> {}, wasDue |-> {}]

Orders == config.orders
Disturbances == config.disturbances

Placed(i) == <<Orders[i][1], Cardinality({j \in 1..(i - 1) : Orders[j][1] = Orders[i][1]})>>

KeeperInit ==
    LET ids == [i \in 1..Len(Orders) |-> Placed(i)]
        Nth(id) == CHOOSE i \in 1..Len(Orders) : ids[i] = id
    IN  /\ config \in Configs
        /\ rules = [id \in {ids[i] : i \in 1..Len(Orders)} |->
                      NewRule(id[1], Orders[Nth(id)][2], 1)]
        /\ book = [id \in DOMAIN rules |-> NewEntry(rules[id].nextRunAt)]
        /\ nonces = [a \in Accounts |-> Cardinality({id \in DOMAIN rules : id[1] = a})]
        /\ allRuleIds = ids
        /\ vaultAllowed = Vaults
        /\ executor = OurExecutor
        /\ paused = {}
        /\ batch = <<>>
        /\ balance = config.funds
        /\ allowance = [a \in Accounts |-> [e \in Executors |-> config.allowances[a]]]
        /\ position = [a \in Accounts |-> [v \in Vaults |-> 0]]
        /\ now = 1
        /\ quarantine = [id \in {} |-> ""]
        /\ strikes = [id \in DOMAIN rules |-> 0]
        /\ noops = [id \in DOMAIN rules |-> 0]
        /\ tick = Asleep

-----------------------------------------------------------------------------
(* errors.ts *)

\* What execute(id), simulated now, may throw.
SimErrors(id) ==
    (IF OurExecutor \in paused THEN {"IsPaused"}
     ELSE IF ~MarkAccepted(OurExecutor, id) THEN {"registry"}
     ELSE IF ~TransferAccepted(OurExecutor, id) THEN {"token"}
     ELSE IF "vault" \in Disturbances THEN {"vault"} ELSE {})
    \cup (IF "network" \in Disturbances THEN {"network"} ELSE {})

Runnable(id) ==
    /\ OurExecutor \notin paused
    /\ MarkAccepted(OurExecutor, id)
    /\ TransferAccepted(OurExecutor, id)

\* The name viem finds for an error: it is given the ABI of RuleExecutor, which
\* knows IsPaused but no error of the registry, the token or the vault; the
\* built-in Error(string) is called "Error".
RevertName(err) ==
    IF err = "IsPaused" THEN "IsPaused"
    ELSE IF err \in {"token", "vault"} /\ config.stringErrors THEN "Error" ELSE "none"

\* A name on neither list is permanent; no name is transient.
Classify(err) ==
    IF RevertName(err) \in {"IsPaused", "none"} THEN "transient" ELSE "permanent"

-----------------------------------------------------------------------------
(* Strikes and quarantine *)

Quarantined(q, ids, reason) ==
    [id \in DOMAIN q \cup ids |-> IF id \in ids THEN reason ELSE q[id]]

\* Bug: one strike too many.
OutAfter(n) == n > MaxNoopStrikes

\* A rule with n strikes is given up.
Out(n) == n >= MaxNoopStrikes

\* strike(id, reason), for each of some ids.
Strike(ids, reason) ==
    LET n(id) == strikes[id] + 1
    IN  /\ strikes' = [id \in Ids |-> IF id \in ids THEN n(id) ELSE strikes[id]]
        /\ quarantine' = Quarantined(quarantine, {id \in ids : Out(n(id))}, reason)

-----------------------------------------------------------------------------
(* A tick *)

Goto(pc) == tick' = [tick EXCEPT !.pc = pc]
Sleep == tick' = Asleep
ChainStays == UNCHANGED vars

StillDue(ids) == {id \in ids : IsDue(rules[id], now)}

Wake ==
    /\ tick.pc = "sleep"
    /\ tick' = [Asleep EXCEPT !.pc = "scan", !.wasDue = StillDue(Ids \ DOMAIN quarantine)]
    /\ ChainStays /\ UNCHANGED <<quarantine, strikes, noops>>

\* Bug: the next page starts one rule late.
NextOffsetLate(page) == page.nextOffset + 1

\* Where collectDue reads its next page.
NextOffset(page) == page.nextOffset

\* collectDue leaves out what is in quarantine.
Skipped(id) == id \in DOMAIN quarantine

\* One page of collectDue: dueRules, then totalRules.
ScanPage ==
    LET page == DueRules(tick.offset, PageSize)
        out  == tick.due \o Those(page.ids, {id \in Ids : ~Skipped(id)})
        next == NextOffset(page)
    IN  /\ tick.pc = "scan"
        /\ tick' = IF Len(out) >= MaxBatchSize
                   THEN [tick EXCEPT !.pc = "plan", !.due = SubSeq(out, 1, MaxBatchSize)]
                   ELSE [tick EXCEPT !.pc = IF next <= tick.offset \/ next >= Len(allRuleIds)
                                            THEN "plan" ELSE "scan",
                                     !.due = out, !.offset = next]
        /\ ChainStays /\ UNCHANGED <<quarantine, strikes, noops>>

\* What fits into one transaction, but at least one.
MaxByGas == (config.maxTxGas - GasBatchOverhead) \div GasPerRule

\* Bug: no rule at all when the ceiling is below one rule's budget.
TrimmedToNothing(due) == IF Len(due) > MaxByGas THEN SubSeq(due, 1, MaxByGas) ELSE due

Trimmed(due) ==
    IF Len(due) > MaxByGas
    THEN SubSeq(due, 1, IF MaxByGas > 1 THEN MaxByGas ELSE 1) ELSE due

Plan ==
    /\ tick.pc = "plan"
    /\ IF tick.due = <<>> THEN Sleep
       ELSE LET due == Trimmed(tick.due)
            IN  tick' = [tick EXCEPT !.due = due,
                                     !.pc = IF Len(due) = 1 THEN "one" ELSE "many"]
    /\ ChainStays /\ UNCHANGED <<quarantine, strikes, noops>>

\* A read that is not caught fails, and with it the tick.
TickFails ==
    /\ "network" \in Disturbances
    /\ tick.pc # "sleep"
    /\ Sleep
    /\ ChainStays /\ UNCHANGED <<quarantine, strikes, noops>>

-----------------------------------------------------------------------------
(* One rule due: executeSingle *)

SimulateOne ==
    LET id == tick.due[1]
    IN  /\ tick.pc = "one"
        /\ \/ /\ Runnable(id)
              /\ Goto("sendOne")
              /\ UNCHANGED <<quarantine, strikes, noops>>
           \/ \E err \in SimErrors(id) :
                /\ IF Classify(err) = "permanent"
                   THEN quarantine' = Quarantined(quarantine, {id}, err) /\ UNCHANGED strikes
                   ELSE Strike({id}, err)
                /\ Sleep
                /\ UNCHANGED noops
        /\ ChainStays

SendOne ==
    LET id == tick.due[1]
    IN  /\ tick.pc = "sendOne"
        /\ Sleep
        /\ UNCHANGED quarantine
        /\ \/ /\ Execute(OurExecutor, id)
              /\ strikes' = [strikes EXCEPT ![id] = 0]
              /\ noops' = [noops EXCEPT ![id] = 0]
           \* it succeeds, but its receipt never arrives: throw
           \/ /\ "network" \in Disturbances
              /\ Execute(OurExecutor, id)
              /\ UNCHANGED <<strikes, noops>>
           \* it reverts on chain: throw
           \/ /\ ~Runnable(id) \/ "vault" \in Disturbances
              /\ ChainStays
              /\ UNCHANGED <<strikes, noops>>

-----------------------------------------------------------------------------
(* Several rules due: executeBatch *)

\* Bug: the budget is the contract's cap on the inner calls and nothing else.
BatchGasStarved(n) == n * InnerGas

\* The gas of a batch of n rules.
BatchGas(n) == n * GasPerRule + GasBatchOverhead

\* executeBatch reverts when less than InnerGas and the reserve are left before
\* an iteration; each earlier one has used between nothing and InnerGas.
MayStarve(n) == BatchGas(n) < n * InnerGas + GasReserve
MustStarve(n) == BatchGas(n) < InnerGas + GasReserve

SimulateMany ==
    LET ids == ToSet(tick.due)
    IN  /\ tick.pc = "many"
        /\ ChainStays
        \* simulateContract throws
        /\ \/ /\ OurExecutor \in paused \/ MayStarve(Len(tick.due))
              /\ Sleep
              /\ UNCHANGED <<quarantine, strikes, noops>>
           \/ /\ OurExecutor \notin paused /\ ~MustStarve(Len(tick.due))
              /\ \/ /\ \E id \in ids : Runnable(id)
                    /\ Goto("sendMany")
                    /\ UNCHANGED <<quarantine, strikes, noops>>
                 \* succeeded = 0: do not send
                 \/ /\ (\A id \in ids : ~Runnable(id)) \/ "vault" \in Disturbances
                    /\ Strike(ids, "noop")
                    /\ UNCHANGED noops
                    /\ tick' = [tick EXCEPT !.pc = "check", !.left = tick.due]

SendMany ==
    /\ tick.pc = "sendMany"
    /\ UNCHANGED <<quarantine, strikes, noops>>
    /\ \/ ExecuteBatch(OurExecutor, tick.due) /\ Goto("mined")
       \* it reverts on chain: throw
       \/ /\ OurExecutor \in paused \/ MayStarve(Len(tick.due))
          /\ Sleep
          /\ ChainStays

\* The batch runs in one transaction; nothing else moves until it is through.
BatchStep ==
    /\ \/ LET id == Head(batch)[2]
          IN  /\ BatchRuns
              /\ tick' = IF tick.pc = "mined"
                         THEN [tick EXCEPT !.deposited = @ \cup {id}] ELSE tick
       \/ /\ BatchSkips
          /\ ~Runnable(Head(batch)[2]) \/ "vault" \in Disturbances
          /\ UNCHANGED tick
    /\ UNCHANGED <<quarantine, strikes, noops>>

\* The receipt: the events tell which rules made a deposit.
Receipt ==
    LET struck == ToSet(tick.due) \ tick.deposited
        Counting(f) == [id \in Ids |-> IF id \in tick.deposited THEN 0
                                       ELSE IF id \in struck THEN f[id] + 1 ELSE f[id]]
    IN  /\ tick.pc = "mined"
        /\ Idle
        /\ quarantine' = Quarantined(quarantine, {id \in struck : Out(strikes[id] + 1)}, "noop")
        /\ strikes' = Counting(strikes)
        /\ noops' = Counting(noops)
        /\ tick' = IF struck = {} THEN Asleep
                   ELSE [tick EXCEPT !.pc = "check",
                                     !.left = Those(tick.due, struck)]
        /\ ChainStays

\* quarantineStillDue, one rule of it: isDue, then a simulation.
CheckOne ==
    LET id == Head(tick.left)
    IN  /\ tick.pc = "check"
        /\ \/ /\ ~IsDue(rules[id], now) \/ Runnable(id)
              /\ UNCHANGED quarantine
           \/ \E err \in SimErrors(id) :
                /\ IsDue(rules[id], now)
                /\ quarantine' = IF Classify(err) = "permanent"
                                 THEN Quarantined(quarantine, {id}, err) ELSE quarantine
        /\ tick' = IF Len(tick.left) = 1 THEN Asleep ELSE [tick EXCEPT !.left = Tail(@)]
        /\ ChainStays /\ UNCHANGED <<strikes, noops>>

Restart ==
    /\ "restart" \in Disturbances
    /\ quarantine' = [id \in {} |-> ""]
    /\ strikes' = [id \in Ids |-> 0]
    /\ noops' = [id \in Ids |-> 0]
    /\ Sleep
    /\ ChainStays

-----------------------------------------------------------------------------
\* The rest of the world; a rule that stops being due during a scan is no
\* longer one the scan must find.
World ==
    /\ \/ "others" \in Disturbances /\ \E id \in Ids : Execute(OurExecutor, id)
       \/ "cancel" \in Disturbances /\ \E id \in Ids : CancelRule(rules[id].account, id)
       \/ "owner" \in Disturbances /\ \E value \in BOOLEAN : SetPaused(OurExecutor, value)
       \/ "topup" \in Disturbances /\ \E a \in Accounts, x \in MintAmounts : Mint(a, x)
       \/ Tick
    /\ tick' = [tick EXCEPT !.wasDue = {id \in @ : IsDue(rules[id], now)'}]
    /\ UNCHANGED <<quarantine, strikes, noops>>

\* The list grows under a scan; the keeper's memory has nothing of a new rule.
RuleCreated ==
    LET Grown(f) == [id \in Ids' |-> IF id \in Ids THEN f[id] ELSE 0]
    IN  /\ "create" \in Disturbances
        /\ \E a \in Accounts, p \in ParamChoices : CreateRule(a, p)
        /\ strikes' = Grown(strikes) /\ noops' = Grown(noops)
        /\ UNCHANGED <<quarantine, tick>>

\* The keeper sees the chain between transactions.
TickStep ==
    /\ \/ Idle /\ \/ Wake \/ ScanPage \/ Plan
                  \/ SimulateOne \/ SendOne
                  \/ SimulateMany \/ SendMany \/ Receipt \/ CheckOne
       \/ BatchStep
    /\ UNCHANGED config

KeeperNext ==
    \/ TickStep
    \/ (TickFails \/ Restart \/ World \/ RuleCreated) /\ UNCHANGED config

KeeperSpec == KeeperInit /\ [][KeeperNext]_allVars

\* The keeper's loop does not stop.
FairSpec == KeeperSpec /\ WF_allVars(TickStep)

-----------------------------------------------------------------------------
(* Properties *)

KeeperTypeOK ==
    /\ DOMAIN quarantine \subseteq Ids
    /\ strikes \in [Ids -> Nat]
    /\ noops \in [Ids -> Nat] /\ config \in Configs
    /\ ToSet(tick.due) \subseteq Ids /\ Len(tick.due) <= MaxBatchSize
    /\ ToSet(tick.left) \subseteq ToSet(tick.due) /\ tick.deposited \subseteq ToSet(tick.due)
    /\ tick.pc \in {"one", "sendOne"} => Len(tick.due) = 1
    /\ tick.pc \in {"many", "sendMany", "mined"} => Len(tick.due) > 1
    /\ tick.pc = "check" => tick.left # <<>>

\* index.ts:39-51: between restarts a rule is put into at most MAX_NOOP_STRIKES
\* batches without a deposit of its own in between, whatever pauses, races,
\* failing reads and single attempts happen meanwhile, and is then out.
BatchNoopsBounded ==
    \A id \in Ids :
        /\ noops[id] <= MaxNoopStrikes
        /\ noops[id] = MaxNoopStrikes => id \in DOMAIN quarantine

\* collectDue: when a scan ends, it holds each rule that was due from its
\* beginning and is not quarantined, unless it holds a full batch; and no rule
\* twice, which would be run once and struck once.
ScanMissesNothing ==
    tick.pc = "plan" =>
        /\ tick.wasDue \subseteq ToSet(tick.due) \/ Len(tick.due) = MaxBatchSize
        /\ Cardinality(ToSet(tick.due)) = Len(tick.due)

\* The last rule of the registry is run when it can, however many rules stand
\* before it, dead or alive, and however small the batch (index.ts:39-43,
\* 130-136), as long as nothing but a cancel disturbs the keeper.
DueIsServed ==
    LET last == Placed(Len(Orders))
    IN  (Disturbances \subseteq {"cancel"} /\ Runnable(last)) ~> ~Runnable(last)

-----------------------------------------------------------------------------
(* The inductive invariant behind the first three *)

Ticks ==
    [pc: {"sleep", "scan", "plan", "one", "sendOne", "many", "sendMany", "mined", "check"},
     offset: Nat, due: Seq(Ids), left: Seq(Ids), deposited: SUBSET Ids, wasDue: SUBSET Ids]

\* No id twice.
Distinct(s) == \A i, j \in DOMAIN s : s[i] = s[j] => i = j

\* The registry lists each of its rules once.
ListOK == allRuleIds \in Seq(Ids) /\ ToSet(allRuleIds) = Ids /\ Distinct(allRuleIds)

\* A batch runs while the keeper waits for it, or after the tick was given up;
\* what the keeper waits for is its own.
BatchOK ==
    /\ batch \in Seq(Executors \X Ids)
    /\ batch # <<>> => tick.pc \in {"mined", "sleep"}
    /\ tick.pc = "mined" => \A i \in DOMAIN batch : batch[i][2] \in ToSet(tick.due)

\* Nothing that was given up is tried, and a batch without a deposit is a strike.
StrikesOK ==
    /\ tick.pc \notin {"sleep", "check"} => ToSet(tick.due) \cap DOMAIN quarantine = {}
    /\ \A id \in Ids : noops[id] <= strikes[id]

\* The pages read so far: what they held of the rules that are still to be found
\* is among the rules found, and these are all from those pages.
ScanOK ==
    /\ Distinct(tick.due)
    /\ tick.pc \notin {"mined", "check"} => tick.left = <<>> /\ tick.deposited = {}
    /\ tick.pc = "scan" =>
          /\ Len(tick.due) < MaxBatchSize
          /\ \A id \in tick.wasDue : IsDue(rules[id], now) /\ id \notin DOMAIN quarantine
          /\ \A i \in DOMAIN allRuleIds :
                IF i <= tick.offset
                THEN allRuleIds[i] \in tick.wasDue => allRuleIds[i] \in ToSet(tick.due)
                ELSE allRuleIds[i] \notin ToSet(tick.due)
    /\ tick.pc = "plan" => tick.wasDue \subseteq ToSet(tick.due) \/ Len(tick.due) = MaxBatchSize

KeeperInv ==
    /\ KeeperTypeOK /\ tick \in Ticks /\ ListOK /\ BatchOK
    /\ StrikesOK /\ BatchNoopsBounded /\ ScanOK

-----------------------------------------------------------------------------
(* What the documentation says and the code does not do *)

\* errors.ts:7: a temporary pause or a network failure is retried next tick,
\* never a reason to give a rule up.
TransientNeverQuarantines ==
    \A id \in DOMAIN quarantine : quarantine[id] \notin {"IsPaused", "network"}
=============================================================================
