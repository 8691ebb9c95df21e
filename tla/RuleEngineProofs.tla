-------------------------- MODULE RuleEngineProofs --------------------------
(***************************************************************************)
(* Proofs about RuleEngine, for every value of its constants.              *)
(***************************************************************************)
EXTENDS RuleEngine, TLAPS

\* Every step changes nothing, or is one of the actions with its argument.
LEMMA StepCases ==
    ASSUME [Next]_vars
    PROVE  \/ UNCHANGED vars
           \/ \E e \in Executors : SetExecutor(e)
           \/ \E v \in Vaults, allowed \in BOOLEAN : SetVaultAllowed(v, allowed)
           \/ \E e \in Executors, value \in BOOLEAN : SetPaused(e, value)
           \/ \E a \in Accounts, p \in CreateRuleParams : CreateRule(a, p)
           \/ \E a \in Accounts, id \in Ids : CancelRule(a, id)
           \/ \E a \in Accounts, x \in Nat : Mint(a, x)
           \/ \E a \in Accounts, e \in Executors, x \in Nat : Approve(a, e, x)
           \/ \E e \in Executors, id \in Ids : Execute(e, id)
           \/ \E e \in Executors, n \in Nat : \E ids \in [1..n -> Ids] :
                 ExecuteBatch(e, ids)
           \/ BatchRuns
           \/ BatchSkips
           \/ Tick
  BY EngineAssumption DEF Next, OwnerNext, AccountNext, ExecutorNext

-----------------------------------------------------------------------------
(* Orders and their history *)

LEMMA NewConsistent ==
    ASSUME NEW a \in Accounts, NEW p \in CreateRuleParams, NEW t \in Nat, ValidParams(p)
    PROVE  /\ NewRule(a, p, t) \in Rule
           /\ NewEntry(FirstRunAt(p, t)) \in Entry
           /\ Consistent(NewRule(a, p, t), NewEntry(FirstRunAt(p, t)))
  <1>1. FirstRunAt(p, t) \in Nat
    BY DEF FirstRunAt, CreateRuleParams
  <1>2. NewRule(a, p, t) \in Rule
    BY <1>1, RunsModulusAssumption DEF NewRule, Rule, CreateRuleParams, Trigger
  <1>3. NewEntry(FirstRunAt(p, t)) \in Entry
    BY <1>1 DEF NewEntry, Entry
  <1>4. Consistent(NewRule(a, p, t), NewEntry(FirstRunAt(p, t)))
    BY <1>1, IntervalAssumption
    DEF Consistent, NewRule, NewEntry, ValidParams, IsExhausted, CreateRuleParams
  <1> QED BY <1>2, <1>3, <1>4

LEMMA StoppedConsistent ==
    ASSUME NEW r \in Rule, NEW b \in Entry, Consistent(r, b)
    PROVE  /\ [r EXCEPT !.active = FALSE] \in Rule
           /\ StoppedEntry(b, r.active) \in Entry
           /\ Consistent([r EXCEPT !.active = FALSE], StoppedEntry(b, r.active))
  BY DEF StoppedEntry, Consistent, IsExhausted, Rule, Entry

LEMMA Distributes == ASSUME NEW x \in Nat, NEW y \in Nat PROVE (x + 1) * y = x * y + y
  OBVIOUS

LEMMA PaidConsistent ==
    ASSUME NEW r \in Rule, NEW b \in Entry, NEW t \in Nat, Consistent(r, b), IsDue(r, t)
    PROVE  /\ MarkedExecuted(r, t) \in Rule
           /\ PaidEntry(b, r.amountPerRun, t) \in Entry
           /\ Consistent(MarkedExecuted(r, t), PaidEntry(b, r.amountPerRun, t))
  <1> DEFINE c == PaidEntry(b, r.amountPerRun, t)
  <1> DEFINE m == Counted(r, t)
  <1>0. /\ b.runs \in Nat /\ b.runs + 1 \in Nat /\ r.amountPerRun \in Nat
        /\ b.paid + r.amountPerRun \in Nat /\ r.totalSpent + r.amountPerRun \in Nat
        /\ t + r.intervalSecs \in Nat
    BY DEF Entry, Rule
  <1>1. /\ c \in Entry
        /\ c.startAt = b.startAt /\ c.runs = b.runs + 1
        /\ c.paid = b.paid + r.amountPerRun /\ c.lastAt = t /\ c.stopped = b.stopped
    <2>1. c \in Entry
      BY <1>0 DEF Entry, PaidEntry
    <2>2. c.startAt = b.startAt /\ c.runs = b.runs + 1
      BY DEF Entry, PaidEntry
    <2>3. c.paid = b.paid + r.amountPerRun
      BY DEF Entry, PaidEntry
    <2>4. c.lastAt = t /\ c.stopped = b.stopped
      BY DEF Entry, PaidEntry
    <2> QED BY <2>1, <2>2, <2>3, <2>4
  <1>2. (r.runsDone + 1) % RunsModulus \in 0..(RunsModulus - 1)
    BY RunsModulusAssumption DEF Rule
  <1>3. /\ m \in Rule
        /\ m.amountPerRun = r.amountPerRun /\ m.totalSpendCap = r.totalSpendCap
        /\ m.totalSpent = r.totalSpent + r.amountPerRun
        /\ m.nextRunAt = t + r.intervalSecs /\ m.intervalSecs = r.intervalSecs
        /\ m.maxRuns = r.maxRuns /\ m.runsDone = (r.runsDone + 1) % RunsModulus
        /\ m.trigger = r.trigger /\ m.active = r.active
    <2>1. m \in Rule
      BY <1>0, <1>2 DEF Counted, Rule
    <2>2. m.amountPerRun = r.amountPerRun /\ m.totalSpendCap = r.totalSpendCap
      BY DEF Counted, Rule
    <2>3. m.totalSpent = r.totalSpent + r.amountPerRun
      BY DEF Counted, Rule
    <2>4. m.nextRunAt = t + r.intervalSecs /\ m.intervalSecs = r.intervalSecs
      BY DEF Counted, Rule
    <2>5. m.maxRuns = r.maxRuns /\ m.runsDone = (r.runsDone + 1) % RunsModulus
      BY DEF Counted, Rule
    <2>6. m.trigger = r.trigger /\ m.active = r.active
      BY DEF Counted, Rule
    <2> QED BY <2>1, <2>2, <2>3, <2>4, <2>5, <2>6
  <1> DEFINE x == MarkedExecuted(r, t)
  <1>4. IsExhausted(m) \in BOOLEAN
    BY DEF IsExhausted
  <1>5. /\ x \in Rule
        /\ x.amountPerRun = r.amountPerRun /\ x.totalSpendCap = r.totalSpendCap
        /\ x.totalSpent = r.totalSpent + r.amountPerRun
        /\ x.nextRunAt = t + r.intervalSecs /\ x.intervalSecs = r.intervalSecs
        /\ x.maxRuns = r.maxRuns /\ x.runsDone = (r.runsDone + 1) % RunsModulus
        /\ x.trigger = r.trigger /\ x.active = (r.active /\ ~IsExhausted(m))
    BY <1>3, <1>4 DEF MarkedExecuted, Rule
  <1>6. IsExhausted(x) = IsExhausted(m)
    BY <1>3, <1>5 DEF IsExhausted
  <1>7. ASSUME r.maxRuns # 0 PROVE x.runsDone = c.runs /\ c.runs <= r.maxRuns
    <2>1. r.runsDone < r.maxRuns /\ r.maxRuns < RunsModulus /\ b.runs = r.runsDone
      BY <1>7, RunsModulusAssumption DEF IsDue, IsExhausted, Consistent, Rule
    <2>2. (r.runsDone + 1) % RunsModulus = r.runsDone + 1
      BY <2>1, RunsModulusAssumption DEF Rule
    <2> QED
      BY <1>1, <1>5, <2>1, <2>2 DEF Rule
  <1>8. c.paid = c.runs * r.amountPerRun
    <2>1. b.paid = b.runs * r.amountPerRun /\ b.runs \in Nat /\ r.amountPerRun \in Nat
      BY DEF Consistent, Entry, Rule
    <2>2. (b.runs + 1) * r.amountPerRun = b.runs * r.amountPerRun + r.amountPerRun
      BY <2>1, Distributes
    <2> QED BY <1>1, <2>1, <2>2
  <1>9. c.paid = x.totalSpent /\ c.paid <= x.totalSpendCap
    <2>1. b.paid = r.totalSpent
      BY DEF Consistent
    <2>2. ~(r.totalSpent + r.amountPerRun > r.totalSpendCap)
      BY DEF IsDue, IsExhausted
    <2>3. r.totalSpendCap \in Nat
      BY DEF Rule
    <2> HIDE DEF x, c
    <2> QED BY <1>0, <1>1, <1>5, <2>1, <2>2, <2>3
  <1>10. x.active <=> ~c.stopped /\ ~IsExhausted(x)
    BY <1>1, <1>5, <1>6 DEF Consistent, IsDue
  <1>11. ~c.stopped
    BY <1>1 DEF Consistent, IsDue
  <1>12. x.nextRunAt = IF c.runs = 0 THEN c.startAt ELSE c.lastAt + x.intervalSecs
    BY <1>1, <1>5 DEF Entry
  <1>13. Consistent(x, c)
    BY <1>5, <1>7, <1>8, <1>9, <1>10, <1>11, <1>12 DEF Consistent
  <1> QED
    BY <1>1, <1>5, <1>13

-----------------------------------------------------------------------------
(* The inductive invariant, action by action *)

LEMMA InitInv == Init => EngineInv
  BY DEF Init, Fresh, EngineInv, TypeOK, IdsAreSpent, Ids, RuleId, Entry

\* setExecutor, setVaultAllowed, setPaused, executeBatch's entry and its skips,
\* mint, approve and the clock leave the orders alone.
LEMMA FrameStep ==
    ASSUME EngineInv, TypeOK', UNCHANGED <<rules, nonces, book>>
    PROVE  EngineInv'
  BY DEF EngineInv, IdsAreSpent, Ids

\* The token is typed: what it does beside the registry's writes.
TokenOK ==
    /\ balance \in [Accounts -> Nat]
    /\ allowance \in [Accounts -> [Executors -> Nat]]
    /\ position \in [Accounts -> [Vaults -> Nat]]

\* The writes of createRule, in a transaction of the account's own or in an
\* instruction of it.
LEMMA CreateWrites ==
    ASSUME EngineInv, NEW a \in Accounts, NEW p \in CreateRuleParams, DoCreateRule(a, p),
           TokenOK', UNCHANGED <<vaultAllowed, executor, paused, batch, now>>
    PROVE  EngineInv' /\ <<a, nonces[a]>> \notin Ids
  <1> DEFINE new == <<a, nonces[a]>>
  <1> USE DEF DoCreateRule
  <1>1. new \in RuleId /\ nonces[a] \in Nat /\ now \in Nat
    BY DEF EngineInv, TypeOK, RuleId
  <1>2. Ids' = Ids \cup {new}
    BY DEF Ids
  <1>3. new \notin Ids
    <2> SUFFICES ASSUME new \in Ids PROVE FALSE
      OBVIOUS
    <2>1. new[1] = a /\ new[2] = nonces[a]
      OBVIOUS
    <2>2. new[2] < nonces[new[1]]
      BY DEF EngineInv, IdsAreSpent
    <2> QED BY <1>1, <2>1, <2>2
  <1>4. /\ rules'[new] = NewRule(a, p, now)
        /\ book'[new] = NewEntry(FirstRunAt(p, now))
    BY <1>3
  <1>5. \A id \in Ids : rules'[id] = rules[id] /\ book'[id] = book[id]
    BY <1>3
  <1>6. /\ rules'[new] \in Rule /\ book'[new] \in Entry
        /\ Consistent(rules'[new], book'[new])
    BY <1>1, <1>4, NewConsistent
  <1>7. rules' \in [Ids' -> Rule] /\ book' \in [Ids' -> Entry]
    <2>1. \A id \in Ids : rules[id] \in Rule /\ book[id] \in Entry
      BY DEF EngineInv, TypeOK
    <2>2. \A id \in Ids' : rules'[id] \in Rule /\ book'[id] \in Entry
      BY <1>2, <1>5, <1>6, <2>1
    <2> QED BY <1>2, <2>2
  <1>8. allRuleIds' \in Seq(Ids')
    <2>1. allRuleIds \in Seq(Ids')
      BY <1>2 DEF EngineInv, TypeOK
    <2> QED BY <1>2, <2>1
  <1>9. nonces' \in [Accounts -> Nat]
    BY DEF EngineInv, TypeOK
  <1>10. TypeOK'
    BY <1>1, <1>2, <1>7, <1>8, <1>9 DEF EngineInv, TypeOK, TokenOK
  <1>11. IdsAreSpent'
    <2> SUFFICES ASSUME NEW id \in Ids'
                 PROVE  id[1] = rules'[id].account /\ id[2] < nonces'[id[1]]
      BY DEF IdsAreSpent
    <2>1. CASE id \in Ids
      <3>1. id[1] = rules[id].account /\ id[2] < nonces[id[1]]
        BY <2>1 DEF EngineInv, IdsAreSpent
      <3>2. id[1] \in Accounts /\ id[2] \in Nat
        BY <2>1 DEF EngineInv, TypeOK, RuleId
      <3>3. nonces'[id[1]] = nonces[id[1]] \/ nonces'[id[1]] = nonces[id[1]] + 1
        BY <3>2 DEF EngineInv, TypeOK
      <3>4. nonces[id[1]] \in Nat
        BY <3>2 DEF EngineInv, TypeOK
      <3> QED BY <2>1, <1>5, <3>1, <3>2, <3>3, <3>4
    <2>2. CASE id = new
      <3>1. id[1] = a /\ id[2] = nonces[a] /\ nonces'[a] = nonces[a] + 1
        BY <2>2 DEF EngineInv, TypeOK
      <3>2. rules'[id].account = a
        BY <2>2, <1>4 DEF NewRule
      <3> QED BY <3>1, <3>2, <1>1
    <2> QED BY <1>2, <2>1, <2>2
  <1>12. ASSUME NEW id \in Ids' PROVE Consistent(rules'[id], book'[id])
    BY <1>2, <1>5, <1>6 DEF EngineInv
  <1> HIDE DEF DoCreateRule
  <1> QED
    BY <1>3, <1>10, <1>11, <1>12 DEF EngineInv

LEMMA CreateStep ==
    ASSUME EngineInv, NEW a \in Accounts, NEW p \in CreateRuleParams, CreateRule(a, p)
    PROVE  EngineInv' /\ <<a, nonces[a]>> \notin Ids
  BY CreateWrites DEF CreateRule, TokenOK, EngineInv, TypeOK, tokenVars

LEMMA CancelWrites ==
    ASSUME EngineInv, NEW a \in Accounts, NEW c \in Ids, DoCancelRule(a, c), TokenOK',
           UNCHANGED <<nonces, allRuleIds, vaultAllowed, executor, paused, batch, now>>
    PROVE  EngineInv'
  <1> DEFINE r == [rules[c] EXCEPT !.active = FALSE]
  <1> DEFINE b == StoppedEntry(book[c], rules[c].active)
  <1>1. rules' = [rules EXCEPT ![c] = r] /\ book' = [book EXCEPT ![c] = b]
    BY DEF DoCancelRule
  <1>2. rules[c] \in Rule /\ book[c] \in Entry /\ Consistent(rules[c], book[c])
    BY DEF EngineInv, TypeOK
  <1>3. r \in Rule /\ b \in Entry /\ Consistent(r, b) /\ r.account = rules[c].account
    BY <1>2, StoppedConsistent DEF Rule
  <1> HIDE DEF r, b
  <1>4. Ids' = Ids
    BY <1>1 DEF EngineInv, TypeOK, Ids
  <1>5. rules' \in [Ids' -> Rule] /\ book' \in [Ids' -> Entry]
    BY <1>1, <1>3, <1>4 DEF EngineInv, TypeOK
  <1>6. TypeOK'
    BY <1>4, <1>5 DEF EngineInv, TypeOK, TokenOK
  <1>7. \A id \in Ids : /\ rules'[id] = IF id = c THEN r ELSE rules[id]
                        /\ book'[id] = IF id = c THEN b ELSE book[id]
    BY <1>1 DEF EngineInv, TypeOK
  <1>8. IdsAreSpent'
    BY <1>3, <1>4, <1>7 DEF EngineInv, IdsAreSpent
  <1>9. \A id \in Ids' : Consistent(rules'[id], book'[id])
    BY <1>3, <1>4, <1>7 DEF EngineInv
  <1> QED
    BY <1>6, <1>8, <1>9 DEF EngineInv

LEMMA CancelStep ==
    ASSUME EngineInv, NEW a \in Accounts, NEW c \in Ids, CancelRule(a, c)
    PROVE  EngineInv'
  BY CancelWrites DEF CancelRule, TokenOK, EngineInv, TypeOK, tokenVars

\* A run, alone or in a batch.
LEMMA ExecuteStep ==
    ASSUME EngineInv, NEW e \in Executors, NEW c, DoExecute(e, c),
           batch' \in Seq(Executors \X RuleId),
           UNCHANGED <<nonces, allRuleIds, vaultAllowed, executor, paused, now>>
    PROVE  EngineInv'
  <1> DEFINE r == MarkedExecuted(rules[c], now)
  <1> DEFINE b == PaidEntry(book[c], rules[c].amountPerRun, now)
  <1>1. rules' = [rules EXCEPT ![c] = r] /\ book' = [book EXCEPT ![c] = b]
    BY DEF DoExecute
  <1>2. /\ c \in Ids /\ now \in Nat /\ IsDue(rules[c], now)
        /\ rules[c] \in Rule /\ book[c] \in Entry /\ Consistent(rules[c], book[c])
    BY DEF DoExecute, MarkAccepted, EngineInv, TypeOK
  <1>3. r \in Rule /\ b \in Entry /\ Consistent(r, b)
    BY <1>2, PaidConsistent
  <1>4. r.account = rules[c].account
    BY <1>2 DEF MarkedExecuted, Counted, Rule
  <1> HIDE DEF r, b
  <1>5. Ids' = Ids
    BY <1>1 DEF EngineInv, TypeOK, Ids
  <1>6. rules' \in [Ids' -> Rule] /\ book' \in [Ids' -> Entry]
    BY <1>1, <1>2, <1>3, <1>5 DEF EngineInv, TypeOK
  <1>7. /\ balance' \in [Accounts -> Nat]
        /\ allowance' \in [Accounts -> [Executors -> Nat]]
        /\ position' \in [Accounts -> [Vaults -> Nat]]
    <2> DEFINE acc == rules[c].account
    <2> DEFINE amt == rules[c].amountPerRun
    <2> DEFINE v == rules[c].vault
    <2>1. acc \in Accounts /\ amt \in Nat /\ v \in Vaults
      BY <1>2 DEF Rule
    <2>2. /\ balance' = [balance EXCEPT ![acc] = @ - amt]
          /\ allowance' = [allowance EXCEPT ![acc][e] = @ - amt]
          /\ position' = [position EXCEPT ![acc][v] = @ + amt]
          /\ balance[acc] >= amt /\ allowance[acc][e] >= amt
      BY DEF DoExecute, TransferAccepted
    <2> HIDE DEF acc, amt, v
    <2> QED BY <2>1, <2>2 DEF EngineInv, TypeOK
  <1>8. TypeOK'
    BY <1>5, <1>6, <1>7 DEF EngineInv, TypeOK
  <1>9. \A id \in Ids : /\ rules'[id] = IF id = c THEN r ELSE rules[id]
                        /\ book'[id] = IF id = c THEN b ELSE book[id]
    BY <1>1 DEF EngineInv, TypeOK
  <1>10. IdsAreSpent'
    BY <1>4, <1>5, <1>9 DEF EngineInv, IdsAreSpent
  <1>11. \A id \in Ids' : Consistent(rules'[id], book'[id])
    BY <1>3, <1>5, <1>9 DEF EngineInv
  <1> QED
    BY <1>8, <1>10, <1>11 DEF EngineInv

LEMMA StepInv == EngineInv /\ [Next]_vars => EngineInv'
  <1> SUFFICES ASSUME EngineInv, [Next]_vars PROVE EngineInv'
    OBVIOUS
  <1> USE DEF tokenVars, registryVars
  <1>1. ASSUME NEW e \in Executors, SetExecutor(e) PROVE EngineInv'
    BY <1>1, FrameStep DEF SetExecutor, EngineInv, TypeOK, Ids
  <1>2. ASSUME NEW v \in Vaults, NEW x \in BOOLEAN, SetVaultAllowed(v, x) PROVE EngineInv'
    BY <1>2, FrameStep DEF SetVaultAllowed, EngineInv, TypeOK, Ids
  <1>3. ASSUME NEW e \in Executors, NEW x \in BOOLEAN, SetPaused(e, x) PROVE EngineInv'
    BY <1>3, FrameStep DEF SetPaused, EngineInv, TypeOK, Ids
  <1>4. ASSUME NEW a \in Accounts, NEW x \in Nat, Mint(a, x) PROVE EngineInv'
    BY <1>4, FrameStep DEF Mint, EngineInv, TypeOK, Ids
  <1>5. ASSUME NEW a \in Accounts, NEW e \in Executors, NEW x \in Nat, Approve(a, e, x)
        PROVE EngineInv'
    BY <1>5, FrameStep DEF Approve, DoApprove, EngineInv, TypeOK, Ids
  <1>6. ASSUME NEW e \in Executors, NEW id \in Ids, Execute(e, id) PROVE EngineInv'
    BY <1>6, ExecuteStep DEF Execute, EngineInv, TypeOK
  <1>7. ASSUME NEW e \in Executors, NEW n \in Nat, NEW ids \in [1..n -> Ids],
               ExecuteBatch(e, ids)
        PROVE EngineInv'
    <2>1. batch' \in Seq(Executors \X RuleId)
      <3>1. ids \in Seq(Ids) /\ Len(ids) = n
        OBVIOUS
      <3>2. batch' = [i \in 1..n |-> <<e, ids[i]>>]
        BY <1>7, <3>1 DEF ExecuteBatch
      <3>3. \A i \in 1..n : <<e, ids[i]>> \in Executors \X RuleId
        BY DEF EngineInv, TypeOK
      <3> QED BY <3>2, <3>3
    <2> QED
      BY <1>7, <2>1, FrameStep DEF ExecuteBatch, EngineInv, TypeOK, Ids
  <1>8. ASSUME batch # <<>>
        PROVE  /\ Head(batch)[1] \in Executors
               /\ Tail(batch) \in Seq(Executors \X RuleId)
    BY <1>8 DEF EngineInv, TypeOK
  <1>9. ASSUME BatchRuns PROVE EngineInv'
    BY <1>8, <1>9, ExecuteStep DEF BatchRuns
  <1>10. ASSUME BatchSkips PROVE EngineInv'
    BY <1>8, <1>10, FrameStep DEF BatchSkips, EngineInv, TypeOK, Ids
  <1>11. ASSUME Tick PROVE EngineInv'
    BY <1>11, FrameStep DEF Tick, EngineInv, TypeOK, Ids
  <1>12. ASSUME UNCHANGED vars PROVE EngineInv'
    BY <1>12, FrameStep DEF vars, EngineInv, TypeOK, Ids
  <1> QED
    BY <1>1, <1>2, <1>3, <1>4, <1>5, <1>6, <1>7, <1>9, <1>10, <1>11, <1>12,
       StepCases, CreateStep, CancelStep

\* In every reachable state of the engine the registry's records agree with
\* what happened to each order (RuleRegistry.sol: counters, active, nextRunAt,
\* and ids that are never reused).
THEOREM EngineInvariant == Spec => []EngineInv
  BY InitInv, StepInv, PTL DEF Spec

\* I1 and the uint16 run counter: no order runs or spends past its limits.
THEOREM RunsAndSpendAreBounded == Spec => []RunsAndSpendBounded
  <1>1. EngineInv => RunsAndSpendBounded
    BY DEF EngineInv, Consistent, RunsAndSpendBounded
  <1> QED
    BY <1>1, EngineInvariant, PTL

LEMMA OneRunFits ==
    ASSUME NEW x \in Nat, NEW y \in Nat, y > 0, x >= y PROVE x \div y > 0
  OBVIOUS

\* deriveStatus: the status an owner is shown is the reason the order closed,
\* and a live order has a run left.
THEOREM StatusIsTruthful == Spec => []StatusTellsWhy
  <1>1. ASSUME EngineInv PROVE StatusTellsWhy
    <2> SUFFICES ASSUME NEW id \in Ids
                 PROVE  LET s == DeriveStatus(rules[id], now)
                        IN  /\ s = "cancelled" <=> book[id].stopped
                            /\ s = "exhausted" <=> ~rules[id].active /\ ~book[id].stopped
                            /\ s \in {"active", "due"} => RemainingRuns(rules[id]) > 0
      BY DEF StatusTellsWhy
    <2> DEFINE r == rules[id]
    <2>1. r \in Rule /\ book[id] \in Entry /\ Consistent(r, book[id])
      BY <1>1 DEF EngineInv, TypeOK
    <2>2. /\ r.amountPerRun \in Nat /\ r.totalSpendCap \in Nat /\ r.totalSpent \in Nat
          /\ r.maxRuns \in Nat /\ r.runsDone \in Nat
          /\ r.amountPerRun > 0 /\ r.totalSpent <= r.totalSpendCap
          /\ book[id].stopped \in BOOLEAN /\ r.active \in BOOLEAN
      BY <2>1, RunsModulusAssumption DEF Rule, Entry, Consistent
    <2>3. ~IsExhausted(r) => RemainingRuns(r) > 0
      <3> SUFFICES ASSUME ~IsExhausted(r) PROVE RemainingRuns(r) > 0
        OBVIOUS
      <3>1. r.totalSpendCap - r.totalSpent \in Nat
        BY <2>2
      <3>2. r.totalSpendCap - r.totalSpent >= r.amountPerRun
        BY <2>2 DEF IsExhausted
      <3>3. RunsByCap(r.totalSpendCap - r.totalSpent, r) > 0
        BY <2>2, <3>1, <3>2, OneRunFits DEF RunsByCap
      <3>4. r.maxRuns = 0 \/ r.maxRuns - r.runsDone > 0
        BY <2>2 DEF IsExhausted
      <3> QED
        BY <3>3, <3>4 DEF RemainingRuns
    <2> HIDE DEF r
    <2>4. /\ r.active <=> ~book[id].stopped /\ ~IsExhausted(r)
          /\ book[id].stopped => ~IsExhausted(r)
      BY <2>1 DEF Consistent
    <2> QED
      BY <2>2, <2>3, <2>4 DEF DeriveStatus, r
  <1> QED
    BY <1>1, EngineInvariant, PTL

-----------------------------------------------------------------------------
(* Steps: an order that closed stays closed, and every step is one of        *)
(* StandingOrder's.                                                          *)

\* What CreateRule, CancelRule and a run do to the orders, in StandingOrder's
\* words.
LEMMA CreatePlaces ==
    ASSUME EngineInv, NEW a \in Accounts, NEW p \in CreateRuleParams, CreateRule(a, p)
    PROVE  Order!Place
  <1> DEFINE new == <<a, nonces[a]>>
  <1>1. new \notin Ids
    BY CreateStep
  <1>2. /\ Ids' = Ids \cup {new} /\ DOMAIN book' = Ids \cup {new}
        /\ rules'[new] = NewRule(a, p, now)
        /\ book'[new] = NewEntry(FirstRunAt(p, now))
        /\ ValidParams(p)
        /\ \A id \in Ids : rules'[id] = rules[id] /\ book'[id] = book[id]
        /\ UNCHANGED <<balance, position, now>>
    BY <1>1 DEF CreateRule, DoCreateRule, Ids, tokenVars
  <1>3. /\ NewRule(a, p, now) \in Rule /\ NewEntry(FirstRunAt(p, now)) \in Entry
        /\ Consistent(NewRule(a, p, now), NewEntry(FirstRunAt(p, now)))
    BY <1>2, NewConsistent DEF EngineInv, TypeOK
  <1>4. /\ TermsOf(NewRule(a, p, now)) \in Order!Terms
        /\ TermsOf(NewRule(a, p, now)).totalSpendCap >= TermsOf(NewRule(a, p, now)).amountPerRun
    BY <1>3, RunsModulusAssumption DEF TermsOf, Order!Terms, Rule, Consistent
  <1>5. /\ NewEntry(FirstRunAt(p, now)) \in Order!Entry
        /\ NewEntry(FirstRunAt(p, now)).runs = 0 /\ NewEntry(FirstRunAt(p, now)).paid = 0
        /\ ~NewEntry(FirstRunAt(p, now)).stopped
    BY <1>3 DEF Order!Entry, Entry, NewEntry
  <1> DEFINE terms == [id \in Ids |-> TermsOf(rules[id])]
  <1>6. /\ DOMAIN terms = Ids /\ DOMAIN terms' = Ids \cup {new}
        /\ terms'[new] = TermsOf(NewRule(a, p, now))
        /\ \A id \in Ids : terms'[id] = terms[id]
    BY <1>2
  <1>7. new \in DOMAIN terms' \ DOMAIN terms
    BY <1>1, <1>6
  <1> HIDE DEF terms, new
  <1>8. /\ DOMAIN terms' = DOMAIN terms \cup {new}
        /\ DOMAIN book' = DOMAIN terms'
        /\ \A x \in DOMAIN terms : terms'[x] = terms[x] /\ book'[x] = book[x]
        /\ terms'[new] \in Order!Terms
        /\ terms'[new].totalSpendCap >= terms'[new].amountPerRun
        /\ book'[new] \in Order!Entry
        /\ book'[new].runs = 0 /\ book'[new].paid = 0 /\ ~book'[new].stopped
    BY <1>2, <1>4, <1>5, <1>6
  <1> QED
    BY <1>2, <1>7, <1>8 DEF Order!Place, terms

LEMMA CancelStops ==
    ASSUME EngineInv, NEW a \in Accounts, NEW c \in Ids, CancelRule(a, c)
    PROVE  Order!Stop(c) \/ UNCHANGED Order!vars
  <1>1. /\ rules' = [rules EXCEPT ![c] = [@ EXCEPT !.active = FALSE]]
        /\ book' = [book EXCEPT ![c] = StoppedEntry(@, rules[c].active)]
        /\ UNCHANGED <<balance, position, now>>
    BY DEF CancelRule, DoCancelRule, tokenVars
  <1>2. rules[c] \in Rule /\ book[c] \in Entry
    BY DEF EngineInv, TypeOK
  <1>3. Ids' = Ids /\ \A id \in Ids : TermsOf(rules'[id]) = TermsOf(rules[id])
    BY <1>1, <1>2 DEF EngineInv, TypeOK, Ids, TermsOf, Rule
  <1>4. [id \in Ids |-> TermsOf(rules[id])]' = [id \in Ids |-> TermsOf(rules[id])]
    BY <1>3
  <1>5. CASE rules[c].active
    <2>1. StoppedEntry(book[c], rules[c].active) = [book[c] EXCEPT !.stopped = TRUE]
      BY <1>2, <1>5 DEF StoppedEntry, Entry
    <2>2. book' = [book EXCEPT ![c] = [book[c] EXCEPT !.stopped = TRUE]]
      BY <1>1, <2>1
    <2> QED
      BY <1>1, <1>4, <2>2 DEF Order!Stop
  <1>6. CASE ~rules[c].active
    <2>1. StoppedEntry(book[c], rules[c].active) = book[c]
      BY <1>2, <1>6 DEF StoppedEntry, Entry, Rule
    <2>2. book' = book
      BY <1>1, <2>1 DEF EngineInv, TypeOK
    <2> QED
      BY <1>1, <1>4, <2>2 DEF Order!vars
  <1> QED
    BY <1>5, <1>6

LEMMA RunPays ==
    ASSUME EngineInv, NEW e \in Executors, NEW c, DoExecute(e, c), now' = now
    PROVE  c \in Ids /\ rules[c].active /\ Order!Instalment(c)
  <1> DEFINE r == rules[c]
  <1>1. /\ c \in Ids /\ r.active /\ IsDue(r, now) /\ r \in Rule /\ book[c] \in Entry
        /\ Consistent(r, book[c]) /\ now \in Nat /\ balance[r.account] >= r.amountPerRun
    BY DEF DoExecute, MarkAccepted, TransferAccepted, EngineInv, TypeOK
  <1>2. /\ rules' = [rules EXCEPT ![c] = MarkedExecuted(r, now)]
        /\ balance' = [balance EXCEPT ![r.account] = @ - r.amountPerRun]
        /\ position' = [position EXCEPT ![r.account][r.vault] = @ + r.amountPerRun]
        /\ book' = [book EXCEPT ![c] = PaidEntry(@, r.amountPerRun, now)]
    BY DEF DoExecute
  <1>3. Ids' = Ids /\ \A id \in Ids : TermsOf(rules'[id]) = TermsOf(rules[id])
    BY <1>1, <1>2 DEF EngineInv, TypeOK, Ids, TermsOf, MarkedExecuted, Counted, Rule
  <1> DEFINE terms == [id \in Ids |-> TermsOf(rules[id])]
  <1>4. terms' = terms
    BY <1>3
  <1>5. /\ terms[c].account = r.account /\ terms[c].vault = r.vault
        /\ terms[c].amountPerRun = r.amountPerRun
        /\ terms[c].totalSpendCap = r.totalSpendCap
        /\ terms[c].intervalSecs = r.intervalSecs /\ terms[c].maxRuns = r.maxRuns
    BY <1>1 DEF TermsOf
  <1>6. Order!MayPay(c)
    <2>1. ~book[c].stopped
      BY <1>1 DEF Consistent
    <2>2. r.maxRuns # 0 => book[c].runs < r.maxRuns
      BY <1>1, RunsModulusAssumption DEF Consistent, IsDue, IsExhausted, Rule, Entry
    <2>3. book[c].paid + r.amountPerRun <= r.totalSpendCap
      BY <1>1 DEF Consistent, IsDue, IsExhausted, Rule, Entry
    <2>4. now >= IF book[c].runs = 0 THEN book[c].startAt
                 ELSE book[c].lastAt + r.intervalSecs
      BY <1>1 DEF Consistent, IsDue
    <2> HIDE DEF terms, r
    <2> QED
      BY <1>1, <1>5, <2>1, <2>2, <2>3, <2>4 DEF Order!MayPay, terms
  <1>7. book' = [book EXCEPT ![c].runs = @ + 1, ![c].paid = @ + r.amountPerRun,
                             ![c].lastAt = now]
    BY <1>1, <1>2 DEF PaidEntry, EngineInv, TypeOK, Entry
  <1> HIDE DEF terms, r
  <1> QED
    BY <1>1, <1>2, <1>4, <1>5, <1>6, <1>7 DEF Order!Instalment, terms, r

LEMMA StepRefines == EngineInv /\ [Next]_vars => [Order!Next]_(Order!vars)
  <1> SUFFICES ASSUME EngineInv, [Next]_vars
               PROVE  Order!Next \/ UNCHANGED Order!vars
    OBVIOUS
  <1> USE DEF tokenVars, registryVars
  <1> DEFINE Keeps == UNCHANGED <<rules, book, balance, position, now>>
  <1>0. ASSUME Keeps PROVE UNCHANGED Order!vars
    BY <1>0 DEF Order!vars, Ids
  <1>1. ASSUME NEW a \in Accounts, NEW x \in Nat, Mint(a, x) PROVE Order!Next
    BY <1>1 DEF Mint, Order!Next, Order!World, EngineInv, TypeOK, Ids
  <1>2. ASSUME Tick PROVE Order!Next
    BY <1>2 DEF Tick, Order!Next, Order!World, EngineInv, TypeOK, Ids
  <1>3. ASSUME NEW e \in Executors, NEW c \in Ids, Execute(e, c) PROVE Order!Next
    BY <1>3, RunPays DEF Execute, Order!Next
  <1>4. ASSUME BatchRuns PROVE Order!Next
    <2>1. Head(batch)[1] \in Executors
      BY <1>4 DEF BatchRuns, EngineInv, TypeOK
    <2> QED BY <1>4, <2>1, RunPays DEF BatchRuns, Order!Next
  <1>5. ASSUME NEW a \in Accounts, NEW p \in CreateRuleParams, CreateRule(a, p)
        PROVE Order!Next
    BY <1>5, CreatePlaces DEF Order!Next
  <1>6. ASSUME NEW a \in Accounts, NEW c \in Ids, CancelRule(a, c)
        PROVE Order!Next \/ UNCHANGED Order!vars
    BY <1>6, CancelStops DEF Order!Next
  <1> QED
    BY <1>0, <1>1, <1>2, <1>3, <1>4, <1>5, <1>6, StepCases
    DEF SetExecutor, SetVaultAllowed, SetPaused, Approve, ExecuteBatch, BatchSkips, vars

\* The contracts implement the standing-order promise: equal instalments, out
\* of and into the owner's own account, on time, within the limits, and none
\* after a stop.
THEOREM EngineImplements == Spec => ImplementsStandingOrder
  <1>1. Init => Order!Init
    BY DEF Init, Fresh, Order!Init, Ids
  <1>2. Spec => [][Order!Next]_(Order!vars)
    BY EngineInvariant, StepRefines, PTL DEF Spec
  <1> QED
    BY <1>1, <1>2 DEF ImplementsStandingOrder, Order!Spec, Spec

LEMMA StepKeepsClosed ==
    EngineInv /\ [Next]_vars =>
        [\A id \in Ids : ~rules[id].active =>
            /\ ~rules'[id].active
            /\ book'[id].runs = book[id].runs]_vars
  <1> DEFINE Final == \A id \in Ids : ~rules[id].active =>
                          ~rules'[id].active /\ book'[id].runs = book[id].runs
  <1> SUFFICES ASSUME EngineInv, [Next]_vars PROVE Final \/ UNCHANGED vars
    OBVIOUS
  <1> USE DEF tokenVars, registryVars
  <1>1. ASSUME UNCHANGED <<rules, book>> PROVE Final
    BY <1>1
  <1>2. ASSUME NEW a \in Accounts, NEW p \in CreateRuleParams, CreateRule(a, p) PROVE Final
    <2>1. <<a, nonces[a]>> \notin Ids
      BY <1>2, CreateStep
    <2> QED BY <1>2, <2>1 DEF CreateRule, DoCreateRule
  <1>3. ASSUME NEW a \in Accounts, NEW c \in Ids, CancelRule(a, c) PROVE Final
    BY <1>3 DEF CancelRule, DoCancelRule, StoppedEntry, EngineInv, TypeOK, Rule, Entry
  <1>4. ASSUME NEW e \in Executors, NEW c, DoExecute(e, c) PROVE Final
    <2>1. c \in Ids /\ rules[c].active
      BY <1>4 DEF DoExecute, MarkAccepted
    <2>2. ASSUME NEW id \in Ids, id # c PROVE rules'[id] = rules[id] /\ book'[id] = book[id]
      BY <1>4, <2>2 DEF DoExecute, EngineInv, TypeOK
    <2> QED BY <2>1, <2>2
  <1>5. ASSUME NEW e \in Executors, NEW c \in Ids, Execute(e, c) PROVE Final
    BY <1>4, <1>5 DEF Execute
  <1>6. ASSUME BatchRuns PROVE Final
    <2>1. Head(batch)[1] \in Executors
      BY <1>6 DEF BatchRuns, EngineInv, TypeOK
    <2> QED BY <1>4, <1>6, <2>1 DEF BatchRuns
  <1> HIDE DEF Final
  <1> QED
    BY <1>1, <1>2, <1>3, <1>5, <1>6, StepCases
    DEF SetExecutor, SetVaultAllowed, SetPaused, Mint, Approve, ExecuteBatch,
        BatchSkips, Tick

\* An order that was cancelled or ran out never runs and never reopens.
THEOREM ClosedOrdersStayClosed == Spec => ClosedIsFinal
  BY EngineInvariant, StepKeepsClosed, PTL DEF Spec, ClosedIsFinal

-----------------------------------------------------------------------------
(* What the dashboard counts, and who may pull *)

\* What was taken in whole instalments leaves the rest of the instalments.
LEMMA InstalmentsLeft ==
    ASSUME NEW cap \in Nat, NEW n \in Nat, NEW x \in Nat \ {0}, n * x <= cap
    PROVE  /\ cap \div x \in Nat /\ n <= cap \div x
           /\ (cap - n * x) \div x = cap \div x - n
  <1> DEFINE q == cap \div x
             r == (cap - n * x) \div x
  <1>1. q \in Nat /\ q * x <= cap /\ cap < q * x + x
    BY Z3
  <1>2. n * x \in Nat
    BY Z3
  <1>3. cap - n * x \in Nat
    BY <1>2
  <1>4. r \in Nat /\ r * x <= cap - n * x /\ cap - n * x < r * x + x
    <2> DEFINE m == cap - n * x
    <2>1. m \in Nat
      BY <1>3
    <2> HIDE DEF m
    <2>2. m \div x \in Nat /\ (m \div x) * x <= m /\ m < (m \div x) * x + x
      BY <2>1, Z3
    <2> QED BY <2>2 DEF m
  <1> HIDE DEF q, r
  <1>5. (r + n) * x = r * x + n * x
    BY <1>4, Z3
  <1>6. (r + n) * x <= cap /\ cap < (r + n) * x + x
    BY <1>2, <1>4, <1>5, Z3
  <1>7. ASSUME NEW k \in Nat, NEW j \in Nat, k * x <= cap, cap < j * x + x PROVE k <= j
    <2> SUFFICES ASSUME j + 1 <= k PROVE FALSE
      OBVIOUS
    <2>1. (j + 1) * x = j * x + x /\ j * x \in Nat /\ k * x \in Nat
      BY Z3
    <2>2. (j + 1) * x <= k * x
      BY Z3
    <2> QED BY <1>7, <2>1, <2>2
  <1>8. q = r + n
    <2>1. q <= r + n /\ r + n <= q
      BY <1>1, <1>4, <1>6, <1>7
    <2> QED BY <1>1, <1>4, <2>1
  <1>9. q \in Nat /\ n <= q /\ r = q - n
    BY <1>1, <1>4, <1>8
  <1> QED BY <1>9 DEF q, r

LEMMA ConsistentCounts ==
    ASSUME NEW r \in Rule, NEW b \in Entry, Consistent(r, b)
    PROVE  LET byCap == RunsByCap(r.totalSpendCap, r)
               total == IF r.maxRuns = 0 \/ byCap < r.maxRuns THEN byCap ELSE r.maxRuns
           IN  b.runs + RemainingRuns(r) = total
  <1> DEFINE all == RunsByCap(r.totalSpendCap, r)
             left == RunsByCap(r.totalSpendCap - r.totalSpent, r)
  <1>1. /\ r.totalSpendCap \in Nat /\ r.amountPerRun \in Nat \ {0} /\ b.runs \in Nat
        /\ r.maxRuns \in Nat /\ r.runsDone \in Nat
    BY RunsModulusAssumption DEF Consistent, Rule, Entry
  <1>2. r.totalSpent = b.runs * r.amountPerRun /\ b.runs * r.amountPerRun <= r.totalSpendCap
    BY DEF Consistent
  <1>3. /\ r.totalSpendCap \div r.amountPerRun \in Nat
        /\ (r.totalSpendCap - b.runs * r.amountPerRun) \div r.amountPerRun
             = r.totalSpendCap \div r.amountPerRun - b.runs
    BY <1>1, <1>2, InstalmentsLeft
  <1>4. all \in Nat /\ left = all - b.runs
    BY <1>2, <1>3 DEF RunsByCap
  <1>5. r.maxRuns # 0 => b.runs = r.runsDone /\ b.runs <= r.maxRuns
    BY DEF Consistent
  <1>6. RemainingRuns(r) = IF r.maxRuns = 0 \/ left < r.maxRuns - r.runsDone
                           THEN left ELSE r.maxRuns - r.runsDone
    BY DEF RemainingRuns
  <1> HIDE DEF all, left
  <1>7. b.runs + RemainingRuns(r) = IF r.maxRuns = 0 \/ all < r.maxRuns THEN all ELSE r.maxRuns
    BY <1>1, <1>4, <1>5, <1>6
  <1> QED BY <1>7 DEF all

\* packages/shared/src/types.ts remainingRuns: for every cap, instalment and limit
\* the runs made and the runs shown as remaining are those the order was made for.
THEOREM RunsAddUp == Spec => []RemainingRunsExact
  <1>1. EngineInv => RemainingRunsExact
    <2> SUFFICES ASSUME EngineInv, NEW id \in Ids
                 PROVE  LET r     == rules[id]
                            byCap == RunsByCap(r.totalSpendCap, r)
                            total == IF r.maxRuns = 0 \/ byCap < r.maxRuns THEN byCap
                                     ELSE r.maxRuns
                        IN  book[id].runs + RemainingRuns(r) = total
      BY DEF RemainingRunsExact
    <2>1. rules[id] \in Rule /\ book[id] \in Entry /\ Consistent(rules[id], book[id])
      BY DEF EngineInv, TypeOK
    <2> QED BY <2>1, ConsistentCounts
  <1> QED BY <1>1, EngineInvariant, PTL

\* RuleExecutor.setPaused is a transaction of its own: no pause falls into a batch.
LEMMA BatchStaysOpen == TypeOK /\ BatchIsOpen /\ [Next]_vars => BatchIsOpen'
  <1> SUFFICES ASSUME TypeOK, BatchIsOpen, [Next]_vars PROVE BatchIsOpen'
    OBVIOUS
  <1>1. batch \in Seq(Executors \X RuleId)
    BY DEF TypeOK
  <1>2. ASSUME UNCHANGED <<batch, paused>> PROVE BatchIsOpen'
    BY <1>2 DEF BatchIsOpen
  <1>3. ASSUME batch # <<>>, batch' = Tail(batch), paused' = paused PROVE BatchIsOpen'
    <2>1. Len(batch') = Len(batch) - 1 /\ \A i \in 1..Len(batch') : batch'[i] = batch[i + 1]
      BY <1>1, <1>3
    <2> QED BY <1>1, <1>3, <2>1 DEF BatchIsOpen
  <1>4. ASSUME NEW e \in Executors, NEW value \in BOOLEAN, SetPaused(e, value) PROVE BatchIsOpen'
    <2>1. batch' = <<>>
      BY <1>4 DEF SetPaused, Idle
    <2> QED BY <2>1 DEF BatchIsOpen
  <1>5. ASSUME NEW e \in Executors, NEW n \in Nat, NEW ids \in [1..n -> Ids], ExecuteBatch(e, ids)
        PROVE  BatchIsOpen'
    <2>1. /\ e \notin paused /\ paused' = paused
          /\ batch' = [i \in 1..Len(ids) |-> <<e, ids[i]>>] /\ Len(ids) \in Nat
      BY <1>5 DEF ExecuteBatch
    <2>2. Len(batch') = Len(ids) /\ \A i \in 1..Len(ids) : batch'[i] = <<e, ids[i]>>
      BY <2>1
    <2> QED BY <2>1, <2>2 DEF BatchIsOpen
  <1> QED
    BY <1>2, <1>3, <1>4, <1>5, StepCases
    DEF SetExecutor, SetVaultAllowed, CreateRule, CancelRule, Mint, Approve, Execute,
        BatchRuns, BatchSkips, Tick, vars, registryVars

\* What a run takes, and through whom.
LEMMA RunPulls ==
    ASSUME TypeOK, NEW e \in Executors, NEW c, DoExecute(e, c), e \notin paused,
           NEW a \in Accounts, position'[a] # position[a]
    PROVE  \E id \in Ids :
              /\ rules[id].account = a /\ rules[id].active
              /\ balance[a] - balance'[a] = rules[id].amountPerRun
              /\ allowance' = [allowance EXCEPT ![a][executor] = @ - rules[id].amountPerRun]
              /\ executor \notin paused
  <1>1. c \in Ids /\ executor = e /\ rules[c].active /\ rules[c] \in Rule
    BY DEF DoExecute, MarkAccepted, TypeOK
  <1>2. /\ position' = [position EXCEPT ![rules[c].account][rules[c].vault] = @ + rules[c].amountPerRun]
        /\ balance' = [balance EXCEPT ![rules[c].account] = @ - rules[c].amountPerRun]
        /\ allowance' = [allowance EXCEPT ![rules[c].account][e] = @ - rules[c].amountPerRun]
    BY DEF DoExecute
  <1>3. rules[c].account = a
    BY <1>2 DEF TypeOK
  <1>4. balance[a] - balance'[a] = rules[c].amountPerRun
    <2>1. balance[a] \in Nat /\ rules[c].amountPerRun \in Nat
      BY <1>1 DEF TypeOK, Rule
    <2>2. balance'[a] = balance[a] - rules[c].amountPerRun
      BY <1>2, <1>3 DEF TypeOK
    <2> QED BY <2>1, <2>2
  <1> QED BY <1>1, <1>2, <1>3, <1>4

\* RuleRegistry.setExecutor, RuleExecutor.setPaused: FXRP leaves an account only as
\* an instalment of a live order of its own, through the executor that is named and
\* not paused, whatever allowances are left with others.
THEOREM OnlyTheNamedPulls == Spec => OnlyNamedExecutorPulls
  <1> DEFINE Pulled == \A a \in Accounts :
                balance'[a] # balance[a] /\ position'[a] # position[a] =>
                  \E id \in Ids :
                      /\ rules[id].account = a /\ rules[id].active
                      /\ balance[a] - balance'[a] = rules[id].amountPerRun
                      /\ allowance' = [allowance EXCEPT ![a][executor]
                                         = @ - rules[id].amountPerRun]
                      /\ executor \notin paused
  <1>1. Init => BatchIsOpen
    BY DEF Init, Fresh, BatchIsOpen
  <1>2. EngineInv => TypeOK
    BY DEF EngineInv
  <1>3. Spec => []BatchIsOpen
    BY <1>1, <1>2, BatchStaysOpen, EngineInvariant, PTL DEF Spec
  <1>4. EngineInv /\ BatchIsOpen /\ [Next]_vars => Pulled
    <2> SUFFICES ASSUME EngineInv, BatchIsOpen, [Next]_vars,
                        NEW a \in Accounts, position'[a] # position[a]
                 PROVE  \E id \in Ids :
                           /\ rules[id].account = a /\ rules[id].active
                           /\ balance[a] - balance'[a] = rules[id].amountPerRun
                           /\ allowance' = [allowance EXCEPT ![a][executor]
                                              = @ - rules[id].amountPerRun]
                           /\ executor \notin paused
      OBVIOUS
    <2>1. CASE \E e \in Executors, id \in Ids : Execute(e, id)
      BY <1>2, <2>1, RunPulls DEF Execute
    <2>2. CASE BatchRuns
      <3>1. Head(batch)[1] \in Executors /\ Head(batch)[1] \notin paused
        <4>1. batch \in Seq(Executors \X RuleId) /\ batch # <<>>
          BY <1>2, <2>2 DEF BatchRuns, TypeOK
        <4>2. 1 \in 1..Len(batch) /\ Head(batch) = batch[1] /\ batch[1] \in Executors \X RuleId
          BY <4>1
        <4> QED BY <4>2 DEF BatchIsOpen
      <3>2. DoExecute(Head(batch)[1], Head(batch)[2])
        BY <2>2 DEF BatchRuns
      <3> QED BY <1>2, <3>1, <3>2, RunPulls
    <2> QED
      BY <2>1, <2>2, StepCases
      DEF SetExecutor, SetVaultAllowed, SetPaused, CreateRule, CancelRule, Mint, Approve,
          ExecuteBatch, BatchSkips, Tick, vars, tokenVars
  <1>5. Spec => [][Pulled]_vars
    BY <1>3, <1>4, EngineInvariant, PTL DEF Spec
  <1> QED BY <1>5 DEF OnlyNamedExecutorPulls
=============================================================================
