--------------------------- MODULE ExecutionProofs ---------------------------
(***************************************************************************)
(* What no vault can do to a transaction of the executor, for any number   *)
(* of accounts, vaults, rules, calls and amounts: pay inside a payment,    *)
(* run a rule twice, leave tokens or an approval behind, or make an        *)
(* account pay more than was credited to it.                               *)
(*                                                                         *)
(* The stack of calls has one of four shapes, because entered is set in    *)
(* all but the empty one and executeOne is called by the loop alone.  For  *)
(* each shape ExecutionInv says how the chain relates to the one it began  *)
(* with; what a vault may do meanwhile keeps that relation (World).        *)
(* AccountsInv adds the sums: the books of the transaction balance at each *)
(* point, if the deposit under way is taken as made.                       *)
(***************************************************************************)
EXTENDS Execution, SequenceTheorems, DataLemmas

-----------------------------------------------------------------------------
(* Rules *)

\* A rule that was advanced is not due, and is the same rule otherwise.
LEMMA MarkedRule ==
    ASSUME NEW r \in Rule, NEW t \in Nat, Checked(r)
    PROVE  LET m == MarkedExecuted(r, t)
           IN  /\ m \in Rule /\ Checked(m) /\ ~IsDue(m, t)
               /\ m.account = r.account /\ m.vault = r.vault
               /\ m.amountPerRun = r.amountPerRun
               /\ m.totalSpent = r.totalSpent + r.amountPerRun
  <1> DEFINE c == Counted(r, t)
             m == MarkedExecuted(r, t)
  <1>1. /\ r.totalSpent + r.amountPerRun \in Nat
        /\ (r.runsDone + 1) % RunsModulus \in 0..(RunsModulus - 1)
        /\ t + r.intervalSecs \in Nat
    BY RunsModulusAssumption DEF Rule
  <1>2. /\ c \in Rule /\ c.account = r.account /\ c.vault = r.vault
        /\ c.intervalSecs = r.intervalSecs /\ c.amountPerRun = r.amountPerRun
        /\ c.totalSpent = r.totalSpent + r.amountPerRun
        /\ c.nextRunAt = t + r.intervalSecs
    BY <1>1 DEF Counted, Rule
  <1>3. IsExhausted(c) \in BOOLEAN
    BY DEF IsExhausted
  <1> HIDE DEF c
  <1>4. m = [c EXCEPT !.active = c.active /\ ~IsExhausted(c)]
    BY DEF MarkedExecuted, c
  <1>5. /\ m \in Rule /\ m.account = c.account /\ m.vault = c.vault
        /\ m.intervalSecs = c.intervalSecs /\ m.amountPerRun = c.amountPerRun
        /\ m.totalSpent = c.totalSpent /\ m.nextRunAt = c.nextRunAt
    BY <1>2, <1>3, <1>4 DEF Rule
  <1>6. ~IsDue(m, t)
    <2>1. m.nextRunAt = t + r.intervalSecs /\ r.intervalSecs \in Nat
      BY <1>2, <1>5 DEF Rule
    <2> QED BY <2>1 DEF IsDue, Checked
  <1> QED BY <1>2, <1>5, <1>6 DEF Checked

LEMMA CancelledRule ==
    ASSUME NEW r \in Rule, NEW t
    PROVE  LET x == Cancelled(r)
           IN  /\ x \in Rule /\ ~IsDue(x, t)
               /\ x.account = r.account /\ x.vault = r.vault
               /\ x.amountPerRun = r.amountPerRun /\ x.totalSpent = r.totalSpent
               /\ (Checked(r) => Checked(x))
               /\ Cancelled(x) = x
  BY DEF Rule, IsDue, Cancelled, Checked

LEMMA NewRuleIs ==
    ASSUME NEW a \in Accounts, NEW p \in CreateRuleParams, NEW t \in Nat, ValidParams(p)
    PROVE  NewRule(a, p, t) \in Rule /\ Checked(NewRule(a, p, t))
  <1>1. FirstRunAt(p, t) \in Nat
    BY DEF FirstRunAt, CreateRuleParams
  <1>2. NewRule(a, p, t) \in Rule
    BY <1>1, RunsModulusAssumption DEF NewRule, Rule, CreateRuleParams, Trigger
  <1>3. Checked(NewRule(a, p, t))
    BY IntervalAssumption DEF NewRule, ValidParams, CreateRuleParams, Checked
  <1> QED BY <1>2, <1>3

-----------------------------------------------------------------------------
(* Running once *)

LEMMA OnceUntouched == ASSUME NEW t, NEW r PROVE RanOnce(t, r, r)
  BY DEF RanOnce

\* A rule that is due has not run in this transaction.
LEMMA OnceMarked ==
    ASSUME NEW t \in Nat, NEW r \in Rule, NEW s, Checked(r),
           RanOnce(t, r, s), IsDue(s, t)
    PROVE  s = r /\ RanOnce(t, r, MarkedExecuted(s, t))
  <1> DEFINE m == MarkedExecuted(r, t)
  <1>1. m \in Rule /\ ~IsDue(m, t)
    BY MarkedRule
  <1>2. ~IsDue(Cancelled(r), t) /\ ~IsDue(Cancelled(m), t)
    BY <1>1, CancelledRule
  <1> HIDE DEF m
  <1>3. s \in {r, Cancelled(r), m, Cancelled(m)}
    BY Zenon DEF RanOnce, m
  <1>4. s = r
    BY <1>1, <1>2, <1>3, Zenon
  <1> QED
    BY <1>4, Zenon DEF RanOnce, m

LEMMA OnceCancelled ==
    ASSUME NEW t \in Nat, NEW r \in Rule, NEW s, Checked(r), RanOnce(t, r, s)
    PROVE  RanOnce(t, r, Cancelled(s))
  <1> DEFINE m == MarkedExecuted(r, t)
  <1>1. PICK x \in {r} \cup (IF IsDue(r, t) THEN {m} ELSE {}) : s \in {x, Cancelled(x)}
    BY DEF RanOnce
  <1>2. x \in Rule
    BY <1>1, MarkedRule
  <1>3. Cancelled(s) = Cancelled(x)
    BY <1>1, <1>2, CancelledRule
  <1> QED
    BY <1>1, <1>3, Zenon DEF RanOnce

-----------------------------------------------------------------------------
(* What a vault may do while it is called, and anybody between transactions *)

\* The rules of c are still there, cancelled or as they were.
Kept(c, d) ==
    \A id \in DOMAIN c.rules :
        /\ id \in DOMAIN d.rules
        /\ d.rules[id] \in {c.rules[id], Cancelled(c.rules[id])}

World(c, d) ==
    /\ WellFormed(d) /\ d.entered = c.entered /\ Kept(c, d)
    /\ d.approval = c.approval /\ d.balance[Self] >= c.balance[Self]

\* Cancelling neither makes a rule due nor undoes that it ran once.
LEMMA KeptRan ==
    ASSUME NEW t \in Nat, NEW s, NEW c, NEW d, WellFormed(s), WellFormed(c),
           RanSince(t, s, c), Kept(c, d)
    PROVE  RanSince(t, s, d)
  <1> SUFFICES ASSUME NEW id \in DOMAIN s.rules
               PROVE  id \in DOMAIN d.rules /\ RanOnce(t, s.rules[id], d.rules[id])
    BY DEF RanSince
  <1>1. /\ s.rules[id] \in Rule /\ Checked(s.rules[id])
        /\ id \in DOMAIN c.rules /\ RanOnce(t, s.rules[id], c.rules[id])
    BY DEF WellFormed, RanSince
  <1>2. /\ id \in DOMAIN d.rules
        /\ d.rules[id] \in {c.rules[id], Cancelled(c.rules[id])}
    BY <1>1 DEF Kept
  <1>3. RanOnce(t, s.rules[id], Cancelled(c.rules[id]))
    BY <1>1, OnceCancelled
  <1> QED BY <1>1, <1>2, <1>3, Zenon

LEMMA KeptNotDue ==
    ASSUME NEW t \in Nat, NEW c, NEW d, WellFormed(c), Kept(c, d),
           NEW id \in DOMAIN c.rules, ~IsDue(c.rules[id], t)
    PROVE  /\ id \in DOMAIN d.rules /\ ~IsDue(d.rules[id], t)
           /\ d.rules[id].vault = c.rules[id].vault
  <1>1. c.rules[id] \in Rule
    BY DEF WellFormed
  <1>2. /\ id \in DOMAIN d.rules
        /\ d.rules[id] \in {c.rules[id], Cancelled(c.rules[id])}
    BY DEF Kept
  <1> QED BY <1>1, <1>2, CancelledRule, Zenon

LEMMA WorldCalled ==
    ASSUME NEW t \in Nat, NEW s, NEW c, NEW d, NEW id,
           WellFormed(s), Called(t, s, c, id), World(c, d)
    PROVE  Called(t, s, d, id)
  <1>1. WellFormed(d) /\ d.entered
    BY Zenon DEF World, Called
  <1>2. RanSince(t, s, d)
    BY KeptRan DEF World, Called
  <1>3. /\ id \in DOMAIN d.rules /\ ~IsDue(d.rules[id], t)
        /\ d.rules[id].vault = c.rules[id].vault
    BY KeptNotDue DEF World, Called
  <1>4. ASSUME NEW v \in Vaults
        PROVE  d.approval[v] <= IF v = d.rules[id].vault THEN d.balance[Self] ELSE 0
    <2>1. /\ c.approval[v] <= IF v = c.rules[id].vault THEN c.balance[Self] ELSE 0
          /\ d.approval = c.approval /\ d.balance[Self] >= c.balance[Self]
      BY DEF World, Called
    <2>2. c.approval[v] \in Nat /\ c.balance[Self] \in Nat /\ d.balance[Self] \in Nat
      BY DEF World, Called, WellFormed, Chain, Holders
    <2> QED BY <1>3, <2>1, <2>2
  <1> QED BY <1>1, <1>2, <1>3, <1>4 DEF Called

LEMMA WorldResting ==
    ASSUME NEW c, NEW d, Resting(c), World(c, d)
    PROVE  Resting(d)
  BY Zenon DEF Resting, World, NoApproval

-----------------------------------------------------------------------------
\* A chain with the same rules.
LEMMA SameBook ==
    ASSUME NEW c, NEW d, WellFormed(c), d \in Chain({d.rules}),
           d.rules = c.rules, d.nonces = c.nonces
    PROVE  WellFormed(d) /\ Kept(c, d)
  BY DEF WellFormed, Kept

LEMMA TransferWorld ==
    ASSUME WellFormed(chain), NEW h \in Accounts \cup Vaults, NEW to \in Recipients,
           NEW x \in Transfers, Transfer(h, to, x)
    PROVE  World(chain, chain')
  <1> DEFINE b == Moved(chain.balance, h, to, x)
  <1>1. /\ chain \in Chain({chain.rules}) /\ chain.balance \in [Holders -> Nat]
        /\ h \in Holders /\ to \in Holders /\ Self \in Holders /\ h # Self /\ h # to /\ x \in Nat
        /\ x <= chain.balance[h]
    BY ExecutionAssumption DEF WellFormed, Chain, Holders, Transfer
  <1>2. chain.balance[h] - x \in Nat /\ chain.balance[to] + x \in Nat
    BY <1>1
  <1>3. b \in [Holders -> Nat] /\ b[Self] >= chain.balance[Self]
    BY <1>1, <1>2 DEF Moved
  <1> HIDE DEF b
  <1>4. chain' = [chain EXCEPT !.balance = b]
    BY DEF Transfer, b
  <1>5. /\ chain' \in Chain({chain'.rules}) /\ chain'.rules = chain.rules
        /\ chain'.nonces = chain.nonces /\ chain'.entered = chain.entered
        /\ chain'.balance = b /\ chain'.approval = chain.approval
    BY <1>1, <1>3, <1>4 DEF Chain
  <1> QED BY <1>3, <1>5, SameBook DEF World

LEMMA ApproveWorld ==
    ASSUME WellFormed(chain), NEW a \in Accounts, NEW x \in Approvals, Approve(a, x)
    PROVE  World(chain, chain')
  <1> DEFINE w == [chain.allowance EXCEPT ![a] = x]
  <1>1. chain \in Chain({chain.rules}) /\ w \in [Accounts -> Nat] /\ Self \in Holders
    BY ExecutionAssumption DEF WellFormed, Chain, Holders
  <1> HIDE DEF w
  <1>2. chain' = [chain EXCEPT !.allowance = w]
    BY DEF Approve, w
  <1>3. /\ chain' \in Chain({chain'.rules}) /\ chain'.rules = chain.rules
        /\ chain'.nonces = chain.nonces /\ chain'.entered = chain.entered
        /\ chain'.balance = chain.balance /\ chain'.approval = chain.approval
    BY <1>1, <1>2 DEF Chain
  <1>4. chain.balance[Self] \in Nat
    BY <1>1 DEF Chain
  <1> QED BY <1>3, <1>4, SameBook DEF World

LEMMA CancelWorld ==
    ASSUME WellFormed(chain), NEW a \in Accounts, NEW id \in Ids, CancelRule(a, id)
    PROVE  World(chain, chain')
  <1> DEFINE off == Cancelled(chain.rules[id])
             book == [chain.rules EXCEPT ![id] = off]
  <1>1. /\ chain \in Chain({chain.rules}) /\ chain.rules \in [DOMAIN chain.rules -> Rule]
        /\ id \in DOMAIN chain.rules /\ Self \in Holders
    BY DEF WellFormed, Ids, Holders
  <1>2. off \in Rule /\ Checked(off)
    BY <1>1, CancelledRule DEF WellFormed
  <1>3. /\ DOMAIN book = DOMAIN chain.rules /\ book \in [DOMAIN book -> Rule]
        /\ \A x \in DOMAIN book : book[x] = IF x = id THEN off ELSE chain.rules[x]
    <2> HIDE DEF off
    <2> QED BY <1>1, <1>2
  <1>4. chain' = [chain EXCEPT !.rules = book]
    BY DEF CancelRule
  <1> HIDE DEF book
  <1>5. /\ chain' \in Chain({chain'.rules}) /\ chain'.rules = book
        /\ chain'.nonces = chain.nonces /\ chain'.entered = chain.entered
        /\ chain'.balance = chain.balance /\ chain'.approval = chain.approval
    BY <1>1, <1>4 DEF Chain
  <1>6. WellFormed(chain')
    <2> HIDE DEF off
    <2>1. /\ IsFiniteSet(DOMAIN book) /\ DOMAIN book \subseteq RuleId
          /\ chain'.rules \in [DOMAIN chain'.rules -> Rule]
      BY <1>3, <1>5 DEF WellFormed
    <2>2. ASSUME NEW x \in DOMAIN book
          PROVE  x[2] < chain'.nonces[x[1]] /\ Checked(chain'.rules[x])
      BY <1>2, <1>3, <1>5 DEF WellFormed
    <2> QED BY <1>5, <2>1, <2>2 DEF WellFormed
  <1>7. Kept(chain, chain')
    BY <1>3, <1>5 DEF Kept
  <1>8. chain.balance[Self] \in Nat
    BY <1>1 DEF Chain
  <1> QED BY <1>5, <1>6, <1>7, <1>8 DEF World

LEMMA CreateWorld ==
    ASSUME WellFormed(chain), now \in Nat, NEW a \in Accounts, NEW p \in ParamChoices,
           CreateRule(a, p)
    PROVE  World(chain, chain')
  <1> DEFINE id == <<a, chain.nonces[a]>>
             r == NewRule(a, p, now)
             old == chain.rules
             book == [x \in DOMAIN old \cup {id} |-> IF x = id THEN r ELSE old[x]]
             ns == [chain.nonces EXCEPT ![a] = chain.nonces[a] + 1]
  <1>1. /\ chain \in Chain({chain.rules}) /\ old \in [DOMAIN old -> Rule]
        /\ IsFiniteSet(DOMAIN old) /\ DOMAIN old \subseteq RuleId /\ Self \in Holders
        /\ chain.nonces \in [Accounts -> Nat]
        /\ \A x \in DOMAIN old : x[2] < chain.nonces[x[1]] /\ Checked(old[x])
    BY DEF WellFormed, Holders, Chain
  <1>2. r \in Rule /\ Checked(r)
    BY NewRuleIs, ExecutionAssumption DEF CreateRule
  <1>3. id \in RuleId /\ id \notin DOMAIN old /\ id[1] = a /\ id[2] = chain.nonces[a]
    BY <1>1 DEF RuleId
  <1>4. ns \in [Accounts -> Nat] /\ \A y \in Accounts : ns[y] >= chain.nonces[y]
    BY <1>1
  <1>5. ns[a] > chain.nonces[a]
    BY <1>1
  <1> HIDE DEF r, id
  <1>6. /\ DOMAIN book = DOMAIN old \cup {id} /\ book \in [DOMAIN book -> Rule]
        /\ book[id] = r /\ \A x \in DOMAIN old : book[x] = old[x]
    BY <1>1, <1>2, <1>3
  <1>7. chain' = [chain EXCEPT !.nonces = ns, !.rules = book]
    BY Zenon DEF CreateRule, r, id
  <1> HIDE DEF ns, book
  <1>8. /\ chain' \in Chain({chain'.rules}) /\ chain'.rules = book
        /\ chain'.nonces = ns /\ chain'.entered = chain.entered
        /\ chain'.balance = chain.balance /\ chain'.approval = chain.approval
    BY <1>1, <1>4, <1>7 DEF Chain
  <1>9. WellFormed(chain')
    <2>1. IsFiniteSet(DOMAIN book) /\ DOMAIN book \subseteq RuleId
      BY <1>1, <1>3, <1>6, FS_AddElement
    <2>2. ASSUME NEW x \in DOMAIN book PROVE x[2] < ns[x[1]] /\ Checked(book[x])
      <3>1. CASE x = id
        BY <1>2, <1>3, <1>5, <1>6, <3>1
      <3>2. CASE x \in DOMAIN old
        <4>1. x[1] \in Accounts /\ x[2] \in Nat /\ x[2] < chain.nonces[x[1]]
          BY <1>1, <3>2 DEF RuleId
        <4>2. ns[x[1]] >= chain.nonces[x[1]] /\ ns[x[1]] \in Nat /\ chain.nonces[x[1]] \in Nat
          BY <1>1, <1>4, <4>1
        <4> QED BY <1>1, <1>6, <3>2, <4>1, <4>2
      <3> QED BY <1>6, <3>1, <3>2
    <2> QED BY <1>6, <1>8, <2>1, <2>2 DEF WellFormed
  <1>10. Kept(chain, chain')
    BY <1>6, <1>8 DEF Kept
  <1>11. chain.balance[Self] \in Nat
    BY <1>1 DEF Chain
  <1> QED BY <1>8, <1>9, <1>10, <1>11 DEF World

-----------------------------------------------------------------------------
(* What execute does *)

\* Up to the deposit: the rule is advanced, and what is approved is there.
LEMMA OpenedCalled ==
    ASSUME now \in Nat, NEW s, NEW id, NEW d,
           WellFormed(s), WellFormed(chain), RanSince(now, s, chain), NoApproval(chain),
           Accepted(id),
           d = [Opened(id) EXCEPT !.entered = TRUE]
    PROVE  Called(now, s, d, id)
  <1> DEFINE r == chain.rules[id]
             m == MarkedExecuted(r, now)
             book == [chain.rules EXCEPT ![id] = m]
             b == Moved(chain.balance, r.account, Self, r.amountPerRun)
             w == Lowered(chain.allowance, r.account, r.amountPerRun)
             y == [chain.approval EXCEPT ![r.vault] = r.amountPerRun]
  <1>1. /\ chain \in Chain({chain.rules}) /\ id \in DOMAIN chain.rules
        /\ chain.rules \in [DOMAIN chain.rules -> Rule] /\ DOMAIN chain.rules \subseteq RuleId
        /\ IsFiniteSet(DOMAIN chain.rules)
        /\ r \in Rule /\ Checked(r) /\ IsDue(r, now)
        /\ chain.allowance[r.account] >= r.amountPerRun
        /\ chain.balance[r.account] >= r.amountPerRun
    BY Zenon DEF WellFormed, Accepted
  <1>2. m \in Rule /\ Checked(m) /\ ~IsDue(m, now) /\ m.vault = r.vault
    BY <1>1, MarkedRule
  <1>3. /\ r.account \in Accounts /\ r.vault \in Vaults /\ r.amountPerRun \in Nat
        /\ r.account # Self /\ Self \in Holders /\ r.account \in Holders
    BY <1>1, ExecutionAssumption DEF Rule, Holders
  <1>4. /\ chain.balance \in [Holders -> Nat] /\ chain.allowance \in [Accounts -> Nat]
        /\ chain.approval \in [Vaults -> Nat]
    BY <1>1 DEF Chain
  <1>5. d = [[chain EXCEPT !.rules = book, !.balance = b, !.allowance = w, !.approval = y]
                    EXCEPT !.entered = TRUE]
    BY Zenon DEF Opened
  <1> HIDE DEF m, r
  <1>6. b \in [Holders -> Nat] /\ b[Self] = chain.balance[Self] + r.amountPerRun
    BY <1>1, <1>3, <1>4 DEF Moved
  <1>7. w \in [Accounts -> Nat]
    BY <1>1, <1>3, <1>4 DEF Lowered
  <1>8. /\ y \in [Vaults -> Nat]
        /\ \A v \in Vaults : y[v] = IF v = r.vault THEN r.amountPerRun ELSE 0
    BY <1>3, <1>4 DEF NoApproval
  <1>9. /\ DOMAIN book = DOMAIN chain.rules /\ book \in [DOMAIN book -> Rule] /\ book[id] = m
        /\ \A x \in DOMAIN book : book[x] = IF x = id THEN m ELSE chain.rules[x]
    BY <1>1, <1>2
  <1> HIDE DEF book, b, w, y
  <1>10. /\ d \in Chain({d.rules}) /\ d.rules = book /\ d.nonces = chain.nonces
         /\ d.entered = TRUE /\ d.balance = b /\ d.approval = y
    BY <1>1, <1>5, <1>6, <1>7, <1>8 DEF Chain
  <1>11. WellFormed(d)
    <2>1. ASSUME NEW x \in DOMAIN book
          PROVE  x[2] < d.nonces[x[1]] /\ Checked(book[x])
      <3>1. Checked(chain.rules[x]) /\ x[2] < chain.nonces[x[1]]
        BY <1>9 DEF WellFormed
      <3>2. Checked(book[x])
        BY <1>2, <1>9, <3>1, Zenon
      <3> QED BY <1>10, <3>1, <3>2
    <2> QED BY <1>1, <1>9, <1>10, <2>1 DEF WellFormed
  <1>12. RanSince(now, s, d)
    <2> SUFFICES ASSUME NEW x \in DOMAIN s.rules
                 PROVE  x \in DOMAIN d.rules /\ RanOnce(now, s.rules[x], d.rules[x])
      BY DEF RanSince
    <2>1. /\ s.rules[x] \in Rule /\ Checked(s.rules[x])
          /\ x \in DOMAIN chain.rules /\ RanOnce(now, s.rules[x], chain.rules[x])
      BY DEF WellFormed, RanSince
    <2>2. x = id => RanOnce(now, s.rules[x], m)
      BY <1>1, <2>1, OnceMarked DEF m, r
    <2> QED BY <1>9, <1>10, <2>1, <2>2
  <1>13. ASSUME NEW v \in Vaults
         PROVE  d.approval[v] <= IF v = d.rules[id].vault THEN d.balance[Self] ELSE 0
    <2>1. d.rules[id].vault = r.vault
      BY <1>1, <1>2, <1>9, <1>10
    <2>2. chain.balance[Self] \in Nat
      BY <1>3, <1>4
    <2> QED BY <1>3, <1>6, <1>8, <1>10, <2>1, <2>2
  <1> QED BY <1>1, <1>2, <1>9, <1>10, <1>11, <1>12, <1>13 DEF Called

\* While it is called, a vault takes what is approved, at most.
LEMMA PullCalled ==
    ASSUME now \in Nat, NEW s, WellFormed(s), Called(now, s, chain, Paying),
           NEW x \in Transfers, Pull(x)
    PROVE  Called(now, s, chain', Paying)
  <1> DEFINE b == Moved(chain.balance, Self, Callee, x)
             y == Lowered(chain.approval, Callee, x)
             id == Paying
  <1>1. /\ WellFormed(chain) /\ chain \in Chain({chain.rules})
        /\ id \in DOMAIN chain.rules /\ chain.rules[id] \in Rule
        /\ Callee = chain.rules[id].vault /\ x \in Nat
        /\ x <= chain.approval[Callee] /\ x <= chain.balance[Self]
    BY ExecutionAssumption DEF Called, WellFormed, Callee, Pull
  <1>2. Callee \in Vaults /\ Callee \in Holders /\ Self \in Holders /\ Callee # Self
    BY <1>1, ExecutionAssumption DEF Rule, Holders
  <1>3. chain.balance \in [Holders -> Nat] /\ chain.approval \in [Vaults -> Nat]
    BY <1>1 DEF Chain
  <1>4. chain' = [chain EXCEPT !.balance = b, !.approval = y]
    BY DEF Pull
  <1> HIDE DEF id
  <1>5. b \in [Holders -> Nat] /\ b[Self] = chain.balance[Self] - x
    BY <1>1, <1>2, <1>3 DEF Moved
  <1>6. /\ y \in [Vaults -> Nat] /\ y[Callee] = chain.approval[Callee] - x
        /\ \A v \in Vaults : v # Callee => y[v] = chain.approval[v]
    BY <1>1, <1>2, <1>3 DEF Lowered
  <1> HIDE DEF b, y
  <1>7. /\ chain' \in Chain({chain'.rules}) /\ chain'.rules = chain.rules
        /\ chain'.nonces = chain.nonces /\ chain'.entered = chain.entered
        /\ chain'.balance = b /\ chain'.approval = y
    BY <1>1, <1>4, <1>5, <1>6 DEF Chain
  <1>8. WellFormed(chain') /\ Kept(chain, chain')
    BY <1>1, <1>7, SameBook
  <1>9. RanSince(now, s, chain')
    BY <1>1, <1>8, KeptRan DEF Called, id
  <1>10. ASSUME NEW v \in Vaults
         PROVE  chain'.approval[v] <= IF v = chain'.rules[id].vault THEN chain'.balance[Self] ELSE 0
    <2>1. chain.approval[v] <= IF v = Callee THEN chain.balance[Self] ELSE 0
      BY <1>1 DEF Called, id
    <2>2. chain.balance[Self] \in Nat /\ chain.approval[v] \in Nat
      BY <1>2, <1>3
    <2> QED BY <1>1, <1>5, <1>6, <1>7, <2>1, <2>2
  <1>11. chain'.entered /\ id \in DOMAIN chain'.rules /\ ~IsDue(chain'.rules[id], now)
    BY <1>1, <1>7, Zenon DEF Called, id
  <1> QED BY <1>8, <1>9, <1>10, <1>11 DEF Called, id

\* A deposit changes what the account has in the vault, and no more.
LEMMA DepositedIs ==
    ASSUME now \in Nat, NEW s, NEW d, NEW flag \in BOOLEAN,
           WellFormed(s), Called(now, s, chain, Paying),
           d = [Deposited EXCEPT !.entered = flag]
    PROVE  /\ WellFormed(d) /\ RanSince(now, s, d) /\ d.entered = flag
           /\ d.rules = chain.rules /\ d.balance = chain.balance /\ d.approval = chain.approval
           /\ LET r == chain.rules[Paying]
              IN  d.position = Credited(chain.position, r.account, r.vault, r.amountPerRun)
           /\ (flag = TRUE => d = Deposited)
  <1> DEFINE id == Paying
             r == chain.rules[id]
             q == Credited(chain.position, r.account, r.vault, r.amountPerRun)
  <1>1. WellFormed(chain) /\ chain \in Chain({chain.rules}) /\ r \in Rule /\ chain.entered = TRUE
    BY DEF Called, WellFormed, Chain
  <1>2. r.account \in Accounts /\ r.vault \in Vaults /\ r.amountPerRun \in Nat
    BY <1>1 DEF Rule
  <1>3. chain.position \in [Accounts -> [Vaults -> Nat]]
    BY <1>1 DEF Chain
  <1>4. Deposited = [chain EXCEPT !.position = q] /\ d = [[chain EXCEPT !.position = q] EXCEPT !.entered = flag]
    BY Zenon DEF Deposited
  <1>5. q \in [Accounts -> [Vaults -> Nat]]
    <2> HIDE DEF r
    <2>1. chain.position[r.account][r.vault] + r.amountPerRun \in Nat
      BY <1>2, <1>3
    <2>2. [chain.position[r.account] EXCEPT
             ![r.vault] = chain.position[r.account][r.vault] + r.amountPerRun] \in [Vaults -> Nat]
      BY <1>2, <1>3, <2>1
    <2> QED BY <1>3, <2>2 DEF Credited
  <1>a. q = Credited(chain.position, r.account, r.vault, r.amountPerRun)
    OBVIOUS
  <1> HIDE DEF q
  <1>6. /\ d \in Chain({d.rules}) /\ d.rules = chain.rules /\ d.nonces = chain.nonces
        /\ d.entered = flag /\ d.balance = chain.balance /\ d.approval = chain.approval
        /\ d.position = q /\ (flag = TRUE => d = Deposited)
    BY <1>1, <1>4, <1>5 DEF Chain
  <1>7. WellFormed(d) /\ Kept(chain, d)
    BY <1>1, <1>6, SameBook
  <1>8. RanSince(now, s, d)
    BY <1>1, <1>7, KeptRan DEF Called
  <1> QED BY <1>6, <1>7, <1>8, <1>a

\* After the deposit: nothing is left, and so nothing approved.
LEMMA DepositedLoops ==
    ASSUME now \in Nat, NEW s, NEW d, NEW flag \in BOOLEAN,
           WellFormed(s), Called(now, s, chain, Paying), NoResidue,
           d = [Deposited EXCEPT !.entered = flag]
    PROVE  /\ WellFormed(d) /\ RanSince(now, s, d) /\ NoApproval(d)
           /\ d.balance[Self] = 0 /\ d.entered = flag
  <1>1. /\ WellFormed(d) /\ RanSince(now, s, d) /\ d.entered = flag
        /\ d.balance = chain.balance /\ d.approval = chain.approval
    BY DepositedIs
  <1>2. ASSUME NEW v \in Vaults PROVE d.approval[v] = 0
    <2>1. chain.approval[v] <= IF v = chain.rules[Paying].vault THEN chain.balance[Self] ELSE 0
      BY DEF Called
    <2>2. chain.approval[v] \in Nat /\ chain.balance[Self] = 0
      BY DEF Called, WellFormed, Chain, NoResidue
    <2> QED BY <1>1, <2>1, <2>2
  <1> QED BY <1>1, <1>2 DEF NoApproval, NoResidue

-----------------------------------------------------------------------------
(* The stack *)

LEMMA Stacks ==
    ASSUME NEW f, NEW g
    PROVE  /\ <<f>> # <<>> /\ Head(<<f>>) = f /\ Tail(<<f>>) = <<>>
           /\ Len(<<f>>) = 1 /\ <<f>>[1] = f /\ <<f>>[Len(<<f>>)] = f
           /\ <<f, g>> # <<>> /\ Head(<<f, g>>) = f /\ Tail(<<f, g>>) = <<g>>
           /\ Len(<<f, g>>) = 2 /\ <<f, g>>[Len(<<f, g>>)] = g
           /\ <<f>> \o <<>> = <<f>> /\ <<f>> \o <<g>> = <<f, g>>
  <1>1. <<f>> # <<>> /\ Head(<<f>>) = f /\ Tail(<<f>>) = <<>> /\ Len(<<f>>) = 1
    OBVIOUS
  <1>2. <<f, g>> # <<>> /\ Head(<<f, g>>) = f /\ Len(<<f, g>>) = 2
    OBVIOUS
  <1>3. Tail(<<f, g>>) = <<g>>
    OBVIOUS
  <1>4. <<f>> \o <<>> = <<f>> /\ <<f>> \o <<g>> = <<f, g>>
    <2> DEFINE S == {f, g}
    <2>1. <<f>> \in Seq(S) /\ <<g>> \in Seq(S) /\ <<f, g>> \in Seq(S)
      OBVIOUS
    <2> HIDE DEF S
    <2>2. <<f>> \o <<>> = <<f>>
      BY <2>1, ConcatEmptySeq
    <2>3. /\ <<f>> \o <<g>> \in Seq(S) /\ Len(<<f>> \o <<g>>) = 2
          /\ \A i \in 1..2 : (<<f>> \o <<g>>)[i] = <<f, g>>[i]
      BY <2>1, ConcatProperties
    <2>4. Len(<<f, g>>) = 2
      OBVIOUS
    <2>5. <<f>> \o <<g>> = <<f, g>>
      BY <2>1, <2>3, <2>4, SeqEqual
    <2> QED BY <2>2, <2>5
  <1> QED BY <1>1, <1>2, <1>3, <1>4

StackEmpty      == frames = <<>> /\ Resting(chain)
StackExecute(f)  == frames = <<f>> /\ InExecute(now, chain, f)
StackLoop(f)  == frames = <<f>> /\ InLoop(now, chain, f)
StackOne(f, g) == frames = <<f, g>> /\ InOne(now, chain, f, g)

\* The invariant, shape by shape.
LEMMA Shapes ==
    ASSUME ExecutionInv
    PROVE  /\ now \in Nat /\ paused \in BOOLEAN /\ (Running => ~paused)
           /\ StackEmpty \/ (\E f : StackExecute(f)) \/ (\E f : StackLoop(f)) \/ (\E f, g : StackOne(f, g))
  BY Zenon DEF ExecutionInv, StackEmpty, StackExecute, StackLoop, StackOne

LEMMA ToIdle ==
    ASSUME now' \in Nat, paused' \in BOOLEAN, frames' = <<>>, Resting(chain')
    PROVE  ExecutionInv'
  BY DEF ExecutionInv, Running

LEMMA ToPaid ==
    ASSUME NEW f, now' \in Nat, paused' = FALSE, frames' = <<f>>, InExecute(now', chain', f)
    PROVE  ExecutionInv'
  <1>1. frames'[Len(frames')] = f
    BY Stacks
  <1> QED BY <1>1 DEF ExecutionInv, Running

LEMMA ToLoop ==
    ASSUME NEW f, now' \in Nat, paused' = FALSE, frames' = <<f>>, InLoop(now', chain', f)
    PROVE  ExecutionInv'
  <1>1. frames'[Len(frames')] = f
    BY Stacks
  <1> QED BY <1>1 DEF ExecutionInv, Running

LEMMA ToOne ==
    ASSUME NEW f, NEW g, now' \in Nat, paused' = FALSE, frames' = <<f, g>>,
           InOne(now', chain', f, g)
    PROVE  ExecutionInv'
  <1>1. frames'[Len(frames')] = g /\ Top' = f
    BY Stacks DEF Top
  <1> QED BY <1>1 DEF ExecutionInv, Running

\* What runs in each shape.
LEMMA RunsIdle ==
    ASSUME StackEmpty
    PROVE  ~Running /\ ~LoopRuns /\ ~VaultRuns /\ WellFormed(chain) /\ ~chain.entered
  BY DEF StackEmpty, Running, LoopRuns, VaultRuns, Resting

LEMMA RunsPaid ==
    ASSUME NEW f, StackExecute(f)
    PROVE  /\ Running /\ ~LoopRuns /\ VaultRuns /\ Top = f /\ Tail(frames) = <<>>
           /\ frames[Len(frames)] = f /\ Paying = f.ids[1] /\ Top.call = "execute"
           /\ Resting(f.saved) /\ Called(now, f.saved, chain, Paying)
           /\ WellFormed(chain) /\ WellFormed(f.saved) /\ chain.entered
  <1>1. Running /\ Top = f /\ Tail(frames) = <<>> /\ frames[Len(frames)] = f
    BY Stacks DEF StackExecute, Running, Top
  <1> QED BY <1>1 DEF StackExecute, InExecute, LoopRuns, VaultRuns, Paying, Called, Resting

LEMMA RunsLoop ==
    ASSUME NEW f, StackLoop(f)
    PROVE  /\ Running /\ LoopRuns /\ ~VaultRuns /\ Top = f /\ Tail(frames) = <<>>
           /\ frames[Len(frames)] = f
           /\ Resting(f.saved) /\ Looping(now, f.saved, chain)
           /\ WellFormed(chain) /\ WellFormed(f.saved) /\ chain.entered
  <1>1. Running /\ Top = f /\ Tail(frames) = <<>> /\ frames[Len(frames)] = f
    BY Stacks DEF StackLoop, Running, Top
  <1> QED BY <1>1 DEF StackLoop, InLoop, LoopRuns, VaultRuns, Looping, Resting

LEMMA RunsOne ==
    ASSUME NEW f, NEW g, StackOne(f, g)
    PROVE  /\ Running /\ ~LoopRuns /\ VaultRuns /\ Top = f /\ Tail(frames) = <<g>>
           /\ frames[Len(frames)] = g /\ Paying = f.ids[1] /\ Top.call = "executeOne"
           /\ InLoop(now, f.saved, g) /\ Called(now, g.saved, chain, Paying)
           /\ WellFormed(chain) /\ WellFormed(g.saved) /\ chain.entered
  <1>1. Running /\ Top = f /\ Tail(frames) = <<g>> /\ frames[Len(frames)] = g
    BY Stacks DEF StackOne, Running, Top
  <1> QED BY <1>1 DEF StackOne, InOne, InLoop, LoopRuns, VaultRuns, Paying, Called, Resting

-----------------------------------------------------------------------------
(* Steps *)

LEMMA WorldStep ==
    ASSUME ExecutionInv, World(chain, chain'), ~LoopRuns, UNCHANGED <<frames, paused, now>>
    PROVE  ExecutionInv'
  <1>1. now' \in Nat /\ paused' \in BOOLEAN /\ (Running => paused' = FALSE)
    BY Shapes
  <1>2. CASE StackEmpty
    BY <1>1, <1>2, WorldResting, ToIdle DEF StackEmpty
  <1>3. ASSUME NEW f, StackExecute(f) PROVE ExecutionInv'
    <2>1. Called(now, f.saved, chain', f.ids[1])
      BY <1>1, <1>3, RunsPaid, WorldCalled DEF StackExecute, InExecute
    <2> QED BY <1>1, <1>3, <2>1, RunsPaid, ToPaid DEF StackExecute, InExecute
  <1>4. ASSUME NEW f, NEW g, StackOne(f, g) PROVE ExecutionInv'
    <2>1. Called(now, g.saved, chain', f.ids[1])
      BY <1>1, <1>4, RunsOne, WorldCalled DEF StackOne, InOne
    <2> QED BY <1>1, <1>4, <2>1, RunsOne, ToOne DEF StackOne, InOne
  <1> QED BY <1>2, <1>3, <1>4, Shapes, RunsLoop

LEMMA OtherStep == ASSUME ExecutionInv, OtherNext PROVE ExecutionInv'
  <1>1. now \in Nat /\ paused \in BOOLEAN /\ (Running => ~paused)
    BY Shapes
  <1>2. WellFormed(chain)
    BY Shapes, RunsIdle, RunsPaid, RunsLoop, RunsOne
  <1>3. ASSUME NEW x \in Transfers, Pull(x) PROVE ExecutionInv'
    <2>1. UNCHANGED <<frames, paused, now>> /\ VaultRuns
      BY <1>3 DEF Pull
    <2>2. ASSUME NEW f, StackExecute(f) PROVE ExecutionInv'
      <3>1. Called(now, f.saved, chain', f.ids[1])
        BY <1>1, <1>3, <2>2, RunsPaid, PullCalled
      <3> QED BY <1>1, <2>1, <2>2, <3>1, RunsPaid, ToPaid DEF StackExecute, InExecute
    <2>3. ASSUME NEW f, NEW g, StackOne(f, g) PROVE ExecutionInv'
      <3>1. Called(now, g.saved, chain', f.ids[1])
        BY <1>1, <1>3, <2>3, RunsOne, PullCalled
      <3> QED BY <1>1, <2>1, <2>3, <3>1, RunsOne, ToOne DEF StackOne, InOne
    <2> QED BY <2>1, <2>2, <2>3, Shapes, RunsIdle, RunsLoop
  <1>4. ASSUME NEW h \in Accounts \cup Vaults, NEW to \in Recipients, NEW x \in Transfers,
               Transfer(h, to, x)
        PROVE  ExecutionInv'
    <2>1. UNCHANGED <<frames, paused, now>> /\ ~LoopRuns
      BY <1>4, ExecutionAssumption DEF Transfer, MayAct, LoopRuns, VaultRuns
    <2> QED BY <1>2, <1>4, <2>1, TransferWorld, WorldStep
  <1>5. ASSUME NEW a \in Accounts, NEW x \in Approvals, Approve(a, x) PROVE ExecutionInv'
    <2>1. UNCHANGED <<frames, paused, now>> /\ ~LoopRuns
      BY <1>5 DEF Approve, MayAct, LoopRuns, VaultRuns
    <2> QED BY <1>2, <1>5, <2>1, ApproveWorld, WorldStep
  <1>6. ASSUME NEW a \in Accounts, NEW p \in ParamChoices, CreateRule(a, p) PROVE ExecutionInv'
    <2>1. UNCHANGED <<frames, paused, now>> /\ ~LoopRuns
      BY <1>6, Zenon DEF CreateRule, MayAct, LoopRuns, VaultRuns
    <2> QED BY <1>1, <1>2, <1>6, <2>1, CreateWorld, WorldStep
  <1>7. ASSUME NEW a \in Accounts, NEW id \in Ids, CancelRule(a, id) PROVE ExecutionInv'
    <2>1. UNCHANGED <<frames, paused, now>> /\ ~LoopRuns
      BY <1>7, Zenon DEF CancelRule, MayAct, LoopRuns, VaultRuns
    <2> QED BY <1>2, <1>7, <2>1, CancelWorld, WorldStep
  <1>8. ASSUME NEW value \in BOOLEAN, SetPaused(value) PROVE ExecutionInv'
    <2>1. StackEmpty
      BY <1>8, Shapes, RunsPaid, RunsLoop, RunsOne DEF SetPaused
    <2> QED BY <1>1, <1>8, <2>1, ToIdle DEF StackEmpty, SetPaused
  <1>9. CASE Tick
    <2>1. StackEmpty
      BY <1>9, Shapes, RunsPaid, RunsLoop, RunsOne DEF Tick
    <2> QED BY <1>1, <1>9, <2>1, ToIdle DEF StackEmpty, Tick
  <1> QED BY <1>3, <1>4, <1>5, <1>6, <1>7, <1>8, <1>9, Zenon DEF OtherNext

LEMMA RanNothing == ASSUME NEW t, NEW s PROVE RanSince(t, s, s)
  BY OnceUntouched DEF RanSince

\* A chain on which only the guard differs.
LEMMA Guarded ==
    ASSUME NEW c, WellFormed(c), NEW flag \in BOOLEAN
    PROVE  LET d == [c EXCEPT !.entered = flag]
           IN  /\ WellFormed(d) /\ d.rules = c.rules /\ d.balance = c.balance
               /\ d.approval = c.approval /\ d.entered = flag
               /\ (c.entered = flag => d = c)
  <1> DEFINE d == [c EXCEPT !.entered = flag]
  <1>1. c \in Chain({c.rules})
    BY DEF WellFormed
  <1>2. /\ d \in Chain({d.rules}) /\ d.rules = c.rules /\ d.balance = c.balance
        /\ d.approval = c.approval /\ d.entered = flag /\ d.nonces = c.nonces
        /\ (c.entered = flag => d = c)
    BY <1>1 DEF Chain
  <1> HIDE DEF d
  <1>3. WellFormed(d)
    BY <1>2, SameBook
  <1> QED BY <1>2, <1>3 DEF d

LEMMA ExecuteStep ==
    ASSUME ExecutionInv, NEW id, Execute(id)
    PROVE  ExecutionInv'
  <1> DEFINE f == [call |-> "execute", ids |-> <<id>>, saved |-> chain]
  <1>1. StackEmpty
    BY Shapes, RunsPaid, RunsLoop, RunsOne DEF Execute, MayEnter
  <1>2. now \in Nat /\ now' = now /\ paused' = FALSE
    BY Shapes DEF Execute, MayEnter
  <1>3. frames' = <<f>>
    BY <1>1, Stacks DEF Execute, Push, StackEmpty
  <1>4. Called(now, chain, chain', id)
    <2>1. /\ WellFormed(chain) /\ NoApproval(chain) /\ RanSince(now, chain, chain)
          /\ Accepted(id) /\ chain' = [Opened(id) EXCEPT !.entered = TRUE]
      BY <1>1, RanNothing DEF Execute, StackEmpty, Resting
    <2> QED BY <1>2, <2>1, OpenedCalled
  <1>5. f.call = "execute" /\ f.saved = chain /\ f.ids[1] = id
    OBVIOUS
  <1> HIDE DEF f
  <1>6. InExecute(now', chain', f)
    BY <1>1, <1>2, <1>4, <1>5 DEF InExecute, StackEmpty
  <1> QED BY <1>2, <1>3, <1>6, ToPaid

LEMMA ExecuteBatchStep ==
    ASSUME ExecutionInv, NEW ids \in Seq(RuleId), ExecuteBatch(ids)
    PROVE  ExecutionInv'
  <1> DEFINE f == [call |-> "executeBatch", ids |-> ids, saved |-> chain]
  <1>1. StackEmpty
    BY Shapes, RunsPaid, RunsLoop, RunsOne DEF ExecuteBatch, MayEnter
  <1>2. now \in Nat /\ now' = now /\ paused' = FALSE
    BY Shapes DEF ExecuteBatch, MayEnter
  <1>3. frames' = <<f>>
    BY <1>1, Stacks DEF ExecuteBatch, Push, StackEmpty
  <1>4. chain' = [chain EXCEPT !.entered = TRUE] /\ Resting(chain)
    BY <1>1 DEF ExecuteBatch, StackEmpty
  <1>5. /\ WellFormed(chain') /\ chain'.rules = chain.rules /\ chain'.entered
        /\ chain'.approval = chain.approval
    BY <1>4, Guarded DEF Resting
  <1>6. Looping(now, chain, chain')
    BY <1>4, <1>5, RanNothing DEF Looping, Resting, RanSince, NoApproval
  <1>7. f.saved = chain /\ f \in [call: {"executeBatch"}, ids: Seq(RuleId), saved: {chain}]
    OBVIOUS
  <1> HIDE DEF f
  <1>8. InLoop(now', chain', f)
    BY <1>2, <1>4, <1>6, <1>7 DEF InLoop
  <1> QED BY <1>2, <1>3, <1>8, ToLoop

\* The loop one id further.
LEMMA NextFrame ==
    ASSUME NEW f, StackLoop(f), Top.ids # <<>>
    PROVE  NextId.saved = f.saved /\ InLoop(now, chain, NextId)
  <1>1. Top = f /\ Resting(f.saved) /\ Looping(now, f.saved, chain)
    BY RunsLoop
  <1>2. f \in [call: {"executeBatch"}, ids: Seq(RuleId), saved: {f.saved}]
    BY DEF StackLoop, InLoop
  <1>3. Tail(f.ids) \in Seq(RuleId)
    <2>1. f.ids \in Seq(RuleId) /\ f.ids # <<>>
      BY <1>1, <1>2
    <2> QED BY <2>1
  <1>4. NextId = [f EXCEPT !.ids = Tail(f.ids)]
    BY <1>1 DEF NextId
  <1>5. /\ NextId \in [call: {"executeBatch"}, ids: Seq(RuleId), saved: {f.saved}]
        /\ NextId.saved = f.saved
    BY <1>2, <1>3, <1>4
  <1> QED BY <1>1, <1>5 DEF InLoop

LEMMA ExecuteOneStep ==
    ASSUME ExecutionInv, NEW id, ExecuteOne(id)
    PROVE  ExecutionInv'
  <1> DEFINE one == [call |-> "executeOne", ids |-> <<id>>, saved |-> chain]
  <1>1. PICK f : StackLoop(f)
    BY Shapes, RunsIdle, RunsPaid, RunsOne DEF ExecuteOne, OneAllowed
  <1>2. now \in Nat /\ now' = now /\ paused' = FALSE
    BY <1>1, Shapes, RunsLoop DEF ExecuteOne
  <1>3. Top.ids # <<>> /\ Accepted(id) /\ chain' = Opened(id) /\ LoopRuns
    BY <1>1, RunsLoop DEF ExecuteOne
  <1>4. NextId.saved = f.saved /\ InLoop(now, chain, NextId)
    BY <1>1, <1>3, NextFrame
  <1>5. frames' = <<one, NextId>>
    <2>1. frames' = <<one>> \o (<<NextId>> \o <<>>)
      BY <1>1, <1>3, RunsLoop DEF ExecuteOne
    <2> HIDE DEF one
    <2> QED BY <2>1, Stacks
  <1>6. Called(now, f.saved, chain', id)
    <2>1. /\ WellFormed(f.saved) /\ WellFormed(chain) /\ NoApproval(chain)
          /\ RanSince(now, f.saved, chain) /\ chain.entered
      BY <1>1, RunsLoop DEF Looping
    <2>2. Opened(id) = [Opened(id) EXCEPT !.entered = TRUE]
      <3>1. chain.entered = TRUE
        BY <2>1 DEF WellFormed, Chain
      <3> QED BY <2>1, <3>1 DEF Opened, WellFormed, Chain
    <2> QED BY <1>2, <1>3, <2>1, <2>2, OpenedCalled
  <1>7. one.call = "executeOne" /\ one.saved = chain /\ one.ids[1] = id
    OBVIOUS
  <1> HIDE DEF one
  <1>8. InOne(now', chain', one, NextId)
    BY <1>2, <1>4, <1>6, <1>7 DEF InOne
  <1> QED BY <1>2, <1>5, <1>8, ToOne

LEMMA SkipStep == ASSUME ExecutionInv, Skip PROVE ExecutionInv'
  <1>1. PICK f : StackLoop(f)
    BY Shapes, RunsIdle, RunsPaid, RunsOne DEF Skip
  <1>2. now \in Nat /\ now' = now /\ paused' = FALSE /\ chain' = chain
    BY <1>1, Shapes, RunsLoop DEF Skip
  <1>3. InLoop(now, chain, NextId)
    BY <1>1, NextFrame DEF Skip
  <1>4. frames' = <<NextId>>
    BY <1>1, RunsLoop, Stacks DEF Skip
  <1> QED BY <1>2, <1>3, <1>4, ToLoop

LEMMA ReturnsStep == ASSUME ExecutionInv, Returns PROVE ExecutionInv'
  <1>1. now \in Nat /\ now' = now /\ paused' = paused /\ VaultRuns /\ NoResidue
    BY Shapes DEF Returns
  <1>2. ASSUME NEW f, StackExecute(f) PROVE ExecutionInv'
    <2>1. chain' = [Deposited EXCEPT !.entered = FALSE] /\ frames' = <<>> /\ paused' = FALSE
      BY <1>1, <1>2, RunsPaid, Shapes DEF Returns
    <2>2. Resting(chain')
      BY <1>1, <1>2, <2>1, RunsPaid, DepositedLoops DEF Resting
    <2> QED BY <1>1, <2>1, <2>2, ToIdle
  <1>3. ASSUME NEW f, NEW g, StackOne(f, g) PROVE ExecutionInv'
    <2>1. chain' = Deposited /\ frames' = <<g>> /\ paused' = FALSE
      BY <1>1, <1>3, RunsOne, Shapes DEF Returns
    <2>2. Deposited = [Deposited EXCEPT !.entered = TRUE]
      BY <1>1, <1>3, RunsOne, DepositedIs
    <2>3. Looping(now, g.saved, chain')
      <3>1. Called(now, g.saved, chain, Paying) /\ WellFormed(g.saved)
        BY <1>3, RunsOne
      <3>2. chain' = [Deposited EXCEPT !.entered = TRUE]
        BY <2>1, <2>2
      <3>3. /\ WellFormed(chain') /\ RanSince(now, g.saved, chain') /\ NoApproval(chain')
            /\ chain'.balance[Self] = 0 /\ chain'.entered = TRUE
        BY <1>1, <3>1, <3>2, DepositedLoops
      <3> QED BY <3>3 DEF Looping
    <2>4. InLoop(now', chain', g)
      BY <1>1, <1>3, <2>3, RunsOne DEF InLoop
    <2> QED BY <1>1, <2>1, <2>4, ToLoop
  <1> QED BY <1>1, <1>2, <1>3, Shapes, RunsIdle, RunsLoop

LEMMA BatchReturnsStep == ASSUME ExecutionInv, BatchReturns PROVE ExecutionInv'
  <1>1. PICK f : StackLoop(f)
    BY Shapes, RunsIdle, RunsPaid, RunsOne DEF BatchReturns
  <1>2. /\ now' \in Nat /\ paused' = FALSE /\ frames' = <<>>
        /\ chain' = [chain EXCEPT !.entered = FALSE]
    BY <1>1, Shapes, RunsLoop DEF BatchReturns
  <1>3. WellFormed(chain) /\ NoApproval(chain)
    BY <1>1, RunsLoop DEF Looping
  <1>4. WellFormed(chain') /\ chain'.approval = chain.approval /\ chain'.entered = FALSE
    BY <1>2, <1>3, Guarded
  <1>5. Resting(chain')
    BY <1>3, <1>4 DEF Resting, NoApproval
  <1> QED BY <1>2, <1>5, ToIdle

LEMMA RevertsStep == ASSUME ExecutionInv, Reverts PROVE ExecutionInv'
  <1>1. /\ now \in Nat /\ now' = now /\ paused' = FALSE /\ chain' = Top.saved
        /\ frames' = Tail(frames) /\ Running
    BY Shapes DEF Reverts, Restored, VaultRuns, LoopRuns
  <1>2. ASSUME NEW f, StackExecute(f) PROVE ExecutionInv'
    BY <1>1, <1>2, RunsPaid, ToIdle
  <1>3. ASSUME NEW f, StackLoop(f) PROVE ExecutionInv'
    BY <1>1, <1>3, RunsLoop, ToIdle
  <1>4. ASSUME NEW f, NEW g, StackOne(f, g) PROVE ExecutionInv'
    BY <1>1, <1>4, RunsOne, ToLoop
  <1> QED BY <1>1, <1>2, <1>3, <1>4, Shapes, RunsIdle


LEMMA InitStep == Init => ExecutionInv
  <1> SUFFICES ASSUME Init PROVE ExecutionInv
    OBVIOUS
  <1>1. /\ chain.rules = [id \in {} |-> {}] /\ chain.nonces = [a \in Accounts |-> 0]
        /\ chain.balance = Funds /\ chain.approval = [v \in Vaults |-> 0]
        /\ chain.entered = FALSE /\ chain \in Chain({chain.rules})
    BY ExecutionAssumption DEF Init, Chain
  <1>2. /\ DOMAIN chain.rules = {} /\ chain.rules \in [DOMAIN chain.rules -> Rule]
        /\ IsFiniteSet(DOMAIN chain.rules)
    BY <1>1, FS_EmptySet
  <1>3. Resting(chain)
    BY <1>1, <1>2 DEF Resting, WellFormed, NoApproval
  <1> QED BY <1>3 DEF ExecutionInv, Init, Running

LEMMA NextStep == ASSUME ExecutionInv, [Next]_vars PROVE ExecutionInv'
  <1>1. ASSUME NEW n \in 1..MaxBatch, NEW ids \in [1..n -> Guessed] PROVE ids \in Seq(RuleId)
    BY ExecutionAssumption DEF Guessed, RuleId
  <1>2. CASE ExecutorNext
    <2>1. ASSUME NEW n \in 1..MaxBatch, NEW ids \in [1..n -> Guessed], ExecuteBatch(ids)
          PROVE  ExecutionInv'
      BY <1>1, <2>1, ExecuteBatchStep
    <2> QED
      BY <1>2, <2>1, ExecuteStep, ExecuteOneStep, SkipStep, ReturnsStep, BatchReturnsStep,
         RevertsStep, Zenon DEF ExecutorNext
  <1>3. CASE OtherNext
    BY <1>3, OtherStep
  <1>4. CASE UNCHANGED vars
    BY <1>4 DEF vars, ExecutionInv, Running, Top
  <1> QED BY <1>2, <1>3, <1>4, Zenon DEF Next

-----------------------------------------------------------------------------
(* Theorems *)

\* Whatever the vaults do, the stack of the executor's calls and the chain under
\* it are as ExecutionInv says (RuleExecutor.sol:129-211).
THEOREM ExecutionInvariant == Spec => []ExecutionInv
  <1> QED BY InitStep, NextStep, PTL DEF Spec

\* RuleExecutor.sol:195-197, 156-158: no deposit inside a deposit, and the rule
\* being paid is not due while its vault has control.
THEOREM NeverPaysInsideAPayment == Spec => []StoppedTwiceOver
  <1>1. ASSUME ExecutionInv PROVE StoppedTwiceOver
    <2>1. CASE StackEmpty
      BY <2>1, RunsIdle DEF StoppedTwiceOver, StackEmpty
    <2>2. ASSUME NEW f, StackExecute(f) PROVE StoppedTwiceOver
      <3>1. DOMAIN frames = {1}
        BY <2>2 DEF StackExecute
      <3> QED BY <2>2, <3>1, RunsPaid DEF StoppedTwiceOver, Called
    <2>3. ASSUME NEW f, StackLoop(f) PROVE StoppedTwiceOver
      <3>1. DOMAIN frames = {1}
        BY <2>3 DEF StackLoop
      <3> QED BY <2>3, <3>1, RunsLoop DEF StoppedTwiceOver
    <2>4. ASSUME NEW f, NEW g, StackOne(f, g) PROVE StoppedTwiceOver
      <3>1. DOMAIN frames = {1, 2} /\ frames[2] = g
        BY <2>4 DEF StackOne
      <3>2. frames[2].call = "executeBatch"
        BY <2>4, <3>1, RunsOne DEF InLoop
      <3> QED BY <2>4, <3>1, <3>2, RunsOne DEF StoppedTwiceOver, Called
    <2> QED BY <1>1, <2>1, <2>2, <2>3, <2>4, Shapes
  <1> QED BY <1>1, ExecutionInvariant, PTL

\* The last step of a transaction is the return or the revert of one call.
LEMMA EndsBy ==
    ASSUME ExecutionInv, Next, Ends
    PROVE  Returns \/ BatchReturns \/ Reverts
  <1>1. now \in Nat /\ paused = FALSE /\ Running /\ frames' = <<>>
    BY Shapes DEF Ends, Running
  <1>2. \A id, ids : ~Execute(id) /\ ~ExecuteBatch(ids) /\ ~ExecuteOne(id) /\ ~Skip
    <2>1. ASSUME Skip PROVE FALSE
      <3>1. PICK f : StackLoop(f)
        BY <2>1, Shapes, RunsIdle, RunsPaid, RunsOne DEF Skip
      <3>2. frames' = <<NextId>>
        BY <2>1, <3>1, RunsLoop, Stacks DEF Skip
      <3>3. <<NextId>> # <<>>
        BY Stacks
      <3> QED BY <1>1, <3>2, <3>3
    <2>2. ASSUME NEW id, NEW ids PROVE ~Execute(id) /\ ~ExecuteBatch(ids)
      <3>1. ASSUME Execute(id) \/ ExecuteBatch(ids), NEW f, frames' = <<f>> \o frames PROVE FALSE
        <4>1. frames = <<>>
          BY <3>1, Shapes, RunsPaid, RunsLoop, RunsOne DEF Execute, ExecuteBatch, MayEnter, StackEmpty
        <4> QED BY <1>1, <3>1, <4>1, Stacks
      <3> QED BY <3>1, Zenon DEF Execute, ExecuteBatch, Push
    <2>3. ASSUME NEW id, ExecuteOne(id) PROVE FALSE
      <3>1. PICK f : StackLoop(f)
        BY <2>3, Shapes, RunsIdle, RunsPaid, RunsOne DEF ExecuteOne, OneAllowed
      <3> DEFINE one == [call |-> "executeOne", ids |-> <<id>>, saved |-> chain]
      <3>2. frames' = <<one>> \o (<<NextId>> \o <<>>)
        BY <2>3, <3>1, RunsLoop DEF ExecuteOne
      <3> HIDE DEF one
      <3>3. frames' = <<one, NextId>>
        BY <3>2, Stacks
      <3>4. <<one, NextId>> # <<>>
        BY Stacks
      <3> QED BY <1>1, <3>3, <3>4
    <2> QED BY <2>1, <2>2, <2>3
  <1>3. ~OtherNext
    <2>1. OtherNext => frames' = frames
      BY Zenon DEF OtherNext, Pull, Transfer, Approve, CreateRule, CancelRule, SetPaused, Tick
    <2> QED BY <1>1, <2>1 DEF Running
  <1> QED BY <1>2, <1>3, Zenon DEF Next, ExecutorNext

\* The last step of a transaction: of which call, and what it leaves behind.
LEMMA EndStep ==
    ASSUME ExecutionInv, Next, Ends
    PROVE  /\ ~paused /\ RanSince(now, Settled, chain')
           /\ chain' = Settled \/ (chain'.balance[Self] = 0 /\ NoApproval(chain'))
  <1>1. now \in Nat /\ paused = FALSE /\ Running /\ frames' = <<>>
    BY Shapes DEF Ends, Running
  <1>2. CASE Returns
    <2>1. ASSUME NEW f, StackExecute(f)
          PROVE  /\ RanSince(now, Settled, chain')
                 /\ chain'.balance[Self] = 0 /\ NoApproval(chain')
      <3>1. /\ Settled = f.saved /\ NoResidue /\ chain' = [Deposited EXCEPT !.entered = FALSE]
            /\ WellFormed(f.saved) /\ Called(now, f.saved, chain, Paying)
        BY <1>2, <2>1, RunsPaid DEF Settled, Returns
      <3> QED BY <1>1, <3>1, DepositedLoops
    <2>2. ASSUME NEW f, NEW g, StackOne(f, g) PROVE FALSE
      BY <1>1, <1>2, <2>2, RunsOne, Stacks DEF Returns
    <2> QED BY <1>1, <1>2, <2>1, <2>2, Shapes, RunsIdle, RunsLoop DEF Returns
  <1>3. CASE BatchReturns
    <2>1. PICK f : StackLoop(f)
      BY <1>3, Shapes, RunsIdle, RunsPaid, RunsOne DEF BatchReturns
    <2>2. /\ Settled = f.saved /\ chain' = [chain EXCEPT !.entered = FALSE]
          /\ Looping(now, f.saved, chain) /\ Resting(f.saved)
      BY <1>3, <2>1, RunsLoop DEF Settled, BatchReturns
    <2>3. /\ chain'.rules = chain.rules /\ chain'.balance = chain.balance
          /\ chain'.approval = chain.approval
      BY <2>2, Guarded DEF Looping
    <2>4. RanSince(now, Settled, chain') /\ NoApproval(chain')
      <3>1. RanSince(now, Settled, chain) /\ NoApproval(chain)
        BY <2>2 DEF Looping
      <3> QED BY <2>3, <3>1, Zenon DEF RanSince, NoApproval
    <2>5. CASE chain = [f.saved EXCEPT !.entered = TRUE]
      <3>1. f.saved \in Chain({f.saved.rules}) /\ f.saved.entered = FALSE
        BY <2>2 DEF Resting, WellFormed, Chain
      <3>2. chain' = f.saved
        BY <2>2, <2>5, <3>1 DEF Chain
      <3> QED BY <1>1, <2>2, <2>4, <3>2
    <2> QED BY <1>1, <2>2, <2>3, <2>4, <2>5 DEF Looping
  <1>4. CASE Reverts
    <2>1. ASSUME NEW f, NEW g, StackOne(f, g) PROVE FALSE
      BY <1>1, <1>4, <2>1, RunsOne, Stacks DEF Reverts
    <2>2. chain' = Settled
      BY <1>1, <1>4, <2>1, Shapes, RunsIdle, RunsPaid, RunsLoop DEF Reverts, Restored, Settled
    <2> QED BY <1>1, <2>2, RanNothing
  <1> QED BY <1>2, <1>3, <1>4, EndsBy

\* README.md, invariant I5 (RuleExecutor.sol:205-211): a transaction of the
\* executor leaves it without FXRP and without approvals, or changes nothing.
THEOREM KeepsNothingHolds == Spec => KeepsNothing
  <1> DEFINE P == Ends => \/ chain' = Settled
                          \/ chain'.balance[Self] = 0 /\ NoApproval(chain')
  <1>1. ASSUME ExecutionInv, Next PROVE P
    BY <1>1, EndStep
  <1>2. ExecutionInv /\ [Next]_vars => [P]_vars
    BY <1>1
  <1> HIDE DEF P
  <1>3. Spec => [][P]_vars
    BY <1>2, ExecutionInvariant, PTL DEF Spec
  <1> QED BY <1>3 DEF P, KeepsNothing

\* README.md, invariants I3, I4 and I6: a transaction runs each rule once at the
\* most, only if it was due, and never while the executor is paused.
THEOREM RunsOnceIfDueHolds == Spec => RunsOnceIfDue
  <1> DEFINE P == Ends => ~paused /\ RanSince(now, Settled, chain')
  <1>1. ASSUME ExecutionInv, Next PROVE P
    BY <1>1, EndStep
  <1>2. ExecutionInv /\ [Next]_vars => [P]_vars
    BY <1>1
  <1> HIDE DEF P
  <1>3. Spec => [][P]_vars
    BY <1>2, ExecutionInvariant, PTL DEF Spec
  <1> QED BY <1>3 DEF P, RunsOnceIfDue

-----------------------------------------------------------------------------
(* The books *)

\* What a rule pays never changes, and what it has paid grows by an instalment.
LEMMA OncePaid ==
    ASSUME NEW t \in Nat, NEW r \in Rule, NEW x, Checked(r), RanOnce(t, r, x)
    PROVE  /\ x.account = r.account /\ x.vault = r.vault /\ x.amountPerRun = r.amountPerRun
           /\ x.totalSpent \in Nat /\ x.totalSpent >= r.totalSpent
  <1> DEFINE m == MarkedExecuted(r, t)
  <1>1. PICK y \in {r} \cup (IF IsDue(r, t) THEN {m} ELSE {}) : x \in {y, Cancelled(y)}
    BY DEF RanOnce
  <1>2. /\ m \in Rule /\ m.account = r.account /\ m.vault = r.vault
        /\ m.amountPerRun = r.amountPerRun /\ m.totalSpent = r.totalSpent + r.amountPerRun
    BY MarkedRule
  <1>3. r.totalSpent \in Nat /\ r.amountPerRun \in Nat
    BY DEF Rule
  <1> HIDE DEF m
  <1>4. /\ y \in Rule /\ y.account = r.account /\ y.vault = r.vault
        /\ y.amountPerRun = r.amountPerRun
        /\ y.totalSpent \in Nat /\ y.totalSpent >= r.totalSpent
    <2>1. y = r \/ y = m
      BY <1>1
    <2> QED BY <1>2, <1>3, <2>1
  <1>5. /\ Cancelled(y).account = y.account /\ Cancelled(y).vault = y.vault
        /\ Cancelled(y).amountPerRun = y.amountPerRun /\ Cancelled(y).totalSpent = y.totalSpent
    BY <1>4, CancelledRule
  <1> QED BY <1>1, <1>4, <1>5

\* A rule has paid something since, or nothing.
LEMMA PaidIs ==
    ASSUME NEW t \in Nat, NEW s, NEW c, WellFormed(s), WellFormed(c), RanSince(t, s, c),
           NEW id \in DOMAIN c.rules
    PROVE  Paid(id, s, c) \in Nat
  <1>1. c.rules[id].totalSpent \in Nat
    BY DEF WellFormed, Rule
  <1>2. CASE id \in DOMAIN s.rules
    <2>1. s.rules[id] \in Rule /\ Checked(s.rules[id]) /\ RanOnce(t, s.rules[id], c.rules[id])
      BY <1>2 DEF WellFormed, RanSince
    <2>2. c.rules[id].totalSpent >= s.rules[id].totalSpent /\ s.rules[id].totalSpent \in Nat
      BY <2>1, OncePaid DEF Rule
    <2> QED BY <1>1, <1>2, <2>2 DEF Paid
  <1>3. CASE id \notin DOMAIN s.rules
    BY <1>1, <1>3 DEF Paid
  <1> QED BY <1>2, <1>3

\* The rules whose payments are summed.
LEMMA OfIs ==
    ASSUME NEW c, WellFormed(c), NEW a, NEW V
    PROVE  /\ IsFiniteSet(Of(c, a, V)) /\ Of(c, a, V) \in SUBSET DOMAIN c.rules
  <1>1. Of(c, a, V) \subseteq DOMAIN c.rules /\ IsFiniteSet(DOMAIN c.rules)
    BY DEF Of, WellFormed
  <1> QED BY <1>1, FS_Subset

LEMMA PaidFromIs ==
    ASSUME NEW t \in Nat, NEW s, NEW c, WellFormed(s), WellFormed(c), RanSince(t, s, c),
           NEW a, NEW V
    PROVE  PaidFrom(a, V, s, c) \in Nat
  <1> DEFINE f == [id \in DOMAIN c.rules |-> Paid(id, s, c)]
  <1>1. \A id \in Of(c, a, V) : f[id] \in Nat
    BY OfIs, PaidIs
  <1> HIDE DEF f
  <1>2. SumFunctionOnSet(f, Of(c, a, V)) \in Nat
    BY <1>1, OfIs, SumType
  <1> QED BY <1>2 DEF PaidFrom, f

\* Where nothing happened the books balance.
LEMMA NothingPaid ==
    ASSUME NEW s, WellFormed(s)
    PROVE  Balanced(s, s)
  <1>1. ASSUME NEW a, NEW V PROVE PaidFrom(a, V, s, s) = 0
    <2> DEFINE f == [id \in DOMAIN s.rules |-> Paid(id, s, s)]
    <2>1. \A id \in Of(s, a, V) : f[id] = 0
      BY OfIs DEF Paid, WellFormed, Rule
    <2> HIDE DEF f
    <2>2. SumFunctionOnSet(f, {}) = 0
      BY SumType, FS_EmptySet
    <2>3. SumFunctionOnSet(f, Of(s, a, V)) = SumFunctionOnSet(f, {})
      BY <2>1, OfIs, SumExtends
    <2> QED BY <2>2, <2>3 DEF PaidFrom, f
  <1>2. ASSUME NEW a \in Accounts
        PROVE  /\ \A v \in Vaults : s.position[a][v] \in Nat
               /\ a \in Holders /\ s.balance[a] \in Nat
    BY DEF WellFormed, Chain, Holders
  <1> QED BY <1>1, <1>2 DEF Balanced

\* What happens while the books are being kept, but for the payments: rules are
\* created and cancelled, and what an account has grows.
Aside(c, d) ==
    /\ Kept(c, d) /\ d.position = c.position
    /\ \A id \in DOMAIN d.rules \ DOMAIN c.rules : d.rules[id].totalSpent = 0
    /\ \A a \in Accounts \ Vaults : d.balance[a] >= c.balance[a]

\* A rule that is kept pays what it paid, to the same vault for the same account.
LEMMA KeptPays ==
    ASSUME NEW c, NEW d, WellFormed(c), Kept(c, d), NEW id \in DOMAIN c.rules
    PROVE  /\ id \in DOMAIN d.rules
           /\ d.rules[id].account = c.rules[id].account /\ d.rules[id].vault = c.rules[id].vault
           /\ d.rules[id].amountPerRun = c.rules[id].amountPerRun
           /\ d.rules[id].totalSpent = c.rules[id].totalSpent
           /\ \A t : IsDue(d.rules[id], t) => IsDue(c.rules[id], t)
  <1>1. c.rules[id] \in Rule /\ id \in DOMAIN d.rules
        /\ d.rules[id] \in {c.rules[id], Cancelled(c.rules[id])}
    BY DEF WellFormed, Kept
  <1> QED BY <1>1, CancelledRule, Zenon

LEMMA AsideSums ==
    ASSUME NEW t \in Nat, NEW s, NEW c, NEW d, WellFormed(s), WellFormed(c), WellFormed(d),
           RanSince(t, s, c), Aside(c, d), NEW a, NEW V
    PROVE  PaidFrom(a, V, s, d) = PaidFrom(a, V, s, c)
  <1> DEFINE f == [id \in DOMAIN c.rules |-> Paid(id, s, c)]
             g == [id \in DOMAIN d.rules |-> Paid(id, s, d)]
  <1>1. /\ Of(c, a, V) \in SUBSET DOMAIN c.rules /\ Of(d, a, V) \in SUBSET DOMAIN d.rules
        /\ IsFiniteSet(Of(d, a, V))
    BY OfIs
  <1>2. Of(c, a, V) \in SUBSET Of(d, a, V)
    BY <1>1, KeptPays DEF Of, Aside
  <1>3. ASSUME NEW id \in Of(c, a, V) PROVE f[id] \in Nat /\ g[id] = f[id]
    <2>1. id \in DOMAIN c.rules /\ id \in DOMAIN d.rules
      BY <1>1, <1>2
    <2>2. Paid(id, s, c) \in Nat /\ Paid(id, s, d) = Paid(id, s, c)
      BY <2>1, PaidIs, KeptPays DEF Paid, Aside
    <2> QED BY <2>1, <2>2
  <1>4. ASSUME NEW id \in Of(d, a, V) \ Of(c, a, V) PROVE g[id] = 0
    <2>1. id \in DOMAIN d.rules
      BY <1>1
    <2>2. id \notin DOMAIN c.rules
      <3> SUFFICES ASSUME id \in DOMAIN c.rules PROVE FALSE
        OBVIOUS
      <3> QED BY KeptPays DEF Of, Aside
    <2>3. id \notin DOMAIN s.rules
      BY <2>2 DEF RanSince
    <2>4. d.rules[id].totalSpent = 0
      BY <2>1, <2>2 DEF Aside
    <2> QED BY <2>1, <2>3, <2>4 DEF Paid
  <1> HIDE DEF f, g
  <1>5. SumFunctionOnSet(g, Of(d, a, V)) = SumFunctionOnSet(f, Of(c, a, V))
    BY <1>1, <1>2, <1>3, <1>4, SumExtends
  <1> QED BY <1>5, Zenon DEF PaidFrom, f, g

LEMMA AsideAccounted ==
    ASSUME NEW t \in Nat, NEW s, NEW c, NEW d, WellFormed(s), WellFormed(c), WellFormed(d),
           RanSince(t, s, c), Aside(c, d), Accounted(t, s, c)
    PROVE  Accounted(t, s, d)
  <1>1. ASSUME NEW id \in DOMAIN d.rules \ DOMAIN s.rules
        PROVE  /\ Paid(id, s, d) \in {0, d.rules[id].amountPerRun}
               /\ IsDue(d.rules[id], t) => d.rules[id].totalSpent = 0
    <2>1. CASE id \in DOMAIN c.rules
      <3>1. /\ Paid(id, s, c) \in {0, c.rules[id].amountPerRun}
            /\ IsDue(c.rules[id], t) => c.rules[id].totalSpent = 0
        BY <2>1 DEF Accounted, Balanced
      <3>2. /\ d.rules[id].amountPerRun = c.rules[id].amountPerRun
            /\ d.rules[id].totalSpent = c.rules[id].totalSpent
            /\ IsDue(d.rules[id], t) => IsDue(c.rules[id], t)
        BY <2>1, KeptPays DEF Aside
      <3>3. Paid(id, s, d) = Paid(id, s, c)
        BY <3>2 DEF Paid
      <3> QED BY <3>1, <3>2, <3>3
    <2>2. CASE id \notin DOMAIN c.rules
      <3>1. d.rules[id].totalSpent = 0
        BY <2>2 DEF Aside
      <3> QED BY <3>1 DEF Paid
    <2> QED BY <2>1, <2>2
  <1>2. ASSUME NEW a \in Accounts
        PROVE  /\ \A v \in Vaults :
                    d.position[a][v] = s.position[a][v] + PaidFrom(a, {v}, s, d)
               /\ a \in Vaults \/ d.balance[a] >= s.balance[a] - PaidFrom(a, Vaults, s, d)
    <2>1. /\ \A v \in Vaults :
               c.position[a][v] = s.position[a][v] + PaidFrom(a, {v}, s, c)
          /\ a \in Vaults \/ c.balance[a] >= s.balance[a] - PaidFrom(a, Vaults, s, c)
      BY DEF Accounted, Balanced
    <2>2. \A V : PaidFrom(a, V, s, d) = PaidFrom(a, V, s, c)
      BY AsideSums
    <2>3. /\ a \in Holders /\ s.balance[a] \in Nat /\ c.balance[a] \in Nat
          /\ d.balance[a] \in Nat /\ PaidFrom(a, Vaults, s, c) \in Nat
      BY PaidFromIs DEF WellFormed, Chain, Holders
    <2>4. d.position = c.position /\ (a \notin Vaults => d.balance[a] >= c.balance[a])
      BY DEF Aside
    <2>5. a \in Vaults \/ d.balance[a] >= s.balance[a] - PaidFrom(a, Vaults, s, d)
      BY <2>1, <2>2, <2>3, <2>4
    <2> QED BY <2>1, <2>2, <2>4, <2>5
  <1> QED BY <1>1, <1>2 DEF Accounted, Balanced

\* What rule id pays is added to what its account has paid to its vault.
LEMMA InstalmentSums ==
    ASSUME NEW t \in Nat, NEW s, NEW c, NEW d, WellFormed(s), WellFormed(c), WellFormed(d),
           RanSince(t, s, c), RanSince(t, s, d), NEW id \in DOMAIN c.rules,
           d.rules = [c.rules EXCEPT ![id] = MarkedExecuted(c.rules[id], t)],
           NEW a, NEW V
    PROVE  PaidFrom(a, V, s, d) = PaidFrom(a, V, s, c)
             + IF c.rules[id].account = a /\ c.rules[id].vault \in V
               THEN c.rules[id].amountPerRun ELSE 0
  <1> DEFINE r == c.rules[id]
             m == MarkedExecuted(r, t)
             f == [x \in DOMAIN c.rules |-> Paid(x, s, c)]
             g == [x \in DOMAIN d.rules |-> Paid(x, s, d)]
             S == Of(c, a, V)
  <1>1. r \in Rule /\ Checked(r) /\ r.amountPerRun \in Nat /\ r.totalSpent \in Nat
    BY DEF WellFormed, Rule
  <1>2. /\ m.account = r.account /\ m.vault = r.vault
        /\ m.totalSpent = r.totalSpent + r.amountPerRun
    BY <1>1, MarkedRule
  <1> HIDE DEF m
  <1>3. /\ DOMAIN d.rules = DOMAIN c.rules /\ d.rules[id] = m
        /\ \A x \in DOMAIN c.rules : x # id => d.rules[x] = c.rules[x]
    BY DEF WellFormed, m
  <1>4. /\ S \in SUBSET DOMAIN c.rules /\ IsFiniteSet(S) /\ Of(d, a, V) = S
    <2>1. S \in SUBSET DOMAIN c.rules /\ IsFiniteSet(S)
      BY OfIs
    <2>2. \A x \in DOMAIN c.rules :
              d.rules[x].account = c.rules[x].account /\ d.rules[x].vault = c.rules[x].vault
      BY <1>2, <1>3
    <2>3. Of(d, a, V) = S
      BY <1>3, <2>2 DEF Of
    <2> QED BY <2>1, <2>3
  <1>5. \A x \in DOMAIN c.rules : f[x] \in Nat /\ g[x] \in Nat
    BY <1>3, PaidIs
  <1>6. \A x \in DOMAIN c.rules : x # id => g[x] = f[x]
    BY <1>3 DEF Paid
  <1>7. g[id] = f[id] + r.amountPerRun
    <2> DEFINE old == IF id \in DOMAIN s.rules THEN s.rules[id].totalSpent ELSE 0
    <2>1. old \in Nat
      BY DEF WellFormed, Rule
    <2>2. f[id] = r.totalSpent - old /\ g[id] = m.totalSpent - old
      BY <1>3 DEF Paid
    <2> HIDE DEF old
    <2> QED BY <1>1, <1>2, <2>1, <2>2
  <1>8. PaidFrom(a, V, s, c) = SumFunctionOnSet(f, S) /\ PaidFrom(a, V, s, d) = SumFunctionOnSet(g, S)
    BY <1>4 DEF PaidFrom
  <1>9. id \in S <=> r.account = a /\ r.vault \in V
    BY DEF Of
  <1> HIDE DEF f, g, S
  <1>10. CASE id \in S
    <2>1. SumFunctionOnSet(g, S) + f[id] = SumFunctionOnSet(f, S) + g[id]
      BY <1>4, <1>5, <1>6, <1>10, SumChanges
    <2>2. SumFunctionOnSet(g, S) \in Nat /\ SumFunctionOnSet(f, S) \in Nat
      BY <1>4, <1>5, SumType
    <2>3. SumFunctionOnSet(g, S) = SumFunctionOnSet(f, S) + r.amountPerRun
      BY <1>1, <1>5, <1>7, <2>1, <2>2
    <2> QED BY <1>8, <1>9, <1>10, <2>3
  <1>11. CASE id \notin S
    <2>1. SumFunctionOnSet(g, S) = SumFunctionOnSet(f, S) /\ SumFunctionOnSet(f, S) \in Nat
      <3>1. \A x \in S : f[x] \in Nat /\ g[x] = f[x]
        BY <1>4, <1>5, <1>6, <1>11
      <3> QED BY <1>4, <3>1, SumSame, SumType
    <2> QED BY <1>8, <1>9, <1>11, <2>1
  <1> QED BY <1>10, <1>11

\* An instalment that is taken and deposited keeps the books balanced.
LEMMA InstalmentAccounted ==
    ASSUME NEW t \in Nat, NEW s, NEW c, NEW d, WellFormed(s), WellFormed(c), WellFormed(d),
           RanSince(t, s, c), RanSince(t, s, d), Accounted(t, s, c), NEW id \in DOMAIN c.rules,
           IsDue(c.rules[id], t), c.balance[c.rules[id].account] >= c.rules[id].amountPerRun,
           d.rules = [c.rules EXCEPT ![id] = MarkedExecuted(c.rules[id], t)],
           d.balance = Moved(c.balance, c.rules[id].account, Self, c.rules[id].amountPerRun),
           d.position = Credited(c.position, c.rules[id].account, c.rules[id].vault,
                                 c.rules[id].amountPerRun)
    PROVE  Accounted(t, s, d)
  <1> DEFINE r == c.rules[id]
             m == MarkedExecuted(r, t)
  <1>1. /\ r \in Rule /\ Checked(r) /\ r.amountPerRun \in Nat /\ r.totalSpent \in Nat
        /\ r.account \in Accounts /\ r.vault \in Vaults
    BY DEF WellFormed, Rule
  <1>2. ~IsDue(m, t) /\ m.amountPerRun = r.amountPerRun
        /\ m.totalSpent = r.totalSpent + r.amountPerRun
    BY <1>1, MarkedRule
  <1>3. /\ DOMAIN d.rules = DOMAIN c.rules /\ d.rules[id] = m
        /\ \A x \in DOMAIN c.rules : x # id => d.rules[x] = c.rules[x]
    BY DEF WellFormed
  <1> HIDE DEF m
  <1>4. ASSUME NEW x \in DOMAIN d.rules \ DOMAIN s.rules
        PROVE  /\ Paid(x, s, d) \in {0, d.rules[x].amountPerRun}
               /\ IsDue(d.rules[x], t) => d.rules[x].totalSpent = 0
    <2>1. /\ Paid(x, s, c) \in {0, c.rules[x].amountPerRun}
          /\ IsDue(c.rules[x], t) => c.rules[x].totalSpent = 0
      BY <1>3 DEF Accounted, Balanced
    <2>2. CASE x = id
      <3>1. r.totalSpent = 0
        BY <2>1, <2>2
      <3>2. Paid(x, s, d) = m.amountPerRun
        BY <1>1, <1>2, <1>3, <2>2, <3>1 DEF Paid
      <3> QED BY <1>2, <1>3, <2>2, <3>2
    <2>3. CASE x # id
      BY <1>3, <2>1, <2>3 DEF Paid
    <2> QED BY <2>2, <2>3
  <1>5. ASSUME NEW a \in Accounts
        PROVE  /\ \A v \in Vaults :
                    d.position[a][v] = s.position[a][v] + PaidFrom(a, {v}, s, d)
               /\ a \in Vaults \/ d.balance[a] >= s.balance[a] - PaidFrom(a, Vaults, s, d)
    <2>1. /\ \A v \in Vaults :
               c.position[a][v] = s.position[a][v] + PaidFrom(a, {v}, s, c)
          /\ a \in Vaults \/ c.balance[a] >= s.balance[a] - PaidFrom(a, Vaults, s, c)
      BY DEF Accounted, Balanced
    <2>2. \A V : PaidFrom(a, V, s, d) = PaidFrom(a, V, s, c)
                   + IF r.account = a /\ r.vault \in V THEN r.amountPerRun ELSE 0
      BY InstalmentSums
    <2>3. /\ a \in Holders /\ s.balance[a] \in Nat /\ c.balance[a] \in Nat
          /\ c.balance \in [Holders -> Nat] /\ c.position \in [Accounts -> [Vaults -> Nat]]
          /\ s.position \in [Accounts -> [Vaults -> Nat]]
      BY DEF WellFormed, Chain, Holders
    <2>4. \A V : PaidFrom(a, V, s, c) \in Nat
      BY PaidFromIs
    <2>5. ASSUME NEW v \in Vaults
          PROVE  d.position[a][v] = s.position[a][v] + PaidFrom(a, {v}, s, d)
      <3>1. d.position[a][v] = c.position[a][v]
                                 + IF r.account = a /\ r.vault \in {v} THEN r.amountPerRun ELSE 0
        <4>1. c.position[a] \in [Vaults -> Nat] /\ c.position[a][v] \in Nat
          BY <2>3
        <4> QED BY <1>1, <2>3, <4>1 DEF Credited
      <3>2. s.position[a][v] \in Nat /\ PaidFrom(a, {v}, s, c) \in Nat
        BY <2>3, <2>4
      <3> QED BY <1>1, <2>1, <2>2, <3>1, <3>2
    <2>6. a \in Vaults \/ d.balance[a] >= s.balance[a] - PaidFrom(a, Vaults, s, d)
      <3>1. a # Self /\ Self \in Holders /\ r.account \in Holders /\ r.account # Self
        BY <1>1, ExecutionAssumption DEF Holders
      <3>2. d.balance[a] = c.balance[a] - IF r.account = a THEN r.amountPerRun ELSE 0
        BY <1>1, <2>3, <3>1 DEF Moved
      <3>3. PaidFrom(a, Vaults, s, d) = PaidFrom(a, Vaults, s, c)
                                          + IF r.account = a THEN r.amountPerRun ELSE 0
        BY <1>1, <2>2
      <3> QED BY <1>1, <2>1, <2>3, <2>4, <3>2, <3>3
    <2> QED BY <2>5, <2>6
  <1> QED BY <1>4, <1>5 DEF Accounted, Balanced

\* What the stack says while a vault has control, of the deposit it is asked for.
LEMMA DepositUnderWay ==
    ExecutionInv /\ VaultRuns =>
        /\ now \in Nat /\ WellFormed(Settled) /\ WellFormed(chain) /\ Paying \in DOMAIN chain.rules
        /\ WellFormed(Deposited) /\ RanSince(now, Settled, Deposited)
        /\ Deposited.rules = chain.rules /\ Deposited.balance = chain.balance
        /\ Deposited.position = Credited(chain.position, chain.rules[Paying].account,
             chain.rules[Paying].vault, chain.rules[Paying].amountPerRun)
  <1> SUFFICES ASSUME ExecutionInv, VaultRuns
               PROVE  /\ now \in Nat /\ WellFormed(Settled) /\ WellFormed(chain)
                      /\ Paying \in DOMAIN chain.rules
                      /\ WellFormed(Deposited) /\ RanSince(now, Settled, Deposited)
                      /\ Deposited.rules = chain.rules /\ Deposited.balance = chain.balance
                      /\ Deposited.position = Credited(chain.position, chain.rules[Paying].account,
                           chain.rules[Paying].vault, chain.rules[Paying].amountPerRun)
    OBVIOUS
  <1>1. now \in Nat
    BY Shapes
  <1>2. WellFormed(Settled) /\ Called(now, Settled, chain, Paying)
    <2>1. ASSUME NEW f, StackExecute(f) PROVE WellFormed(Settled) /\ Called(now, Settled, chain, Paying)
      BY <2>1, RunsPaid DEF Settled
    <2>2. ASSUME NEW f, NEW g, StackOne(f, g) PROVE WellFormed(Settled) /\ Called(now, Settled, chain, Paying)
      BY <2>2, RunsOne DEF Settled
    <2> QED BY <2>1, <2>2, Shapes, RunsIdle, RunsLoop
  <1> DEFINE d == [Deposited EXCEPT !.entered = TRUE]
  <1>3. /\ WellFormed(d) /\ RanSince(now, Settled, d)
        /\ d.rules = chain.rules /\ d.balance = chain.balance
        /\ d.position = Credited(chain.position, chain.rules[Paying].account,
             chain.rules[Paying].vault, chain.rules[Paying].amountPerRun)
        /\ d = Deposited
    BY <1>1, <1>2, DepositedIs
  <1> HIDE DEF d
  <1> QED BY <1>1, <1>2, <1>3 DEF Called

\* What the vault does meanwhile.
LEMMA AsideDeposited ==
    ASSUME NEW c, NEW d, WellFormed(c), NEW id \in DOMAIN c.rules, Aside(c, d),
           NEW x, x.rules = c.rules, x.balance = c.balance,
           x.position = Credited(c.position, c.rules[id].account, c.rules[id].vault,
                                 c.rules[id].amountPerRun),
           NEW y, y.rules = d.rules, y.balance = d.balance,
           y.position = Credited(d.position, d.rules[id].account, d.rules[id].vault,
                                 d.rules[id].amountPerRun)
    PROVE  Aside(x, y)
  <1>1. /\ d.rules[id].account = c.rules[id].account /\ d.rules[id].vault = c.rules[id].vault
        /\ d.rules[id].amountPerRun = c.rules[id].amountPerRun
    BY KeptPays DEF Aside
  <1>2. y.position = x.position
    BY <1>1 DEF Aside
  <1> QED BY <1>2 DEF Aside, Kept

LEMMA AsideStep ==
    ASSUME ExecutionInv, ExecutionInv', AccountsInv, ~LoopRuns, VaultRuns => Aside(chain, chain'),
           UNCHANGED <<frames, now>>
    PROVE  AccountsInv'
  <1>1. /\ LoopRuns' = LoopRuns /\ VaultRuns' = VaultRuns /\ Paying' = Paying /\ Top' = Top
        /\ now' = now /\ Running' = Running
    BY DEF LoopRuns, VaultRuns, Paying, Top, Running
  <1>2. SUFFICES ASSUME VaultRuns
                 PROVE  /\ Accounted(now, Settled', Deposited')
                        /\ Top.call = "executeOne" => Accounted(now, Settled', Top.saved)
    BY <1>1 DEF AccountsInv
  <1>3. Settled' = Settled
    BY <1>1, <1>2 DEF Settled, VaultRuns
  <1>4. /\ WellFormed(chain) /\ WellFormed(Settled) /\ now \in Nat /\ Paying \in DOMAIN chain.rules
        /\ WellFormed(Deposited) /\ RanSince(now, Settled, Deposited)
        /\ Deposited.rules = chain.rules /\ Deposited.balance = chain.balance
        /\ Deposited.position = Credited(chain.position, chain.rules[Paying].account,
             chain.rules[Paying].vault, chain.rules[Paying].amountPerRun)
    BY <1>2, DepositUnderWay
  <1>5. /\ WellFormed(Deposited') /\ Deposited'.rules = chain'.rules
        /\ Deposited'.balance = chain'.balance
        /\ Deposited'.position = Credited(chain'.position, chain'.rules[Paying].account,
             chain'.rules[Paying].vault, chain'.rules[Paying].amountPerRun)
    <2>1. (ExecutionInv /\ VaultRuns)' =>
             (/\ WellFormed(Deposited) /\ Deposited.rules = chain.rules
              /\ Deposited.balance = chain.balance
              /\ Deposited.position = Credited(chain.position, chain.rules[Paying].account,
                   chain.rules[Paying].vault, chain.rules[Paying].amountPerRun))'
      BY DepositUnderWay, PTL
    <2> QED BY <1>1, <1>2, <2>1
  <1>6. Aside(Deposited, Deposited')
    BY <1>2, <1>4, <1>5, AsideDeposited
  <1>7. Accounted(now, Settled, Deposited)
    BY <1>2 DEF AccountsInv
  <1>8. Accounted(now, Settled, Deposited')
    BY <1>4, <1>5, <1>6, <1>7, AsideAccounted
  <1>9. Top.call = "executeOne" => Accounted(now, Settled, Top.saved)
    BY <1>2 DEF AccountsInv
  <1> QED BY <1>3, <1>8, <1>9

\* Tokens that no account hands out but a vault.
LEMMA MoneyAside ==
    ASSUME NEW c, NEW d, WellFormed(c), d.rules = c.rules, d.position = c.position,
           NEW h \in Holders \ (Accounts \ Vaults), NEW to \in Holders, NEW x \in Nat,
           d.balance = Moved(c.balance, h, to, x)
    PROVE  Aside(c, d)
  <1>1. c.balance \in [Holders -> Nat] /\ Accounts \subseteq Holders
    BY DEF WellFormed, Chain, Holders
  <1>2. ASSUME NEW a \in Accounts \ Vaults PROVE d.balance[a] >= c.balance[a]
    <2>1. a # h /\ a \in Holders /\ c.balance[a] \in Nat
      BY <1>1
    <2> QED BY <1>1, <2>1 DEF Moved
  <1> QED BY <1>2 DEF Aside, Kept

LEMMA OtherAccounts ==
    ASSUME ExecutionInv, ExecutionInv', AccountsInv, OtherNext
    PROVE  AccountsInv'
  <1>1. WellFormed(chain) /\ now \in Nat
    BY Shapes, RunsIdle, RunsPaid, RunsLoop, RunsOne
  <1>2. VaultRuns => Callee \in Vaults /\ Callee \in Holders
    BY DepositUnderWay DEF Callee, WellFormed, Rule, Holders
  <1>3. \A a \in Holders : chain.balance[a] \in Nat
    BY <1>1 DEF WellFormed, Chain
  <1>4. chain \in Chain({chain.rules}) /\ Accounts \subseteq Holders
    BY <1>1 DEF WellFormed, Holders
  <1>5. ASSUME NEW x \in Transfers, Pull(x) PROVE AccountsInv'
    <2>1. UNCHANGED <<frames, now>> /\ VaultRuns /\ ~LoopRuns
      BY <1>5 DEF Pull, VaultRuns, LoopRuns
    <2>2. /\ chain'.rules = chain.rules /\ chain'.position = chain.position
          /\ chain'.balance = Moved(chain.balance, Self, Callee, x)
      BY <1>4, <1>5 DEF Pull, Chain
    <2>3. Self \in Holders \ (Accounts \ Vaults) /\ x \in Nat
      BY ExecutionAssumption DEF Holders
    <2>4. Aside(chain, chain')
      BY <1>1, <1>2, <2>1, <2>2, <2>3, MoneyAside
    <2> QED BY <2>1, <2>4, AsideStep
  <1>6. ASSUME NEW h \in Accounts \cup Vaults, NEW to \in Recipients, NEW x \in Transfers,
               Transfer(h, to, x)
        PROVE  AccountsInv'
    <2>1. UNCHANGED <<frames, now>> /\ ~LoopRuns
      BY <1>6, ExecutionAssumption DEF Transfer, MayAct, VaultRuns, LoopRuns
    <2>2. /\ chain'.rules = chain.rules /\ chain'.position = chain.position
          /\ chain'.balance = Moved(chain.balance, h, to, x)
      BY <1>4, <1>6 DEF Transfer, Chain
    <2>3. to \in Holders /\ x \in Nat
      BY ExecutionAssumption
    <2>4. ASSUME VaultRuns PROVE Aside(chain, chain')
      <3>1. h = Callee
        BY <1>6, <2>4 DEF Transfer, MayAct, VaultRuns
      <3> QED BY <1>1, <1>2, <2>2, <2>3, <2>4, <3>1, MoneyAside
    <2> QED BY <2>1, <2>4, AsideStep
  <1>7. ASSUME NEW a \in Accounts, NEW x \in Approvals, Approve(a, x) PROVE AccountsInv'
    <2>1. UNCHANGED <<frames, now>> /\ ~LoopRuns
      BY <1>7 DEF Approve, MayAct, LoopRuns, VaultRuns
    <2>2. /\ chain'.rules = chain.rules /\ chain'.position = chain.position
          /\ chain'.balance = chain.balance
      BY <1>4, <1>7 DEF Approve, Chain
    <2>3. Aside(chain, chain')
      BY <1>3, <1>4, <2>2 DEF Aside, Kept
    <2> QED BY <2>1, <2>3, AsideStep
  <1>8. ASSUME NEW a \in Accounts, NEW p \in ParamChoices, CreateRule(a, p) PROVE AccountsInv'
    <2>1. UNCHANGED <<frames, now>> /\ ~LoopRuns
      BY <1>8, Zenon DEF CreateRule, MayAct, LoopRuns, VaultRuns
    <2>2. Kept(chain, chain')
      BY <1>1, <1>8, CreateWorld DEF World
    <2> DEFINE id == <<a, chain.nonces[a]>>
               r == NewRule(a, p, now)
               book == [x \in DOMAIN chain.rules \cup {id} |-> IF x = id THEN r ELSE chain.rules[x]]
               ns == [chain.nonces EXCEPT ![a] = chain.nonces[a] + 1]
    <2>3. r.totalSpent = 0
      BY DEF NewRule
    <2> HIDE DEF r
    <2>4. DOMAIN book \ DOMAIN chain.rules \subseteq {id} /\ book[id] = r
      OBVIOUS
    <2>5. chain' = [chain EXCEPT !.nonces = ns, !.rules = book]
      BY <1>8, Zenon DEF CreateRule, r
    <2> HIDE DEF book, ns, id
    <2>6. /\ chain'.rules = book /\ chain'.position = chain.position
          /\ chain'.balance = chain.balance
      BY <1>4, <2>5 DEF Chain
    <2>7. \A x \in DOMAIN chain'.rules \ DOMAIN chain.rules : chain'.rules[x].totalSpent = 0
      BY <2>3, <2>4, <2>6
    <2>8. Aside(chain, chain')
      BY <1>3, <1>4, <2>2, <2>6, <2>7 DEF Aside
    <2> QED BY <2>1, <2>8, AsideStep
  <1>9. ASSUME NEW a \in Accounts, NEW id \in Ids, CancelRule(a, id) PROVE AccountsInv'
    <2>1. UNCHANGED <<frames, now>> /\ ~LoopRuns
      BY <1>9, Zenon DEF CancelRule, MayAct, LoopRuns, VaultRuns
    <2>2. Kept(chain, chain')
      BY <1>1, <1>9, CancelWorld DEF World
    <2> DEFINE book == [chain.rules EXCEPT ![id] = Cancelled(chain.rules[id])]
    <2>3. DOMAIN book = DOMAIN chain.rules
      OBVIOUS
    <2>4. chain' = [chain EXCEPT !.rules = book]
      BY <1>9 DEF CancelRule
    <2> HIDE DEF book
    <2>5. /\ DOMAIN chain'.rules = DOMAIN chain.rules /\ chain'.position = chain.position
          /\ chain'.balance = chain.balance
      BY <1>4, <2>3, <2>4 DEF Chain
    <2>6. Aside(chain, chain')
      BY <1>3, <1>4, <2>2, <2>5 DEF Aside
    <2> QED BY <2>1, <2>6, AsideStep
  <1>10. ASSUME ~Running, UNCHANGED frames PROVE AccountsInv'
    BY <1>10 DEF AccountsInv, LoopRuns, VaultRuns, Running
  <1>11. ASSUME NEW value \in BOOLEAN, SetPaused(value) PROVE AccountsInv'
    BY <1>10, <1>11 DEF SetPaused
  <1>12. ASSUME Tick PROVE AccountsInv'
    BY <1>10, <1>12 DEF Tick
  <1> QED BY <1>5, <1>6, <1>7, <1>8, <1>9, <1>11, <1>12, Zenon DEF OtherNext

\* Up to the vault: if the books balanced before the instalment was taken, they
\* will once it is deposited.
LEMMA OpenedAccounted ==
    ASSUME ExecutionInv', VaultRuns', NEW s, WellFormed(s), Settled' = s, now' = now, now \in Nat,
           WellFormed(chain), RanSince(now, s, chain), Accounted(now, s, chain),
           NEW id, Paying' = id, Accepted(id), NEW flag,
           chain' = [Opened(id) EXCEPT !.entered = flag]
    PROVE  Accounted(now, s, Deposited')
  <1> DEFINE r == chain.rules[id]
             book == [chain.rules EXCEPT ![id] = MarkedExecuted(r, now)]
             b == Moved(chain.balance, r.account, Self, r.amountPerRun)
             w == Lowered(chain.allowance, r.account, r.amountPerRun)
             y == [chain.approval EXCEPT ![r.vault] = r.amountPerRun]
  <1>1. /\ id \in DOMAIN chain.rules /\ r \in Rule /\ IsDue(r, now)
        /\ chain.balance[r.account] >= r.amountPerRun
        /\ chain \in Chain({chain.rules})
    BY DEF Accepted, WellFormed
  <1>2. chain' = [[chain EXCEPT !.rules = book, !.balance = b, !.allowance = w, !.approval = y]
                        EXCEPT !.entered = flag]
    BY Zenon DEF Opened
  <1>3. /\ DOMAIN book = DOMAIN chain.rules
        /\ book[id].account = r.account /\ book[id].vault = r.vault
        /\ book[id].amountPerRun = r.amountPerRun
    <2>1. MarkedExecuted(r, now).account = r.account /\ MarkedExecuted(r, now).vault = r.vault
          /\ MarkedExecuted(r, now).amountPerRun = r.amountPerRun
      BY <1>1, MarkedRule DEF WellFormed
    <2> QED BY <1>1, <2>1
  <1>4. /\ chain'.rules = book /\ chain'.balance = b /\ chain'.position = chain.position
    <2> HIDE DEF book, b, w, y
    <2> QED BY <1>1, <1>2 DEF Chain
  <1>5. /\ WellFormed(Deposited') /\ RanSince(now, s, Deposited')
        /\ Deposited'.rules = chain'.rules /\ Deposited'.balance = chain'.balance
        /\ Deposited'.position = Credited(chain'.position, chain'.rules[id].account,
             chain'.rules[id].vault, chain'.rules[id].amountPerRun)
    <2>1. (ExecutionInv /\ VaultRuns)' =>
             (/\ WellFormed(Deposited) /\ RanSince(now, Settled, Deposited)
              /\ Deposited.rules = chain.rules /\ Deposited.balance = chain.balance
              /\ Deposited.position = Credited(chain.position, chain.rules[Paying].account,
                   chain.rules[Paying].vault, chain.rules[Paying].amountPerRun))'
      BY DepositUnderWay, PTL
    <2> QED BY <2>1
  <1>6. /\ Deposited'.rules = book /\ Deposited'.balance = b
        /\ Deposited'.position = Credited(chain.position, r.account, r.vault, r.amountPerRun)
    BY <1>3, <1>4, <1>5, Zenon
  <1> HIDE DEF r
  <1> QED BY <1>1, <1>5, <1>6, InstalmentAccounted DEF r

\* Nothing has happened yet.
LEMMA NothingAccounted ==
    ASSUME NEW t, NEW s, WellFormed(s)
    PROVE  Accounted(t, s, s)
  BY NothingPaid DEF Accounted

LEMMA ExecuteAccounts ==
    ASSUME ExecutionInv, ExecutionInv', NEW id, Execute(id)
    PROVE  AccountsInv'
  <1> DEFINE f == [call |-> "execute", ids |-> <<id>>, saved |-> chain]
  <1>1. StackEmpty /\ now \in Nat /\ WellFormed(chain)
    BY Shapes, RunsIdle, RunsPaid, RunsLoop, RunsOne DEF Execute, MayEnter
  <1>2. frames' = <<f>> /\ f.call = "execute" /\ f.ids[1] = id /\ f.saved = chain
    BY <1>1, Stacks DEF Execute, Push, StackEmpty
  <1> HIDE DEF f
  <1>3. /\ VaultRuns' /\ ~LoopRuns' /\ Top'.call # "executeOne" /\ Paying' = id /\ Settled' = chain
    BY <1>2, Stacks DEF VaultRuns, LoopRuns, Running, Top, Paying, Settled
  <1>4. now' = now /\ Accepted(id) /\ chain' = [Opened(id) EXCEPT !.entered = TRUE]
    BY DEF Execute
  <1>5. Accounted(now, chain, Deposited')
    BY <1>1, <1>3, <1>4, NothingAccounted, RanNothing, OpenedAccounted
  <1> QED BY <1>3, <1>4, <1>5 DEF AccountsInv

\* A chain on which only the guard differs has the same books.
LEMMA GuardedAccounted ==
    ASSUME NEW t, NEW s, NEW c, WellFormed(c), NEW flag, Accounted(t, s, c)
    PROVE  Accounted(t, s, [c EXCEPT !.entered = flag])
  <1> DEFINE d == [c EXCEPT !.entered = flag]
  <1>1. d.rules = c.rules /\ d.position = c.position /\ d.balance = c.balance
    BY DEF WellFormed, Chain
  <1> HIDE DEF d
  <1>2. \A a, V : PaidFrom(a, V, s, d) = PaidFrom(a, V, s, c)
    BY <1>1, Zenon DEF PaidFrom, Paid, Of
  <1>3. \A id : Paid(id, s, d) = Paid(id, s, c)
    BY <1>1 DEF Paid
  <1>4. Accounted(t, s, d)
    BY <1>1, <1>2, <1>3 DEF Accounted, Balanced
  <1> QED BY <1>4 DEF d

LEMMA ExecuteBatchAccounts ==
    ASSUME ExecutionInv, NEW ids, ExecuteBatch(ids)
    PROVE  AccountsInv'
  <1> DEFINE f == [call |-> "executeBatch", ids |-> ids, saved |-> chain]
  <1>1. StackEmpty /\ WellFormed(chain)
    BY Shapes, RunsIdle, RunsPaid, RunsLoop, RunsOne DEF ExecuteBatch, MayEnter
  <1>2. frames' = <<f>> /\ f.call = "executeBatch" /\ f.saved = chain
    BY <1>1, Stacks DEF ExecuteBatch, Push, StackEmpty
  <1> HIDE DEF f
  <1>3. ~VaultRuns' /\ Settled' = chain
    BY <1>2, Stacks DEF VaultRuns, Running, Top, Settled
  <1>4. now' = now /\ chain' = [chain EXCEPT !.entered = TRUE]
    BY DEF ExecuteBatch
  <1>5. Accounted(now, chain, chain')
    BY <1>1, <1>4, NothingAccounted, GuardedAccounted
  <1> QED BY <1>3, <1>4, <1>5 DEF AccountsInv

LEMMA ExecuteOneAccounts ==
    ASSUME ExecutionInv, ExecutionInv', AccountsInv, NEW id, ExecuteOne(id)
    PROVE  AccountsInv'
  <1> DEFINE one == [call |-> "executeOne", ids |-> <<id>>, saved |-> chain]
  <1>1. PICK f : StackLoop(f)
    BY Shapes, RunsIdle, RunsPaid, RunsOne DEF ExecuteOne, OneAllowed
  <1>2. /\ Top.ids # <<>> /\ Accepted(id) /\ LoopRuns /\ now \in Nat /\ now' = now
        /\ chain' = Opened(id)
    BY <1>1, RunsLoop, Shapes DEF ExecuteOne
  <1>3. NextId.saved = f.saved
    BY <1>1, <1>2, NextFrame
  <1>4. frames' = <<one, NextId>>
    <2>1. frames' = <<one>> \o (<<NextId>> \o <<>>)
      BY <1>1, <1>2, RunsLoop DEF ExecuteOne
    <2> HIDE DEF one
    <2> QED BY <2>1, Stacks
  <1>5. one.call = "executeOne" /\ one.saved = chain /\ one.ids[1] = id
    OBVIOUS
  <1> HIDE DEF one
  <1>6. /\ VaultRuns' /\ ~LoopRuns' /\ Paying' = id /\ Settled' = f.saved /\ Top'.saved = chain
    BY <1>3, <1>4, <1>5, Stacks DEF VaultRuns, LoopRuns, Running, Top, Paying, Settled
  <1>7. /\ Settled = f.saved /\ WellFormed(f.saved) /\ WellFormed(chain)
        /\ RanSince(now, f.saved, chain) /\ chain.entered = TRUE
    BY <1>1, RunsLoop DEF Settled, Looping, WellFormed, Chain
  <1>8. Accounted(now, f.saved, chain)
    BY <1>2, <1>7 DEF AccountsInv
  <1>9. chain' = [Opened(id) EXCEPT !.entered = TRUE]
    <2>1. Opened(id) = [Opened(id) EXCEPT !.entered = TRUE]
      BY <1>7 DEF Opened, WellFormed, Chain
    <2> QED BY <1>2, <2>1
  <1>10. Accounted(now, f.saved, Deposited')
    BY <1>2, <1>6, <1>7, <1>8, <1>9, OpenedAccounted
  <1> QED BY <1>2, <1>6, <1>8, <1>10 DEF AccountsInv

LEMMA SkipAccounts ==
    ASSUME ExecutionInv, AccountsInv, Skip
    PROVE  AccountsInv'
  <1>1. PICK f : StackLoop(f)
    BY Shapes, RunsIdle, RunsPaid, RunsOne DEF Skip
  <1>2. /\ frames' = <<NextId>> /\ NextId.saved = f.saved /\ NextId.call = "executeBatch"
        /\ now' = now /\ chain' = chain /\ LoopRuns /\ Settled = f.saved
    BY <1>1, RunsLoop, NextFrame, Stacks DEF Skip, Settled, InLoop
  <1>3. ~VaultRuns' /\ Settled' = f.saved
    BY <1>2, Stacks DEF VaultRuns, Running, Top, Settled
  <1>4. Accounted(now, f.saved, chain)
    BY <1>2 DEF AccountsInv
  <1> QED BY <1>2, <1>3, <1>4 DEF AccountsInv

\* A call returns to the loop, with the deposit made or with nothing done.
LEMMA BackToLoop ==
    ASSUME ExecutionInv, AccountsInv, NEW f, NEW g, StackOne(f, g), frames' = Tail(frames),
           now' = now, chain' \in {Deposited, Top.saved}
    PROVE  AccountsInv'
  <1>1. /\ frames' = <<g>> /\ VaultRuns /\ Top.call = "executeOne" /\ Settled = g.saved
        /\ g.call = "executeBatch"
    BY RunsOne DEF Settled, InLoop
  <1>2. ~VaultRuns' /\ Settled' = g.saved
    <2>1. frames' # <<>> /\ Head(frames') = g /\ frames'[Len(frames')] = g
      BY <1>1, Stacks, Zenon
    <2> QED BY <1>1, <2>1 DEF VaultRuns, Running, Top, Settled
  <1>3. Accounted(now, g.saved, Deposited) /\ Accounted(now, g.saved, Top.saved)
    BY <1>1 DEF AccountsInv
  <1> QED BY <1>2, <1>3 DEF AccountsInv

\* With the stack empty there is nothing to account for.
LEMMA AtRest ==
    ASSUME frames' = <<>>
    PROVE  AccountsInv'
  BY DEF AccountsInv, LoopRuns, VaultRuns, Running

LEMMA NextAccounts ==
    ASSUME ExecutionInv, ExecutionInv', AccountsInv, [Next]_vars
    PROVE  AccountsInv'
  <1>1. CASE Returns \/ Reverts
    <2>1. frames' = Tail(frames) /\ now' = now
      BY <1>1 DEF Returns, Reverts
    <2>2. ASSUME NEW f, NEW g, StackOne(f, g) PROVE AccountsInv'
      <3>1. chain' \in {Deposited, Top.saved}
        BY <1>1, <2>2, RunsOne DEF Returns, Reverts, Restored
      <3> QED BY <2>1, <2>2, <3>1, BackToLoop
    <2>3. ~StackEmpty
      BY <1>1, RunsIdle DEF Returns, Reverts
    <2> QED BY <2>1, <2>2, <2>3, Shapes, RunsPaid, RunsLoop, AtRest
  <1>2. CASE BatchReturns
    <2>1. PICK f : StackLoop(f)
      BY <1>2, Shapes, RunsIdle, RunsPaid, RunsOne DEF BatchReturns
    <2> QED BY <1>2, <2>1, RunsLoop, AtRest DEF BatchReturns
  <1>3. CASE OtherNext
    BY <1>3, OtherAccounts
  <1>4. CASE UNCHANGED vars
    BY <1>4 DEF vars, AccountsInv, LoopRuns, VaultRuns, Running, Top, Paying, Settled, Deposited
  <1> QED
    BY <1>1, <1>2, <1>3, <1>4, ExecuteAccounts, ExecuteBatchAccounts, ExecuteOneAccounts,
       SkipAccounts, Zenon DEF Next, ExecutorNext

\* README.md, invariant I2 (RuleExecutor.sol:163-211), for any number of rules,
\* vaults and calls: at the end of a transaction of the executor what each rule
\* has paid its vault has credited to its account, and the account has lost no more.
THEOREM PaysWhatIsDueHolds == Spec => PaysWhatIsDue
  <1> DEFINE P == Ends => Balanced(Settled, chain')
  <1>1. Init => AccountsInv
    BY DEF Init, AccountsInv, LoopRuns, VaultRuns, Running
  <1>2. ExecutionInv /\ ExecutionInv' /\ AccountsInv /\ [Next]_vars => AccountsInv'
    BY NextAccounts
  <1>3. ASSUME ExecutionInv, AccountsInv, Next, Ends PROVE Balanced(Settled, chain')
    <2>1. now \in Nat /\ frames' = <<>>
      BY <1>3, Shapes DEF Ends, Running
    <2>2. CASE Returns
      <3>1. ASSUME NEW f, NEW g, StackOne(f, g) PROVE FALSE
        BY <2>1, <2>2, <3>1, RunsOne, Stacks DEF Returns
      <3>2. ASSUME NEW f, StackExecute(f) PROVE Balanced(Settled, chain')
        <4>1. VaultRuns /\ WellFormed(Deposited) /\ chain' = [Deposited EXCEPT !.entered = FALSE]
          BY <1>3, <2>2, <3>2, RunsPaid, DepositUnderWay DEF Returns
        <4>2. Accounted(now, Settled, Deposited)
          BY <1>3, <4>1 DEF AccountsInv
        <4> QED BY <4>1, <4>2, GuardedAccounted DEF Accounted
      <3> QED BY <1>3, <2>2, <3>1, <3>2, Shapes, RunsIdle, RunsLoop DEF Returns
    <2>3. CASE BatchReturns
      <3>1. PICK f : StackLoop(f)
        BY <1>3, <2>3, Shapes, RunsIdle, RunsPaid, RunsOne DEF BatchReturns
      <3>2. /\ WellFormed(chain) /\ chain' = [chain EXCEPT !.entered = FALSE]
            /\ Accounted(now, Settled, chain)
        BY <1>3, <2>3, <3>1, RunsLoop DEF BatchReturns, AccountsInv
      <3> QED BY <3>2, GuardedAccounted DEF Accounted
    <2>4. CASE Reverts
      <3>1. ASSUME NEW f, NEW g, StackOne(f, g) PROVE FALSE
        BY <2>1, <2>4, <3>1, RunsOne, Stacks DEF Reverts
      <3>2. chain' = Settled /\ WellFormed(Settled)
        BY <1>3, <2>4, <3>1, Shapes, RunsIdle, RunsPaid, RunsLoop DEF Reverts, Restored, Settled
      <3> QED BY <3>2, NothingPaid
    <2> QED BY <1>3, <2>2, <2>3, <2>4, EndsBy
  <1>4. ExecutionInv /\ AccountsInv /\ [Next]_vars => [P]_vars
    BY <1>3
  <1> HIDE DEF P
  <1>5. Spec => [][P]_vars
    BY <1>1, <1>2, <1>4, ExecutionInvariant, PTL DEF Spec
  <1> QED BY <1>5 DEF P, PaysWhatIsDue
=============================================================================
