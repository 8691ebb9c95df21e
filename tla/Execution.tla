------------------------------ MODULE Execution ------------------------------
(***************************************************************************)
(* One transaction of contracts/src/RuleExecutor.sol from the inside.      *)
(* RuleEngine takes an instalment as one step; here the vault runs code of *)
(* its own in the middle of it, after the registry was advanced and the    *)
(* tokens were pulled: it may take the tokens or some of them, hand tokens *)
(* back, revert, act on the registry and the token for itself, and call    *)
(* the executor again (as ReentrantVault of mocks/Mocks.sol does).         *)
(*                                                                         *)
(* frames is the stack of calls of the executor under way, the innermost   *)
(* first.  A frame keeps the chain as it was when it was called, which is  *)
(* what a revert restores.  A call that reverts at once changes nothing:   *)
(* it has no action.  The registry and FXRP call nobody, so what _execute  *)
(* does before the deposit is one step, and so is what it does after.      *)
(*                                                                         *)
(* One executor, which the registry names; every vault is on the list.     *)
(***************************************************************************)
EXTENDS Rules, FiniteSetsExt

CONSTANTS
    Self,          \* address(this): the executor
    ParamChoices,  \* arguments createRule is called with
    Approvals,     \* allowances accounts set
    Transfers,     \* amounts that are transferred by their holders
    Recipients,    \* to whom
    Funds,         \* holder |-> FXRP at the start
    MaxBatch,      \* MAX_BATCH
    MaxDepth,      \* bound: calls of the executor within one another
    MaxRules,      \* bound: rules per account
    MaxTime        \* bound: the clock

Holders == Accounts \cup Vaults \cup {Self}

ASSUME ExecutionAssumption ==
    /\ Self \notin Accounts \cup Vaults
    /\ ParamChoices \subseteq CreateRuleParams
    /\ Approvals \subseteq Nat /\ Transfers \subseteq Nat \ {0}
    /\ Recipients \subseteq Holders
    /\ Funds \in [Holders -> Nat]
    /\ MaxBatch \in Nat /\ MaxDepth \in Nat /\ MaxRules \in Nat /\ MaxTime \in Nat

VARIABLES
    chain,   \* what a revert undoes: registry, token, deposits, the guard
    frames,  \* the executor's calls under way
    paused,  \* RuleExecutor.paused
    now      \* block.timestamp

vars == <<chain, frames, paused, now>>

Init ==
    /\ chain = [rules     |-> [id \in {} |-> {}],
                nonces    |-> [a \in Accounts |-> 0],
                balance   |-> Funds,
                allowance |-> [a \in Accounts |-> 0],  \* account to executor
                approval  |-> [v \in Vaults |-> 0],    \* executor to vault
                position  |-> [a \in Accounts |-> [v \in Vaults |-> 0]],
                entered   |-> FALSE]
    /\ frames = <<>>
    /\ paused = FALSE
    /\ now = 1

-----------------------------------------------------------------------------
(* Whose code runs *)

Running   == frames # <<>>
Top       == Head(frames)
LoopRuns  == Running /\ Top.call = "executeBatch"
VaultRuns == Running /\ Top.call # "executeBatch"

\* The rule an innermost execute or executeOne is about.
Paying == Top.ids[1]
Callee == chain.rules[Paying].vault

\* Holder h can act: in a transaction of its own, or as the vault being called.
MayAct(h) == IF Running THEN VaultRuns /\ h = Callee ELSE h # Self

Push(call, ids) ==
    frames' = <<[call |-> call, ids |-> ids, saved |-> chain]>> \o frames

-----------------------------------------------------------------------------
(* _execute *)

Moved(held, from, to, x) == [held EXCEPT ![from] = @ - x, ![to] = @ + x]

Lowered(f, k, x) == [f EXCEPT ![k] = @ - x]

Credited(deposits, a, v, x) == [deposits EXCEPT ![a] = [deposits[a] EXCEPT ![v] = deposits[a][v] + x]]

\* Bug: the registry's checks dropped.
AcceptedUndue(id) ==
    /\ id \in DOMAIN chain.rules
    /\ LET r == chain.rules[id]
       IN  chain.allowance[r.account] >= r.amountPerRun /\ chain.balance[r.account] >= r.amountPerRun

\* markExecuted and transferFrom do not revert.
Accepted(id) ==
    /\ id \in DOMAIN chain.rules
    /\ LET r == chain.rules[id]
       IN  /\ IsDue(r, now)
           /\ chain.allowance[r.account] >= r.amountPerRun
           /\ chain.balance[r.account] >= r.amountPerRun

\* Bug: the interactions before the effects, the mark left for later.
OpenedUnmarked(id) ==
    LET r == chain.rules[id]
        x == r.amountPerRun
    IN  [chain EXCEPT !.balance   = Moved(chain.balance, r.account, Self, x),
                      !.allowance = Lowered(chain.allowance, r.account, x),
                      !.approval  = [chain.approval EXCEPT ![r.vault] = x]]

\* Up to the call of deposit: mark, pull, approve the vault.
Opened(id) ==
    LET r == chain.rules[id]
        x == r.amountPerRun
    IN  [chain EXCEPT !.rules     = [chain.rules EXCEPT ![id] = MarkedExecuted(r, now)],
                      !.balance   = Moved(chain.balance, r.account, Self, x),
                      !.allowance = Lowered(chain.allowance, r.account, x),
                      !.approval  = [chain.approval EXCEPT ![r.vault] = x]]

\* Bug: the residue is not looked at.
NoResidueUnchecked == TRUE

NoResidue == chain.balance[Self] = 0

\* The chain once the vault has credited the deposit to the receiver.
Deposited ==
    LET r == chain.rules[Paying]
    IN  [chain EXCEPT !.position =
           Credited(chain.position, r.account, r.vault, r.amountPerRun)]

-----------------------------------------------------------------------------
(* The entry points *)

\* Bug: no nonReentrant.
MayEnterAgain == ~paused

\* nonReentrant, whenNotPaused.
MayEnter == ~chain.entered /\ ~paused

Execute(id) ==
    /\ ~LoopRuns /\ Len(frames) < MaxDepth
    /\ MayEnter
    /\ Accepted(id)
    /\ chain' = [Opened(id) EXCEPT !.entered = TRUE]
    /\ Push("execute", <<id>>)
    /\ UNCHANGED <<paused, now>>

ExecuteBatch(ids) ==
    /\ ~LoopRuns /\ Len(frames) < MaxDepth
    /\ MayEnter
    /\ Len(ids) \in 1..MaxBatch
    /\ chain' = [chain EXCEPT !.entered = TRUE]
    /\ Push("executeBatch", ids)
    /\ UNCHANGED <<paused, now>>

\* Bug: anybody may call executeOne.
OneAllowedToAll == TRUE

\* msg.sender is the executor: only its loop calls it.
OneAllowed == LoopRuns

\* The loop takes the next id.
NextId == [Top EXCEPT !.ids = Tail(@)]

\* executeOne: an iteration of the loop whose call gets as far as the vault.
ExecuteOne(id) ==
    /\ Len(frames) < MaxDepth
    /\ OneAllowed
    /\ Accepted(id)
    /\ LoopRuns => Top.ids # <<>> /\ id = Head(Top.ids)
    /\ chain' = Opened(id)
    /\ frames' = <<[call |-> "executeOne", ids |-> <<id>>, saved |-> chain]>>
                 \o (IF LoopRuns THEN <<NextId>> \o Tail(frames) ELSE frames)
    /\ UNCHANGED <<paused, now>>

\* An iteration whose call reverts before that.
Skip ==
    /\ LoopRuns /\ Top.ids # <<>>
    /\ ~Accepted(Head(Top.ids))
    /\ frames' = <<NextId>> \o Tail(frames)
    /\ UNCHANGED <<chain, paused, now>>

\* deposit returns, and with it execute or executeOne.
Returns ==
    /\ VaultRuns
    /\ NoResidue
    /\ chain' = IF Top.call = "execute" THEN [Deposited EXCEPT !.entered = FALSE]
                ELSE Deposited
    /\ frames' = Tail(frames)
    /\ UNCHANGED <<paused, now>>

BatchReturns ==
    /\ LoopRuns /\ Top.ids = <<>>
    /\ chain' = [chain EXCEPT !.entered = FALSE]
    /\ frames' = Tail(frames)
    /\ UNCHANGED <<paused, now>>

\* Bug: a caught revert that leaves the registry advanced.
RestoredButMarked == [Top.saved EXCEPT !.rules = chain.rules]

Restored == Top.saved

\* A call of the executor reverts: the vault reverts or uses up the gas, there
\* is a residue, or, before an iteration, the batch is short of gas.
Reverts ==
    /\ VaultRuns \/ (LoopRuns /\ Top.ids # <<>>)
    /\ chain' = Restored
    /\ frames' = Tail(frames)
    /\ UNCHANGED <<paused, now>>

-----------------------------------------------------------------------------
(* What a vault may do while it is called, and anybody between transactions *)

\* transferFrom of the executor's tokens, from what it has approved.
Pull(x) ==
    /\ VaultRuns
    /\ x <= chain.approval[Callee] /\ x <= chain.balance[Self]
    /\ chain' = [chain EXCEPT
         !.balance  = Moved(chain.balance, Self, Callee, x),
         !.approval = Lowered(chain.approval, Callee, x)]
    /\ UNCHANGED <<frames, paused, now>>

\* transfer of h's own tokens, to the executor too.
Transfer(h, to, x) ==
    /\ MayAct(h) /\ h # to
    /\ x <= chain.balance[h]
    /\ chain' = [chain EXCEPT !.balance = Moved(chain.balance, h, to, x)]
    /\ UNCHANGED <<frames, paused, now>>

Approve(a, x) ==
    /\ MayAct(a)
    /\ chain' = [chain EXCEPT !.allowance = [chain.allowance EXCEPT ![a] = x]]
    /\ UNCHANGED <<frames, paused, now>>

CreateRule(a, p) ==
    LET id == <<a, chain.nonces[a]>>
    IN  /\ MayAct(a)
        /\ chain.nonces[a] < MaxRules
        /\ ValidParams(p)
        /\ chain' = [chain EXCEPT
             !.nonces = [chain.nonces EXCEPT ![a] = chain.nonces[a] + 1],
             !.rules  = [x \in DOMAIN chain.rules \cup {id} |->
                           IF x = id THEN NewRule(a, p, now) ELSE chain.rules[x]]]
        /\ UNCHANGED <<frames, paused, now>>

Cancelled(r) == [r EXCEPT !.active = FALSE]

CancelRule(a, id) ==
    /\ MayAct(a)
    /\ chain.rules[id].account = a
    /\ chain' = [chain EXCEPT !.rules =
                   [chain.rules EXCEPT ![id] = Cancelled(chain.rules[id])]]
    /\ UNCHANGED <<frames, paused, now>>

SetPaused(value) ==
    /\ ~Running
    /\ paused' = value
    /\ UNCHANGED <<chain, frames, now>>

Tick ==
    /\ ~Running
    /\ now < MaxTime
    /\ now' = now + 1
    /\ UNCHANGED <<chain, frames, paused>>

-----------------------------------------------------------------------------
Ids == DOMAIN chain.rules

\* Ids are known before their rules are created.
Guessed == Accounts \X (0..(MaxRules - 1))

ExecutorNext ==
    \/ \E id \in Guessed : Execute(id) \/ ExecuteOne(id)
    \/ \E n \in 1..MaxBatch : \E ids \in [1..n -> Guessed] : ExecuteBatch(ids)
    \/ Skip \/ Returns \/ BatchReturns \/ Reverts

OtherNext ==
    \/ \E x \in Transfers : Pull(x)
    \/ \E h \in Accounts \cup Vaults, to \in Recipients, x \in Transfers : Transfer(h, to, x)
    \/ \E a \in Accounts :
          \/ \E x \in Approvals : Approve(a, x)
          \/ \E p \in ParamChoices : CreateRule(a, p)
          \/ \E id \in Ids : CancelRule(a, id)
    \/ \E value \in BOOLEAN : SetPaused(value)
    \/ Tick

Next == ExecutorNext \/ OtherNext

Spec == Init /\ [][Next]_vars

-----------------------------------------------------------------------------
(* Properties *)

Chain(Books) ==
    [rules: Books, nonces: [Accounts -> Nat],
     balance: [Holders -> Nat], allowance: [Accounts -> Nat],
     approval: [Vaults -> Nat], position: [Accounts -> [Vaults -> Nat]],
     entered: BOOLEAN]

\* What createRule has checked, for good.
Checked(r) == r.intervalSecs > 0 /\ r.amountPerRun > 0

\* A chain of the right form; an id is of a rule created before.
WellFormed(c) ==
    /\ c \in Chain({c.rules})
    /\ IsFiniteSet(DOMAIN c.rules) /\ DOMAIN c.rules \subseteq RuleId
    /\ c.rules \in [DOMAIN c.rules -> Rule]
    /\ \A id \in DOMAIN c.rules : id[2] < c.nonces[id[1]] /\ Checked(c.rules[id])

NoApproval(c) == \A v \in Vaults : c.approval[v] = 0

\* The chain as it was before the transaction under way.
Settled == IF Running THEN frames[Len(frames)].saved ELSE chain

Ends == Running /\ ~Running'

\* By time t a rule that changed has run once, being due, or was cancelled, or both.
RanOnce(t, r, s) ==
    \E x \in {r} \cup (IF IsDue(r, t) THEN {MarkedExecuted(r, t)} ELSE {}) :
        s \in {x, Cancelled(x)}

RanSince(t, s, c) ==
    \A id \in DOMAIN s.rules : id \in DOMAIN c.rules /\ RanOnce(t, s.rules[id], c.rules[id])

\* Between transactions.
Resting(c) == WellFormed(c) /\ ~c.entered /\ NoApproval(c)

\* While the vault of rule id has control, in a transaction that began at s: the
\* rule was advanced, and the vault may take no more than is there.
Called(t, s, c, id) ==
    /\ WellFormed(c) /\ c.entered /\ RanSince(t, s, c)
    /\ id \in DOMAIN c.rules /\ ~IsDue(c.rules[id], t)
    /\ \A v \in Vaults :
          c.approval[v] <= IF v = c.rules[id].vault THEN c.balance[Self] ELSE 0

\* Between two iterations of a batch that began at s: a rule was paid and
\* nothing is left, or nothing has happened.
Looping(t, s, c) ==
    /\ WellFormed(c) /\ c.entered /\ RanSince(t, s, c) /\ NoApproval(c)
    /\ c.balance[Self] = 0 \/ c = [s EXCEPT !.entered = TRUE]

InExecute(t, c, frame) ==
    /\ frame.call = "execute"
    /\ Resting(frame.saved) /\ Called(t, frame.saved, c, frame.ids[1])

InLoop(t, c, frame) ==
    /\ frame \in [call: {"executeBatch"}, ids: Seq(RuleId), saved: {frame.saved}]
    /\ Resting(frame.saved) /\ Looping(t, frame.saved, c)

InOne(t, c, frame, loop) ==
    /\ frame.call = "executeOne" /\ InLoop(t, frame.saved, loop)
    /\ Called(t, loop.saved, c, frame.ids[1])

\* The inductive invariant: what the stack may look like, and the chain under it.
ExecutionInv ==
    LET last == frames[Len(frames)]
    IN  /\ now \in Nat /\ paused \in BOOLEAN /\ (Running => ~paused)
        /\ \/ frames = <<>> /\ Resting(chain)
           \/ frames = <<last>> /\ InExecute(now, chain, last)
           \/ frames = <<last>> /\ InLoop(now, chain, last)
           \/ frames = <<Top, last>> /\ InOne(now, chain, Top, last)

\* README.md, invariant I5, whatever the vaults do: a transaction of the
\* executor leaves it without FXRP, and no vault with an approval to take any
\* later, or it was as if it had not taken place.  FXRP somebody sent to it by
\* mistake stops every deposit, but is never spent.
KeepsNothing ==
    [][Ends => \/ chain' = Settled
               \/ chain'.balance[Self] = 0 /\ NoApproval(chain')]_vars

\* RuleExecutor.sol:195-197, 156-158 and README.md:332 ("stopped twice over"),
\* each defence by itself: there is never a deposit inside a deposit, by none
\* of the three entry points; and while the vault has control, the rule that is
\* being paid is not due.
StoppedTwiceOver ==
    /\ \A i, j \in DOMAIN frames :
          "executeBatch" \notin {frames[i].call, frames[j].call} => i = j
    /\ VaultRuns => ~IsDue(chain.rules[Paying], now)

\* README.md, invariants I3, I4 and I6: whatever a transaction does, with vaults
\* that call back, calls that are caught and calls that are not, at its end each
\* rule has run once or not at all, and only if it was due; and there is no
\* transaction while the executor is paused.
RunsOnceIfDue == [][Ends => ~paused /\ RanSince(now, Settled, chain')]_vars

\* What rule id has paid between two states of the chain.
Paid(id, before, after) ==
    after.rules[id].totalSpent
      - (IF id \in DOMAIN before.rules THEN before.rules[id].totalSpent ELSE 0)

\* The rules of account a that pay a vault of V.
Of(c, a, V) == {id \in DOMAIN c.rules : c.rules[id].account = a /\ c.rules[id].vault \in V}

PaidFrom(a, V, before, after) ==
    SumFunctionOnSet([id \in DOMAIN after.rules |-> Paid(id, before, after)], Of(after, a, V))

\* What the rules have paid is what their vaults have credited to their accounts,
\* and an account that is no vault itself has lost no more than that; a rule
\* created in between has paid one instalment or none.
Balanced(before, after) ==
    /\ \A id \in DOMAIN after.rules \ DOMAIN before.rules :
          Paid(id, before, after) \in {0, after.rules[id].amountPerRun}
    /\ \A a \in Accounts :
          /\ \A v \in Vaults :
                after.position[a][v] = before.position[a][v] + PaidFrom(a, {v}, before, after)
          /\ a \in Vaults \/
                after.balance[a] >= before.balance[a] - PaidFrom(a, Vaults, before, after)

\* README.md, invariant I2: at the end of a transaction the books balance.
PaysWhatIsDue == [][Ends => Balanced(Settled, chain')]_vars

\* While it lasts they do too, a deposit under way taken as made, because a rule
\* that was created meanwhile and is due has paid nothing.
Accounted(t, s, c) ==
    /\ Balanced(s, c)
    /\ \A id \in DOMAIN c.rules \ DOMAIN s.rules :
          IsDue(c.rules[id], t) => c.rules[id].totalSpent = 0

AccountsInv ==
    /\ LoopRuns => Accounted(now, Settled, chain)
    /\ VaultRuns => Accounted(now, Settled, Deposited)
    /\ VaultRuns /\ Top.call = "executeOne" => Accounted(now, Settled, Top.saved)
=============================================================================
