---------------------------- MODULE Instructions ----------------------------
(***************************************************************************)
(* How an order is placed or stopped from the XRP Ledger: a client reads a *)
(* snapshot of the chain, builds an instruction bound to the account's     *)
(* nonce (packages/shared/src/memo.ts), and pays; some time later the      *)
(* payment lands and the MasterAccountController runs the instruction.     *)
(* Meanwhile orders execute, other payments land and vaults come and go:   *)
(* this is RuleEngine with the accounts' actions replaced.                 *)
(*                                                                         *)
(* Two clients are modelled.  "cli" is apps/operator (pay.ts, createRule.ts *)
(* and cancelRule.ts): it reads the nonce, the rules and, for a create, the *)
(* balance, pays once when all are read, and forgets them.  "web" is       *)
(* apps/web: it reads nonce, balance and rules in that order, shows each   *)
(* as soon as it has it, lets the user pay whenever a nonce is shown, and  *)
(* keeps what it shows.  Every read is a call of its own, and the chain    *)
(* moves in between.                                                       *)
(***************************************************************************)
EXTENDS RuleEngine, Functions

CONSTANTS
    Clients,       \* which clients: a subset of {"cli", "web"}
    OurExecutor,   \* the executor the client was configured with
    FixedMints,    \* netMintXrp choices of createRule.ts
    None,          \* nothing chosen, nothing read
    MaxPayments    \* bound: client |-> payments ever made

ASSUME InstructionsAssumption ==
    /\ Clients \subseteq {"cli", "web"}
    /\ OurExecutor \in Executors
    /\ FixedMints \subseteq Nat
    /\ MaxPayments \in [Clients -> Nat]
    /\ None \notin RuleId \cup Nat

VARIABLES
    client,    \* the client that is used
    opNonce,   \* MasterAccountController: nonce of each account
    page,      \* what the client of each account has read and chosen
    payments   \* the payments made, oldest first

instrVars == <<client, opNonce, page, payments>>
allVars   == <<vars, instrVars>>

IdsOf(a) == {id \in Ids : rules[id].account = a}

\* sumActiveCommitment over what was read: id |-> what that order may still draw.
SumSeen(seen, exclude) == SumFunctionOnSet(seen, DOMAIN seen \ {exclude})

Commitments == [id \in Ids |-> Commitment(rules[id])]
Caps        == [id \in Ids |-> rules[id].totalSpendCap]

ActiveCommitment(a) == SumFunctionOnSet(Commitments, IdsOf(a))

NothingRead == [id \in {} |-> 0]

EmptyPage ==
    [stage |-> "idle", nonce |-> None, held |-> 0, left |-> {},
     draft |-> NothingRead, seen |-> NothingRead, target |-> None]

FirstRead  == IF client = "web" THEN "held" ELSE "rules"
AfterHeld  == IF client = "web" THEN "rules" ELSE "ready"
AfterRules(pg) == IF client = "web" \/ pg.target # None THEN "ready" ELSE "held"

\* Ignition has deployed the contracts, named the executor and allowed the vaults.
InstrInit ==
    /\ Fresh
    /\ vaultAllowed = Vaults
    /\ executor = OurExecutor
    /\ client \in Clients
    /\ opNonce = [a \in Accounts |-> 0]
    /\ page = [a \in Accounts |-> EmptyPage]
    /\ payments = <<>>

-----------------------------------------------------------------------------
(* Reading the chain *)

\* cancelRule.ts is given one order, and reads that it is the caller's and active.
ChosenByScript(a, id) ==
    page[a].stage = "idle" /\ page[a].target = None /\ rules[id].active

\* The page offers to stop the orders it shows as active, and takes it back.
OfferedByPage(a, id) ==
    id \in DOMAIN page[a].seen /\ page[a].seen[id] > 0

ChooseTarget(a, id) ==
    /\ IF client = "cli" THEN ChosenByScript(a, id) ELSE OfferedByPage(a, id)
    /\ page' = [page EXCEPT ![a].target = IF @ = id THEN None ELSE id]
    /\ UNCHANGED <<vars, client, opNonce, payments>>

\* Bug: the nonce read once more when everything else is.
ReadNonceLate(a) ==
    /\ page[a].stage \in {"idle", "ready"}
    /\ page' = [page EXCEPT ![a].stage = IF @ = "idle" THEN FirstRead ELSE @,
                            ![a].nonce = opNonce[a]]
    /\ UNCHANGED <<vars, client, opNonce, payments>>

ReadNonce(a) ==
    /\ page[a].stage \in IF client = "cli" THEN {"idle"} ELSE {"idle", "ready"}
    /\ page' = [page EXCEPT ![a].stage = FirstRead, ![a].nonce = opNonce[a]]
    /\ UNCHANGED <<vars, client, opNonce, payments>>

ReadHeld(a) ==
    /\ page[a].stage = "held"
    /\ page' = [page EXCEPT ![a].stage = AfterHeld, ![a].held = balance[a]]
    /\ UNCHANGED <<vars, client, opNonce, payments>>

\* rulesOf: the ids, each of which is then read by a call of its own.
ReadIds(a) ==
    /\ page[a].stage = "rules"
    /\ page' = IF IdsOf(a) = {}
               THEN [page EXCEPT ![a].stage = AfterRules(page[a]), ![a].seen = NothingRead]
               ELSE [page EXCEPT ![a].stage = "reading", ![a].left = IdsOf(a)]
    /\ UNCHANGED <<vars, client, opNonce, payments>>

\* getRule(id); with the last one the whole list takes effect.
ReadRule(a, id) ==
    LET draft == [x \in DOMAIN page[a].draft \cup {id} |->
                    IF x = id THEN Commitment(rules[id]) ELSE page[a].draft[x]]
        left  == page[a].left \ {id}
    IN  /\ page[a].stage = "reading"
        /\ id \in page[a].left
        /\ page' = IF left = {}
                   THEN [page EXCEPT ![a].stage = AfterRules(page[a]), ![a].left = {},
                                     ![a].draft = NothingRead, ![a].seen = draft]
                   ELSE [page EXCEPT ![a].left = left, ![a].draft = draft]
        /\ UNCHANGED <<vars, client, opNonce, payments>>

\* A read throws: the script ends; the page drops the nonce and keeps the rest.
ReadFails(a) ==
    /\ page[a].stage \in {"held", "rules", "reading"}
    /\ page' = IF client = "cli"
               THEN [page EXCEPT ![a] = EmptyPage]
               ELSE [page EXCEPT ![a].stage = "idle", ![a].nonce = None,
                                 ![a].left = {}, ![a].draft = NothingRead]
    /\ UNCHANGED <<vars, client, opNonce, payments>>

-----------------------------------------------------------------------------
(* Building the instruction and paying *)

\* The script pays when everything is read, the user of the page whenever the
\* page shows a nonce.
CanPay(a) ==
    /\ Len(payments) < MaxPayments[client]
    /\ IF client = "cli" THEN page[a].stage = "ready" ELSE page[a].nonce # None

\* Bug (an earlier version of the source): approve only the new cap.
ApproveOnlyCap(pg, p) == p.totalSpendCap

\* buildCreateRuleCalls: the shared allowance covers the new order and what the
\* others can still draw.
ApproveForCreate(pg, p) == p.totalSpendCap + SumSeen(pg.seen, None)

\* buildCancelRuleCalls: what the others can still draw.
ApproveForCancel(pg) == SumSeen(pg.seen, pg.target)

\* Bug: no clamp at zero.
ShortfallUnclamped(pg, p) == p.totalSpendCap - pg.held

\* What a create payment mints: the cap less what the account holds.
Shortfall(pg, p) == IF p.totalSpendCap > pg.held THEN p.totalSpendCap - pg.held ELSE 0

Paid(a, payment) ==
    /\ payments' = Append(payments, payment)
    /\ page' = IF client = "cli" THEN [page EXCEPT ![a] = EmptyPage] ELSE page
    /\ UNCHANGED <<vars, client, opNonce>>

\* known and whole are history: the orders it was built from, and whether it was
\* to bring the account up to the cap.
Payment(a, kind, params, target, approve, mint) ==
    [account |-> a, nonce |-> page[a].nonce, kind |-> kind, params |-> params,
     target |-> target, approve |-> approve, mint |-> mint,
     known |-> DOMAIN page[a].seen,
     whole |-> kind = "create" /\ mint + page[a].held >= params.totalSpendCap,
     landed |-> FALSE]

PayCreate(a, p, mint) ==
    /\ CanPay(a)
    /\ client = "cli" => page[a].target = None
    /\ Paid(a, Payment(a, "create", p, None, ApproveForCreate(page[a], p), mint))

PayCancel(a) ==
    /\ CanPay(a)
    /\ page[a].target # None
    /\ Paid(a, Payment(a, "cancel", None, page[a].target, ApproveForCancel(page[a]), 0))

-----------------------------------------------------------------------------
(* The payment lands: FXRP is minted and the account runs the two calls of   *)
(* the instruction.  Either all of it takes effect or the transaction        *)
(* reverts, and the payment can be tried again.                              *)

\* Bug: the nonce of the instruction not compared.
NonceMatchesAny(k) == TRUE

\* InvalidNonce otherwise.
NonceMatches(k) == payments[k].nonce = opNonce[payments[k].account]

\* The second call of the instruction.
CreateLands(m) == m.kind = "create" /\ DoCreateRule(m.account, m.params)

CancelLands(m) ==
    /\ m.kind = "cancel"
    /\ DoCancelRule(m.account, m.target)
    /\ UNCHANGED <<nonces, allRuleIds>>

Land(k) ==
    LET m == payments[k]
        a == m.account
    IN  /\ Idle
        /\ ~m.landed
        /\ NonceMatches(k)
        /\ opNonce' = [opNonce EXCEPT ![a] = @ + 1]
        /\ payments' = [payments EXCEPT ![k].landed = TRUE]
        /\ balance' = [balance EXCEPT ![a] = @ + m.mint]
        /\ DoApprove(a, OurExecutor, m.approve)
        /\ CreateLands(m) \/ CancelLands(m)
        /\ UNCHANGED <<vaultAllowed, executor, paused, batch, position, now, client, page>>

-----------------------------------------------------------------------------
(* spike/finishRule.ts: a create payment that has not landed is taken up     *)
(* again, by somebody who has its parameters and the nonce it was built with. *)

\* The nonce still stands, so the instruction is built once more.
CanRebuild(k) ==
    /\ client = "cli"
    /\ payments[k].kind = "create"
    /\ ~payments[k].landed
    /\ NonceMatches(k)

\* The allowance in it: the commitment is read anew.
Rebuilt(k) == payments[k].params.totalSpendCap + ActiveCommitment(payments[k].account)

-----------------------------------------------------------------------------
ClientNext ==
    \/ \E a \in Accounts : \/ ReadNonce(a)
                           \/ ReadHeld(a)
                           \/ ReadIds(a)
                           \/ ReadFails(a)
                           \/ PayCancel(a)
    \/ \E a \in Accounts : \E id \in IdsOf(a) : ChooseTarget(a, id) \/ ReadRule(a, id)
    \/ \E a \in Accounts, p \in ParamChoices :
          \/ PayCreate(a, p, Shortfall(page[a], p))
          \/ client = "cli" /\ \E mint \in FixedMints : PayCreate(a, p, mint)

\* What else moves the chain.  A batch does nothing here that single executions
\* do not, and a pause or a change of executor only takes executions away.
EngineNext ==
    /\ \/ \E v \in Vaults, allowed \in BOOLEAN : SetVaultAllowed(v, allowed)
       \/ \E id \in Ids : Execute(OurExecutor, id)
       \/ Tick
    /\ UNCHANGED instrVars

InstrNext ==
    \/ ClientNext
    \/ \E k \in 1..Len(payments) : Land(k)
    \/ EngineNext

InstrSpec == InstrInit /\ [][InstrNext]_allVars

-----------------------------------------------------------------------------
(* Properties *)

PaymentRecord ==
    [account: Accounts, nonce: Nat, kind: {"create", "cancel"},
     params: ParamChoices \cup {None}, target: RuleId \cup {None},
     approve: Nat, mint: Nat, known: SUBSET Ids,
     whole: BOOLEAN, landed: BOOLEAN]

InstrTypeOK ==
    /\ client \in Clients
    /\ opNonce \in [Accounts -> Nat]
    /\ \A k \in 1..Len(payments) : payments[k] \in PaymentRecord
    /\ \A a \in Accounts :
          /\ page[a].stage \in {"idle", "held", "rules", "reading", "ready"}
          /\ page[a].nonce \in Nat \cup {None}
          /\ page[a].held \in Nat
          /\ page[a].target \in IdsOf(a) \cup {None}
          /\ page[a].left \cup DOMAIN page[a].seen \cup DOMAIN page[a].draft \subseteq IdsOf(a)

\* packages/shared/src/memo.ts: the one allowance of an account always covers
\* what its live orders can still draw, so no order is starved by another.
AllowanceCoversCommitment ==
    \A a \in Accounts : allowance[a][OurExecutor] >= ActiveCommitment(a)

\* With the scripts it does: they read everything before they build.
ScriptsStarveNone == client = "cli" => AllowanceCoversCommitment

\* An instruction takes effect only if no other that was built from its nonce has,
\* now or before, in whatever order they land; and one of a script, only on an
\* account that has exactly the orders its builder had read: the nonce, read before
\* the rules, is what makes an instruction built from anything else bounce.
NoBlindLanding ==
    [][\A k \in 1..Len(payments) :
          LET m == payments[k]
          IN  ~m.landed /\ payments'[k].landed =>
                 /\ client = "cli" => m.known = IdsOf(m.account)
                 /\ \A j \in 1..Len(payments) :
                       j # k /\ payments[j].account = m.account /\ payments[j].nonce = m.nonce
                         => ~payments'[j].landed]_allVars

\* README.md, "Stopping a rule": the allowance never exceeds what the user
\* signed for, the caps of the orders placed, however stale the snapshots were
\* from which the approvals were computed.
AuthorityBounded ==
    \A a \in Accounts :
        allowance[a][OurExecutor] <= SumFunctionOnSet(Caps, IdsOf(a))

\* finishRule.ts:118-121: an instruction rebuilt for a payment that was left over
\* never asks for more than was signed and paid for, whatever ran, landed or was
\* cancelled since.  (It may ask for less; then its memo is another, and the
\* payment cannot be completed this way.)
RebuiltAsksNoMore ==
    \A k \in 1..Len(payments) : CanRebuild(k) => Rebuilt(k) <= payments[k].approve

\* app.tsx:190-203, pay.ts:123-133 ("The rule must be able to fund
\* itself"): when a create of the script that mints what was missing lands, the
\* account holds the whole cap, but for what its other orders have drawn
\* since they were read.  (What they draw later they take from the same balance:
\* the payment does not provide for them.)
FundsItself ==
    [][\A k \in 1..Len(payments) :
          LET m == payments[k]
              others == m.approve - m.params.totalSpendCap
          IN  client = "cli" /\ m.whole /\ ~m.landed /\ payments'[k].landed
              => balance'[m.account] + (others - ActiveCommitment(m.account))
                    >= m.params.totalSpendCap]_allVars

-----------------------------------------------------------------------------
(* The inductive invariant behind the properties above *)

Reading == UNION {[S -> Nat] : S \in SUBSET Ids}

Page ==
    [stage: {"idle", "held", "rules", "reading", "ready"}, nonce: Nat \cup {None},
     held: Nat, left: SUBSET Ids, draft: Reading, seen: Reading,
     target: RuleId \cup {None}]

\* What was read of the orders of a is old at worst, and commitments only fall.
ReadingOK(a, read) ==
    \A id \in DOMAIN read :
        /\ id \in IdsOf(a)
        /\ Commitment(rules[id]) <= read[id]
        /\ read[id] <= rules[id].totalSpendCap

\* A script whose nonce still stands has, or is still reading, every order there
\* is; and what the account has lost since a script that creates read the
\* balance, its orders have drawn.
ScriptCurrent(a, pg) ==
    /\ pg.stage = "reading" => IdsOf(a) \subseteq pg.left \cup DOMAIN pg.draft
    /\ pg.stage \in {"held", "ready"} => IdsOf(a) \subseteq DOMAIN pg.seen
    /\ pg.stage = "ready" /\ pg.target = None =>
          pg.held + ActiveCommitment(a) <= balance[a] + SumSeen(pg.seen, None)

PageOK(a, pg) ==
    /\ pg.nonce # None => pg.nonce <= opNonce[a]
    /\ pg.stage # "idle" => pg.nonce # None
    /\ pg.target \in IdsOf(a) \cup {None}
    /\ pg.left \subseteq IdsOf(a)
    /\ ReadingOK(a, pg.draft) /\ ReadingOK(a, pg.seen)
    /\ client = "cli" /\ pg.nonce = opNonce[a] => ScriptCurrent(a, pg)

\* What is approved for the order that is created itself.
OwnCap(m) == IF m.kind = "create" THEN m.params.totalSpendCap ELSE 0

\* A payment of a script that still can land approves what the orders will be
\* able to draw, and, if it was to, brings the account up to the cap.
ScriptPaid(m) ==
    /\ m.known = IdsOf(m.account)
    /\ OwnCap(m) + SumFunctionOnSet(Commitments, IdsOf(m.account) \ {m.target}) <= m.approve
    /\ m.whole => m.params.totalSpendCap + ActiveCommitment(m.account)
                     <= m.mint + balance[m.account] + (m.approve - m.params.totalSpendCap)

PaymentOK(m) ==
    /\ IF m.kind = "create" THEN m.params \in ParamChoices /\ m.target = None
       ELSE m.target \in IdsOf(m.account) /\ ~m.whole
    /\ m.nonce <= opNonce[m.account]
    /\ m.landed => m.nonce < opNonce[m.account]
    /\ m.approve <= OwnCap(m) + SumFunctionOnSet(Caps, IdsOf(m.account))
    /\ client = "cli" /\ ~m.landed /\ m.nonce = opNonce[m.account] => ScriptPaid(m)

InstrInv ==
    /\ EngineInv /\ now # 0
    /\ client \in Clients
    /\ opNonce \in [Accounts -> Nat]
    /\ page \in [Accounts -> Page]
    /\ payments \in Seq(PaymentRecord)
    /\ \A a \in Accounts : PageOK(a, page[a])
    /\ \A k \in 1..Len(payments) : PaymentOK(payments[k])
    /\ ScriptsStarveNone
    /\ AuthorityBounded

-----------------------------------------------------------------------------
(* What the documentation says and the code does not do *)

\* packages/shared/src/memo.ts:124: cancel "can only ever lower the allowance".
CancelOnlyTightens ==
    [][\A k \in 1..Len(payments) :
          ~payments[k].landed /\ payments'[k].landed /\ payments[k].kind = "cancel" =>
             allowance'[payments[k].account][OurExecutor]
                <= allowance[payments[k].account][OurExecutor]]_allVars
=============================================================================
