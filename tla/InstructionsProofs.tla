------------------------- MODULE InstructionsProofs -------------------------
(***************************************************************************)
(* Proofs about Instructions and about what a client computes (Figures,    *)
(* MintPrice, MintLimits, History).                                        *)
(*                                                                         *)
(* The first part is the invariant InstrInv.  The nonce of an account is   *)
(* the version of its orders: whoever read the nonce before the orders     *)
(* has, as long as it still stands, read every order there is, and what    *)
(* was read of an order only overstates what it can still draw.  Whatever  *)
(* leaves the account's balance leaves its allowance too, and the          *)
(* commitment of its orders falls by as much at least; a landing uses the  *)
(* nonce up, and with it everything else that was built from it.           *)
(*                                                                         *)
(* The second part is arithmetic: what a payment has to carry, when a mint *)
(* may be tried again, and what the history asks for, for all numbers; the *)
(* third takes from it what the runs check on small ones.                  *)
(***************************************************************************)
EXTENDS Figures, RuleEngineProofs, DataLemmas

-----------------------------------------------------------------------------
(* What the orders of an account add up to *)

LEMMA CommitmentBounds ==
    ASSUME NEW r \in Rule
    PROVE  Commitment(r) \in Nat /\ Commitment(r) <= r.totalSpendCap /\ r.totalSpendCap \in Nat
  BY DEF Commitment, Rule

LEMMA IdsOfAreFinite ==
    ASSUME EngineInv, NEW a \in Accounts
    PROVE  IsFiniteSet(IdsOf(a)) /\ IdsOf(a) \subseteq Ids
  <1> DEFINE n == nonces[a]
             f == [id \in IdsOf(a) |-> id[2]]
  <1>1. n \in Nat
    BY DEF EngineInv, TypeOK
  <1>2. \A id \in IdsOf(a) : id \in RuleId /\ id[1] = a /\ id[2] \in Nat /\ id[2] < n
    BY DEF EngineInv, TypeOK, IdsAreSpent, IdsOf, RuleId
  <1>3. f \in Injection(IdsOf(a), 0..n)
    <2>1. f \in [IdsOf(a) -> 0..n]
      BY <1>1, <1>2
    <2>2. \A x, y \in IdsOf(a) : x[2] = y[2] => x = y
      BY <1>2 DEF RuleId
    <2> QED
      BY <2>1, <2>2 DEF Injection, IsInjective
  <1>4. IsFiniteSet(0..n)
    BY <1>1, FS_Interval
  <1> HIDE DEF f, n
  <1>5. IsFiniteSet(IdsOf(a))
    BY <1>3, <1>4, FS_Injection
  <1> QED
    BY <1>5 DEF IdsOf

LEMMA OrdersAddUp ==
    ASSUME EngineInv, NEW a \in Accounts
    PROVE  /\ \A id \in IdsOf(a) : /\ Commitments[id] = Commitment(rules[id])
                                   /\ Caps[id] = rules[id].totalSpendCap
                                   /\ Commitments[id] \in Nat /\ Caps[id] \in Nat
                                   /\ Commitments[id] <= Caps[id]
           /\ ActiveCommitment(a) \in Nat
           /\ SumFunctionOnSet(Caps, IdsOf(a)) \in Nat
  <1>1. IsFiniteSet(IdsOf(a)) /\ IdsOf(a) \subseteq Ids
    BY IdsOfAreFinite
  <1>2. \A id \in Ids : rules[id] \in Rule
    BY DEF EngineInv, TypeOK
  <1>3. \A id \in IdsOf(a) : /\ Commitments[id] = Commitment(rules[id])
                             /\ Caps[id] = rules[id].totalSpendCap
                             /\ Commitments[id] \in Nat /\ Caps[id] \in Nat
                             /\ Commitments[id] <= Caps[id]
    BY <1>1, <1>2, CommitmentBounds DEF Commitments, Caps
  <1> QED
    BY <1>1, <1>3, SumType DEF ActiveCommitment

\* The sums of every account are numbers.
SumsOK ==
    \A a \in Accounts :
        /\ IsFiniteSet(IdsOf(a)) /\ IdsOf(a) \subseteq Ids
        /\ \A id \in IdsOf(a) : Commitments[id] \in Nat /\ Caps[id] \in Nat
        /\ ActiveCommitment(a) \in Nat
        /\ SumFunctionOnSet(Caps, IdsOf(a)) \in Nat

LEMMA SumsAreOK == EngineInv => SumsOK
  BY IdsOfAreFinite, OrdersAddUp DEF SumsOK

LEMMA SumsStayOK == EngineInv' => SumsOK'
  BY SumsAreOK, PTL

\* What was read of them adds up to no less than they can draw, if all were read,
\* and to no more than their caps.
LEMMA ReadingAddsUp ==
    ASSUME EngineInv, NEW a \in Accounts, NEW read \in Reading, ReadingOK(a, read), NEW x
    PROVE  /\ DOMAIN read \subseteq IdsOf(a) /\ None \notin IdsOf(a)
           /\ SumSeen(read, x) \in Nat
           /\ SumSeen(read, x) <= SumFunctionOnSet(Caps, IdsOf(a))
           /\ IdsOf(a) \subseteq DOMAIN read =>
                 SumFunctionOnSet(Commitments, IdsOf(a) \ {x}) <= SumSeen(read, x)
  <1> DEFINE S == DOMAIN read \ {x}
  <1>1. IsFiniteSet(IdsOf(a)) /\ IdsOf(a) \subseteq Ids
    BY IdsOfAreFinite
  <1>2. DOMAIN read \subseteq IdsOf(a) /\ \A id \in DOMAIN read : read[id] \in Nat
    BY DEF ReadingOK, Reading
  <1>3. None \notin IdsOf(a)
    BY <1>1, InstructionsAssumption DEF EngineInv, TypeOK
  <1>4. IsFiniteSet(S) /\ S \subseteq IdsOf(a) /\ \A id \in S : read[id] \in Nat
    BY <1>1, <1>2, FS_Subset
  <1>5. \A id \in S : read[id] <= Caps[id] /\ Commitments[id] <= read[id]
    BY <1>4, OrdersAddUp DEF ReadingOK
  <1>6. SumSeen(read, x) = SumFunctionOnSet(read, S)
    BY DEF SumSeen
  <1>7. SumFunctionOnSet(read, S) \in Nat
    BY <1>4, SumType
  <1>8. SumFunctionOnSet(read, S) <= SumFunctionOnSet(Caps, IdsOf(a))
    BY <1>1, <1>4, <1>5, OrdersAddUp, SumWithin
  <1>9. ASSUME IdsOf(a) \subseteq DOMAIN read
        PROVE  SumFunctionOnSet(Commitments, IdsOf(a) \ {x}) <= SumFunctionOnSet(read, S)
    <2>1. IdsOf(a) \ {x} = S
      BY <1>2, <1>9
    <2> HIDE DEF S
    <2> QED
      BY <1>4, <1>5, <2>1, OrdersAddUp, SumGrows
  <1> HIDE DEF S
  <1> QED
    BY <1>2, <1>3, <1>6, <1>7, <1>8, <1>9

-----------------------------------------------------------------------------
(* Clients read, choose and pay: nothing else changes *)

LEMMA ClientMoves ==
    ASSUME InstrInv, UNCHANGED <<vars, client, opNonce>>,
           page' \in [Accounts -> Page], payments' \in Seq(PaymentRecord),
           \A a \in Accounts : PageOK(a, page'[a]),
           \A k \in 1..Len(payments') : PaymentOK(payments'[k])
    PROVE  InstrInv'
  <1>1. UNCHANGED vars
    OBVIOUS
  <1> USE <1>1
  <1>2. UNCHANGED <<Ids, Commitments, Caps, Page, Reading, PaymentRecord>>
    BY DEF vars, Ids, Commitments, Caps, Page, Reading, PaymentRecord
  <1>3. \A a \in Accounts : UNCHANGED <<IdsOf(a), ActiveCommitment(a)>>
    BY <1>2 DEF vars, IdsOf, ActiveCommitment
  <1>4. EngineInv' /\ now' # 0
    <2>1. UNCHANGED <<rules, nonces, book>> /\ TypeOK'
      BY DEF InstrInv, EngineInv, TypeOK, vars, Ids
    <2> QED
      BY <2>1, FrameStep DEF InstrInv, vars
  <1>5. (\A a \in Accounts : PageOK(a, page[a]))'
    BY <1>3 DEF PageOK, ReadingOK, ScriptCurrent, vars
  <1>6. (\A k \in 1..Len(payments) : PaymentOK(payments[k]))'
    <2> SUFFICES ASSUME NEW k \in 1..Len(payments') PROVE PaymentOK(payments[k])'
      OBVIOUS
    <2>0. payments'[k] \in PaymentRecord
      OBVIOUS
    <2>1. payments'[k].account \in Accounts
      BY <2>0 DEF PaymentRecord
    <2> QED
      BY <1>2, <1>3, <2>1 DEF PaymentOK, ScriptPaid, OwnCap, vars
  <1>7. ScriptsStarveNone' /\ AuthorityBounded'
    BY <1>2, <1>3 DEF InstrInv, ScriptsStarveNone, AllowanceCoversCommitment, AuthorityBounded, vars
  <1> QED
    BY <1>2, <1>4, <1>5, <1>6, <1>7 DEF InstrInv

\* One account's client reads something.
LEMMA PageMoves ==
    ASSUME InstrInv, NEW a \in Accounts, NEW pg \in Page, PageOK(a, pg),
           page' = [page EXCEPT ![a] = pg],
           UNCHANGED <<vars, client, opNonce, payments>>
    PROVE  InstrInv'
  <1>1. page' \in [Accounts -> Page] /\ \A b \in Accounts : PageOK(b, page'[b])
    BY DEF InstrInv
  <1>2. payments' \in Seq(PaymentRecord) /\ \A k \in 1..Len(payments') : PaymentOK(payments'[k])
    BY DEF InstrInv
  <1> QED
    BY <1>1, <1>2, ClientMoves

LEMMA PageFields ==
    ASSUME NEW pg \in Page
    PROVE  /\ pg.stage \in {"idle", "held", "rules", "reading", "ready"}
           /\ pg.nonce \in Nat \cup {None} /\ pg.held \in Nat /\ pg.left \in SUBSET Ids
           /\ pg.draft \in Reading /\ pg.seen \in Reading /\ pg.target \in RuleId \cup {None}
  BY DEF Page

LEMMA NothingReadOK ==
    /\ NothingRead \in Reading /\ DOMAIN NothingRead = {}
    /\ EmptyPage \in Page
    /\ \A a \in Accounts : ReadingOK(a, NothingRead)
    /\ \A a \in Accounts : opNonce \in [Accounts -> Nat] => PageOK(a, EmptyPage)
  <1>1. NothingRead \in [{} -> Nat] /\ DOMAIN NothingRead = {}
    BY DEF NothingRead
  <1>2. NothingRead \in Reading
    BY <1>1 DEF Reading
  <1>3. EmptyPage \in Page
    BY <1>2 DEF EmptyPage, Page
  <1>4. \A a \in Accounts : ReadingOK(a, NothingRead)
    BY <1>1 DEF ReadingOK
  <1>5. \A a \in Accounts : opNonce \in [Accounts -> Nat] => PageOK(a, EmptyPage)
    BY <1>4, InstructionsAssumption DEF EmptyPage, PageOK
  <1> QED
    BY <1>1, <1>2, <1>3, <1>4, <1>5

LEMMA ReadNonceStep ==
    ASSUME InstrInv, NEW a \in Accounts, ReadNonce(a)
    PROVE  InstrInv'
  <1> DEFINE pg == [page[a] EXCEPT !.stage = FirstRead, !.nonce = opNonce[a]]
  <1>1. /\ page[a] \in Page /\ PageOK(a, page[a]) /\ opNonce[a] \in Nat
        /\ page' = [page EXCEPT ![a] = pg] /\ UNCHANGED <<vars, client, opNonce, payments>>
    BY DEF InstrInv, ReadNonce
  <1>2. /\ pg \in Page /\ pg.stage = FirstRead /\ pg.nonce = opNonce[a]
        /\ pg.draft = page[a].draft /\ pg.seen = page[a].seen
        /\ pg.left = page[a].left /\ pg.target = page[a].target
    BY <1>1 DEF Page, FirstRead
  <1> HIDE DEF pg
  <1>3. opNonce[a] # None
    BY <1>1, InstructionsAssumption
  <1>4. PageOK(a, pg)
    BY <1>1, <1>2, <1>3 DEF PageOK, ScriptCurrent, FirstRead
  <1> QED
    BY <1>1, <1>2, <1>4, PageMoves

LEMMA ReadHeldStep ==
    ASSUME InstrInv, NEW a \in Accounts, ReadHeld(a)
    PROVE  InstrInv'
  <1> DEFINE pg == [page[a] EXCEPT !.stage = AfterHeld, !.held = balance[a]]
  <1>1. /\ page[a] \in Page /\ PageOK(a, page[a]) /\ balance[a] \in Nat
        /\ page[a].stage = "held" /\ EngineInv
        /\ page' = [page EXCEPT ![a] = pg] /\ UNCHANGED <<vars, client, opNonce, payments>>
    BY DEF InstrInv, ReadHeld, EngineInv, TypeOK
  <1>2. /\ pg \in Page /\ pg.stage = AfterHeld /\ pg.nonce = page[a].nonce
        /\ pg.held = balance[a]
        /\ pg.draft = page[a].draft /\ pg.seen = page[a].seen
        /\ pg.left = page[a].left /\ pg.target = page[a].target
    BY <1>1 DEF Page, AfterHeld
  <1> HIDE DEF pg
  <1>3. ASSUME client = "cli", pg.nonce = opNonce[a] PROVE ScriptCurrent(a, pg)
    <2>1. IdsOf(a) \subseteq DOMAIN pg.seen /\ ReadingOK(a, pg.seen) /\ pg.seen \in Reading
      BY <1>1, <1>2, <1>3 DEF PageOK, ScriptCurrent, Page
    <2>2. /\ SumSeen(pg.seen, None) \in Nat /\ None \notin IdsOf(a)
          /\ SumFunctionOnSet(Commitments, IdsOf(a) \ {None}) <= SumSeen(pg.seen, None)
      BY <1>1, <2>1, ReadingAddsUp
    <2>3. ActiveCommitment(a) <= SumSeen(pg.seen, None) /\ ActiveCommitment(a) \in Nat
      <3>1. IdsOf(a) \ {None} = IdsOf(a)
        BY <2>2
      <3> QED
        BY <1>1, <2>2, <3>1, OrdersAddUp DEF ActiveCommitment
    <2> QED
      BY <1>1, <1>2, <1>3, <2>1, <2>2, <2>3 DEF ScriptCurrent, AfterHeld
  <1>4. PageOK(a, pg)
    BY <1>1, <1>2, <1>3 DEF PageOK
  <1> QED
    BY <1>1, <1>2, <1>4, PageMoves

LEMMA ReadIdsStep ==
    ASSUME InstrInv, NEW a \in Accounts, ReadIds(a)
    PROVE  InstrInv'
  <1>1. /\ page[a] \in Page /\ PageOK(a, page[a]) /\ EngineInv /\ page[a].stage = "rules"
        /\ UNCHANGED <<vars, client, opNonce, payments>>
        /\ IdsOf(a) \in SUBSET Ids
    BY DEF InstrInv, ReadIds, IdsOf
  <1>2. CASE IdsOf(a) = {}
    <2> DEFINE pg == [page[a] EXCEPT !.stage = AfterRules(page[a]), !.seen = NothingRead]
    <2>1. page' = [page EXCEPT ![a] = pg]
      BY <1>2 DEF ReadIds, InstrInv
    <2>2. AfterRules(page[a]) \in {"held", "ready"}
          /\ (client = "cli" /\ page[a].target = None => AfterRules(page[a]) = "held")
      BY DEF AfterRules
    <2>3. /\ pg \in Page /\ pg.stage = AfterRules(page[a]) /\ pg.nonce = page[a].nonce
          /\ pg.draft = page[a].draft /\ pg.seen = NothingRead
          /\ pg.left = page[a].left /\ pg.target = page[a].target
      BY <1>1, <2>2, NothingReadOK DEF Page
    <2> HIDE DEF pg
    <2>4. page[a].target = None
      BY <1>1, <1>2 DEF PageOK
    <2>5. PageOK(a, pg)
      BY <1>1, <1>2, <2>2, <2>3, <2>4, NothingReadOK DEF PageOK, ScriptCurrent
    <2> QED
      BY <1>1, <2>1, <2>3, <2>5, PageMoves
  <1>3. CASE IdsOf(a) # {}
    <2> DEFINE pg == [page[a] EXCEPT !.stage = "reading", !.left = IdsOf(a)]
    <2>1. page' = [page EXCEPT ![a] = pg]
      BY <1>3 DEF ReadIds, InstrInv
    <2>2. /\ pg \in Page /\ pg.stage = "reading" /\ pg.nonce = page[a].nonce
          /\ pg.draft = page[a].draft /\ pg.seen = page[a].seen
          /\ pg.left = IdsOf(a) /\ pg.target = page[a].target
      BY <1>1 DEF Page
    <2> HIDE DEF pg
    <2>3. PageOK(a, pg)
      BY <1>1, <2>2 DEF PageOK, ScriptCurrent
    <2> QED
      BY <1>1, <2>1, <2>2, <2>3, PageMoves
  <1> QED
    BY <1>2, <1>3

LEMMA ReadRuleStep ==
    ASSUME InstrInv, NEW a \in Accounts, NEW id \in IdsOf(a), ReadRule(a, id)
    PROVE  InstrInv'
  <1> DEFINE old   == page[a].draft
             draft == [x \in DOMAIN old \cup {id} |->
                          IF x = id THEN Commitment(rules[id]) ELSE old[x]]
             left  == page[a].left \ {id}
  <1>1. /\ page[a] \in Page /\ PageOK(a, page[a]) /\ EngineInv /\ page[a].stage = "reading"
        /\ UNCHANGED <<vars, client, opNonce, payments>>
        /\ id \in Ids /\ rules[id] \in Rule
    BY DEF InstrInv, ReadRule, IdsOf, EngineInv, TypeOK
  <1>2. old \in Reading /\ ReadingOK(a, old)
    BY <1>1 DEF Page, PageOK
  <1>3. DOMAIN draft = DOMAIN old \cup {id} /\ draft \in Reading
    <2>1. DOMAIN old \in SUBSET Ids /\ \A x \in DOMAIN old : old[x] \in Nat
      BY <1>2 DEF Reading
    <2>2. draft \in [DOMAIN old \cup {id} -> Nat]
      BY <1>1, <2>1, CommitmentBounds
    <2> HIDE DEF draft, old
    <2> QED
      BY <1>1, <2>1, <2>2 DEF Reading
  <1>4. ReadingOK(a, draft)
    <2> SUFFICES ASSUME NEW x \in DOMAIN draft
                 PROVE  /\ x \in IdsOf(a) /\ Commitment(rules[x]) <= draft[x]
                        /\ draft[x] <= rules[x].totalSpendCap
      BY DEF ReadingOK
    <2>1. CASE x = id
      <3>1. draft[x] = Commitment(rules[x])
        BY <2>1
      <3> QED
        BY <1>1, <2>1, <3>1, CommitmentBounds
    <2>2. CASE x # id
      <3>1. x \in DOMAIN old /\ draft[x] = old[x]
        BY <2>2
      <3> QED
        BY <1>2, <3>1 DEF ReadingOK
    <2> QED
      BY <2>1, <2>2
  <1>5. CASE left = {}
    <2> DEFINE pg == [page[a] EXCEPT !.stage = AfterRules(page[a]), !.left = {},
                                     !.draft = NothingRead, !.seen = draft]
    <2>1. page' = [page EXCEPT ![a] = pg]
      BY <1>5 DEF ReadRule, InstrInv
    <2>2. AfterRules(page[a]) \in {"held", "ready"}
      BY DEF AfterRules
    <2> HIDE DEF draft
    <2>3. /\ pg \in Page /\ pg.stage = AfterRules(page[a]) /\ pg.nonce = page[a].nonce
          /\ pg.draft = NothingRead /\ pg.seen = draft
          /\ pg.left = {} /\ pg.target = page[a].target /\ pg.held = page[a].held
      BY <1>1, <1>3, <2>2, NothingReadOK DEF Page
    <2> HIDE DEF pg
    <2>4. ASSUME client = "cli", page[a].nonce = opNonce[a]
          PROVE  IdsOf(a) \subseteq DOMAIN draft
      BY <1>1, <1>3, <1>5, <2>4 DEF PageOK, ScriptCurrent
    <2>5. client = "cli" /\ page[a].target = None => AfterRules(page[a]) = "held"
      BY DEF AfterRules
    <2>6. PageOK(a, pg)
      BY <1>1, <1>4, <2>2, <2>3, <2>4, <2>5, NothingReadOK DEF PageOK, ScriptCurrent
    <2> QED
      BY <1>1, <2>1, <2>3, <2>6, PageMoves
  <1>6. CASE left # {}
    <2> DEFINE pg == [page[a] EXCEPT !.left = left, !.draft = draft]
    <2>1. page' = [page EXCEPT ![a] = pg]
      BY <1>6 DEF ReadRule, InstrInv
    <2> HIDE DEF draft
    <2>2. /\ pg \in Page /\ pg.stage = "reading" /\ pg.nonce = page[a].nonce
          /\ pg.draft = draft /\ pg.seen = page[a].seen
          /\ pg.left = left /\ pg.target = page[a].target
      BY <1>1, <1>3 DEF Page
    <2> HIDE DEF pg
    <2>3. PageOK(a, pg)
      BY <1>1, <1>3, <1>4, <2>2 DEF PageOK, ScriptCurrent
    <2> QED
      BY <1>1, <2>1, <2>2, <2>3, PageMoves
  <1> QED
    BY <1>5, <1>6

LEMMA ReadFailsStep ==
    ASSUME InstrInv, NEW a \in Accounts, ReadFails(a)
    PROVE  InstrInv'
  <1>1. /\ page[a] \in Page /\ PageOK(a, page[a]) /\ opNonce \in [Accounts -> Nat]
        /\ UNCHANGED <<vars, client, opNonce, payments>>
    BY DEF InstrInv, ReadFails
  <1>2. CASE client = "cli"
    <2>1. page' = [page EXCEPT ![a] = EmptyPage]
      BY <1>2 DEF ReadFails
    <2> QED
      BY <1>1, <2>1, NothingReadOK, PageMoves
  <1>3. CASE client # "cli"
    <2> DEFINE pg == [page[a] EXCEPT !.stage = "idle", !.nonce = None, !.left = {},
                                     !.draft = NothingRead]
    <2>1. page' = [page EXCEPT ![a] = pg]
      BY <1>3 DEF ReadFails, InstrInv
    <2>2. /\ pg \in Page /\ pg.stage = "idle" /\ pg.nonce = None
          /\ pg.draft = NothingRead /\ pg.seen = page[a].seen
          /\ pg.left = {} /\ pg.target = page[a].target
      BY <1>1, NothingReadOK DEF Page
    <2> HIDE DEF pg
    <2>3. PageOK(a, pg)
      BY <1>1, <1>3, <2>2, NothingReadOK DEF PageOK
    <2> QED
      BY <1>1, <2>1, <2>2, <2>3, PageMoves
  <1> QED
    BY <1>2, <1>3

LEMMA ChooseTargetStep ==
    ASSUME InstrInv, NEW a \in Accounts, NEW id \in IdsOf(a), ChooseTarget(a, id)
    PROVE  InstrInv'
  <1> DEFINE pg == [page[a] EXCEPT !.target = IF @ = id THEN None ELSE id]
  <1>1. /\ page[a] \in Page /\ PageOK(a, page[a]) /\ id \in RuleId
        /\ page' = [page EXCEPT ![a] = pg] /\ UNCHANGED <<vars, client, opNonce, payments>>
    BY DEF InstrInv, ChooseTarget, EngineInv, TypeOK, IdsOf
  <1>2. /\ pg \in Page /\ pg.target \in {id, None} /\ pg.nonce = page[a].nonce
        /\ pg.stage = page[a].stage
        /\ pg.draft = page[a].draft /\ pg.seen = page[a].seen /\ pg.left = page[a].left
    BY <1>1 DEF Page
  <1>3. client = "cli" => page[a].stage = "idle"
    BY DEF ChooseTarget, ChosenByScript
  <1> HIDE DEF pg
  <1>4. PageOK(a, pg)
    BY <1>1, <1>2, <1>3 DEF PageOK, ScriptCurrent
  <1> QED
    BY <1>1, <1>2, <1>4, PageMoves

-----------------------------------------------------------------------------
(* Paying *)

LEMMA PaidStep ==
    ASSUME InstrInv, NEW a \in Accounts, NEW m \in PaymentRecord, PaymentOK(m), Paid(a, m)
    PROVE  InstrInv'
  <1>1. /\ payments \in Seq(PaymentRecord) /\ payments' = Append(payments, m)
        /\ page \in [Accounts -> Page] /\ opNonce \in [Accounts -> Nat]
        /\ page' \in {page, [page EXCEPT ![a] = EmptyPage]}
        /\ UNCHANGED <<vars, client, opNonce>>
    BY DEF InstrInv, Paid
  <1>2. page' \in [Accounts -> Page] /\ \A b \in Accounts : PageOK(b, page'[b])
    BY <1>1, NothingReadOK DEF InstrInv
  <1>3. payments' \in Seq(PaymentRecord)
    BY <1>1
  <1>4. \A k \in 1..Len(payments') : PaymentOK(payments'[k])
    <2> SUFFICES ASSUME NEW k \in 1..Len(payments') PROVE PaymentOK(payments'[k])
      OBVIOUS
    <2>1. k \in 1..Len(payments) \/ payments'[k] = m
      BY <1>1
    <2>2. k \in 1..Len(payments) => payments'[k] = payments[k]
      BY <1>1
    <2> QED
      BY <2>1, <2>2 DEF InstrInv
  <1> QED
    BY <1>1, <1>2, <1>3, <1>4, ClientMoves

\* What a client that can pay knows.
LEMMA PayerKnows ==
    ASSUME InstrInv, NEW a \in Accounts, CanPay(a)
    PROVE  /\ EngineInv /\ page[a] \in Page /\ page[a].nonce \in Nat
           /\ page[a].nonce <= opNonce[a] /\ opNonce[a] \in Nat
           /\ page[a].seen \in Reading /\ ReadingOK(a, page[a].seen)
           /\ page[a].held \in Nat /\ DOMAIN page[a].seen \subseteq IdsOf(a)
           /\ page[a].target \in IdsOf(a) \cup {None}
           /\ client = "cli" /\ page[a].nonce = opNonce[a] =>
                 /\ IdsOf(a) \subseteq DOMAIN page[a].seen
                 /\ page[a].target = None => page[a].held + ActiveCommitment(a)
                                           <= balance[a] + SumSeen(page[a].seen, None)
  <1>1. EngineInv /\ page[a] \in Page /\ PageOK(a, page[a]) /\ opNonce[a] \in Nat
    BY DEF InstrInv
  <1>2. /\ page[a].nonce \in Nat \cup {None} /\ page[a].held \in Nat
        /\ page[a].seen \in Reading
    BY <1>1, PageFields
  <1>3. page[a].nonce # None /\ (client = "cli" => page[a].stage = "ready")
    BY <1>1 DEF CanPay, PageOK
  <1>4. /\ page[a].nonce <= opNonce[a] /\ ReadingOK(a, page[a].seen)
        /\ page[a].target \in IdsOf(a) \cup {None}
        /\ (client = "cli" /\ page[a].nonce = opNonce[a] => ScriptCurrent(a, page[a]))
    BY <1>1, <1>3 DEF PageOK
  <1> QED
    BY <1>1, <1>2, <1>3, <1>4, ReadingAddsUp DEF ScriptCurrent

LEMMA PayCreateStep ==
    ASSUME InstrInv, NEW a \in Accounts, NEW p \in ParamChoices, NEW mint \in Nat,
           PayCreate(a, p, mint)
    PROVE  InstrInv'
  <1> DEFINE pg == page[a]
             m  == Payment(a, "create", p, None, ApproveForCreate(pg, p), mint)
             sum == SumSeen(pg.seen, None)
             cap == p.totalSpendCap
  <1>1. CanPay(a) /\ Paid(a, m) /\ (client = "cli" => pg.target = None)
    BY DEF PayCreate
  <1>2. cap \in Nat
    BY EngineAssumption DEF CreateRuleParams
  <1>3. /\ EngineInv /\ pg.nonce \in Nat /\ pg.nonce <= opNonce[a] /\ opNonce[a] \in Nat
        /\ pg.seen \in Reading /\ ReadingOK(a, pg.seen) /\ pg.held \in Nat
        /\ DOMAIN pg.seen \subseteq IdsOf(a)
    BY <1>1, PayerKnows
  <1>4. /\ sum \in Nat /\ None \notin IdsOf(a)
        /\ sum <= SumFunctionOnSet(Caps, IdsOf(a))
        /\ IdsOf(a) \subseteq DOMAIN pg.seen =>
              SumFunctionOnSet(Commitments, IdsOf(a) \ {None}) <= sum
    BY <1>3, ReadingAddsUp
  <1>5. ApproveForCreate(pg, p) = cap + sum
    BY DEF ApproveForCreate
  <1>6. /\ m.account = a /\ m.nonce = pg.nonce /\ m.kind = "create" /\ m.params = p
        /\ m.target = None /\ m.approve = cap + sum /\ m.mint = mint
        /\ m.known = DOMAIN pg.seen /\ ~m.landed
        /\ m.whole = (mint + pg.held >= cap)
    BY <1>5 DEF Payment
  <1>7. m \in PaymentRecord
    <2>1. DOMAIN pg.seen \in SUBSET Ids
      BY <1>3 DEF IdsOf
    <2> HIDE DEF pg, sum, cap
    <2>2. cap + sum \in Nat
      BY <1>2, <1>4
    <2>3. (mint + pg.held >= cap) \in BOOLEAN
      OBVIOUS
    <2> QED
      BY <1>3, <1>5, <2>1, <2>2, <2>3 DEF Payment, PaymentRecord, pg, cap
  <1> HIDE DEF m, pg, sum, cap
  <1>8. OwnCap(m) = cap
    BY <1>6 DEF OwnCap, cap
  <1>9. SumFunctionOnSet(Caps, IdsOf(a)) \in Nat /\ ActiveCommitment(a) \in Nat
    BY <1>3, OrdersAddUp
  <1>10. ASSUME client = "cli", pg.nonce = opNonce[a] PROVE ScriptPaid(m)
    <2>1. /\ IdsOf(a) \subseteq DOMAIN pg.seen /\ IdsOf(a) = DOMAIN pg.seen
          /\ pg.held + ActiveCommitment(a) <= balance[a] + sum
      BY <1>1, <1>3, <1>10, PayerKnows DEF pg, sum
    <2>2. SumFunctionOnSet(Commitments, IdsOf(a) \ {None}) <= sum
      BY <1>4, <2>1
    <2>3. balance[a] \in Nat
      BY <1>3 DEF EngineInv, TypeOK
    <2>4. SumFunctionOnSet(Commitments, IdsOf(a) \ {None}) \in Nat
      <3>1. IdsOf(a) \ {None} = IdsOf(a)
        BY <1>4
      <3> QED
        BY <1>9, <3>1 DEF ActiveCommitment
    <2>5. cap + SumFunctionOnSet(Commitments, IdsOf(a) \ {None}) <= cap + sum
      BY <1>2, <1>4, <2>2, <2>4
    <2>6. mint + pg.held >= cap =>
            cap + ActiveCommitment(a) <= mint + balance[a] + ((cap + sum) - cap)
      BY <1>2, <1>3, <1>4, <1>9, <2>1, <2>3
    <2> QED
      BY <1>6, <1>8, <2>1, <2>5, <2>6 DEF ScriptPaid, cap
  <1>11. PaymentOK(m)
    BY <1>2, <1>3, <1>4, <1>6, <1>8, <1>9, <1>10 DEF PaymentOK
  <1> QED
    BY <1>1, <1>7, <1>11, PaidStep

LEMMA PayCancelStep ==
    ASSUME InstrInv, NEW a \in Accounts, PayCancel(a)
    PROVE  InstrInv'
  <1> DEFINE pg == page[a]
             m  == Payment(a, "cancel", None, pg.target, ApproveForCancel(pg), 0)
             sum == SumSeen(pg.seen, pg.target)
  <1>1. CanPay(a) /\ Paid(a, m) /\ pg.target # None
    BY DEF PayCancel
  <1>3. /\ EngineInv /\ pg.nonce \in Nat /\ pg.nonce <= opNonce[a] /\ opNonce[a] \in Nat
        /\ pg.seen \in Reading /\ ReadingOK(a, pg.seen) /\ pg.held \in Nat
        /\ DOMAIN pg.seen \subseteq IdsOf(a)
        /\ pg.target \in IdsOf(a)
        /\ client = "cli" /\ pg.nonce = opNonce[a] => IdsOf(a) \subseteq DOMAIN pg.seen
    BY <1>1, PayerKnows
  <1>4. /\ sum \in Nat
        /\ sum <= SumFunctionOnSet(Caps, IdsOf(a))
        /\ IdsOf(a) \subseteq DOMAIN pg.seen =>
              SumFunctionOnSet(Commitments, IdsOf(a) \ {pg.target}) <= sum
    BY <1>3, ReadingAddsUp
  <1>5. ApproveForCancel(pg) = sum
    BY DEF ApproveForCancel
  <1>6. /\ m.account = a /\ m.nonce = pg.nonce /\ m.kind = "cancel"
        /\ m.target = pg.target /\ m.approve = sum
        /\ m.known = DOMAIN pg.seen /\ ~m.landed /\ ~m.whole
    BY <1>5 DEF Payment
  <1>7. m \in PaymentRecord
    <2>1. DOMAIN pg.seen \in SUBSET Ids /\ pg.target \in RuleId
      BY <1>3 DEF IdsOf, EngineInv, TypeOK
    <2> HIDE DEF pg, sum
    <2> QED
      BY <1>3, <1>4, <1>5, <2>1 DEF Payment, PaymentRecord, pg
  <1> HIDE DEF m, pg, sum
  <1>8. OwnCap(m) = 0
    BY <1>6 DEF OwnCap
  <1>9. SumFunctionOnSet(Caps, IdsOf(a)) \in Nat
    BY <1>3, OrdersAddUp
  <1>10. ASSUME client = "cli", pg.nonce = opNonce[a] PROVE ScriptPaid(m)
    <2>1. IsFiniteSet(IdsOf(a) \ {pg.target})
          /\ \A id \in IdsOf(a) \ {pg.target} : Commitments[id] \in Nat
      BY <1>3, IdsOfAreFinite, OrdersAddUp, FS_Subset
    <2>2. SumFunctionOnSet(Commitments, IdsOf(a) \ {pg.target}) \in Nat
      BY <2>1, SumType
    <2> QED
      BY <1>3, <1>4, <1>6, <1>8, <1>10, <2>2 DEF ScriptPaid
  <1>11. PaymentOK(m)
    BY <1>3, <1>4, <1>6, <1>8, <1>9, <1>10 DEF PaymentOK
  <1> QED
    BY <1>1, <1>7, <1>11, PaidStep

-----------------------------------------------------------------------------
(* Orders run, vaults come and go, time passes: what is read grows old *)

\* What leaves an account leaves its allowance too, and the commitment of its
\* orders falls by as much at least.
LEMMA EngineMoves ==
    ASSUME InstrInv, EngineInv', now' # 0, UNCHANGED instrVars, Ids' = Ids,
           \A id \in Ids : /\ rules'[id].account = rules[id].account
                           /\ rules'[id].totalSpendCap = rules[id].totalSpendCap
                           /\ Commitment(rules'[id]) <= Commitment(rules[id]),
           \A a \in Accounts : \E x \in Nat :
              /\ balance[a] = balance'[a] + x
              /\ allowance[a][OurExecutor] = allowance'[a][OurExecutor] + x
              /\ ActiveCommitment(a)' + x <= ActiveCommitment(a)
    PROVE  InstrInv'
  <1>1. /\ UNCHANGED <<client, opNonce, page, payments, Page, Reading, PaymentRecord>>
        /\ \A a \in Accounts : IdsOf(a)' = IdsOf(a)
    BY DEF instrVars, Page, Reading, PaymentRecord, IdsOf
  <1>2. Caps' = Caps
    BY DEF Caps
  <1>3. \A id \in Ids : Commitments'[id] <= Commitments[id] /\ Commitments'[id] \in Nat
                       /\ Commitments[id] \in Nat
    BY CommitmentBounds DEF Commitments, InstrInv, EngineInv, TypeOK
  <1>4. ASSUME NEW a \in Accounts
        PROVE  /\ balance[a] \in Nat /\ balance'[a] \in Nat
               /\ allowance[a][OurExecutor] \in Nat /\ allowance'[a][OurExecutor] \in Nat
               /\ ActiveCommitment(a) \in Nat /\ ActiveCommitment(a)' \in Nat
               /\ SumFunctionOnSet(Caps, IdsOf(a)) \in Nat
    <2>1. OurExecutor \in Executors
      BY InstructionsAssumption
    <2>2. SumFunctionOnSet(Commitments', IdsOf(a)) \in Nat
      <3>1. IsFiniteSet(IdsOf(a)) /\ IdsOf(a) \subseteq Ids
        BY IdsOfAreFinite DEF InstrInv
      <3> QED
        BY <1>3, <3>1, SumType
    <2> QED
      BY <1>1, <2>1, <2>2, OrdersAddUp DEF InstrInv, EngineInv, TypeOK, ActiveCommitment
  <1>5. ASSUME NEW a \in Accounts
        PROVE  PageOK(a, page[a])'
    <2> DEFINE pg == page[a]
    <2>1. PageOK(a, pg) /\ pg \in Page
      BY DEF InstrInv
    <2>2. ASSUME NEW read \in Reading, ReadingOK(a, read)
          PROVE  \A id \in DOMAIN read :
                    /\ id \in IdsOf(a)
                    /\ Commitment(rules'[id]) <= read[id]
                    /\ read[id] <= rules'[id].totalSpendCap
      <3> SUFFICES ASSUME NEW id \in DOMAIN read
                   PROVE  /\ id \in IdsOf(a)
                          /\ Commitment(rules'[id]) <= read[id]
                          /\ read[id] <= rules'[id].totalSpendCap
        OBVIOUS
      <3>1. /\ id \in IdsOf(a) /\ id \in Ids /\ Commitment(rules[id]) <= read[id]
            /\ read[id] <= rules[id].totalSpendCap /\ read[id] \in Nat
        BY <2>2 DEF ReadingOK, Reading, IdsOf
      <3>2. Commitment(rules'[id]) \in Nat /\ Commitment(rules[id]) \in Nat
        BY <1>3, <3>1, CommitmentBounds DEF InstrInv, EngineInv, TypeOK
      <3> QED
        BY <3>1, <3>2
    <2>3. ReadingOK(a, pg.draft)' /\ ReadingOK(a, pg.seen)'
      BY <1>1, <2>1, <2>2, PageFields DEF ReadingOK, PageOK
    <2>4. ASSUME client = "cli", pg.nonce = opNonce[a] PROVE ScriptCurrent(a, pg)'
      <3>1. ScriptCurrent(a, pg) /\ pg.held \in Nat
        BY <2>1, <2>4, PageFields DEF PageOK
      <3>2. PICK x \in Nat : balance[a] = balance'[a] + x
                             /\ ActiveCommitment(a)' + x <= ActiveCommitment(a)
        OBVIOUS
      <3>3. SumSeen(pg.seen, None) \in Nat
        BY <2>1, PageFields, ReadingAddsUp DEF PageOK, InstrInv
      <3>4. SumSeen(pg.seen, None)' = SumSeen(pg.seen, None)
        BY <1>1 DEF SumSeen
      <3>5. pg.held + ActiveCommitment(a) <= balance[a] + SumSeen(pg.seen, None)
            => pg.held + ActiveCommitment(a)' <= balance'[a] + SumSeen(pg.seen, None)
        BY <1>4, <3>1, <3>2, <3>3
      <3> QED
        BY <1>1, <3>1, <3>4, <3>5 DEF ScriptCurrent
    <2> QED
      BY <1>1, <2>1, <2>3, <2>4 DEF PageOK
  <1>6. ASSUME NEW m \in PaymentRecord, PaymentOK(m), NEW a \in Accounts, m.account = a
        PROVE  PaymentOK(m)'
    <2> DEFINE S == IdsOf(a) \ {m.target}
    <2>1. m.approve \in Nat /\ m.mint \in Nat
      BY DEF PaymentRecord
    <2>2. OwnCap(m) \in Nat
      BY <1>6, EngineAssumption DEF OwnCap, PaymentOK, CreateRuleParams
    <2>3. ASSUME client = "cli", ~m.landed, m.nonce = opNonce[a] PROVE ScriptPaid(m)'
      <3>1. ScriptPaid(m)
        BY <1>6, <2>3 DEF PaymentOK
      <3>2. IsFiniteSet(S) /\ \A id \in S : /\ Commitments'[id] \in Nat /\ Commitments[id] \in Nat
                                            /\ Commitments'[id] <= Commitments[id]
        BY <1>3, IdsOfAreFinite, FS_Subset DEF InstrInv
      <3>3. /\ SumFunctionOnSet(Commitments', S) <= SumFunctionOnSet(Commitments, S)
            /\ SumFunctionOnSet(Commitments', S) \in Nat
            /\ SumFunctionOnSet(Commitments, S) \in Nat
        BY <3>2, SumGrows, SumType
      <3>4. OwnCap(m) + SumFunctionOnSet(Commitments', S) <= m.approve
        <4>1. OwnCap(m) + SumFunctionOnSet(Commitments, S) <= m.approve
          BY <1>6, <3>1 DEF ScriptPaid
        <4> HIDE DEF S
        <4> QED
          BY <2>1, <2>2, <3>3, <4>1
      <3>5. PICK x \in Nat : balance[a] = balance'[a] + x
                             /\ ActiveCommitment(a)' + x <= ActiveCommitment(a)
        OBVIOUS
      <3>6. ASSUME m.whole
            PROVE  m.params.totalSpendCap + ActiveCommitment(a)'
                     <= m.mint + balance'[a] + (m.approve - m.params.totalSpendCap)
        <4>1. m.params.totalSpendCap = OwnCap(m)
          BY <1>6, <3>6 DEF PaymentOK, OwnCap, PaymentRecord
        <4>2. OwnCap(m) + ActiveCommitment(a) <= m.mint + balance[a] + (m.approve - OwnCap(m))
          BY <1>6, <3>1, <3>6, <4>1 DEF ScriptPaid
        <4>3. OwnCap(m) + ActiveCommitment(a)' <= m.mint + balance'[a] + (m.approve - OwnCap(m))
          BY <1>4, <2>1, <2>2, <3>5, <4>2
        <4> QED
          BY <4>1, <4>3
      <3> QED
        BY <1>1, <1>6, <3>1, <3>4, <3>6 DEF ScriptPaid, OwnCap
    <2> QED
      BY <1>1, <1>2, <1>6, <2>3 DEF PaymentOK, OwnCap
  <1>9. (\A k \in 1..Len(payments) : PaymentOK(payments[k]))'
    <2> SUFFICES ASSUME NEW k \in 1..Len(payments) PROVE PaymentOK(payments[k])'
      BY <1>1
    <2>1. payments[k] \in PaymentRecord /\ PaymentOK(payments[k])
      BY DEF InstrInv
    <2>2. payments[k].account \in Accounts
      BY <2>1 DEF PaymentRecord
    <2>3. \A m \in PaymentRecord : m.account \in Accounts /\ PaymentOK(m) => PaymentOK(m)'
      BY <1>6
    <2>4. (payments[k])' = payments[k]
      BY <1>1
    <2> QED
      BY <2>1, <2>2, <2>3, <2>4
  <1>7. ScriptsStarveNone'
    <2> SUFFICES ASSUME client = "cli", NEW a \in Accounts
                 PROVE  allowance'[a][OurExecutor] >= ActiveCommitment(a)'
      BY <1>1 DEF ScriptsStarveNone, AllowanceCoversCommitment
    <2>1. allowance[a][OurExecutor] >= ActiveCommitment(a)
      BY DEF InstrInv, ScriptsStarveNone, AllowanceCoversCommitment
    <2>2. PICK x \in Nat : /\ allowance[a][OurExecutor] = allowance'[a][OurExecutor] + x
                           /\ ActiveCommitment(a)' + x <= ActiveCommitment(a)
      OBVIOUS
    <2> QED
      BY <1>4, <2>1, <2>2
  <1>8. AuthorityBounded'
    <2> SUFFICES ASSUME NEW a \in Accounts
                 PROVE  allowance'[a][OurExecutor] <= SumFunctionOnSet(Caps, IdsOf(a))
      BY <1>1, <1>2 DEF AuthorityBounded
    <2>1. allowance[a][OurExecutor] <= SumFunctionOnSet(Caps, IdsOf(a))
      BY DEF InstrInv, AuthorityBounded
    <2>2. PICK x \in Nat : allowance[a][OurExecutor] = allowance'[a][OurExecutor] + x
      OBVIOUS
    <2> QED
      BY <1>4, <2>1, <2>2
  <1> QED
    BY <1>1, <1>5, <1>9, <1>7, <1>8 DEF InstrInv

\* A run takes its instalment from the balance, the allowance and, at least, the
\* commitment.
LEMMA RunLowersCommitment ==
    ASSUME NEW r \in Rule, NEW t \in Nat, IsDue(r, t),
           r.totalSpent + r.amountPerRun <= r.totalSpendCap
    PROVE  /\ Commitment(MarkedExecuted(r, t)) + r.amountPerRun <= Commitment(r)
           /\ MarkedExecuted(r, t).account = r.account
           /\ MarkedExecuted(r, t).totalSpendCap = r.totalSpendCap
  <1> DEFINE m == MarkedExecuted(r, t)
  <1>1. /\ r.totalSpent \in Nat /\ r.amountPerRun \in Nat /\ r.totalSpendCap \in Nat
        /\ r.active
    BY DEF Rule, IsDue
  <1>2. /\ m.account = r.account /\ m.totalSpendCap = r.totalSpendCap
        /\ m.totalSpent = r.totalSpent + r.amountPerRun
    BY DEF MarkedExecuted, Counted, Rule
  <1> HIDE DEF m
  <1>3. Commitment(m) + r.amountPerRun <= Commitment(r)
    <2>1. Commitment(m) \in {0, m.totalSpendCap - m.totalSpent}
      BY DEF Commitment
    <2>2. Commitment(r) = r.totalSpendCap - r.totalSpent \/
          (Commitment(r) = 0 /\ r.totalSpendCap = r.totalSpent)
      BY <1>1 DEF Commitment
    <2> QED
      BY <1>1, <1>2, <2>1, <2>2
  <1> QED
    BY <1>2, <1>3 DEF m

LEMMA ExecuteMoves ==
    ASSUME InstrInv, NEW c \in Ids, Execute(OurExecutor, c), UNCHANGED instrVars
    PROVE  InstrInv'
  <1> DEFINE r == rules[c]
             m == MarkedExecuted(r, now)
             owner == r.account
             amount == r.amountPerRun
  <1>1. OurExecutor \in Executors /\ EngineInv /\ EngineInv' /\ now' # 0
    BY InstructionsAssumption, ExecuteStep DEF Execute, InstrInv, EngineInv, TypeOK
  <1>2. /\ r \in Rule /\ now \in Nat /\ IsDue(r, now)
        /\ r.totalSpent + amount <= r.totalSpendCap
        /\ amount \in Nat /\ owner \in Accounts /\ r.totalSpendCap \in Nat
    BY <1>1 DEF Execute, DoExecute, MarkAccepted, EngineInv, TypeOK, Rule
  <1>3. /\ rules' = [rules EXCEPT ![c] = m]
        /\ balance' = [balance EXCEPT ![owner] = @ - amount]
        /\ allowance' = [allowance EXCEPT ![owner][OurExecutor] = @ - amount]
    BY DEF Execute, DoExecute
  <1>4. /\ Commitment(m) + amount <= Commitment(r)
        /\ m.account = owner /\ m.totalSpendCap = r.totalSpendCap
    BY <1>2, RunLowersCommitment
  <1>5. /\ Ids' = Ids /\ rules'[c] = m
        /\ \A id \in Ids : id # c => rules'[id] = rules[id]
    BY <1>1, <1>3 DEF EngineInv, TypeOK, Ids
  <1>6. c \in IdsOf(owner) /\ m \in Rule
    <2>1. rules'[c] \in Rule
      BY <1>1, <1>5 DEF EngineInv, TypeOK
    <2> QED
      BY <1>5, <2>1 DEF IdsOf
  <1> HIDE DEF m, r
  <1>7. \A id \in Ids : rules[id] \in Rule
    BY <1>1 DEF EngineInv, TypeOK
  <1>8. \A id \in Ids : Commitment(rules[id]) \in Nat
    BY <1>7, CommitmentBounds
  <1>9. ASSUME NEW id \in Ids
        PROVE  /\ rules'[id].account = rules[id].account
               /\ rules'[id].totalSpendCap = rules[id].totalSpendCap
               /\ Commitment(rules'[id]) <= Commitment(rules[id])
    <2>1. CASE id = c
      <3>1. Commitment(m) \in Nat /\ Commitment(r) \in Nat
        BY <1>2, <1>6, CommitmentBounds
      <3> QED
        BY <1>2, <1>4, <1>5, <2>1, <3>1 DEF r
    <2>2. CASE id # c
      BY <1>5, <1>8, <2>2
    <2> QED
      BY <2>1, <2>2
  <1>10. ASSUME NEW a \in Accounts
         PROVE  \E x \in Nat :
                   /\ balance[a] = balance'[a] + x
                   /\ allowance[a][OurExecutor] = allowance'[a][OurExecutor] + x
                   /\ ActiveCommitment(a)' + x <= ActiveCommitment(a)
    <2>1. /\ balance \in [Accounts -> Nat] /\ allowance \in [Accounts -> [Executors -> Nat]]
          /\ IdsOf(a)' = IdsOf(a)
      BY <1>1, <1>5, <1>9 DEF EngineInv, TypeOK, IdsOf
    <2>2. IsFiniteSet(IdsOf(a)) /\ IdsOf(a) \subseteq Ids
      BY <1>1, IdsOfAreFinite
    <2>3. \A id \in IdsOf(a) : Commitments[id] \in Nat /\ Commitments'[id] \in Nat
      BY <1>1, <1>5, <2>1, <2>2, OrdersAddUp, CommitmentBounds DEF Commitments, EngineInv, TypeOK
    <2>4. ActiveCommitment(a) = SumFunctionOnSet(Commitments, IdsOf(a))
          /\ ActiveCommitment(a)' = SumFunctionOnSet(Commitments', IdsOf(a))
      BY <2>1 DEF ActiveCommitment
    <2>5. /\ SumFunctionOnSet(Commitments, IdsOf(a)) \in Nat
          /\ SumFunctionOnSet(Commitments', IdsOf(a)) \in Nat
      BY <2>2, <2>3, SumType
    <2>6. CASE a = owner
      <3>1. SumFunctionOnSet(Commitments', IdsOf(a)) + Commitments[c]
              = SumFunctionOnSet(Commitments, IdsOf(a)) + Commitments'[c]
        <4>1. c \in IdsOf(a)
          BY <1>6, <2>6
        <4>2. \A id \in IdsOf(a) : id # c => Commitments'[id] = Commitments[id]
          BY <1>5, <2>2 DEF Commitments
        <4> QED
          BY <2>2, <2>3, <4>1, <4>2, SumChanges
      <3>2. Commitments'[c] + amount <= Commitments[c]
        BY <1>4, <1>5, <1>9 DEF Commitments, r
      <3>3. Commitments[c] \in Nat /\ Commitments'[c] \in Nat
        BY <1>6, <2>3, <2>6
      <3>4. ActiveCommitment(a)' + amount <= ActiveCommitment(a)
        BY <1>2, <2>4, <2>5, <3>1, <3>2, <3>3
      <3>5. /\ balance[a] = balance'[a] + amount
            /\ allowance[a][OurExecutor] = allowance'[a][OurExecutor] + amount
        BY <1>1, <1>2, <1>3, <2>1, <2>6
      <3> QED
        BY <1>2, <3>4, <3>5
    <2>7. CASE a # owner
      <3>1. balance'[a] = balance[a] /\ allowance'[a] = allowance[a]
        BY <1>3, <2>1, <2>7
      <3>2. \A id \in IdsOf(a) : Commitments'[id] = Commitments[id]
        BY <1>5, <2>2, <2>7 DEF Commitments, IdsOf, r
      <3>3. ActiveCommitment(a)' = ActiveCommitment(a)
        BY <2>2, <2>3, <2>4, <3>2, SumSame
      <3>4. balance[a] \in Nat /\ allowance[a][OurExecutor] \in Nat /\ ActiveCommitment(a) \in Nat
        BY <1>1, <2>1, <2>4, <2>5
      <3> QED
        BY <3>1, <3>3, <3>4
    <2> QED
      BY <2>6, <2>7
  <1> QED
    BY <1>1, <1>5, <1>9, <1>10, EngineMoves

LEMMA EngineStep ==
    ASSUME InstrInv, EngineNext
    PROVE  InstrInv'
  <1>1. UNCHANGED instrVars
    BY DEF EngineNext
  <1>2. ASSUME NEW c \in Ids, Execute(OurExecutor, c) PROVE InstrInv'
    BY <1>1, <1>2, ExecuteMoves
  <1>3. ASSUME UNCHANGED <<rules, nonces, allRuleIds, executor, paused, batch, tokenVars, book>>,
               vaultAllowed' \subseteq Vaults, now' \in Nat, now' # 0
        PROVE  InstrInv'
    <2>1. TypeOK'
      BY <1>3 DEF InstrInv, EngineInv, TypeOK, Ids, tokenVars
    <2>2. EngineInv'
      BY <1>3, <2>1, FrameStep DEF InstrInv
    <2>3. Ids' = Ids /\ \A a \in Accounts : ActiveCommitment(a)' = ActiveCommitment(a)
      BY <1>3 DEF Ids, ActiveCommitment, Commitments, IdsOf
    <2>4. \A id \in Ids : Commitment(rules[id]) \in Nat
      BY CommitmentBounds DEF InstrInv, EngineInv, TypeOK
    <2>5. OurExecutor \in Executors
      BY InstructionsAssumption
    <2>6. \A a \in Accounts : balance[a] \in Nat /\ allowance[a][OurExecutor] \in Nat
                             /\ ActiveCommitment(a) \in Nat
      BY <2>5, OrdersAddUp DEF InstrInv, EngineInv, TypeOK
    <2>7. \A a \in Accounts : /\ balance[a] = balance'[a] + 0
                              /\ allowance[a][OurExecutor] = allowance'[a][OurExecutor] + 0
                              /\ ActiveCommitment(a)' + 0 <= ActiveCommitment(a)
      BY <1>3, <2>3, <2>6 DEF tokenVars
    <2>8. \A id \in Ids : /\ rules'[id].account = rules[id].account
                          /\ rules'[id].totalSpendCap = rules[id].totalSpendCap
                          /\ Commitment(rules'[id]) <= Commitment(rules[id])
      BY <1>3, <2>4
    <2> QED
      BY <1>1, <1>3, <2>2, <2>3, <2>7, <2>8, EngineMoves
  <1>4. ASSUME NEW v \in Vaults, NEW x \in BOOLEAN, SetVaultAllowed(v, x) PROVE InstrInv'
    BY <1>3, <1>4 DEF SetVaultAllowed, InstrInv, EngineInv, TypeOK, tokenVars
  <1>5. ASSUME Tick PROVE InstrInv'
    BY <1>3, <1>5 DEF Tick, InstrInv, EngineInv, TypeOK, tokenVars, registryVars
  <1> QED
    BY <1>2, <1>4, <1>5 DEF EngineNext

-----------------------------------------------------------------------------
(* A payment lands *)

LEMMA OneChanges ==
    ASSUME NEW R, NEW s \in Seq(R), NEW k \in 1..Len(s), NEW n \in R
    PROVE  /\ [s EXCEPT ![k] = n] \in Seq(R) /\ Len([s EXCEPT ![k] = n]) = Len(s)
           /\ [s EXCEPT ![k] = n][k] = n
           /\ \A j \in 1..Len(s) : j # k => [s EXCEPT ![k] = n][j] = s[j]
  OBVIOUS

\* The orders of account a are fewer than they will be, or closer to their end;
\* the account's nonce is used up, and with it every page and payment that has it.
LEMMA LandingMoves ==
    ASSUME InstrInv, EngineInv', now' # 0, UNCHANGED <<client, page>>,
           NEW k \in 1..Len(payments), NEW a \in Accounts, payments[k].account = a,
           payments[k].nonce = opNonce[a],
           payments' = [payments EXCEPT ![k].landed = TRUE],
           opNonce' = [opNonce EXCEPT ![a] = @ + 1],
           Ids \subseteq Ids',
           \A id \in Ids' \ Ids : rules'[id].account = a,
           \A id \in Ids : /\ rules'[id].account = rules[id].account
                           /\ rules'[id].totalSpendCap = rules[id].totalSpendCap
                           /\ Commitment(rules'[id]) <= Commitment(rules[id])
                           /\ (rules[id].account # a => rules'[id] = rules[id]),
           \A b \in Accounts : b # a => (balance'[b] = balance[b] /\ allowance'[b] = allowance[b]),
           allowance'[a][OurExecutor] = payments[k].approve,
           client = "cli" => ActiveCommitment(a)' <= payments[k].approve,
           payments[k].approve <= SumFunctionOnSet(Caps, IdsOf(a))'
    PROVE  InstrInv'
  <1>1. /\ EngineInv /\ opNonce \in [Accounts -> Nat] /\ page \in [Accounts -> Page]
        /\ payments \in Seq(PaymentRecord)
        /\ \A b \in Accounts : PageOK(b, page[b])
        /\ \A j \in 1..Len(payments) : PaymentOK(payments[j])
        /\ \A id \in Ids : rules[id] \in Rule /\ rules'[id] \in Rule
    BY DEF InstrInv, EngineInv, TypeOK
  <1>2. \A id \in Ids : Commitment(rules'[id]) \in Nat /\ Commitment(rules[id]) \in Nat
    BY <1>1, CommitmentBounds
  <1>3. Reading \subseteq Reading' /\ Page \subseteq Page' /\ PaymentRecord \subseteq PaymentRecord'
    <2>1. Reading \subseteq Reading'
      BY DEF Reading
    <2>2. Page \subseteq Page'
      BY <2>1 DEF Page
    <2>3. PaymentRecord \subseteq PaymentRecord'
      BY DEF PaymentRecord
    <2> QED
      BY <2>1, <2>2, <2>3
  <1>4. \A b \in Accounts : /\ IdsOf(b) \subseteq IdsOf(b)'
                            /\ (b # a => IdsOf(b)' = IdsOf(b))
    BY DEF IdsOf
  <1>5. \A b \in Accounts : opNonce'[b] \in Nat /\ opNonce[b] <= opNonce'[b]
                           /\ (b # a => opNonce'[b] = opNonce[b])
    BY <1>1
  <1>6. ASSUME NEW b \in Accounts, b # a
        PROVE  /\ ActiveCommitment(b)' = ActiveCommitment(b)
               /\ SumFunctionOnSet(Caps, IdsOf(b))' = SumFunctionOnSet(Caps, IdsOf(b))
               /\ \A S \in SUBSET IdsOf(b) : SumFunctionOnSet(Commitments', S)
                                              = SumFunctionOnSet(Commitments, S)
    <2>1. IsFiniteSet(IdsOf(b)) /\ IdsOf(b) \subseteq Ids /\ IdsOf(b)' = IdsOf(b)
      BY <1>1, <1>4, <1>6, IdsOfAreFinite
    <2>2. \A id \in IdsOf(b) : /\ Commitments[id] \in Nat /\ Caps[id] \in Nat
                               /\ Commitments'[id] = Commitments[id] /\ Caps'[id] = Caps[id]
      <3>1. \A id \in IdsOf(b) : id \in Ids' /\ rules'[id] = rules[id]
        BY <1>6, <2>1 DEF IdsOf
      <3> QED
        BY <1>1, <2>1, <3>1, OrdersAddUp DEF Commitments, Caps
    <2>3. \A S \in SUBSET IdsOf(b) : SumFunctionOnSet(Commitments', S)
                                      = SumFunctionOnSet(Commitments, S)
      BY <2>1, <2>2, FS_Subset, SumSame
    <2>4. SumFunctionOnSet(Caps', IdsOf(b)) = SumFunctionOnSet(Caps, IdsOf(b))
      BY <2>1, <2>2, SumSame
    <2> QED
      BY <2>1, <2>3, <2>4 DEF ActiveCommitment
  <1>7. /\ SumFunctionOnSet(Caps, IdsOf(a)) <= SumFunctionOnSet(Caps, IdsOf(a))'
        /\ SumFunctionOnSet(Caps, IdsOf(a)) \in Nat /\ SumFunctionOnSet(Caps, IdsOf(a))' \in Nat
    <2>1. IsFiniteSet(IdsOf(a)') /\ IdsOf(a) \in SUBSET (IdsOf(a)')
      BY <1>4, SumsStayOK DEF SumsOK
    <2>2. /\ \A id \in IdsOf(a)' : Caps'[id] \in Nat
          /\ SumFunctionOnSet(Caps, IdsOf(a))' \in Nat
      BY SumsStayOK DEF SumsOK
    <2>3. \A id \in IdsOf(a) : Caps[id] \in Nat /\ Caps[id] <= Caps'[id]
      <3>1. IdsOf(a) \subseteq Ids
        BY DEF IdsOf
      <3>2. \A id \in IdsOf(a) : Caps[id] \in Nat /\ Caps[id] = Caps'[id]
        BY <1>1, <3>1, OrdersAddUp DEF Caps
      <3> QED
        BY <3>2
    <2>4. SumFunctionOnSet(Caps, IdsOf(a)) <= SumFunctionOnSet(Caps', IdsOf(a)')
      BY <2>1, <2>2, <2>3, SumWithin
    <2> QED
      BY <1>1, <2>2, <2>4, OrdersAddUp
  <1>8. ASSUME NEW read \in Reading, NEW b \in Accounts, ReadingOK(b, read)
        PROVE  \A id \in DOMAIN read : /\ id \in IdsOf(b)'
                                       /\ Commitment(rules'[id]) <= read[id]
                                       /\ read[id] <= rules'[id].totalSpendCap
    <2> SUFFICES ASSUME NEW id \in DOMAIN read
                 PROVE  /\ id \in IdsOf(b)'
                        /\ Commitment(rules'[id]) <= read[id]
                        /\ read[id] <= rules'[id].totalSpendCap
      OBVIOUS
    <2>1. /\ id \in IdsOf(b) /\ id \in Ids /\ Commitment(rules[id]) <= read[id]
          /\ read[id] <= rules[id].totalSpendCap /\ read[id] \in Nat
      BY <1>8 DEF ReadingOK, Reading, IdsOf
    <2> QED
      BY <1>2, <1>4, <2>1
  <1>9. (\A b \in Accounts : PageOK(b, page[b]))'
    <2> SUFFICES ASSUME NEW b \in Accounts PROVE PageOK(b, page[b])'
      OBVIOUS
    <2> DEFINE pg == page[b]
    <2>1. pg \in Page /\ PageOK(b, pg) /\ opNonce[b] \in Nat
      BY <1>1
    <2>2. ReadingOK(b, pg.draft)' /\ ReadingOK(b, pg.seen)'
      BY <1>8, <2>1, PageFields DEF ReadingOK, PageOK
    <2>3. pg.nonce # None => pg.nonce <= opNonce'[b]
      BY <1>5, <2>1, PageFields DEF PageOK
    <2>4. ASSUME client = "cli", pg.nonce = opNonce'[b] PROVE ScriptCurrent(b, pg)'
      <3>1. pg.nonce # None
        BY <1>5, <2>4, InstructionsAssumption
      <3>2. b # a
        <4>1. pg.nonce <= opNonce[b]
          BY <2>1, <3>1 DEF PageOK
        <4>2. opNonce'[a] = opNonce[a] + 1
          BY <1>1
        <4> QED
          BY <2>1, <2>4, <4>1, <4>2
      <3>3. ScriptCurrent(b, pg)
        BY <1>5, <2>1, <2>4, <3>2 DEF PageOK
      <3>4. SumSeen(pg.seen, None)' = SumSeen(pg.seen, None)
        BY DEF SumSeen
      <3> QED
        BY <1>4, <1>6, <3>2, <3>3, <3>4 DEF ScriptCurrent
    <2> QED
      BY <1>4, <2>1, <2>2, <2>3, <2>4 DEF PageOK
  <1>10. ASSUME NEW n \in PaymentRecord, PaymentOK(n), NEW b \in Accounts, n.account = b
         PROVE  /\ PaymentOK(n)'
                /\ b = a => PaymentOK([n EXCEPT !.landed = TRUE])'
    <2> DEFINE own == OwnCap(n)
               caps == SumFunctionOnSet(Caps, IdsOf(b))
    <2>1. n.approve \in Nat /\ n.nonce \in Nat /\ opNonce[b] \in Nat /\ opNonce'[a] = opNonce[a] + 1
      BY <1>1 DEF PaymentRecord
    <2>2. own \in Nat
      BY <1>10, EngineAssumption DEF OwnCap, PaymentOK, CreateRuleParams
    <2>3. caps \in Nat /\ caps' \in Nat /\ caps <= caps'
      BY <1>1, <1>6, <1>7, OrdersAddUp
    <2>4. n.approve <= own + caps'
      <3>1. n.approve <= own + caps
        BY <1>10 DEF PaymentOK
      <3> HIDE DEF own, caps
      <3> QED
        BY <2>1, <2>2, <2>3, <3>1
    <2>5. n.nonce <= opNonce[b] /\ (n.landed => n.nonce < opNonce[b])
      BY <1>10 DEF PaymentOK
    <2>6. n.nonce <= opNonce'[b] /\ (n.landed => n.nonce < opNonce'[b])
          /\ (b = a => n.nonce < opNonce'[b])
      BY <1>5, <2>1, <2>5
    <2>7. ASSUME client = "cli", ~n.landed, n.nonce = opNonce'[b] PROVE ScriptPaid(n)'
      <3>1. b # a
        BY <2>1, <2>6, <2>7
      <3>2. ScriptPaid(n)
        BY <1>5, <1>10, <2>7, <3>1 DEF PaymentOK
      <3>3. IdsOf(b) \ {n.target} \in SUBSET IdsOf(b)
        OBVIOUS
      <3> QED
        BY <1>4, <1>6, <1>10, <3>1, <3>2, <3>3 DEF ScriptPaid, OwnCap
    <2>8. IF n.kind = "create" THEN n.params \in ParamChoices /\ n.target = None
          ELSE n.target \in IdsOf(b)' /\ ~n.whole
      BY <1>4, <1>10 DEF PaymentOK
    <2>9. PaymentOK(n)'
      BY <1>10, <2>4, <2>6, <2>7, <2>8 DEF PaymentOK, OwnCap
    <2>10. ASSUME b = a PROVE PaymentOK([n EXCEPT !.landed = TRUE])'
      <3> DEFINE l == [n EXCEPT !.landed = TRUE]
      <3>1. /\ l.kind = n.kind /\ l.params = n.params /\ l.target = n.target /\ l.whole = n.whole
            /\ l.account = n.account /\ l.nonce = n.nonce /\ l.approve = n.approve /\ l.landed
        BY DEF PaymentRecord
      <3> HIDE DEF l
      <3>2. PaymentOK(l)'
        BY <1>10, <2>4, <2>6, <2>8, <2>10, <3>1 DEF PaymentOK, OwnCap
      <3> QED
        BY <3>2 DEF l
    <2> QED
      BY <2>9, <2>10
  <1>11. /\ payments' \in Seq(PaymentRecord')
         /\ (\A j \in 1..Len(payments) : PaymentOK(payments[j]))'
    <2>0. payments[k] \in PaymentRecord /\ [payments[k] EXCEPT !.landed = TRUE] \in PaymentRecord
      <3>1. \A n \in PaymentRecord : [n EXCEPT !.landed = TRUE] \in PaymentRecord
        BY DEF PaymentRecord
      <3> QED
        BY <1>1, <3>1
    <2>1. /\ payments' \in Seq(PaymentRecord) /\ Len(payments') = Len(payments)
          /\ payments'[k] = [payments[k] EXCEPT !.landed = TRUE]
          /\ \A j \in 1..Len(payments) : j # k => payments'[j] = payments[j]
      <3> DEFINE n == [payments[k] EXCEPT !.landed = TRUE]
      <3>1. payments \in Seq(PaymentRecord) /\ payments' = [payments EXCEPT ![k] = n]
            /\ n \in PaymentRecord
        BY <1>1, <2>0
      <3> HIDE DEF n
      <3>2. /\ payments' \in Seq(PaymentRecord) /\ Len(payments') = Len(payments)
            /\ payments'[k] = n
            /\ \A j \in 1..Len(payments) : j # k => payments'[j] = payments[j]
        <4>1. payments' \in Seq(PaymentRecord)
          <5>1. \A R : \A s \in Seq(R) : \A i \in 1..Len(s) : \A x \in R :
                   [s EXCEPT ![i] = x] \in Seq(R)
            BY OneChanges
          <5>2. \A s \in Seq(PaymentRecord) : \A i \in 1..Len(s) : \A x \in PaymentRecord :
                   [s EXCEPT ![i] = x] \in Seq(PaymentRecord)
            BY <5>1
          <5>3. [payments EXCEPT ![k] = n] \in Seq(PaymentRecord)
            BY <3>1, <5>2
          <5> QED
            BY <3>1, <5>3
        <4>2. Len(payments') = Len(payments)
          BY <3>1, OneChanges
        <4>3. payments'[k] = n
          BY <3>1, OneChanges
        <4>4. \A j \in 1..Len(payments) : j # k => payments'[j] = payments[j]
          BY <3>1, OneChanges
        <4> QED
          BY <4>1, <4>2, <4>3, <4>4
      <3> QED
        BY <3>2 DEF n
    <2>2. ASSUME NEW j \in 1..Len(payments)
          PROVE  PaymentOK(payments[j])'
      <3>1. payments[j] \in PaymentRecord /\ PaymentOK(payments[j])
        BY <1>1
      <3>2. payments[j].account \in Accounts
        BY <3>1 DEF PaymentRecord
      <3>3. /\ \A n \in PaymentRecord : n.account \in Accounts /\ PaymentOK(n) => PaymentOK(n)'
            /\ \A n \in PaymentRecord : n.account = a /\ PaymentOK(n) =>
                                          PaymentOK([n EXCEPT !.landed = TRUE])'
        BY <1>10
      <3>4. CASE j = k
        <4>1. \A n \in PaymentRecord : n = payments[j] => PaymentOK([n EXCEPT !.landed = TRUE])'
          BY <3>1, <3>3, <3>4
        <4> QED
          BY <2>1, <3>1, <3>4, <4>1
      <3>5. CASE j # k
        <4>1. \A n \in PaymentRecord : n = payments[j] => PaymentOK(n)'
          BY <3>1, <3>2, <3>3
        <4> QED
          BY <2>1, <3>1, <3>5, <4>1
      <3> QED
        BY <3>4, <3>5
    <2>3. payments' \in Seq(PaymentRecord')
      BY <1>3, <2>1
    <2> QED
      BY <2>1, <2>2, <2>3
  <1>12. ScriptsStarveNone'
    <2>1. client = "cli" => \A b \in Accounts : allowance'[b][OurExecutor] >= ActiveCommitment(b)'
      BY <1>6 DEF InstrInv, ScriptsStarveNone, AllowanceCoversCommitment
    <2> QED
      BY <2>1 DEF ScriptsStarveNone, AllowanceCoversCommitment
  <1>13. AuthorityBounded'
    <2>1. \A b \in Accounts : allowance'[b][OurExecutor] <= SumFunctionOnSet(Caps, IdsOf(b))'
      BY <1>6 DEF InstrInv, AuthorityBounded
    <2> QED
      BY <2>1 DEF AuthorityBounded
  <1>14. client' \in Clients /\ opNonce' \in [Accounts -> Nat] /\ page' \in [Accounts -> Page']
    BY <1>1, <1>3 DEF InstrInv
  <1> QED
    BY <1>9, <1>11, <1>12, <1>13, <1>14 DEF InstrInv

LEMMA LandingStep ==
    ASSUME InstrInv, NEW k \in 1..Len(payments), Land(k),
           NEW m \in PaymentRecord, m = payments[k], NEW a \in Accounts, m.account = a
    PROVE  InstrInv'
  <1>1. /\ m \in PaymentRecord /\ PaymentOK(m) /\ EngineInv /\ opNonce \in [Accounts -> Nat]
        /\ payments \in Seq(PaymentRecord) /\ now # 0
        /\ AuthorityBounded /\ ScriptsStarveNone
    BY DEF InstrInv
  <1>2. a \in Accounts /\ m.mint \in Nat /\ m.approve \in Nat /\ OurExecutor \in Executors
    BY <1>1, InstructionsAssumption DEF PaymentRecord
  <1>3. /\ ~m.landed /\ m.nonce = opNonce[a]
        /\ opNonce' = [opNonce EXCEPT ![a] = @ + 1]
        /\ payments' = [payments EXCEPT ![k].landed = TRUE]
        /\ balance' = [balance EXCEPT ![a] = @ + m.mint]
        /\ allowance' = [allowance EXCEPT ![a][OurExecutor] = m.approve]
        /\ UNCHANGED <<vaultAllowed, executor, paused, batch, position, now, client, page>>
    BY DEF Land, NonceMatches, DoApprove
  <1>4. TokenOK'
    <2>1. balance \in [Accounts -> Nat] /\ allowance \in [Accounts -> [Executors -> Nat]]
          /\ position \in [Accounts -> [Vaults -> Nat]]
      BY <1>1 DEF EngineInv, TypeOK
    <2>2. balance' \in [Accounts -> Nat]
      BY <1>2, <1>3, <2>1
    <2>3. allowance' \in [Accounts -> [Executors -> Nat]]
      BY <1>2, <1>3, <2>1
    <2> QED
      BY <1>3, <2>1, <2>2, <2>3 DEF TokenOK
  <1>5. client = "cli" => ScriptPaid(m)
    BY <1>1, <1>3 DEF PaymentOK
  <1>6. m.approve <= OwnCap(m) + SumFunctionOnSet(Caps, IdsOf(a))
    BY <1>1 DEF PaymentOK
  <1>7. /\ \A b \in Accounts : b # a => (balance'[b] = balance[b] /\ allowance'[b] = allowance[b])
        /\ allowance'[a][OurExecutor] = m.approve
    BY <1>1, <1>2, <1>3 DEF EngineInv, TypeOK
  <1>8. /\ IsFiniteSet(IdsOf(a)) /\ IdsOf(a) \subseteq Ids
        /\ \A id \in IdsOf(a) : Commitments[id] \in Nat /\ Caps[id] \in Nat
        /\ SumFunctionOnSet(Caps, IdsOf(a)) \in Nat
        /\ SumFunctionOnSet(Commitments, IdsOf(a)) \in Nat
    BY <1>1, <1>2, SumsAreOK DEF SumsOK, ActiveCommitment
  <1>9. \A id \in Ids : rules[id] \in Rule /\ Commitment(rules[id]) \in Nat
    BY <1>1, CommitmentBounds DEF EngineInv, TypeOK
  <1>9a. /\ payments[k].account = a /\ payments[k].nonce = opNonce[a]
        /\ payments' = [payments EXCEPT ![k].landed = TRUE]
        /\ opNonce' = [opNonce EXCEPT ![a] = @ + 1]
        /\ allowance'[a][OurExecutor] = payments[k].approve
        /\ client' = client /\ page' = page /\ now' # 0
    BY <1>1, <1>3, <1>7
  <1>10. CASE CreateLands(m)
    <2> DEFINE new == <<a, nonces[a]>>
               p == m.params
               r == NewRule(a, p, now)
    <2>1. m.kind = "create" /\ DoCreateRule(a, p)
      BY <1>10 DEF CreateLands
    <2>2. p \in ParamChoices /\ p \in CreateRuleParams /\ m.target = None
      BY <1>1, <2>1, EngineAssumption DEF PaymentOK
    <2>3. EngineInv' /\ new \notin Ids
      BY <1>1, <1>2, <1>3, <1>4, <2>1, <2>2, CreateWrites
    <2>4. /\ Ids' = Ids \cup {new} /\ rules'[new] = r
          /\ \A id \in Ids : rules'[id] = rules[id]
      BY <2>1, <2>3 DEF DoCreateRule, Ids
    <2>5. r.account = a /\ r.totalSpendCap = p.totalSpendCap /\ Commitment(r) = p.totalSpendCap
          /\ p.totalSpendCap \in Nat
      BY <2>2 DEF NewRule, Commitment, CreateRuleParams
    <2>6. IdsOf(a)' = IdsOf(a) \cup {new} /\ new \notin IdsOf(a)
      BY <2>3, <2>4, <2>5 DEF IdsOf
    <2>7. OwnCap(m) = p.totalSpendCap
      BY <2>1 DEF OwnCap
    <2>8. /\ Commitments'[new] = p.totalSpendCap /\ Caps'[new] = p.totalSpendCap
          /\ \A id \in IdsOf(a) : Commitments'[id] = Commitments[id] /\ Caps'[id] = Caps[id]
      BY <1>8, <2>4, <2>5 DEF Commitments, Caps
    <2> HIDE DEF new, p, r
    <2>9. /\ SumFunctionOnSet(Commitments', IdsOf(a)) = SumFunctionOnSet(Commitments, IdsOf(a))
          /\ SumFunctionOnSet(Caps', IdsOf(a)) = SumFunctionOnSet(Caps, IdsOf(a))
      BY <1>8, <2>8, SumSame
    <2>10. \A id \in IdsOf(a) \cup {new} : Commitments'[id] \in Nat /\ Caps'[id] \in Nat
      BY <1>8, <2>5, <2>8
    <2>11. /\ SumFunctionOnSet(Commitments', IdsOf(a) \cup {new})
                = SumFunctionOnSet(Commitments, IdsOf(a)) + p.totalSpendCap
           /\ SumFunctionOnSet(Caps', IdsOf(a) \cup {new})
                = SumFunctionOnSet(Caps, IdsOf(a)) + p.totalSpendCap
      <3>1. /\ SumFunctionOnSet(Commitments', IdsOf(a) \cup {new})
                 = SumFunctionOnSet(Commitments', IdsOf(a)) + Commitments'[new]
            /\ SumFunctionOnSet(Caps', IdsOf(a) \cup {new})
                 = SumFunctionOnSet(Caps', IdsOf(a)) + Caps'[new]
        BY <1>8, <2>6, <2>10, SumWith
      <3> QED
        BY <2>8, <2>9, <3>1
    <2>12. ActiveCommitment(a)' = SumFunctionOnSet(Commitments', IdsOf(a)')
           /\ SumFunctionOnSet(Caps, IdsOf(a))' = SumFunctionOnSet(Caps', IdsOf(a)')
      BY <1>3 DEF ActiveCommitment
    <2>13. client = "cli" => ActiveCommitment(a)' <= m.approve
      <3>1. IdsOf(a) \ {m.target} = IdsOf(a)
        BY <1>1, <1>8, <2>2, InstructionsAssumption DEF EngineInv, TypeOK
      <3>2. client = "cli" => p.totalSpendCap + SumFunctionOnSet(Commitments, IdsOf(a)) <= m.approve
        BY <1>5, <2>7, <3>1 DEF ScriptPaid
      <3> QED
        BY <1>2, <1>8, <2>5, <2>6, <2>11, <2>12, <3>2
    <2>14. m.approve <= SumFunctionOnSet(Caps, IdsOf(a))'
      BY <1>2, <1>6, <1>8, <2>5, <2>6, <2>7, <2>11, <2>12
    <2>15. /\ \A id \in Ids' \ Ids : rules'[id].account = a
           /\ \A id \in Ids : /\ rules'[id].account = rules[id].account
                              /\ rules'[id].totalSpendCap = rules[id].totalSpendCap
                              /\ Commitment(rules'[id]) <= Commitment(rules[id])
                              /\ (rules[id].account # a => rules'[id] = rules[id])
      BY <1>9, <2>4, <2>5
    <2>16. /\ Ids \subseteq Ids'
           /\ client = "cli" => ActiveCommitment(a)' <= payments[k].approve
           /\ payments[k].approve <= SumFunctionOnSet(Caps, IdsOf(a))'
      BY <2>4, <2>13, <2>14
    <2> QED
      BY <1>7, <1>9a, <2>3, <2>15, <2>16, LandingMoves
  <1>11. CASE CancelLands(m)
    <2> DEFINE c == m.target
               r == [rules[c] EXCEPT !.active = FALSE]
    <2>1. /\ m.kind = "cancel" /\ c \in Ids /\ rules[c].account = a /\ DoCancelRule(a, c)
          /\ rules' = [rules EXCEPT ![c] = r] /\ UNCHANGED <<nonces, allRuleIds>>
      BY <1>11 DEF CancelLands, DoCancelRule
    <2>2. EngineInv'
      BY <1>1, <1>3, <1>4, <2>1, CancelWrites
    <2>3. /\ r.account = a /\ r.totalSpendCap = rules[c].totalSpendCap /\ Commitment(r) = 0
      BY <1>9, <2>1 DEF Commitment, Rule
    <2>4. /\ Ids' = Ids /\ rules'[c] = r
          /\ \A id \in Ids : id # c => rules'[id] = rules[id]
      BY <1>1, <2>1 DEF EngineInv, TypeOK, Ids
    <2> HIDE DEF r
    <2>5. c \in IdsOf(a)
      BY <2>1 DEF IdsOf
    <2>6. IdsOf(a)' = IdsOf(a)
      BY <2>1, <2>3, <2>4 DEF IdsOf
    <2>7. OwnCap(m) = 0
      BY <2>1 DEF OwnCap
    <2>8. /\ Commitments'[c] = 0
          /\ \A id \in IdsOf(a) : Caps'[id] = Caps[id]
          /\ \A id \in IdsOf(a) \ {c} : Commitments'[id] = Commitments[id]
      BY <1>8, <2>1, <2>3, <2>4 DEF Commitments, Caps
    <2> HIDE DEF c
    <2>9. SumFunctionOnSet(Caps', IdsOf(a)) = SumFunctionOnSet(Caps, IdsOf(a))
      BY <1>8, <2>8, SumSame
    <2>10. /\ IsFiniteSet(IdsOf(a) \ {c})
           /\ SumFunctionOnSet(Commitments', IdsOf(a) \ {c}) = SumFunctionOnSet(Commitments, IdsOf(a) \ {c})
           /\ SumFunctionOnSet(Commitments, IdsOf(a) \ {c}) \in Nat
      <3>1. IsFiniteSet(IdsOf(a) \ {c})
        BY <1>8, FS_Subset
      <3>2. \A id \in IdsOf(a) \ {c} : Commitments[id] \in Nat /\ Commitments'[id] = Commitments[id]
        BY <1>8, <2>8
      <3>3. SumFunctionOnSet(Commitments', IdsOf(a) \ {c}) = SumFunctionOnSet(Commitments, IdsOf(a) \ {c})
        BY <3>1, <3>2, SumSame
      <3>4. SumFunctionOnSet(Commitments, IdsOf(a) \ {c}) \in Nat
        BY <3>1, <3>2, SumType
      <3> QED
        BY <3>1, <3>3, <3>4
    <2>11. SumFunctionOnSet(Commitments', IdsOf(a)) = SumFunctionOnSet(Commitments, IdsOf(a) \ {c})
      <3>1. \A id \in IdsOf(a) : Commitments'[id] \in Nat
        BY <1>8, <2>8
      <3>2. SumFunctionOnSet(Commitments', IdsOf(a))
              = Commitments'[c] + SumFunctionOnSet(Commitments', IdsOf(a) \ {c})
        BY <1>8, <2>5, <3>1, SumWithout
      <3> QED
        BY <2>8, <2>10, <3>2
    <2>12. ActiveCommitment(a)' = SumFunctionOnSet(Commitments', IdsOf(a))
           /\ SumFunctionOnSet(Caps, IdsOf(a))' = SumFunctionOnSet(Caps', IdsOf(a))
      BY <2>6 DEF ActiveCommitment
    <2>13. client = "cli" => ActiveCommitment(a)' <= m.approve
      <3>1. client = "cli" => 0 + SumFunctionOnSet(Commitments, IdsOf(a) \ {c}) <= m.approve
        BY <1>5, <2>7 DEF ScriptPaid, c
      <3> QED
        BY <2>10, <2>11, <2>12, <3>1
    <2>14. m.approve <= SumFunctionOnSet(Caps, IdsOf(a))'
      BY <1>2, <1>6, <1>8, <2>7, <2>9, <2>12
    <2>15. ASSUME NEW id \in Ids
           PROVE  /\ rules'[id].account = rules[id].account
                  /\ rules'[id].totalSpendCap = rules[id].totalSpendCap
                  /\ Commitment(rules'[id]) <= Commitment(rules[id])
                  /\ (rules[id].account # a => rules'[id] = rules[id])
      BY <1>9, <2>1, <2>3, <2>4 DEF c
    <2>16. /\ Ids \subseteq Ids' /\ \A id \in Ids' \ Ids : rules'[id].account = a
           /\ client = "cli" => ActiveCommitment(a)' <= payments[k].approve
           /\ payments[k].approve <= SumFunctionOnSet(Caps, IdsOf(a))'
      BY <2>4, <2>13, <2>14
    <2> QED
      BY <1>7, <1>9a, <2>2, <2>15, <2>16, LandingMoves
  <1> QED
    BY <1>10, <1>11 DEF Land

LEMMA LandStep ==
    ASSUME InstrInv, NEW k \in 1..Len(payments), Land(k)
    PROVE  InstrInv'
  <1>1. payments[k] \in PaymentRecord
    BY DEF InstrInv
  <1>2. payments[k].account \in Accounts
    BY <1>1 DEF PaymentRecord
  <1> QED
    BY <1>1, <1>2, LandingStep

-----------------------------------------------------------------------------
(* The invariant, and what follows from it *)

LEMMA ClientStep ==
    ASSUME InstrInv, ClientNext
    PROVE  InstrInv'
  <1>1. ASSUME NEW a \in Accounts, NEW p \in ParamChoices
        PROVE  Shortfall(page[a], p) \in Nat
    <2>1. page[a] \in Page /\ p \in CreateRuleParams
      BY EngineAssumption DEF InstrInv
    <2>2. page[a].held \in Nat /\ p.totalSpendCap \in Nat
      BY <2>1, PageFields DEF CreateRuleParams
    <2> QED
      BY <2>2 DEF Shortfall
  <1>2. FixedMints \subseteq Nat
    BY InstructionsAssumption
  <1>3. CASE \E a \in Accounts : \/ ReadNonce(a) \/ ReadHeld(a) \/ ReadIds(a) \/ ReadFails(a)
                                 \/ PayCancel(a)
    BY <1>3, ReadNonceStep, ReadHeldStep, ReadIdsStep, ReadFailsStep, PayCancelStep
  <1>4. CASE \E a \in Accounts : \E id \in IdsOf(a) : ChooseTarget(a, id) \/ ReadRule(a, id)
    BY <1>4, ChooseTargetStep, ReadRuleStep
  <1>5. CASE \E a \in Accounts, p \in ParamChoices :
                \/ PayCreate(a, p, Shortfall(page[a], p))
                \/ client = "cli" /\ \E mint \in FixedMints : PayCreate(a, p, mint)
    <2>1. PICK a \in Accounts, p \in ParamChoices :
                \/ PayCreate(a, p, Shortfall(page[a], p))
                \/ \E mint \in FixedMints : PayCreate(a, p, mint)
      BY <1>5
    <2>2. \E mint \in Nat : PayCreate(a, p, mint)
      BY <1>1, <1>2, <2>1
    <2> QED
      BY <2>2, PayCreateStep
  <1> QED
    BY <1>3, <1>4, <1>5 DEF ClientNext

LEMMA InstrInitInv == InstrInit => InstrInv
  <1> SUFFICES ASSUME InstrInit PROVE InstrInv
    OBVIOUS
  <1>1. EngineInv /\ now # 0
    BY InstructionsAssumption
    DEF InstrInit, Fresh, EngineInv, TypeOK, IdsAreSpent, Ids, RuleId, Entry
  <1>2. /\ client \in Clients
        /\ opNonce \in [Accounts -> Nat]
        /\ payments = <<>> /\ payments \in Seq(PaymentRecord)
        /\ \A k \in 1..Len(payments) : PaymentOK(payments[k])
    BY DEF InstrInit
  <1>3. page \in [Accounts -> Page] /\ \A a \in Accounts : PageOK(a, page[a])
    BY <1>2, NothingReadOK DEF InstrInit
  <1>4. \A a \in Accounts : IdsOf(a) = {} /\ allowance[a][OurExecutor] = 0
    BY InstructionsAssumption DEF InstrInit, Fresh, IdsOf, Ids
  <1>5. /\ SumFunctionOnSet(Caps, {}) = 0
        /\ SumFunctionOnSet(Commitments, {}) = 0
    BY FS_EmptySet, SumType
  <1>6. ScriptsStarveNone /\ AuthorityBounded
    <2>1. \A a \in Accounts : ActiveCommitment(a) = 0 /\ SumFunctionOnSet(Caps, IdsOf(a)) = 0
      BY <1>4, <1>5 DEF ActiveCommitment
    <2>2. 0 >= 0 /\ 0 <= 0
      OBVIOUS
    <2> QED
      BY <1>4, <2>1, <2>2 DEF ScriptsStarveNone, AllowanceCoversCommitment, AuthorityBounded
  <1> QED
    BY <1>1, <1>2, <1>3, <1>6 DEF InstrInv

LEMMA InstrStepInv == InstrInv /\ [InstrNext]_allVars => InstrInv'
  <1> SUFFICES ASSUME InstrInv, [InstrNext]_allVars PROVE InstrInv'
    OBVIOUS
  <1>1. CASE ClientNext
    BY <1>1, ClientStep
  <1>2. CASE \E k \in 1..Len(payments) : Land(k)
    BY <1>2, LandStep
  <1>3. CASE EngineNext
    BY <1>3, EngineStep
  <1>4. CASE UNCHANGED allVars
    <2>1. UNCHANGED <<vars, client, opNonce>> /\ page' = page /\ payments' = payments
      BY <1>4 DEF allVars, instrVars
    <2> QED
      BY <2>1, ClientMoves DEF InstrInv
  <1> QED
    BY <1>1, <1>2, <1>3, <1>4 DEF InstrNext

\* The inductive invariant of memo.ts, createRule.ts, cancelRule.ts and the page
\* against the account: the nonce read first vouches for everything read after it.
THEOREM InstrInvariant == InstrSpec => []InstrInv
  BY InstrInitInv, InstrStepInv, PTL DEF InstrSpec

\* What a client has read, chosen and paid for is of the orders of its own account.
THEOREM InstructionsAreTyped == InstrSpec => []InstrTypeOK
  <1>1. InstrInv => InstrTypeOK
    <2> SUFFICES ASSUME InstrInv PROVE InstrTypeOK
      OBVIOUS
    <2>1. \A k \in 1..Len(payments) : payments[k] \in PaymentRecord
      BY DEF InstrInv
    <2>2. ASSUME NEW a \in Accounts
          PROVE  /\ page[a].stage \in {"idle", "held", "rules", "reading", "ready"}
                 /\ page[a].nonce \in Nat \cup {None}
                 /\ page[a].held \in Nat
                 /\ page[a].target \in IdsOf(a) \cup {None}
                 /\ page[a].left \cup DOMAIN page[a].seen \cup DOMAIN page[a].draft \subseteq IdsOf(a)
      <3>1. page[a] \in Page /\ PageOK(a, page[a])
        BY DEF InstrInv
      <3> QED
        BY <3>1, PageFields DEF PageOK, ReadingOK
    <2> QED
      BY <2>1, <2>2 DEF InstrTypeOK, InstrInv
  <1> QED
    BY <1>1, InstrInvariant, PTL

\* memo.ts: each instruction of the scripts sets the one allowance of the account
\* to a sum computed from old reads, and still covers what the live orders can draw.
THEOREM ScriptsNeverStarve == InstrSpec => []ScriptsStarveNone
  <1>1. InstrInv => ScriptsStarveNone
    BY DEF InstrInv
  <1> QED
    BY <1>1, InstrInvariant, PTL

\* memo.ts, of the page as of the scripts: however stale the snapshot an approval
\* was computed from, it is never above the caps of the orders that were placed.
THEOREM AuthorityIsSignedFor == InstrSpec => []AuthorityBounded
  <1>1. InstrInv => AuthorityBounded
    BY DEF InstrInv
  <1> QED
    BY <1>1, InstrInvariant, PTL

\* finishRule.ts:118-121: the allowance in an instruction that is rebuilt under the
\* nonce of a payment left over is never above the one that was paid for.
THEOREM RebuildingAsksNoMore == InstrSpec => []RebuiltAsksNoMore
  <1>1. InstrInv => RebuiltAsksNoMore
    <2> SUFFICES ASSUME InstrInv, NEW k \in 1..Len(payments), CanRebuild(k)
                 PROVE  Rebuilt(k) <= payments[k].approve
      BY DEF RebuiltAsksNoMore
    <2> DEFINE m == payments[k]
    <2>1. m \in PaymentRecord /\ PaymentOK(m) /\ EngineInv
      BY DEF InstrInv
    <2>2. m.account \in Accounts
      BY <2>1 DEF PaymentRecord
    <2>3. ScriptPaid(m) /\ m.kind = "create" /\ m.target = None
      BY <2>1 DEF CanRebuild, NonceMatches, PaymentOK
    <2>4. IdsOf(m.account) \subseteq RuleId
      BY <2>1 DEF IdsOf, EngineInv, TypeOK
    <2>5. IdsOf(m.account) \ {None} = IdsOf(m.account)
      BY <2>4, InstructionsAssumption
    <2> QED
      BY <2>3, <2>5 DEF ScriptPaid, OwnCap, Rebuilt, ActiveCommitment
  <1> QED
    BY <1>1, InstrInvariant, PTL

\* Only a payment that lands becomes landed.
LEMMA LandedByLanding ==
    ASSUME InstrInv, [InstrNext]_allVars, NEW k \in 1..Len(payments),
           ~payments[k].landed, payments'[k].landed
    PROVE  Land(k) /\ \A j \in 1..Len(payments) : j # k => payments'[j] = payments[j]
  <1>1. payments \in Seq(PaymentRecord) /\ payments[k] \in PaymentRecord
    BY DEF InstrInv
  <1>2. ASSUME NEW m, payments' = Append(payments, m) PROVE FALSE
    BY <1>1, <1>2
  <1>3. payments' # payments
    OBVIOUS
  <1>4. PICK j \in 1..Len(payments) : Land(j)
    BY <1>2, <1>3
    DEF InstrNext, ClientNext, EngineNext, allVars, instrVars, ReadNonce, ReadHeld, ReadIds,
        ReadRule, ReadFails, ChooseTarget, PayCreate, PayCancel, Paid
  <1>5. payments' = [payments EXCEPT ![j].landed = TRUE]
    BY <1>4 DEF Land
  <1>6. \A i \in 1..Len(payments) : i # j => payments'[i] = payments[i]
    BY <1>1, <1>5
  <1> QED
    BY <1>4, <1>6

\* memo.ts and MasterAccountController: of the instructions built from a nonce of
\* an account at most one takes effect, and one of a script only on the very orders
\* its builder had read.
THEOREM NothingLandsBlindly == InstrSpec => NoBlindLanding
  <1> DEFINE Sighted(k) == LET m == payments[k]
                           IN  ~m.landed /\ payments'[k].landed =>
                                  /\ client = "cli" => m.known = IdsOf(m.account)
                                  /\ \A j \in 1..Len(payments) :
                                        j # k /\ payments[j].account = m.account
                                              /\ payments[j].nonce = m.nonce
                                          => ~payments'[j].landed
  <1>1. InstrInv /\ [InstrNext]_allVars => \A k \in 1..Len(payments) : Sighted(k)
    <2> SUFFICES ASSUME InstrInv, [InstrNext]_allVars, NEW k \in 1..Len(payments),
                        ~payments[k].landed, payments'[k].landed
                 PROVE  /\ client = "cli" => payments[k].known = IdsOf(payments[k].account)
                        /\ \A j \in 1..Len(payments) :
                              j # k /\ payments[j].account = payments[k].account
                                    /\ payments[j].nonce = payments[k].nonce
                                => ~payments'[j].landed
      OBVIOUS
    <2>1. /\ payments[k].nonce = opNonce[payments[k].account]
          /\ \A j \in 1..Len(payments) : j # k => payments'[j] = payments[j]
      BY LandedByLanding DEF Land, NonceMatches
    <2>2. client = "cli" => ScriptPaid(payments[k])
      BY <2>1 DEF InstrInv, PaymentOK
    <2>3. ASSUME NEW j \in 1..Len(payments)
          PROVE  /\ payments[j].nonce \in Nat /\ payments[j].account \in Accounts
                 /\ payments[j].landed => payments[j].nonce < opNonce[payments[j].account]
      <3>1. payments[j] \in PaymentRecord /\ PaymentOK(payments[j])
        BY DEF InstrInv
      <3>2. payments[j].nonce \in Nat /\ payments[j].account \in Accounts
        BY <3>1 DEF PaymentRecord
      <3> QED
        BY <3>1, <3>2 DEF PaymentOK
    <2>4. \A j \in 1..Len(payments) : opNonce[payments[j].account] \in Nat
      BY <2>3 DEF InstrInv
    <2> QED
      BY <2>1, <2>2, <2>3, <2>4 DEF ScriptPaid
  <1>2. InstrSpec => [][\A k \in 1..Len(payments) : Sighted(k)]_allVars
    BY <1>1, InstrInvariant, PTL DEF InstrSpec
  <1> QED
    BY <1>2 DEF NoBlindLanding

\* pay.ts:123-133: a create of the script that mints what was missing brings the
\* account up to its cap, but for what the orders it had read have drawn since.
THEOREM CreatesFundThemselves == InstrSpec => FundsItself
  <1> DEFINE Funded(k) == LET m == payments[k]
                              others == m.approve - m.params.totalSpendCap
                          IN  client = "cli" /\ m.whole /\ ~m.landed /\ payments'[k].landed
                              => balance'[m.account] + (others - ActiveCommitment(m.account))
                                    >= m.params.totalSpendCap
  <1>1. InstrInv /\ [InstrNext]_allVars => \A k \in 1..Len(payments) : Funded(k)
    <2> SUFFICES ASSUME InstrInv, [InstrNext]_allVars, NEW k \in 1..Len(payments),
                        client = "cli", payments[k].whole, ~payments[k].landed,
                        payments'[k].landed
                 PROVE  balance'[payments[k].account]
                          + ((payments[k].approve - payments[k].params.totalSpendCap)
                               - ActiveCommitment(payments[k].account))
                          >= payments[k].params.totalSpendCap
      OBVIOUS
    <2> DEFINE m == payments[k]
               a == m.account
               cap == m.params.totalSpendCap
    <2>1. m.nonce = opNonce[a] /\ balance' = [balance EXCEPT ![a] = @ + m.mint]
      BY LandedByLanding DEF Land, NonceMatches
    <2>2. m \in PaymentRecord /\ PaymentOK(m) /\ EngineInv
      BY DEF InstrInv
    <2>3. a \in Accounts /\ m.mint \in Nat /\ m.approve \in Nat
      BY <2>2 DEF PaymentRecord
    <2>4. ScriptPaid(m) /\ m.kind = "create" /\ m.params \in ParamChoices
      BY <2>1, <2>2 DEF PaymentOK
    <2>5. cap \in Nat
      BY <2>4, EngineAssumption DEF CreateRuleParams
    <2>6. ActiveCommitment(a) \in Nat
      BY <2>2, <2>3, OrdersAddUp
    <2>7. balance[a] \in Nat /\ balance'[a] = balance[a] + m.mint
      BY <2>1, <2>2, <2>3 DEF EngineInv, TypeOK
    <2>8. cap + ActiveCommitment(a) <= m.mint + balance[a] + (m.approve - cap)
      BY <2>4 DEF ScriptPaid
    <2> HIDE DEF a, cap
    <2>9. balance'[a] + ((m.approve - cap) - ActiveCommitment(a)) >= cap
      <3> HIDE DEF m
      <3> QED
        BY <2>3, <2>5, <2>6, <2>7, <2>8
    <2> QED
      BY <2>9 DEF a, cap
  <1>2. InstrSpec => [][\A k \in 1..Len(payments) : Funded(k)]_allVars
    BY <1>1, InstrInvariant, PTL DEF InstrSpec
  <1> QED
    BY <1>2 DEF FundsItself

-----------------------------------------------------------------------------
(* What a payment has to carry (MintPrice) *)

LEMMA Quotient ==
    ASSUME NEW n \in Nat
    PROVE  /\ n \div Bips \in Nat
           /\ Bips * (n \div Bips) <= n
           /\ n < Bips * (n \div Bips) + Bips
    BY Z3 DEF Bips

LEMMA QuotientGrows ==
    ASSUME NEW m \in Nat, NEW n \in Nat, m <= n
    PROVE  m \div Bips <= n \div Bips
    BY Z3 DEF Bips

LEMMA ProductGrows ==
    ASSUME NEW a \in Nat, NEW b \in Nat, NEW c \in Nat, NEW d \in Nat, a <= b, c <= d
    PROVE  a * c \in Nat /\ b * d \in Nat /\ a * c <= b * d
    BY Z3

LEMMA FeeTypes ==
    ASSUME NEW net \in Nat, NEW f \in Fees
    PROVE  /\ net * f.feeBIPS \in Nat
           /\ Proportional(net, f) \in Nat
           /\ MintingFee(net, f) \in Nat
           /\ f.minimumFeeUBA <= MintingFee(net, f)
           /\ Proportional(net, f) <= MintingFee(net, f)
           /\ PaymentUBA(net, f) \in Nat
    <1>1. f.feeBIPS \in Nat /\ f.minimumFeeUBA \in Nat /\ f.executorFeeUBA \in Nat
        BY DEF Fees
    <1>2. net * f.feeBIPS \in Nat
        BY <1>1, ProductGrows
    <1>3. Proportional(net, f) \in Nat
        BY <1>2, Quotient DEF Proportional
    <1> QED BY <1>1, <1>2, <1>3 DEF MintingFee, PaymentUBA

\* The fee grows with the amount and with the schedule.
LEMMA FeeGrows ==
    ASSUME NEW m \in Nat, NEW n \in Nat, m <= n,
           NEW g \in Fees, NEW f \in Fees, NoDearer(g, f)
    PROVE  MintingFee(m, g) <= MintingFee(n, f)
    <1>1. /\ g.feeBIPS \in Nat /\ g.minimumFeeUBA \in Nat
          /\ f.feeBIPS \in Nat /\ f.minimumFeeUBA \in Nat
        BY DEF Fees
    <1>2. m * g.feeBIPS \in Nat /\ n * f.feeBIPS \in Nat /\ m * g.feeBIPS <= n * f.feeBIPS
        BY <1>1, ProductGrows DEF NoDearer
    <1>3. Proportional(m, g) <= Proportional(n, f)
        BY <1>2, QuotientGrows DEF Proportional
    <1>4. Proportional(m, g) \in Nat /\ Proportional(n, f) \in Nat
        BY FeeTypes
    <1> QED BY <1>1, <1>3, <1>4 DEF MintingFee, NoDearer

\* flare.ts:257-274, app.tsx:200-205: the parts the page shows add up to the amount
\* it asks for, and what is minted, with what the account holds, covers the cap.
THEOREM QuoteAddsUp ==
    ASSUME NEW f \in Fees, NEW cap \in Nat, NEW held \in Nat
    PROVE  LET q == CreateQuote(f, cap, held)
           IN  /\ q.amountUBA = q.netMintUBA + q.mintingFeeUBA + q.executorFeeUBA
               /\ held + q.netMintUBA >= cap
               /\ q.netMintUBA > 0 => held + q.netMintUBA = cap
    BY DEF CreateQuote, Quote, PaymentUBA, MintingFee

\* flare.ts:209-214: "A stale fee means the payment is short".  A quote from an old
\* schedule is still enough as long as no fee has risen since.
THEOREM OldQuoteSuffices ==
    ASSUME NEW net \in Nat, NEW f \in Fees, NEW g \in Fees, NoDearer(g, f)
    PROVE  Mints(Quote(f, net).amountUBA, net, g)
    <1>1. /\ MintingFee(net, g) \in Nat /\ MintingFee(net, f) \in Nat
          /\ MintingFee(net, g) <= MintingFee(net, f)
        BY FeeTypes, FeeGrows
    <1>2. g.executorFeeUBA \in Nat /\ f.executorFeeUBA \in Nat
        BY DEF Fees
    <1> QED BY <1>1, <1>2 DEF Mints, Quote, PaymentUBA, NoDearer

\* directMinting.ts:131-149: the payment computed for an amount cannot be passed off as
\* the payment for more, however the fee is rounded.
THEOREM PaymentIsExact ==
    ASSUME NEW net \in Nat, NEW f \in Fees, NEW n \in Nat,
           Mints(PaymentUBA(net, f), n, f)
    PROVE  n <= net
    <1> SUFFICES ASSUME n > net PROVE FALSE
        OBVIOUS
    <1>1. NoDearer(f, f)
        BY DEF NoDearer, Fees
    <1>2. /\ MintingFee(net, f) \in Nat /\ MintingFee(n, f) \in Nat
          /\ MintingFee(net, f) <= MintingFee(n, f)
        BY <1>1, FeeTypes, FeeGrows
    <1>3. f.executorFeeUBA \in Nat
        BY DEF Fees
    <1> QED BY <1>2, <1>3 DEF Mints, PaymentUBA

\* app.tsx:207-208, cancelRule.ts:134-135: stopping an order costs the minimum fee and
\* the executor's, whatever the proportional fee, in the page and in the script.
THEOREM CancelCostsFeesOnly ==
    ASSUME NEW f \in Fees
    PROVE  /\ CancelQuote(f).amountUBA = f.minimumFeeUBA + f.executorFeeUBA
           /\ ScriptPayment(0, f) = CancelQuote(f).amountUBA
    <1>1. f.feeBIPS \in Nat /\ f.minimumFeeUBA \in Nat /\ f.executorFeeUBA \in Nat
        BY DEF Fees
    <1>2. Proportional(0, f) = 0
        <2>1. 0 * f.feeBIPS = 0
            BY <1>1
        <2> QED BY <2>1, Z3 DEF Proportional, Bips
    <1>3. PaymentUBA(0, f) = f.minimumFeeUBA + f.executorFeeUBA
        BY <1>1, <1>2 DEF PaymentUBA, MintingFee
    <1> QED BY <1>3 DEF CancelQuote, Quote, ScriptPayment

-----------------------------------------------------------------------------
(* When a mint may be tried again (MintLimits) *)

LEMMA Division ==
    ASSUME NEW n \in Nat, NEW d \in Positive
    PROVE  /\ n \div d \in Nat
           /\ (n \div d) * d <= n
           /\ n < (n \div d) * d + d
    BY Z3 DEF Positive

LEMMA Products ==
    ASSUME NEW a \in Nat, NEW b \in Nat, NEW c \in Nat
    PROVE  /\ a * b \in Nat /\ a * b = b * a
           /\ (a * b) * c = a * (b * c)
           /\ (a + b) * c = a * c + b * c
           /\ a <= b => a * c <= b * c
           /\ c > 0 /\ a * c <= b * c => a <= b
           /\ c > 0 /\ a * c < b * c => a < b
    BY Z3

\* Dividing twice loses no more than once.
LEMMA DivisionTwice ==
    ASSUME NEW n \in Nat, NEW size \in Positive, NEW limit \in Positive
    PROVE  LET e == ((size * n) \div limit) \div size
           IN  e \in Nat /\ e * limit <= n /\ n < e * limit + limit
    <1> DEFINE q == (size * n) \div limit
               e == q \div size
    <1>1. size \in Nat /\ size > 0 /\ limit \in Nat /\ limit > 0 /\ size * n \in Nat
        BY Products DEF Positive
    <1>2. q \in Nat /\ q * limit <= size * n /\ size * n < q * limit + limit
        <2>1. limit \in Positive
            OBVIOUS
        <2> QED BY <1>1, <2>1, Division
    <1> HIDE DEF q
    <1>3. e \in Nat /\ e * size \in Nat /\ e * size <= q /\ q < e * size + size
        <2>1. e \in Nat /\ e * size <= q /\ q < e * size + size
            BY <1>2, Division
        <2> HIDE DEF e
        <2> QED BY <1>1, <2>1, Products
    <1> HIDE DEF e
    <1>4. e * limit <= n
        <2>1. (e * size) * limit <= q * limit
            BY <1>1, <1>2, <1>3, Products
        <2>2. (e * size) * limit = (e * limit) * size
            BY <1>1, <1>3, Products
        <2>3. (e * limit) * size <= n * size
            BY <1>1, <1>2, <1>3, <2>1, <2>2, Products
        <2> QED BY <1>1, <1>3, <2>3, Products
    <1>5. n < e * limit + limit
        <2>1. (q + 1) * limit = q * limit + limit
            BY <1>1, <1>2, Products
        <2>2. (e + 1) * size = e * size + size
            BY <1>1, <1>3, Products
        <2>3. (q + 1) * limit <= ((e + 1) * size) * limit
            <3>1. q + 1 <= (e + 1) * size /\ (e + 1) * size \in Nat
                BY <1>1, <1>2, <1>3, <2>2
            <3> QED BY <1>1, <1>2, <3>1, Products
        <2>4. ((e + 1) * size) * limit = ((e + 1) * limit) * size
            BY <1>1, <1>3, Products
        <2>5. n * size < ((e + 1) * limit) * size
            <3> DEFINE x == (q + 1) * limit
                       y == ((e + 1) * size) * limit
                       z == ((e + 1) * limit) * size
            <3>1. n * size = size * n
                BY <1>1, Products
            <3>2. (e + 1) * size \in Nat
                BY <1>1, <1>3, Products
            <3>3. x \in Nat /\ y \in Nat
                BY <1>1, <1>2, <3>2, Products
            <3>4. size * n < x /\ x <= y /\ y = z
                BY <1>2, <2>1, <2>3, <2>4
            <3> HIDE DEF x, y, z
            <3>5. size * n < z
                BY <1>1, <3>3, <3>4
            <3> QED BY <3>1, <3>5 DEF z
        <2>6. (e + 1) * limit = e * limit + limit /\ (e + 1) * limit \in Nat
            BY <1>1, <1>3, Products
        <2>7. n < (e + 1) * limit
            BY <1>1, <2>5, <2>6, Products
        <2> QED BY <2>6, <2>7
    <1> QED BY <1>3, <1>4, <1>5 DEF e, q

LEMMA LeftBounds ==
    ASSUME NEW n \in Nat, NEW a \in Nat
    PROVE  Left(n, a) \in Nat /\ Left(n, a) <= n
    BY DEF Left

LEMMA LeftFalls ==
    ASSUME NEW n \in Nat, NEW a \in Nat, NEW b \in Nat, a <= b
    PROVE  Left(n, a) \in Nat /\ Left(n, b) \in Nat /\ Left(n, b) <= Left(n, a)
    BY DEF Left

\* What WindowState is made of.
LEMMA ElapsedBounds ==
    ASSUME NEW w \in Window, NEW size \in Positive, NEW t \in Nat, w.start <= t
    PROVE  LET e == Elapsed(w, t, size)
           IN  /\ e \in Nat /\ e * size \in Nat
               /\ w.start + e * size <= t
               /\ t < w.start + e * size + size
    <1>1. t - w.start \in Nat /\ w.start \in Nat /\ size \in Nat
        BY DEF Window, Positive
    <1>2. Elapsed(w, t, size) \in Nat
        BY <1>1, Division DEF Elapsed
    <1>3. Elapsed(w, t, size) * size \in Nat
        BY <1>1, <1>2, Products
    <1>4. Elapsed(w, t, size) * size <= t - w.start
          /\ t - w.start < Elapsed(w, t, size) * size + size
        BY <1>1, Division DEF Elapsed
    <1> QED BY <1>1, <1>2, <1>3, <1>4

\* There is only one number of windows.
LEMMA ElapsedUnique ==
    ASSUME NEW size \in Positive, NEW n \in Nat, NEW a \in Nat, NEW b \in Nat,
           a * size <= n, n < a * size + size, b * size <= n, n < b * size + size
    PROVE  a = b
    <1>1. size \in Nat /\ size > 0 /\ a * size \in Nat /\ b * size \in Nat
        BY Products DEF Positive
    <1>2. (a + 1) * size = a * size + size /\ (b + 1) * size = b * size + size
        BY <1>1, Products
    <1>3. a * size < (b + 1) * size /\ b * size < (a + 1) * size
        BY <1>1, <1>2
    <1>4. a < b + 1 /\ b < a + 1
        BY <1>1, <1>3, Products
    <1> QED BY <1>4

LEMMA LeftAdds ==
    ASSUME NEW n \in Nat, NEW a \in Nat, NEW b \in Nat
    PROVE  Left(Left(n, a), b) = Left(n, a + b)
    BY DEF Left

\* mintLimits.ts:78-98: after the slide the time is inside the window, and the
\* window is the same whether it is slid at once or in steps: how often the
\* state was written in between does not change the answer.
THEOREM SlideComposes ==
    ASSUME NEW w \in Window, NEW size \in Positive, NEW limit \in Positive,
           NEW t \in Nat, NEW u \in Nat, w.start <= t, t <= u
    PROVE  LET v == WindowState(w, t, limit, size)
           IN  /\ v \in Window /\ v.start <= t /\ t < v.start + size
               /\ WindowState(v, u, limit, size) = WindowState(w, u, limit, size)
    <1> DEFINE v == WindowState(w, t, limit, size)
               d == Elapsed(w, t, size)
               f == Elapsed(w, u, size)
    <1>1. /\ w.start \in Nat /\ w.start > 0 /\ w.used \in Nat
          /\ size \in Nat /\ size > 0 /\ limit \in Nat
        BY DEF Window, Positive
    <1>2. CASE t < w.start + size
        BY <1>1, <1>2 DEF WindowState
    <1>3. CASE t >= w.start + size
        <2>1. /\ d \in Nat /\ d * size \in Nat
              /\ w.start + d * size <= t /\ t < w.start + d * size + size
            BY ElapsedBounds
        <2>2. /\ f \in Nat /\ f * size \in Nat
              /\ w.start + f * size <= u /\ u < w.start + f * size + size
            BY <1>1, ElapsedBounds
        <2>3. d * limit \in Nat /\ f * limit \in Nat
            BY <1>1, <2>1, <2>2, Products
        <2>4. v = [start |-> w.start + d * size, used |-> Left(w.used, d * limit)]
            BY <1>3 DEF WindowState
        <2>5. WindowState(w, u, limit, size)
                = [start |-> w.start + f * size, used |-> Left(w.used, f * limit)]
            BY <1>1, <1>3 DEF WindowState
        <2> HIDE DEF d, f
        <2>6. Left(w.used, d * limit) \in Nat
            BY <1>1, <2>3, LeftBounds
        <2>7. v \in Window
            BY <1>1, <2>1, <2>4, <2>6 DEF Window, Positive
        <2>8. v.start = w.start + d * size /\ v.used = Left(w.used, d * limit)
            BY <2>4
        <2>9. v.start <= t /\ t < v.start + size
            BY <2>1, <2>8
        <2> HIDE DEF v
        <2>10. ASSUME u < v.start + size
               PROVE  WindowState(v, u, limit, size) = WindowState(w, u, limit, size)
            <3>1. d * size <= u - w.start /\ u - w.start < d * size + size
                BY <1>1, <2>1, <2>8, <2>10
            <3>2. f * size <= u - w.start /\ u - w.start < f * size + size
                BY <1>1, <2>2
            <3>3. d = f
                BY <1>1, <2>1, <2>2, <3>1, <3>2, ElapsedUnique
            <3>4. WindowState(v, u, limit, size) = v
                BY <1>1, <2>1, <2>8, <2>10 DEF WindowState
            <3> QED BY <2>4, <2>5, <3>3, <3>4
        <2>11. ASSUME u >= v.start + size
               PROVE  WindowState(v, u, limit, size) = WindowState(w, u, limit, size)
            <3> DEFINE g == Elapsed(v, u, size)
            <3>1. /\ g \in Nat /\ g * size \in Nat
                  /\ v.start + g * size <= u /\ u < v.start + g * size + size
                BY <1>1, <2>1, <2>7, <2>8, <2>9, ElapsedBounds
            <3>2. WindowState(v, u, limit, size)
                    = [start |-> v.start + g * size, used |-> Left(v.used, g * limit)]
                BY <2>11 DEF WindowState
            <3> HIDE DEF g
            <3>3. (d + g) * size = d * size + g * size /\ (d + g) * limit = d * limit + g * limit
                BY <1>1, <2>1, <3>1, Products
            <3>4. d + g = f
                <4>1. /\ (d + g) * size <= u - w.start
                      /\ u - w.start < (d + g) * size + size
                    BY <1>1, <2>1, <2>8, <3>1, <3>3
                <4>2. f * size <= u - w.start /\ u - w.start < f * size + size
                    BY <1>1, <2>2
                <4> QED BY <1>1, <2>1, <2>2, <3>1, <4>1, <4>2, ElapsedUnique
            <3>5. v.start + g * size = w.start + f * size
                BY <1>1, <2>1, <2>8, <3>1, <3>3, <3>4
            <3>6. g * limit \in Nat
                BY <1>1, <3>1, Products
            <3>7. Left(v.used, g * limit) = Left(w.used, f * limit)
                <4>1. Left(Left(w.used, d * limit), g * limit)
                        = Left(w.used, d * limit + g * limit)
                    <5> DEFINE a == d * limit
                               b == g * limit
                    <5>1. a \in Nat /\ b \in Nat /\ w.used \in Nat
                        BY <1>1, <2>3, <3>6
                    <5> HIDE DEF a, b
                    <5>2. Left(Left(w.used, a), b) = Left(w.used, a + b)
                        BY <5>1, LeftAdds
                    <5> QED BY <5>2 DEF a, b
                <4> QED BY <2>8, <3>3, <3>4, <4>1
            <3> QED BY <2>5, <3>2, <3>5, <3>7
        <2>12. v.start \in Nat
            BY <1>1, <2>1, <2>8
        <2>13. WindowState(v, u, limit, size) = WindowState(w, u, limit, size)
            BY <1>1, <2>10, <2>11, <2>12
        <2> QED BY <2>7, <2>9, <2>13 DEF v
    <1> QED BY <1>1, <1>2, <1>3

\* mintLimits.ts:13-16, 100-113: "the failure mode is latency, not rejection".  From
\* the time the script names, which is not in the past, an amount within the
\* limit is within what remains, as long as nothing else is minted.
THEOREM RetryWillFit ==
    ASSUME NEW w \in Window, NEW size \in Positive, NEW limit \in Positive,
           NEW t \in Nat, w.start <= t, t < w.start + size,
           NEW proposed \in 1..limit, NEW u \in Nat,
           WindowAllowedAt(w, t, proposed, limit, size) <= u
    PROVE  /\ t <= u
           /\ proposed <= Remaining(WindowState(w, u, limit, size), limit)
    <1> DEFINE n == w.used + proposed
               q == (size * n) \div limit
               e == q \div size
               f == Elapsed(w, u, size)
    <1>1. /\ w.start \in Nat /\ w.used \in Nat /\ size \in Nat /\ limit \in Nat
          /\ limit > 0 /\ size > 0 /\ proposed \in Nat /\ n \in Nat
        BY DEF Window, Positive
    <1>2. CASE n <= limit
        <2>1. t <= u
            BY <1>1, <1>2 DEF WindowAllowedAt
        <2>2. f \in Nat /\ f * limit \in Nat
            BY <1>1, <2>1, ElapsedBounds, Products
        <2>3. /\ WindowState(w, u, limit, size).used <= w.used
              /\ WindowState(w, u, limit, size).used \in Nat
            <3>1. Left(w.used, f * limit) \in Nat /\ Left(w.used, f * limit) <= w.used
                BY <1>1, <2>2, LeftBounds
            <3>2. WindowState(w, u, limit, size).used \in {w.used, Left(w.used, f * limit)}
                BY DEF WindowState
            <3> HIDE DEF f
            <3> QED BY <1>1, <3>1, <3>2
        <2> QED BY <1>1, <1>2, <2>1, <2>3 DEF Remaining
    <1>3. CASE n > limit
        <2>1. e \in Nat /\ e * limit <= n /\ n < e * limit + limit
            BY <1>1, DivisionTwice
        <2>2. q \in Nat /\ e * size <= q
            BY <1>1, Products, Division
        <2>3. w.start + q <= u
            BY <1>1, <1>3 DEF WindowAllowedAt
        <2> HIDE DEF q, n
        <2> HIDE DEF e
        <2>4. e >= 1 /\ e * size \in Nat /\ size <= e * size
            <3>1. e * limit \in Nat /\ e * limit > 0
                BY <1>1, <1>3, <2>1, Products
            <3>2. e # 0
                BY <1>1, <3>1
            <3> QED BY <1>1, <2>1, <3>2, Products
        <2>5. t <= u /\ w.start + size <= u
            BY <1>1, <2>2, <2>3, <2>4
        <2>6. f \in Nat /\ f * size \in Nat /\ u < w.start + f * size + size
            BY <1>1, <2>5, ElapsedBounds
        <2> HIDE DEF f
        <2>7. e <= f
            <3>1. (f + 1) * size = f * size + size
                BY <1>1, <2>6, Products
            <3>2. e * size < (f + 1) * size
                BY <1>1, <2>2, <2>3, <2>4, <2>6, <3>1
            <3>3. e < f + 1
                BY <1>1, <2>1, <2>6, <3>2, Products
            <3> QED BY <2>1, <2>6, <3>3
        <2>8. e * limit \in Nat /\ f * limit \in Nat /\ e * limit <= f * limit
            BY <1>1, <2>1, <2>6, <2>7, Products
        <2>9. WindowState(w, u, limit, size).used = Left(w.used, f * limit)
            BY <2>5 DEF WindowState, f
        <2>10. /\ Left(w.used, f * limit) \in Nat
               /\ Left(w.used, f * limit) <= Left(w.used, e * limit)
            BY <1>1, <2>8, LeftFalls
        <2>11. Left(w.used, e * limit) + proposed <= limit
            BY <1>1, <2>1, <2>8 DEF Left, n
        <2>12. Left(w.used, e * limit) \in Nat
            BY <1>1, <2>8, LeftBounds
        <2> QED BY <1>1, <2>5, <2>9, <2>10, <2>11, <2>12 DEF Remaining
    <1> QED BY <1>1, <1>2, <1>3

\* What overflows waits for the end of the window at least.
LEMMA WholeWindow ==
    ASSUME NEW size \in Positive, NEW limit \in Positive, NEW n \in Nat, limit <= n
    PROVE  size <= (size * n) \div limit
    <1> DEFINE q == (size * n) \div limit
    <1>1. size \in Nat /\ limit \in Nat /\ limit > 0 /\ size * n \in Nat
        BY Products DEF Positive
    <1>2. q \in Nat /\ size * n < q * limit + limit
        BY <1>1, Division
    <1> HIDE DEF q
    <1>3. (q + 1) * limit = q * limit + limit
        BY <1>1, <1>2, Products
    <1>4. limit * size <= n * size /\ limit * size = size * limit /\ n * size = size * n
        BY <1>1, Products
    <1>5. size * limit \in Nat /\ (q + 1) * limit \in Nat
        BY <1>1, <1>2, Products
    <1>6. size * limit < (q + 1) * limit
        BY <1>1, <1>2, <1>3, <1>4, <1>5
    <1>7. size < q + 1
        BY <1>1, <1>2, <1>6, Products
    <1> QED BY <1>1, <1>2, <1>7 DEF q

\* A window of the present lets an amount through at once just when it is within
\* what remains.
LEMMA AllowedAtOnce ==
    ASSUME NEW w \in Window, NEW size \in Positive, NEW limit \in Positive,
           NEW t \in Nat, w.start <= t, t < w.start + size, NEW proposed \in Positive
    PROVE  LET at == WindowAllowedAt(w, t, proposed, limit, size)
           IN  /\ at \in Nat /\ Remaining(w, limit) \in Nat
               /\ t <= at
               /\ at = t <=> proposed <= Remaining(w, limit)
    <1> DEFINE n == w.used + proposed
               q == (size * n) \div limit
    <1>1. /\ w.start \in Nat /\ w.used \in Nat /\ size \in Nat /\ limit \in Nat
          /\ limit > 0 /\ proposed \in Nat /\ proposed > 0 /\ n \in Nat
        BY DEF Window, Positive
    <1>2. CASE n <= limit
        BY <1>1, <1>2 DEF WindowAllowedAt, Remaining
    <1>3. CASE n > limit
        <2>1. q \in Nat
            BY <1>1, Products, Division
        <2>2. size <= q
            BY <1>1, <1>3, WholeWindow
        <2>3. WindowAllowedAt(w, t, proposed, limit, size) = w.start + q
            BY <1>1, <1>3 DEF WindowAllowedAt
        <2> HIDE DEF q
        <2>4. ~(proposed <= Remaining(w, limit)) /\ Remaining(w, limit) \in Nat
            BY <1>1, <1>3 DEF Remaining
        <2> QED BY <1>1, <2>1, <2>2, <2>3, <2>4
    <1> QED BY <1>1, <1>2, <1>3

\* mintLimits.ts:181-191: the script's "largest mint with NO delay right now" is
\* one: its pre-flight lets every amount up to it through at once, and, unless
\* the limiters are lifted, no larger one.
THEOREM HeadroomIsExact ==
    ASSUME NEW hourly \in Limiter, NEW daily \in Limiter,
           NEW threshold \in Nat, NEW delay \in Positive, NEW t \in Nat,
           hourly.window.start <= t, daily.window.start <= t,
           NEW proposed \in Positive, NEW lifted \in BOOLEAN
    PROVE  LET at   == AllowedAt(hourly, daily, threshold, delay, t, proposed, lifted)
               room == Headroom(hourly, daily, threshold, t, lifted)
           IN  /\ proposed <= room => at = t
               /\ ~lifted /\ at = t => proposed <= room
    <1>1. proposed \in Nat /\ delay \in Nat /\ delay > 0
        BY DEF Positive
    <1>2. CASE lifted
        <2>1. hourly.limit \in Nat /\ daily.limit \in Nat
            BY DEF Limiter, Positive
        <2> QED BY <1>1, <1>2, <2>1
                DEF AllowedAt, Headroom, AllowedBy, Free, Greater, Lesser
    <1>3. CASE ~lifted
        <2> DEFINE ah == AllowedBy(hourly, t, proposed, lifted)
                   ad == AllowedBy(daily, t, proposed, lifted)
                   fh == Free(hourly, t, lifted)
                   fd == Free(daily, t, lifted)
        <2>1. ASSUME NEW l \in Limiter, l.window.start <= t
              PROVE  /\ AllowedBy(l, t, proposed, lifted) \in Nat
                     /\ Free(l, t, lifted) \in Nat
                     /\ t <= AllowedBy(l, t, proposed, lifted)
                     /\ AllowedBy(l, t, proposed, lifted) = t
                          <=> proposed <= Free(l, t, lifted)
            <3>1. l.window \in Window /\ l.limit \in Positive /\ l.size \in Positive
                BY DEF Limiter
            <3>2. Slid(l, t) \in Window /\ Slid(l, t).start <= t /\ t < Slid(l, t).start + l.size
                BY <2>1, <3>1, SlideComposes DEF Slid
            <3>3. /\ AllowedBy(l, t, proposed, lifted)
                        = WindowAllowedAt(Slid(l, t), t, proposed, l.limit, l.size)
                  /\ Free(l, t, lifted) = Remaining(Slid(l, t), l.limit)
                BY <1>3 DEF AllowedBy, Free
            <3> QED BY <3>1, <3>2, <3>3, AllowedAtOnce
        <2>2. ah \in Nat /\ t <= ah /\ (ah = t <=> proposed <= fh) /\ fh \in Nat
            BY <2>1
        <2>3. ad \in Nat /\ t <= ad /\ (ad = t <=> proposed <= fd) /\ fd \in Nat
            BY <2>1
        <2>4. AllowedAt(hourly, daily, threshold, delay, t, proposed, lifted)
                = Greater(ah, Greater(ad, IF proposed > threshold THEN t + delay ELSE t))
            BY DEF AllowedAt
        <2>5. Headroom(hourly, daily, threshold, t, lifted) = Lesser(Lesser(fh, fd), threshold)
            BY DEF Headroom
        <2> HIDE DEF ah, ad, fh, fd
        <2> QED BY <1>1, <2>2, <2>3, <2>4, <2>5 DEF Greater, Lesser
    <1> QED BY <1>2, <1>3

-----------------------------------------------------------------------------
(* The windows of the history (History) *)

LEMMA Multiples ==
    ASSUME NEW j \in Nat, NEW k \in Nat, j < k, NEW d \in Nat \ {0}
    PROVE  j * d \in Nat /\ k * d \in Nat /\ j * d + d <= k * d
    BY Z3

LEMMA Times ==
    ASSUME NEW k \in Nat, NEW d \in Nat
    PROVE  k * d \in Nat /\ d * k = k * d
    BY Z3

LEMMA EarliestType ==
    ASSUME NEW l \in Look
    PROVE  /\ Span(l) \in Nat /\ Earliest(l) \in Nat /\ Earliest(l) <= l.head
           /\ \A k \in Nat : To(l, k) \in Int /\ From(l, k) \in Int /\ To(l, k) <= l.head
    <1>1. Span(l) \in Nat
        BY Times DEF Span, Look
    <1>2. ASSUME NEW k \in Nat PROVE k * l.span \in Nat
        BY Times DEF Look
    <1> QED BY <1>1, <1>2 DEF Earliest, To, From, Look

\* flare.ts:383-386: every request is one the RPC answers, neither empty nor wider
\* than it allows, also the last one of a short chain.
THEOREM WindowsFit ==
    ASSUME NEW l \in Look, NEW k \in Nat, Asked(l, k)
    PROVE  From(l, k) <= To(l, k) /\ To(l, k) - From(l, k) + 1 <= l.span /\ Earliest(l) <= From(l, k)
    BY EarliestType DEF Look, From, Asked

\* flare.ts:383-386: no block is looked at twice, so no execution is shown twice.
THEOREM WindowsAreDisjoint ==
    ASSUME NEW l \in Look, NEW j \in Nat, NEW k \in Nat, j < k, NEW b \in Int, Sees(l, j, b)
    PROVE  ~Sees(l, k, b)
    <1>1. /\ j * l.span \in Nat /\ k * l.span \in Nat
          /\ j * l.span + l.span <= k * l.span
        BY Multiples DEF Look
    <1>2. To(l, k) <= To(l, j) - l.span
        BY <1>1 DEF To, Look
    <1>3. To(l, j) - l.span + 1 <= From(l, j)
        BY EarliestType DEF From, Look
    <1> QED BY <1>2, <1>3, EarliestType DEF Sees, Look

\* flare.ts:383-386: every block after the earliest is looked at, up to the head.
THEOREM WindowsCover ==
    ASSUME NEW l \in Look, NEW b \in Nat, Earliest(l) < b, b <= l.head
    PROVE  \E k \in Nat : Sees(l, k, b)
    <1> DEFINE d == l.span
               k == (l.head - b) \div d
    <1>1. l.head \in Nat /\ d \in Nat \ {0} /\ l.head - b \in Nat
        BY DEF Look
    <1>2. k \in Nat /\ k * d <= l.head - b /\ l.head - b < k * d + d
        BY <1>1, Division DEF Positive
    <1>3. k * d \in Nat
        BY <1>1, <1>2, Times
    <1> HIDE DEF k
    <1>4. To(l, k) = l.head - k * d /\ To(l, k) \in Int
        BY <1>1, <1>3 DEF To
    <1>5. b <= To(l, k) /\ To(l, k) - d + 1 <= b
        BY <1>1, <1>2, <1>3, <1>4
    <1>6. Earliest(l) \in Nat
        BY EarliestType
    <1>7. From(l, k) <= b /\ To(l, k) > Earliest(l)
        BY <1>1, <1>4, <1>5, <1>6 DEF From
    <1> QED BY <1>2, <1>5, <1>7 DEF Sees, Asked

\* flare.ts:350 calls fromBlock "how far back we actually managed to look".  On a
\* chain longer than the windows it is one block further than that: the block
\* it names is in no window.
THEOREM EarliestIsNotSeen ==
    ASSUME NEW l \in Look, l.head > Span(l), NEW k \in Nat
    PROVE  ~Sees(l, k, Earliest(l))
    <1> SUFFICES ASSUME Sees(l, k, Earliest(l)) PROVE FALSE
        OBVIOUS
    <1> DEFINE d == l.span
    <1>1. /\ l.head \in Nat /\ d \in Nat \ {0} /\ l.windows \in Nat
          /\ k * d \in Nat /\ l.windows * d \in Nat /\ Span(l) = l.windows * d
        BY Times DEF Look, Span
    <1>2. Earliest(l) = l.head - l.windows * d /\ To(l, k) = l.head - k * d
        BY <1>1 DEF Earliest, To
    <1>3. To(l, k) - d + 1 <= Earliest(l) /\ To(l, k) > Earliest(l)
        BY <1>1, <1>2 DEF Sees, Asked, From
    <1>4. k * d < l.windows * d
        BY <1>1, <1>2, <1>3
    <1>5. k < l.windows
        <2> SUFFICES ASSUME l.windows <= k PROVE FALSE
            BY <1>1
        <2>1. l.windows = k \/ l.windows < k
            BY <1>1
        <2> QED BY <1>1, <1>4, <2>1, Multiples
    <1>6. k * d + d <= l.windows * d
        BY <1>1, <1>5, Multiples
    <1> QED BY <1>1, <1>2, <1>3, <1>6

-----------------------------------------------------------------------------
(* What a client computes from what it first reads (Figures) *)

LEMMA FirstIsIn ==
    ASSUME NEW I \in SUBSET Nat, I # {}, NEW otherwise
    PROVE  FirstOf(I, otherwise) \in I
  <1>1. \E i \in I : \A j \in I : i <= j
    BY LeastNumber
  <1> QED
    BY <1>1 DEF FirstOf

\* A list of vaults in which none occurs twice keeps that with the configured one.
LEMMA MergedList ==
    ASSUME NEW listed \in FlaresLists, NEW configured \in FlaresVaults \cup {None}
    PROVE  LET list == Merged(listed, configured)
           IN  /\ list \in Seq(FlaresVaults) /\ IsInjective(list)
               /\ configured \in Range(list) \cup {None}
  <1>1. PICK n \in 0..3 : listed \in [1..n -> FlaresVaults] /\ IsInjective(listed)
    BY DEF FlaresLists
  <1>2. listed \in Seq(FlaresVaults) /\ DOMAIN listed = 1..Len(listed) /\ Len(listed) = n
    BY <1>1
  <1>3. CASE configured = None \/ configured \in Range(listed)
    BY <1>1, <1>2, <1>3 DEF Merged
  <1>4. CASE ~(configured = None \/ configured \in Range(listed))
    <2> DEFINE list == <<configured>> \o listed
    <2>1. configured \in FlaresVaults /\ Merged(listed, configured) = list
      BY <1>4 DEF Merged
    <2>2. /\ list \in Seq(FlaresVaults) /\ DOMAIN list = 1..Len(listed) + 1
          /\ list[1] = configured
          /\ \A i \in 2..Len(listed) + 1 : list[i] = listed[i - 1]
      BY <1>2, <2>1
    <2> HIDE DEF list
    <2>3. \A i \in 1..Len(listed) : listed[i] # configured
      BY <1>2, <1>4 DEF Range
    <2>4. ASSUME NEW i \in DOMAIN list, NEW j \in DOMAIN list, list[i] = list[j]
          PROVE  i = j
      <3>1. CASE i = 1 /\ j = 1
        BY <3>1
      <3>2. CASE i # 1 /\ j # 1
        <4>1. /\ i - 1 \in DOMAIN listed /\ j - 1 \in DOMAIN listed
              /\ listed[i - 1] = listed[j - 1]
          BY <1>2, <2>2, <2>4, <3>2
        <4>2. i - 1 = j - 1
          BY <1>1, <4>1 DEF IsInjective
        <4> QED
          BY <1>2, <2>2, <4>2
      <3>3. CASE i = 1 /\ j # 1
        BY <1>2, <2>2, <2>3, <2>4, <3>3
      <3>4. CASE i # 1 /\ j = 1
        BY <1>2, <2>2, <2>3, <2>4, <3>4
      <3> QED
        BY <3>1, <3>2, <3>3, <3>4
    <2>5. configured \in Range(list)
      BY <1>2, <2>2 DEF Range
    <2> QED
      BY <2>1, <2>2, <2>4, <2>5 DEF IsInjective
  <1> QED
    BY <1>3, <1>4

\* app.tsx:109-112, flare.ts:87-98: the vault selected when the page opens is one
\* the registry takes, if any is known to be, and the configured one is listed.
THEOREM SelectsATakenVault == InstrSpec => []SelectedVaultIsTaken
  <1>1. SelectedVaultIsTaken
    <2> SUFFICES ASSUME NEW listed \in FlaresLists,
                        NEW configured \in FlaresVaults \cup {None},
                        NEW failed \in SUBSET FlaresVaults
                 PROVE  LET list == Merged(listed, configured)
                        IN  /\ IsInjective(list)
                            /\ configured \in Range(list) \cup {None}
                            /\ Range(list) \cap (vaultAllowed \ failed) # {}
                                 => list[Selected(list, failed)] \in vaultAllowed
      BY DEF SelectedVaultIsTaken
    <2> DEFINE list == Merged(listed, configured)
    <2>1. list \in Seq(FlaresVaults) /\ IsInjective(list) /\ configured \in Range(list) \cup {None}
      BY MergedList
    <2> HIDE DEF list
    <2>2. ASSUME Range(list) \cap (vaultAllowed \ failed) # {}
          PROVE  list[Selected(list, failed)] \in vaultAllowed
      <3> DEFINE I == {i \in DOMAIN list : Mark(list[i], failed) = "yes"}
      <3>1. I \in SUBSET Nat
        BY <2>1
      <3>2. \E i \in DOMAIN list : list[i] \in vaultAllowed /\ list[i] \notin failed
        BY <2>2 DEF Range
      <3>3. I # {}
        BY <3>2 DEF Mark
      <3>4. Selected(list, failed) \in I
        BY <3>1, <3>3, FirstIsIn DEF Selected
      <3> QED
        BY <3>4 DEF Mark
    <2> QED
      BY <2>1, <2>2 DEF list
  <1> QED
    BY <1>1, PTL

\* flare.ts:209-214, app.tsx:200-205: what the page asks for an order is enough while
\* no fee rises, and never enough to mint more.
THEOREM QuotesAreExact == InstrSpec => []QuotesSuffice
  <1>1. QuotesSuffice
    <2> SUFFICES ASSUME NEW f \in SomeFees, NEW p \in ParamChoices, NEW held \in 0..3
                 PROVE  LET q == CreateQuote(f, p.totalSpendCap * Drops, held * Drops)
                        IN  /\ q.amountUBA = q.netMintUBA + q.mintingFeeUBA + q.executorFeeUBA
                            /\ \A g \in SomeFees :
                                  NoDearer(g, f) => Mints(q.amountUBA, q.netMintUBA, g)
                            /\ \A more \in {1, Drops, Bips} :
                                  ~Mints(q.amountUBA, q.netMintUBA + more, f)
      BY DEF QuotesSuffice
    <2> DEFINE cap == p.totalSpendCap * Drops
               has == held * Drops
               q == CreateQuote(f, cap, has)
               net == IF cap > has THEN cap - has ELSE 0
    <2>1. SomeFees \subseteq Fees
      BY DEF SomeFees, Fees
    <2>2. cap \in Nat /\ has \in Nat
      BY EngineAssumption DEF CreateRuleParams, Drops
    <2> HIDE DEF cap, has
    <2>3. q.amountUBA = q.netMintUBA + q.mintingFeeUBA + q.executorFeeUBA
      BY <2>1, <2>2, QuoteAddsUp
    <2>4. net \in Nat /\ q = Quote(f, net)
      BY <2>2 DEF CreateQuote
    <2> HIDE DEF q, net
    <2>5. q.netMintUBA = net /\ q.amountUBA = PaymentUBA(net, f)
      BY <2>4 DEF Quote
    <2>6. ASSUME NEW g \in SomeFees, NoDearer(g, f) PROVE Mints(q.amountUBA, net, g)
      BY <2>1, <2>4, <2>6, OldQuoteSuffices
    <2>7. ASSUME NEW more \in {1, Drops, Bips}, Mints(q.amountUBA, net + more, f) PROVE FALSE
      <3>1. net + more \in Nat /\ net + more > net
        BY <2>4 DEF Drops, Bips
      <3>2. net + more <= net
        BY <2>1, <2>4, <2>5, <2>7, <3>1, PaymentIsExact
      <3> QED
        BY <2>4, <3>1, <3>2
    <2> QED
      BY <2>3, <2>5, <2>6, <2>7 DEF q, cap, has
  <1> QED
    BY <1>1, PTL

\* mintLimits.ts:100-113: a mint over the limit fits from the time on that the
\* script names for it.
THEOREM RetriesFit == InstrSpec => []RetryFits
  <1>1. now \in Nat => RetryFits
    <2> SUFFICES ASSUME now \in Nat, NEW t \in Moments, NEW size \in 1..3, NEW limit \in 1..3,
                        NEW used \in 0..7, NEW start \in {x \in (t - size + 1)..t : x > 0},
                        NEW proposed \in 1..limit
                 PROVE  LET w  == [start |-> start, used |-> used]
                            at == WindowAllowedAt(w, t, proposed, limit, size)
                        IN  /\ at >= t
                            /\ \A u \in at..(at + size) :
                                  proposed <= Remaining(WindowState(w, u, limit, size), limit)
      BY DEF RetryFits
    <2> DEFINE w == [start |-> start, used |-> used]
               at == WindowAllowedAt(w, t, proposed, limit, size)
    <2>1. t \in Nat /\ size \in Positive /\ limit \in Positive /\ used \in Nat /\ start \in Positive
      BY DEF Moments, Grain, Positive
    <2>2. w \in Window /\ w.start <= t /\ t < w.start + size
      BY <2>1 DEF Window
    <2>3. at \in Nat
      <3> DEFINE n == used + proposed
      <3>1. n \in Nat /\ size * n \in Nat
        BY <2>1, Products DEF Positive
      <3> HIDE DEF n
      <3>2. (size * n) \div limit \in Nat
        BY <2>1, <3>1, Division
      <3>3. w.start + (size * n) \div limit \in Nat
        BY <2>1, <3>2 DEF Positive
      <3> QED
        BY <2>1, <3>3 DEF WindowAllowedAt, n
    <2> HIDE DEF w, at
    <2>4. ASSUME NEW u \in Nat, at <= u
          PROVE  t <= u /\ proposed <= Remaining(WindowState(w, u, limit, size), limit)
      BY <2>1, <2>2, <2>4, RetryWillFit DEF at
    <2>5. at >= t
      BY <2>1, <2>3, <2>4
    <2>6. \A u \in at..(at + size) : u \in Nat /\ at <= u
      BY <2>3
    <2> QED
      BY <2>4, <2>5, <2>6 DEF w, at
  <1>2. InstrInv => now \in Nat
    BY DEF InstrInv, EngineInv, TypeOK
  <1> QED
    BY <1>1, <1>2, InstrInvariant, PTL

\* flare.ts:376-387: the windows of the history ask for every block once, and for no
\* more at a time than the RPC answers.
THEOREM WindowsPartitionTheChain == InstrSpec => []WindowsPartition
  <1>1. now \in Nat => WindowsPartition
    <2> SUFFICES ASSUME now \in Nat, NEW l \in [span: 1..3, head: Moments, windows: 0..4]
                 PROVE  LET asked == {k \in 0..l.head : Asked(l, k)}
                        IN  /\ \A k \in asked :
                                  From(l, k) >= 0 /\ To(l, k) - From(l, k) + 1 \in 1..l.span
                            /\ \A b \in Earliest(l) + 1..l.head :
                                  Cardinality({k \in asked : Sees(l, k, b)}) = 1
      BY DEF WindowsPartition
    <2> DEFINE asked == {k \in 0..l.head : Asked(l, k)}
    <2>1. l \in Look /\ l.head \in Nat /\ l.span \in Nat \ {0}
      BY DEF Look, Moments, Grain
    <2>2. ASSUME NEW k \in Nat, Asked(l, k)
          PROVE  From(l, k) >= 0 /\ To(l, k) - From(l, k) + 1 \in 1..l.span
      <3>1. /\ From(l, k) <= To(l, k) /\ To(l, k) - From(l, k) + 1 <= l.span
            /\ Earliest(l) <= From(l, k)
        BY <2>1, <2>2, WindowsFit
      <3>2. Earliest(l) \in Nat /\ To(l, k) \in Int /\ From(l, k) \in Int
        BY <2>1, EarliestType
      <3> QED
        BY <2>1, <3>1, <3>2
    <2>3. ASSUME NEW b \in Earliest(l) + 1..l.head
          PROVE  Cardinality({k \in asked : Sees(l, k, b)}) = 1
      <3>1. b \in Nat /\ Earliest(l) < b /\ b <= l.head
        BY <2>1, EarliestType
      <3>2. PICK k \in Nat : Sees(l, k, b)
        BY <2>1, <3>1, WindowsCover
      <3>3. k \in asked
        <4>1. k * l.span \in Nat /\ k <= k * l.span
          <5>1. k * 1 = k /\ 1 * k = k
            OBVIOUS
          <5>2. 1 * k <= l.span * k /\ l.span * k = k * l.span /\ k * l.span \in Nat
            BY <2>1, Products
          <5> QED
            BY <5>1, <5>2
        <4>2. Asked(l, k) /\ To(l, k) > Earliest(l) /\ Earliest(l) \in Nat
          BY <2>1, <3>2, EarliestType DEF Sees, Asked
        <4>3. k <= l.head
          BY <2>1, <4>1, <4>2 DEF To
        <4> QED
          BY <2>1, <4>2, <4>3
      <3>4. \A j \in asked : Sees(l, j, b) => j = k
        <4> SUFFICES ASSUME NEW j \in asked, Sees(l, j, b), j # k PROVE FALSE
          OBVIOUS
        <4>1. j \in Nat /\ (j < k \/ k < j)
          BY <2>1
        <4>2. b \in Int
          BY <3>1
        <4> QED
          BY <2>1, <3>2, <4>1, <4>2, WindowsAreDisjoint
      <3>5. {j \in asked : Sees(l, j, b)} = {k}
        BY <3>2, <3>3, <3>4
      <3> QED
        BY <3>5, FS_Singleton
    <2>4. asked \subseteq Nat /\ \A k \in asked : Asked(l, k)
      BY <2>1
    <2> QED
      BY <2>2, <2>3, <2>4
  <1>2. InstrInv => now \in Nat
    BY DEF InstrInv, EngineInv, TypeOK
  <1> QED
    BY <1>1, <1>2, InstrInvariant, PTL
=============================================================================
