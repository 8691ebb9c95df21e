------------------------------ MODULE Delivery ------------------------------
(***************************************************************************)
(* The web page (Page) and the operator (Operator) together.  The page     *)
(* hands instructions over by POST, the user pays on the XRPL, and the     *)
(* operator, which may die and come back in between, hears of the payment  *)
(* from the ledger.  A hash is the instruction it is the hash of; the      *)
(* account that the page shows moves when an instruction is executed.      *)
(*                                                                         *)
(* Client is Page with the operator's file for what the operator has, and  *)
(* the account's nonce for what the account has come to.                   *)
(***************************************************************************)
EXTENDS Operator

CONSTANTS
    Drafts, Orders, MaxChain, MaxPosts, MaxPresses,   \* those of Page
    PaymentOf   \* the payment a press of a wallet button makes

\* Each press makes a payment of its own.
ASSUME DeliveryAssumption ==
    /\ MaxChain \in Nat /\ MaxPresses \in Nat
    /\ PaymentOf \in [1..MaxPresses -> Payments]
    /\ \A i, j \in 1..MaxPresses : PaymentOf[i] = PaymentOf[j] => i = j

VARIABLES reading, draft, resolved, rules, stopping, due, posts, registered, button, sends

Client == INSTANCE Page WITH chain <- opNonce, held <- disk.stored, phase <- button

pageVars == <<reading, draft, resolved, rules, stopping, due, posts, registered, button, sends>>
bothVars == <<vars, pageVars>>

DeliveryInit == Init /\ Client!Init

-----------------------------------------------------------------------------
\* The user types, reads, stops and presses; the page and the wallet go on.
PageStep ==
    /\ UNCHANGED vars
    /\ \/ \E d \in Drafts \cup {None} : Client!Type(d)
       \/ \E id \in Orders : Client!Stop(id)
       \/ \E n \in 0..opNonce : Client!NonceArrives(n) \/ Client!RulesArrive(n)
       \/ Client!ResolveFails
       \/ Client!BalanceArrives
       \/ Client!RunEffects
       \/ \E i \in DOMAIN posts, ok \in BOOLEAN : Client!Answer(i, ok)
       \/ \E kind \in Client!Kinds : Client!Press(kind)
       \/ \E i \in DOMAIN sends : Client!Checked(i) \/ Client!NotSent(i) \/ Client!Sent(i)

\* A call of registerInstruction reaches the operator; while it is down the
\* page gets no answer or an error (Answer).
HandOver(i) ==
    Client!Reaches(i) /\ posts[i].instr \in Ours /\ Register(posts[i].instr)

\* The payment that the wallet was asked for is validated, perhaps before the
\* wallet has told the page.
PaymentLands(k) ==
    /\ sends[k].state \in {"sending", "paid"}
    /\ Pay(PaymentOf[k], sends[k].instr)
    /\ UNCHANGED pageVars

\* The operator by itself, and Flare.
OperatorStep ==
    /\ \/ Boot \/ Ready \/ Deliver \/ Crash \/ Elapse
       \/ \E p \in Payments : TaskStep(p) \/ Mine(p) \/ ByHand(p)
    /\ UNCHANGED pageVars

DeliveryNext ==
    \/ PageStep \/ OperatorStep
    \/ \E i \in DOMAIN posts : HandOver(i)
    \/ \E k \in DOMAIN sends : PaymentLands(k)

DeliverySpec == DeliveryInit /\ [][DeliveryNext]_bothVars

-----------------------------------------------------------------------------
(* Properties *)

\* A step of the page and the operator in which no write is torn.
Whole == DeliveryNext /\ (disk' = disk \/ Up')

\* Page takes the operator for something that has what it was handed and never
\* loses it.  The operator, with its file, its restarts and its completions, is
\* that, as long as no write is torn and nobody else hands instructions over:
\* every step of the two is a step of Page, or none, up to Page's bound.
ImplementsPage ==
    Client!Init /\ [][Whole /\ opNonce' <= MaxChain => Client!Next]_(Client!vars)

\* Presses whose payment goes out with nothing on the page to warn that the
\* operator may not know of it (a create pressed while an order is being stopped
\* is not among them, see PaidIsHeld of Page).
Vouched(k) ==
    sends[k].vouched /\ (sends[k].instr.kind = "cancel" \/ ~sends[k].stopping)

\* app.tsx:235-236, index.ts:201-220: when a payment made in trust of the page is
\* heard of by the operator, its completion begins there and then, or was carried
\* out before; it is never taken for a stranger's, whatever restarts and newer
\* instructions came between the hand-over and the payment.
VouchedIsBegun ==
    [][\A k \in DOMAIN sends :
         Vouched(k) /\ phase' = "ready" /\ stream # <<>> /\ stream' = Tail(stream)
           /\ Head(stream) = PaymentOf[k]
         => task'[PaymentOf[k]] = "check" \/ sends[k].instr \in mem.done]_bothVars
=============================================================================
