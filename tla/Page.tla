------------------------------- MODULE Page --------------------------------
(***************************************************************************)
(* The payment panels of the web page (apps/web/src/routes/app.tsx) with   *)
(* their wallet buttons (components/SendWithGemWallet.tsx) and the hand-   *)
(* over of instructions to the operator (registerInstruction in            *)
(* lib/flare.ts).                                                          *)
(*                                                                         *)
(* The page shows a create panel, built from what is typed, and, while an  *)
(* order is being stopped, a cancel panel; both are bound to the nonce and *)
(* the orders as last read.  What happens in React happens in two steps:   *)
(* a change of state is rendered, and then the effects that depend on what *)
(* changed are run; in between and afterwards answers arrive, in any       *)
(* order, from the chain, the operator and the wallet.                     *)
(*                                                                         *)
(* An instruction is what it was built from; two that are built from the   *)
(* same are the same, and have the same memo.                              *)
(***************************************************************************)
EXTENDS Naturals, Sequences

CONSTANTS
    Drafts,      \* what can be typed
    Orders,      \* the orders the user may stop
    None,        \* nothing typed, read or stopped
    MaxChain,    \* bound: changes of the account
    MaxPosts,    \* bound: instructions handed over
    MaxPresses   \* bound: presses of a button

VARIABLES
    chain,       \* how often the account's nonce and orders have changed
    reading,     \* resolves that have shown the nonce and still read the orders
    draft,       \* the order that is typed
    resolved,    \* the nonce shown, by the change of the account it is of
    rules,       \* the orders shown, likewise; None until some have been read
    stopping,    \* the order whose cancel panel is open
    due,         \* effects that the last renders left to run
    posts,       \* calls of registerInstruction, oldest first
    registered,  \* what the page believes of the last of them
    held,        \* the instructions the operator has
    phase,       \* phase of each wallet button
    sends        \* the presses, oldest first

shown   == <<draft, resolved, rules, stopping>>
operator == <<posts, registered, held>>
vars    == <<chain, reading, shown, due, operator, phase, sends>>

Kinds == {"create", "cancel"}

\* The instruction of a panel; None while the panel is not there.
Instruction(kind) ==
    LET what == IF kind = "create" THEN draft ELSE stopping
    IN  IF what = None \/ resolved = None THEN None
        ELSE [kind |-> kind, what |-> what, nonce |-> resolved, rules |-> rules]

\* The one that is handed over.
Active == IF stopping # None THEN Instruction("cancel") ELSE Instruction("create")

Init ==
    /\ chain = 0 /\ reading = 0
    /\ draft \in Drafts /\ resolved = None /\ rules = None /\ stopping = None
    /\ due = {} /\ posts = <<>> /\ registered = "unknown" /\ held = {}
    /\ phase = [k \in Kinds |-> "idle"] /\ sends = <<>>

-----------------------------------------------------------------------------
(* Rendering *)

\* A render: the effects whose dependencies changed are due (an instruction
\* that is built again is a new one, even from the same), those of the render
\* before having run; a panel that goes takes its button with it, whatever the
\* button has under way.
Render(rebuilt) ==
    LET gone == {k \in Kinds : Instruction(k)' = None}
    IN  /\ due = {}
        /\ due' = (IF rebuilt /\ {Active, Active'} # {None} THEN {"register"} ELSE {})
             \cup {k \in Kinds : Instruction(k)' # Instruction(k)}
        /\ phase' = [k \in Kinds |-> IF k \in gone THEN "idle" ELSE phase[k]]
        /\ sends' = [i \in DOMAIN sends |->
                       [sends[i] EXCEPT !.mounted = @ /\ sends[i].instr.kind \notin gone]]
        /\ UNCHANGED <<chain, operator>>

\* Something else is typed, or nothing that makes an order.
Type(d) ==
    /\ d # draft
    /\ draft' = d
    /\ UNCHANGED <<reading, resolved, rules, stopping>>
    /\ Render(stopping = None)

\* The button beside an order opens its cancel panel, or closes it.
Stop(id) ==
    /\ resolved # None /\ rules # None
    /\ stopping' = IF stopping = id THEN None ELSE id
    /\ UNCHANGED <<reading, draft, resolved, rules>>
    /\ Render(TRUE)

\* resolve: the nonce arrives, as it was some time before; then the orders; or
\* one of the reads fails.  Another resolve may be started meanwhile.
NonceArrives(n) ==
    /\ reading < MaxChain
    /\ reading' = reading + 1 /\ resolved' = n
    /\ UNCHANGED <<draft, rules, stopping>>
    /\ Render(TRUE)

RulesArrive(n) ==
    /\ reading > 0
    /\ reading' = reading - 1 /\ rules' = n
    /\ UNCHANGED <<draft, resolved, stopping>>
    /\ Render(TRUE)

ResolveFails ==
    /\ \/ reading > 0 /\ reading' = reading - 1
       \/ UNCHANGED reading
    /\ resolved' = None
    /\ UNCHANGED <<draft, rules, stopping>>
    /\ Render(TRUE)

\* Between the two, the account's balance arrives, and with it what the order is
\* short of: the create panel's payment is the same memo with another amount.
BalanceArrives ==
    /\ reading > 0 /\ Instruction("create") # None
    /\ due = {} /\ due' = {"create"}
    /\ UNCHANGED <<chain, reading, shown, operator, phase, sends>>

\* The effects: the active instruction is handed over, and answers for earlier
\* ones no longer count; a button whose payment changed starts afresh.
RunEffects ==
    /\ due # {}
    /\ due' = {}
    /\ phase' = [k \in Kinds |-> IF k \in due THEN "idle" ELSE phase[k]]
    /\ IF "register" \in due
       THEN /\ Len(posts) < MaxPosts
            /\ posts' = Append(posts, [instr |-> Active,
                                       state |-> IF Active = None THEN "over" ELSE "sent"])
            /\ registered' = "unknown"
       ELSE UNCHANGED <<posts, registered>>
    /\ UNCHANGED <<chain, reading, shown, held, sends>>

-----------------------------------------------------------------------------
(* The operator *)

\* A call has reached the operator.
Reaches(i) ==
    /\ posts[i].state = "sent"
    /\ posts' = [posts EXCEPT ![i].state = "accepted"]
    /\ UNCHANGED <<chain, reading, shown, due, registered, phase, sends>>

Accept(i) == Reaches(i) /\ held' = held \cup {posts[i].instr}

\* Bug: the answer to any call counts.
CountsAny(i) == TRUE

\* The page counts the answer to its last call only ("live").
Counts(i) == i = Len(posts)

\* registerInstruction answers; FALSE also when the call or its answer is lost.
Answer(i, ok) ==
    /\ posts[i].state \in IF ok THEN {"accepted"} ELSE {"sent", "accepted"}
    /\ posts' = [posts EXCEPT ![i].state = "over"]
    /\ registered' = IF Counts(i) THEN IF ok THEN "yes" ELSE "no" ELSE registered
    /\ UNCHANGED <<chain, reading, shown, due, held, phase, sends>>

-----------------------------------------------------------------------------
(* The wallet *)

Enabled(kind) ==
    /\ Instruction(kind) # None
    /\ phase[kind] \notin {"checking", "sending", "sent"}
    /\ kind = "create" => registered # "no"

\* vouched: nothing on the page says that the operator may not know it.
Press(kind) ==
    /\ Enabled(kind) /\ Len(sends) < MaxPresses
    /\ phase' = [phase EXCEPT ![kind] = "checking"]
    /\ sends' = Append(sends,
          [instr |-> Instruction(kind), state |-> "checking", mounted |-> TRUE,
           vouched |-> registered = "yes" /\ due = {}, stopping |-> stopping # None])
    /\ UNCHANGED <<chain, reading, shown, due, operator>>

\* setPhase in send: without effect on a button that is gone.
SetPhase(i, p, state) ==
    /\ phase' = IF sends[i].mounted
                THEN [phase EXCEPT ![sends[i].instr.kind] = p] ELSE phase
    /\ sends' = [sends EXCEPT ![i].state = state]
    /\ UNCHANGED <<chain, reading, shown, due, operator>>

\* The wallet is there and on the right network.
Checked(i) == sends[i].state = "checking" /\ SetPhase(i, "sending", "sending")

\* It is not, or a call fails, or the user declines.
NotSent(i) ==
    /\ sends[i].state \in {"checking", "sending"}
    /\ \E p \in {"error", "rejected"} : SetPhase(i, p, "over")

Sent(i) == sends[i].state = "sending" /\ SetPhase(i, "sent", "paid")

-----------------------------------------------------------------------------
\* Orders execute, payments land.
ChainMoves ==
    /\ chain < MaxChain
    /\ chain' = chain + 1
    /\ UNCHANGED <<reading, shown, due, operator, phase, sends>>

Next ==
    \/ \E d \in Drafts \cup {None} : Type(d)
    \/ \E id \in Orders : Stop(id)
    \/ \E n \in 0..chain : NonceArrives(n) \/ RulesArrive(n)
    \/ ResolveFails \/ BalanceArrives \/ RunEffects \/ ChainMoves
    \/ \E i \in DOMAIN posts : Accept(i) \/ \E ok \in BOOLEAN : Answer(i, ok)
    \/ \E kind \in Kinds : Press(kind)
    \/ \E i \in DOMAIN sends : Checked(i) \/ NotSent(i) \/ Sent(i)

Spec == Init /\ [][Next]_vars

-----------------------------------------------------------------------------
(* Properties *)

\* What a payment can commit to.
Payable == [kind  : Kinds, what : Drafts \cup Orders,
            nonce : Nat, rules : Nat \cup {None}]

Calls == [instr : Payable \cup {None}, state : {"sent", "accepted", "over"}]

Presses == [instr : Payable, state : {"checking", "sending", "over", "paid"},
            mounted : BOOLEAN, vouched : BOOLEAN, stopping : BOOLEAN]

\* The state of the page, the operator and the wallet is of this form.
TypeOK ==
    /\ chain \in Nat /\ reading \in Nat
    /\ draft \in Drafts \cup {None} /\ stopping \in Orders \cup {None}
    /\ resolved \in Nat \cup {None} /\ rules \in Nat \cup {None}
    /\ due \subseteq {"register"} \cup Kinds
    /\ posts \in Seq(Calls)
    /\ registered \in {"unknown", "yes", "no"}
    /\ held \subseteq Payable \cup {None}
    /\ phase \in [Kinds -> {"idle", "checking", "sending", "sent", "error", "rejected"}]
    /\ sends \in Seq(Presses)

\* app.tsx:241-262: when the page takes the instruction for registered, the
\* operator has the one that was active when the effects last ran, however many
\* calls are under way and however late they are answered.
RegisteredIsHeld ==
    registered = "yes" /\ "register" \notin due => Active \in held

\* A payment pressed without a warning is one the operator can complete: every
\* cancel, and every create pressed while no order was being stopped.
VouchedIsHeld ==
    \A i \in DOMAIN sends :
        sends[i].vouched /\ (sends[i].instr.kind = "cancel" \/ ~sends[i].stopping) =>
            sends[i].instr \in held

-----------------------------------------------------------------------------
(* What the documentation says and the code does not do *)

\* app.tsx:235-236: "whatever is on screen is what the operator holds": no
\* payment is made without a warning for an instruction it does not have.
PaidIsHeld ==
    \A i \in DOMAIN sends :
        sends[i].vouched /\ sends[i].state = "paid" => sends[i].instr \in held
=============================================================================
