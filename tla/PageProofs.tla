----------------------------- MODULE PageProofs -----------------------------
(***************************************************************************)
(* What the web page tells its user about the operator, for any number of  *)
(* drafts, orders, readings, calls and presses: an instruction that the    *)
(* page takes for registered is held, and so is a payment that is pressed  *)
(* without a warning, except for a create while an order is being stopped. *)
(*                                                                         *)
(* The argument is about the last call of registerInstruction: once the    *)
(* effects have run it is the active instruction's, and registered speaks  *)
(* of it alone, because an answer to an earlier call does not count.       *)
(***************************************************************************)
EXTENDS Page, TLAPS

Last == posts[Len(posts)].instr

\* What the effects leave, and what the answers may say of it.
LastIsActive == "register" \notin due /\ posts # <<>> => Last = Active
YesIsOfLast  == registered = "yes" => posts # <<>> /\ Last \in held
AcceptedHeld == \A i \in DOMAIN posts :
                    posts[i].state = "accepted" => posts[i].instr \in held

PageInv == TypeOK /\ LastIsActive /\ YesIsOfLast /\ AcceptedHeld /\ VouchedIsHeld

-----------------------------------------------------------------------------
\* A panel's instruction is of its kind, and the active one is the cancel
\* panel's whenever there is one.
LEMMA PanelsInstruction ==
    ASSUME TypeOK, NEW kind \in Kinds
    PROVE  /\ Instruction(kind) \in Payable \cup {None}
           /\ Instruction(kind) # None => Instruction(kind) \in Payable
           /\ Instruction(kind) \in Payable /\ Instruction(kind) # None
                => Instruction(kind).kind = kind
           /\ Active \in Payable \cup {None}
  BY DEF TypeOK, Instruction, Active, Payable, Kinds

\* A page that starts has handed over nothing.
LEMMA InitPage == Init => PageInv
  BY DEF Init, PageInv, TypeOK, LastIsActive, YesIsOfLast, AcceptedHeld,
         VouchedIsHeld, Kinds, Active, Instruction

-----------------------------------------------------------------------------
\* A call that is marked is the same call.
LEMMA MarkedCall ==
    ASSUME NEW i, NEW s \in Seq(Calls), i \in DOMAIN s,
           NEW state \in {"sent", "accepted", "over"}
    PROVE  LET t == [s EXCEPT ![i].state = state]
           IN  /\ t \in Seq(Calls)
               /\ DOMAIN t = DOMAIN s /\ Len(t) = Len(s) /\ Len(s) \in DOMAIN s
               /\ \A j \in DOMAIN s : t[j].instr = s[j].instr
               /\ \A j \in DOMAIN s : j # i => t[j] = s[j]
               /\ t[i].state = state
               /\ s # <<>> /\ t # <<>>
  <1> DEFINE v == [s[i] EXCEPT !.state = state]
             t == [s EXCEPT ![i] = v]
  <1>0. s[i] \in Calls
    OBVIOUS
  <1>1. v \in Calls /\ v.instr = s[i].instr /\ v.state = state
    BY <1>0 DEF Calls
  <1> HIDE DEF v
  <1>2. t \in Seq(Calls) /\ Len(t) = Len(s) /\ DOMAIN t = DOMAIN s
        /\ \A j \in DOMAIN s : t[j] = IF j = i THEN v ELSE s[j]
    BY <1>1
  <1>3. Len(s) \in DOMAIN s /\ s # <<>> /\ t # <<>>
    BY <1>2
  <1>4. t = [s EXCEPT ![i].state = state]
    BY DEF v
  <1> QED
    BY <1>1, <1>2, <1>3, <1>4

\* What a step leaves of a state that it hardly touches: nothing is handed
\* over, and presses keep their instruction and what they were told.
LEMMA Undisturbed ==
    ASSUME PageInv, TypeOK', posts' = posts, held' = held, registered' = registered,
           LastIsActive',
           DOMAIN sends' = DOMAIN sends,
           \A i \in DOMAIN sends : /\ sends'[i].instr = sends[i].instr
                                   /\ sends'[i].vouched = sends[i].vouched
                                   /\ sends'[i].stopping = sends[i].stopping
    PROVE  PageInv'
  <1>1. YesIsOfLast' /\ AcceptedHeld'
    BY DEF PageInv, YesIsOfLast, AcceptedHeld, Last
  <1>2. VouchedIsHeld'
    BY DEF PageInv, VouchedIsHeld
  <1> QED
    BY <1>1, <1>2 DEF PageInv

\* A render of well-formed state keeps the invariant: it leaves the effects to
\* run when the active instruction is another.
LEMMA RenderPage ==
    ASSUME PageInv, NEW rebuilt \in BOOLEAN, Render(rebuilt),
           draft' \in Drafts \cup {None}, stopping' \in Orders \cup {None},
           resolved' \in Nat \cup {None}, rules' \in Nat \cup {None},
           reading' \in Nat,
           ~rebuilt => Active' = Active
    PROVE  PageInv'
  <1> DEFINE gone == {k \in Kinds : Instruction(k)' = None}
             kept(i) == [sends[i] EXCEPT
                           !.mounted = sends[i].mounted /\ sends[i].instr.kind \notin gone]
  <1>0. /\ sends \in Seq(Presses)
        /\ sends' = [i \in DOMAIN sends |-> kept(i)]
    BY DEF PageInv, TypeOK, Render
  <1>a. \A i \in DOMAIN sends : /\ kept(i) \in Presses
                               /\ kept(i).instr = sends[i].instr
                               /\ kept(i).vouched = sends[i].vouched
                               /\ kept(i).stopping = sends[i].stopping
    <2> SUFFICES ASSUME NEW i \in DOMAIN sends
                 PROVE  /\ kept(i) \in Presses
                        /\ kept(i).instr = sends[i].instr
                        /\ kept(i).vouched = sends[i].vouched
                        /\ kept(i).stopping = sends[i].stopping
      OBVIOUS
    <2> HIDE DEF gone
    <2>1. sends[i] \in Presses
      BY <1>0
    <2> QED
      BY <2>1 DEF Presses
  <1> HIDE DEF kept, gone
  <1>1. sends' \in Seq(Presses)
    BY <1>0, <1>a
  <1>2. /\ DOMAIN sends' = DOMAIN sends
        /\ \A i \in DOMAIN sends : /\ sends'[i].instr = sends[i].instr
                                   /\ sends'[i].vouched = sends[i].vouched
                                   /\ sends'[i].stopping = sends[i].stopping
    BY <1>0, <1>a
  <1>3. TypeOK'
    BY <1>1 DEF PageInv, TypeOK, Render, operator
  <1>4. LastIsActive'
    <2>1. CASE "register" \in due'
      BY <2>1 DEF LastIsActive
    <2>2. CASE "register" \notin due'
      <3>1. "register" \notin due /\ posts' = posts
        BY DEF Render, operator
      <3>2. Active' = Active
        BY <2>2 DEF Render
      <3> QED
        BY <3>1, <3>2 DEF PageInv, LastIsActive, Last
    <2> QED
      BY <2>1, <2>2
  <1>5. posts' = posts /\ held' = held /\ registered' = registered
    BY DEF Render, operator
  <1> QED
    BY <1>2, <1>3, <1>4, <1>5, Undisturbed

\* Something else is typed.
LEMMA TypePage == ASSUME PageInv, NEW d \in Drafts \cup {None}, Type(d) PROVE PageInv'
  <1>1. stopping # None => Active' = Active
    BY DEF Type, Active, Instruction
  <1> QED
    BY <1>1, RenderPage DEF Type, PageInv, TypeOK

\* The cancel panel is opened or closed.
LEMMA StopPage == ASSUME PageInv, NEW id \in Orders, Stop(id) PROVE PageInv'
  BY RenderPage DEF Stop, PageInv, TypeOK

\* A resolve reads the nonce, the orders, or fails.
LEMMA ReadPage ==
    ASSUME PageInv,
           \/ \E n \in 0..chain : NonceArrives(n) \/ RulesArrive(n)
           \/ ResolveFails
    PROVE  PageInv'
  <1>1. ASSUME NEW n \in 0..chain, NonceArrives(n) PROVE PageInv'
    <2>1. Render(TRUE) /\ resolved' = n /\ rules' = rules /\ reading' = reading + 1
          /\ draft' = draft /\ stopping' = stopping
      BY <1>1, Zenon DEF NonceArrives
    <2>2. reading' \in Nat /\ n \in Nat
      BY <2>1 DEF PageInv, TypeOK
    <2> QED
      BY <2>1, <2>2, RenderPage DEF PageInv, TypeOK
  <1>2. ASSUME NEW n \in 0..chain, RulesArrive(n) PROVE PageInv'
    <2>1. Render(TRUE) /\ resolved' = resolved /\ rules' = n /\ reading > 0 /\ reading' = reading - 1
          /\ draft' = draft /\ stopping' = stopping
      BY <1>2, Zenon DEF RulesArrive
    <2>2. reading' \in Nat /\ n \in Nat
      BY <2>1 DEF PageInv, TypeOK
    <2> QED
      BY <2>1, <2>2, RenderPage DEF PageInv, TypeOK
  <1>3. CASE ResolveFails
    <2>1. Render(TRUE) /\ resolved' = None /\ rules' = rules
          /\ draft' = draft /\ stopping' = stopping
          /\ ((reading > 0 /\ reading' = reading - 1) \/ reading' = reading)
      BY <1>3, Zenon DEF ResolveFails
    <2>2. reading' \in Nat
      BY <2>1 DEF PageInv, TypeOK
    <2> QED
      BY <2>1, <2>2, RenderPage DEF PageInv, TypeOK
  <1> QED
    BY <1>1, <1>2, <1>3

\* The balance changes what the create panel asks for, and no instruction.
LEMMA BalancePage == ASSUME PageInv, BalanceArrives PROVE PageInv'
  <1>1. TypeOK'
    BY DEF BalanceArrives, PageInv, TypeOK, Kinds, shown, operator
  <1>2. LastIsActive'
    BY DEF BalanceArrives, PageInv, LastIsActive, Last, Active, Instruction, shown, operator
  <1> QED
    BY <1>1, <1>2, Undisturbed DEF BalanceArrives, operator

\* The effects hand over the active instruction and forget the last answer.
LEMMA EffectsPage == ASSUME PageInv, RunEffects PROVE PageInv'
  <1>1. Active' = Active
    BY DEF RunEffects, shown, Active, Instruction
  <1>2. TypeOK'
    <2>1. Active \in Payable \cup {None}
      BY PanelsInstruction DEF PageInv, Kinds
    <2>2. [instr |-> Active, state |-> IF Active = None THEN "over" ELSE "sent"] \in Calls
      BY <2>1 DEF Calls
    <2> DEFINE call == [instr |-> Active,
                        state |-> IF Active = None THEN "over" ELSE "sent"]
    <2>3. posts \in Seq(Calls) /\ (posts' = Append(posts, call) \/ posts' = posts)
      BY DEF PageInv, TypeOK, RunEffects
    <2> HIDE DEF call
    <2>4. call \in Calls
      BY <2>2 DEF call
    <2>5. posts' \in Seq(Calls)
      BY <2>3, <2>4
    <2> QED
      BY <2>5 DEF PageInv, TypeOK, RunEffects, shown
  <1>3. CASE "register" \notin due
    BY <1>1, <1>2, <1>3, Undisturbed DEF RunEffects, PageInv, LastIsActive, Last
  <1>4. CASE "register" \in due
    <2> DEFINE call == [instr |-> Active,
                        state |-> IF Active = None THEN "over" ELSE "sent"]
    <2>1. /\ posts' = Append(posts, call) /\ registered' = "unknown"
          /\ held' = held /\ sends' = sends
      BY <1>4 DEF RunEffects
    <2>2. posts \in Seq(Calls)
      BY DEF PageInv, TypeOK
    <2>3. LastIsActive'
      BY <1>1, <2>1, <2>2 DEF LastIsActive, Last
    <2>4. AcceptedHeld'
      BY <2>1, <2>2 DEF PageInv, AcceptedHeld
    <2> QED
      BY <1>2, <2>1, <2>3, <2>4 DEF PageInv, YesIsOfLast, VouchedIsHeld
  <1> QED
    BY <1>3, <1>4

\* The operator keeps what it is handed.
LEMMA AcceptPage == ASSUME PageInv, NEW i \in DOMAIN posts, Accept(i) PROVE PageInv'
  <1>1. Active' = Active
    BY DEF Accept, Reaches, shown, Active, Instruction
  <1>2. /\ DOMAIN posts' = DOMAIN posts /\ Len(posts') = Len(posts)
        /\ \A j \in DOMAIN posts : posts'[j].instr = posts[j].instr
        /\ \A j \in DOMAIN posts : j # i => posts'[j] = posts[j]
        /\ posts # <<>> /\ posts' # <<>> /\ Len(posts) \in DOMAIN posts
        /\ posts' \in Seq(Calls)
    BY MarkedCall DEF Accept, Reaches, PageInv, TypeOK
  <1>3. held' = held \cup {posts[i].instr}
    BY DEF Accept, Reaches
  <1>4. TypeOK'
    <2>1. posts[i] \in Calls
      BY DEF PageInv, TypeOK
    <2>2. posts[i].instr \in Payable \cup {None}
      BY <2>1 DEF Calls
    <2> QED
      BY <1>2, <1>3, <2>2 DEF Accept, Reaches, PageInv, TypeOK, shown
  <1>5. LastIsActive' /\ YesIsOfLast'
    BY <1>1, <1>2, <1>3 DEF Accept, Reaches, PageInv, LastIsActive, YesIsOfLast, Last
  <1>6. AcceptedHeld' /\ VouchedIsHeld'
    BY <1>2, <1>3 DEF Accept, Reaches, PageInv, AcceptedHeld, VouchedIsHeld
  <1> QED
    BY <1>4, <1>5, <1>6 DEF PageInv

\* An answer speaks of the last call or is not counted.
LEMMA AnswerPage ==
    ASSUME PageInv, NEW i \in DOMAIN posts, NEW ok \in BOOLEAN, Answer(i, ok)
    PROVE  PageInv'
  <1>1. Active' = Active
    BY DEF Answer, shown, Active, Instruction
  <1>2. /\ DOMAIN posts' = DOMAIN posts /\ Len(posts') = Len(posts)
        /\ \A j \in DOMAIN posts : posts'[j].instr = posts[j].instr
        /\ \A j \in DOMAIN posts : j # i => posts'[j] = posts[j]
        /\ posts'[i].state = "over"
        /\ posts # <<>> /\ posts' # <<>> /\ Len(posts) \in DOMAIN posts
        /\ posts' \in Seq(Calls)
    BY MarkedCall DEF Answer, PageInv, TypeOK
  <1>3. TypeOK'
    BY <1>2 DEF Answer, PageInv, TypeOK, shown, Counts
  <1>4. YesIsOfLast'
    <2>1. Len(posts) \in DOMAIN posts /\ Last' = Last
      BY <1>2 DEF PageInv, TypeOK, Last
    <2>2. CASE i = Len(posts) /\ ok
      BY <1>2, <2>1, <2>2 DEF Answer, PageInv, AcceptedHeld, YesIsOfLast, Last
    <2>3. CASE i = Len(posts) /\ ~ok
      BY <2>3 DEF Answer, Counts, YesIsOfLast
    <2>4. CASE i # Len(posts)
      BY <1>2, <2>1, <2>4 DEF Answer, Counts, PageInv, YesIsOfLast
    <2> QED
      BY <2>2, <2>3, <2>4
  <1>5. LastIsActive'
    BY <1>1, <1>2 DEF Answer, PageInv, TypeOK, LastIsActive, Last
  <1>6. AcceptedHeld' /\ VouchedIsHeld'
    BY <1>2 DEF Answer, PageInv, AcceptedHeld, VouchedIsHeld
  <1> QED
    BY <1>3, <1>4, <1>5, <1>6 DEF PageInv

\* A button is pressed: without a warning, for what the operator holds.
LEMMA PressPage == ASSUME PageInv, NEW kind \in Kinds, Press(kind) PROVE PageInv'
  <1> DEFINE press ==
        [instr |-> Instruction(kind), state |-> "checking", mounted |-> TRUE,
         vouched |-> registered = "yes" /\ due = {}, stopping |-> stopping # None]
  <1>1. /\ sends' = Append(sends, press) /\ posts' = posts /\ held' = held
        /\ registered' = registered /\ due' = due /\ Active' = Active
    BY DEF Press, shown, operator, Active, Instruction
  <1>2. Instruction(kind) # None /\ Instruction(kind) \in Payable
    BY PanelsInstruction DEF Press, Enabled, PageInv
  <1>3. TypeOK'
    <2>1. press \in Presses
      BY <1>2 DEF Presses
    <2> HIDE DEF press
    <2>2. sends' \in Seq(Presses)
      BY <1>1, <2>1 DEF PageInv, TypeOK
    <2> QED
      BY <2>2 DEF Press, PageInv, TypeOK, shown, operator
  <1>4. press.vouched /\ (press.instr.kind = "cancel" \/ ~press.stopping) =>
            press.instr \in held
    <2> SUFFICES ASSUME registered = "yes", due = {},
                        kind = "cancel" \/ stopping = None
                 PROVE  Instruction(kind) \in held
      BY <1>2, PanelsInstruction DEF PageInv
    <2>1. Active = Instruction(kind)
      BY <1>2 DEF Active, Instruction, Kinds
    <2> QED
      BY <2>1 DEF PageInv, LastIsActive, YesIsOfLast
  <1>5. VouchedIsHeld'
    BY <1>1, <1>4 DEF PageInv, TypeOK, VouchedIsHeld
  <1>6. LastIsActive' /\ YesIsOfLast' /\ AcceptedHeld'
    BY <1>1 DEF PageInv, LastIsActive, YesIsOfLast, AcceptedHeld, Last
  <1> QED
    BY <1>3, <1>5, <1>6 DEF PageInv

\* The wallet answers.
LEMMA WalletPage ==
    ASSUME PageInv, NEW i \in DOMAIN sends, Checked(i) \/ NotSent(i) \/ Sent(i)
    PROVE  PageInv'
  <1>1. PICK p \in {"sending", "sent", "error", "rejected"},
             state \in {"sending", "over", "paid"} : SetPhase(i, p, state)
    BY DEF Checked, NotSent, Sent
  <1>a. sends' \in Seq(Presses)
    <2> DEFINE press == [sends[i] EXCEPT !.state = state]
    <2>0. sends[i] \in Presses
      BY DEF PageInv, TypeOK
    <2>1. press \in Presses
      BY <2>0 DEF Presses
    <2>2. sends' = [sends EXCEPT ![i] = press]
      BY <1>1 DEF SetPhase
    <2> HIDE DEF press
    <2> QED
      BY <2>1, <2>2 DEF PageInv, TypeOK
  <1>b. phase' \in [Kinds -> {"idle", "checking", "sending", "sent", "error", "rejected"}]
    BY <1>1 DEF SetPhase, PageInv, TypeOK
  <1>2. TypeOK'
    BY <1>1, <1>a, <1>b DEF SetPhase, PageInv, TypeOK, shown, operator
  <1>3. Active' = Active
    BY <1>1 DEF SetPhase, shown, Active, Instruction
  <1>4. /\ DOMAIN sends' = DOMAIN sends
        /\ \A j \in DOMAIN sends : /\ sends'[j].instr = sends[j].instr
                                   /\ sends'[j].vouched = sends[j].vouched
                                   /\ sends'[j].stopping = sends[j].stopping
    BY <1>1 DEF SetPhase, PageInv, TypeOK
  <1>5. posts' = posts /\ held' = held /\ registered' = registered /\ due' = due
    BY <1>1 DEF SetPhase, operator
  <1>6. LastIsActive'
    BY <1>3, <1>5 DEF PageInv, LastIsActive, Last
  <1> QED
    BY <1>2, <1>4, <1>5, <1>6, Undisturbed

-----------------------------------------------------------------------------
\* Every step keeps the invariant.
LEMMA StepPage == PageInv /\ [Next]_vars => PageInv'
  <1> SUFFICES ASSUME PageInv, [Next]_vars PROVE PageInv'
    OBVIOUS
  <1>1. ASSUME NEW d \in Drafts \cup {None}, Type(d) PROVE PageInv'
    BY <1>1, TypePage
  <1>2. ASSUME NEW id \in Orders, Stop(id) PROVE PageInv'
    BY <1>2, StopPage
  <1>3. CASE (\E n \in 0..chain : NonceArrives(n) \/ RulesArrive(n)) \/ ResolveFails
    BY <1>3, ReadPage
  <1>4. CASE RunEffects
    BY <1>4, EffectsPage
  <1>5. CASE BalanceArrives
    BY <1>5, BalancePage
  <1>6. CASE ChainMoves
    BY <1>6 DEF ChainMoves, PageInv, TypeOK, LastIsActive, YesIsOfLast, AcceptedHeld,
                VouchedIsHeld, Last, Active, Instruction, shown, operator
  <1>7. ASSUME NEW i \in DOMAIN posts, Accept(i) PROVE PageInv'
    BY <1>7, AcceptPage
  <1>8. ASSUME NEW i \in DOMAIN posts, NEW ok \in BOOLEAN, Answer(i, ok) PROVE PageInv'
    BY <1>8, AnswerPage
  <1>9. ASSUME NEW kind \in Kinds, Press(kind) PROVE PageInv'
    BY <1>9, PressPage
  <1>10. ASSUME NEW i \in DOMAIN sends, Checked(i) \/ NotSent(i) \/ Sent(i) PROVE PageInv'
    BY <1>10, WalletPage
  <1>11. CASE UNCHANGED vars
    BY <1>11 DEF vars, PageInv, TypeOK, LastIsActive, YesIsOfLast, AcceptedHeld,
                 VouchedIsHeld, Last, Active, Instruction, shown, operator
  <1> QED
    BY <1>1, <1>2, <1>3, <1>4, <1>5, <1>6, <1>7, <1>8, <1>9, <1>10, <1>11 DEF Next

\* app.tsx:241-262, SendWithGemWallet.tsx: the invariant holds throughout, and
\* with it the type of every variable.
THEOREM PageAlways == Spec => []PageInv
  BY InitPage, StepPage, PTL DEF Spec

\* app.tsx:241-262: when the page takes the active instruction for registered,
\* the operator has it, in whatever order calls are made and answered.
THEOREM RegisteredAlwaysHeld == Spec => []RegisteredIsHeld
  <1>1. PageInv => RegisteredIsHeld
    BY DEF PageInv, LastIsActive, YesIsOfLast, RegisteredIsHeld
  <1> QED
    BY <1>1, PageAlways, PTL

\* app.tsx:602-614, 730-735: a payment pressed without a warning is for an
\* instruction that the operator has, but for a create during a stop.
THEOREM VouchedAlwaysHeld == Spec => []VouchedIsHeld
  <1>1. PageInv => VouchedIsHeld
    BY DEF PageInv
  <1> QED
    BY <1>1, PageAlways, PTL
=============================================================================
