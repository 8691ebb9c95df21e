---------------------------- MODULE LegacyPayment ----------------------------
(***************************************************************************)
(* handleIncomingPayment (apps/operator/src/handlePayment.ts) and the      *)
(* pipeline it runs (fdc.ts): the first version of the operator, which     *)
(* nothing calls any more.  It goes by the same verifier, rounds and layer *)
(* as Attestation, but waits for the Relay instead of polling the layer,   *)
(* asks the layer once, does not wait for the XRPL first, and executes the *)
(* instruction at the end.                                                 *)
(*                                                                         *)
(* It computes the round from its configuration (config.ts), and not, as   *)
(* createRule.ts does, from what the chain says: the defaults are those of *)
(* another network, so the round may be any other, and even negative.      *)
(*                                                                         *)
(* The unit of time is the pause between two questions to the Relay.  A    *)
(* question is answered some time after the chain was read for it; how     *)
(* late at most is the assumption AnswerWithin about the client library,   *)
(* whose requests and retries end.                                         *)
(***************************************************************************)
EXTENDS Attestation

CONSTANTS
    Handlers,      \* calls of handleIncomingPayment
    Starts,        \* what FIRST_VOTING_ROUND_START_TS may say
    Epochs,        \* what VOTING_EPOCH_DURATION_SECONDS may say
    Timeout,       \* timeoutMs of waitForFinalization
    AnswerWithin   \* from the Relay's reply to its arrival, at most

ASSUME LegacyAssumption ==
    /\ Starts \subseteq Int /\ Epochs \subseteq Nat \ {0}
    /\ Timeout \in Nat /\ AnswerWithin \in Nat

VARIABLES
    fdc,        \* the configured start and epoch, read once
    onRelay,    \* the rounds the Relay says are finalized
    used,       \* the payments whose instruction the controller has executed
    handler     \* what each call has come to

handlerVars == <<fdc, onRelay, used, handler>>
legacyVars  == <<vars, handlerVars>>

Unused ==
    [pc |-> "idle", payment |-> CHOOSE p \in Payments : TRUE, minedAt |-> 0, round |-> 0,
     deadline |-> 0, next |-> 0, askedAt |-> 0, answer |-> FALSE]

LegacyInit ==
    /\ Init
    /\ fdc \in [start: Starts, epoch: Epochs]
    /\ onRelay = {} /\ used = {}
    /\ handler = [h \in Handlers |-> Unused]

-----------------------------------------------------------------------------
At(h, pc)     == handler[h].pc = pc
PaymentOf(h)  == handler[h].payment
Becomes(h, r) == handler' = [handler EXCEPT ![h] = r]
Now(h, pc)    == Becomes(h, [handler[h] EXCEPT !.pc = pc])
OnlyHandler   == UNCHANGED <<vars, fdc, onRelay, used>>

Over == {"idle", "skipped", "threw", "notFinal", "done"}

\* A payment with a memo and an Account; one without either is ignored.
Deliver(h, p) ==
    /\ handler[h].pc \in Over /\ paidIn[p] # 0
    /\ Becomes(h, [Unused EXCEPT !.pc = "check", !.payment = p])
    /\ OnlyHandler

\* isTransactionIdUsed
CheckUsed(h) ==
    /\ At(h, "check")
    /\ Now(h, IF PaymentOf(h) \in used THEN "skipped" ELSE "prepare")
    /\ OnlyHandler

\* prepareXrpPaymentRequest: anything but VALID throws.
PrepareXrpPaymentRequest(h) ==
    /\ At(h, "prepare")
    /\ Now(h, IF Buried(PaymentOf(h)) THEN "request" ELSE "threw")
    /\ OnlyHandler

\* Math.floor((timestamp - firstVotingRoundStartTs) / votingEpochDurationSeconds)
ConfiguredRound(t) == (t - fdc.start) \div fdc.epoch

\* requestAttestation is mined; the round is computed from the time of its block.
RequestAttestation(h) ==
    /\ At(h, "request")
    /\ Becomes(h, [handler[h] EXCEPT !.pc = "mined", !.minedAt = now,
                                     !.round = ConfiguredRound(now)])
    /\ OnlyHandler

\* waitForFinalization starts its clock.
StartWaiting(h) ==
    /\ At(h, "mined")
    /\ Becomes(h, [handler[h] EXCEPT !.pc = "wait", !.deadline = now + Timeout, !.next = now])
    /\ OnlyHandler

\* Bug: the deadline is missed the moment it is reached.
TooLateAt(h) == now >= handler[h].deadline

TooLate(h) == now > handler[h].deadline

\* The chain is read for isFinalized.  A negative round cannot be encoded: that
\* call throws.
AskRelay(h) ==
    /\ At(h, "wait") /\ now >= handler[h].next /\ handler[h].round >= 0
    /\ Becomes(h, [handler[h] EXCEPT !.pc = "asked", !.askedAt = now,
                                     !.answer = handler[h].round \in onRelay])
    /\ OnlyHandler

\* The answer arrives, and the clock is read; then a pause.
RelayAnswers(h) ==
    /\ At(h, "asked")
    /\ \/ handler[h].answer /\ Now(h, "fetch")
       \/ ~handler[h].answer /\ TooLate(h) /\ Now(h, "notFinal")
       \/ /\ ~handler[h].answer /\ ~TooLate(h)
          /\ Becomes(h, [handler[h] EXCEPT !.pc = "wait", !.next = now + 1])
    /\ OnlyHandler

\* fetchProof: the layer is asked once, and may be behind the Relay; it has the
\* proof in the round of the request only.
FetchProof(h) ==
    /\ At(h, "fetch")
    /\ Now(h, IF handler[h].round \in final /\ handler[h].round = VotingRound(handler[h].minedAt)
              THEN "submit" ELSE "threw")
    /\ OnlyHandler

\* submitInstruction is sent: the node refuses what would revert.
SubmitInstruction(h) ==
    /\ At(h, "submit")
    /\ Now(h, IF PaymentOf(h) \in used THEN "threw" ELSE "sent")
    /\ OnlyHandler

\* Its receipt arrives; whether it reverted is not looked at.
InstructionMined(h) ==
    /\ At(h, "sent")
    /\ Now(h, "done")
    /\ used' \in {used, used \cup {PaymentOf(h)}}
    /\ UNCHANGED <<vars, fdc, onRelay>>

HandlerThrows(h) ==
    /\ handler[h].pc \notin Over
    /\ Now(h, "threw")
    /\ OnlyHandler

-----------------------------------------------------------------------------
(* The Relay; and the operator or a script, which executes the payment *)

Relay(k) ==
    /\ k \notin onRelay /\ RoundEnd(k) <= now
    /\ onRelay' = onRelay \cup {k}
    /\ UNCHANGED <<vars, fdc, used, handler>>

ExecutedElsewhere(p) ==
    /\ paidIn[p] # 0
    /\ used' = used \cup {p}
    /\ UNCHANGED <<vars, fdc, onRelay, handler>>

\* No answer is under way for longer than the client allows.
AnswersArrive(t) ==
    \A h \in Handlers : At(h, "asked") => t <= handler[h].askedAt + AnswerWithin

LegacyNext ==
    \/ \E h \in Handlers :
          \/ \E p \in Payments : Deliver(h, p)
          \/ CheckUsed(h) \/ PrepareXrpPaymentRequest(h) \/ RequestAttestation(h)
          \/ StartWaiting(h) \/ AskRelay(h) \/ RelayAnswers(h) \/ FetchProof(h)
          \/ SubmitInstruction(h) \/ InstructionMined(h) \/ HandlerThrows(h)
    \/ \E k \in Rounds : Relay(k)
    \/ \E p \in Payments : ExecutedElsewhere(p)
    \* a round is on the Relay before its proofs are served
    \/ Next /\ final' \subseteq onRelay /\ AnswersArrive(now') /\ UNCHANGED handlerVars

LegacySpec == LegacyInit /\ [][LegacyNext]_legacyVars

-----------------------------------------------------------------------------
(* Properties *)

\* fdc.ts:171-199: the wait outlasts the round.  If it is as long as the epoch,
\* what Flare needs to finish it and what an answer may take together, a handler
\* gives up only when its configuration sent it to a later round than that of its
\* request: with Flare's own values never, at whatever moment of the epoch the
\* request was mined, however its questions fall and however late their answers.
WaitOutlastsTheRound ==
    Epoch + FinalWithin + AnswerWithin <= Timeout =>
        \A h \in Handlers : At(h, "notFinal") => handler[h].round > VotingRound(handler[h].minedAt)

-----------------------------------------------------------------------------
(* The inductive invariant behind it *)

Busy == {"check", "prepare", "request", "mined", "wait", "asked", "fetch", "submit", "sent"}

Handler ==
    [pc: Over \cup Busy, payment: Payments \cup {Unused.payment}, minedAt: Nat, round: Int,
     deadline: Nat, next: Nat, askedAt: Nat, answer: BOOLEAN]

\* The wait starts after the request was mined.  A round no later than the
\* request's that was not final when the Relay was asked was asked for in time.
WaitsFor(r) ==
    /\ r.pc \in {"mined", "wait", "asked"} => r.minedAt \in FirstRound..now
    /\ r.pc \in {"wait", "asked"} => r.minedAt + Timeout <= r.deadline
    /\ r.pc = "asked" =>
          /\ now <= r.askedAt + AnswerWithin
          /\ ~r.answer /\ r.round <= VotingRound(r.minedAt) =>
                r.askedAt <= r.minedAt + Epoch + FinalWithin

LegacyInv ==
    /\ AttestationInv
    /\ fdc \in [start: Starts, epoch: Epochs]
    /\ final \subseteq onRelay
    /\ handler \in [Handlers -> Handler]
    /\ \A h \in Handlers : WaitsFor(handler[h])
    /\ WaitOutlastsTheRound
=============================================================================
