----------------------------- MODULE Attestation -----------------------------
(***************************************************************************)
(* How a completion gets the proof of its payment (the helpers of          *)
(* apps/operator/src/createRule.ts): wait until the payment is buried on   *)
(* the XRPL, have the verifier prepare the request, send it to the FdcHub, *)
(* compute the voting round of the block it was mined in, and poll the     *)
(* data availability layer for that round, a limited number of times.      *)
(*                                                                         *)
(* The operator and the scripts that pay wait for the XRPL;                *)
(* spike/finishRule.ts, which is run by hand on a payment that was left    *)
(* over, does not.  Any call may throw, and whatever ended may be tried    *)
(* again.                                                                  *)
(*                                                                         *)
(* A unit of time is the pause between two polls.  A round ends, and some  *)
(* time later it is final and its proofs are served; how long that takes   *)
(* at most is the assumption FinalWithin about Flare.                      *)
(***************************************************************************)
EXTENDS Integers

CONSTANTS
    Payments,
    Confirmations,  \* XRPL_FDC_CONFIRMATIONS
    FirstRound,     \* firstVotingRoundStartTs
    Epoch,          \* votingEpochDurationSeconds
    FinalWithin,    \* from the end of a round until its proofs are served, at most
    Attempts,       \* how often the layer is polled
    Outages,        \* how many polls of one attestation it may fail to answer
    MaxLedger,      \* bound: ledgers of the XRPL
    MaxTime         \* bound: time

ASSUME AttestationAssumption ==
    /\ Confirmations \in Nat /\ FirstRound \in Nat /\ Epoch \in Nat \ {0}
    /\ FinalWithin \in Nat /\ Attempts \in Nat \ {0} /\ Outages \in Nat
    /\ MaxLedger \in Nat /\ MaxTime \in Nat /\ FirstRound <= MaxTime

VARIABLES
    ledger,   \* index of the last validated ledger of the XRPL
    paidIn,   \* payment |-> the ledger that holds it, 0 before
    now,      \* timestamp of Flare's blocks
    final,    \* the rounds whose proofs are served
    job       \* payment |-> its completion

vars == <<ledger, paidIn, now, final, job>>

NewJob(pc, waits) ==
    [pc |-> pc, waits |-> waits, minedAt |-> 0, round |-> 0,
     attempts |-> 0, next |-> 0, outages |-> 0]

Init ==
    /\ ledger = 1
    /\ paidIn = [p \in Payments |-> 0]
    /\ now = FirstRound
    /\ final = {}
    /\ job = [p \in Payments |-> NewJob("idle", FALSE)]

-----------------------------------------------------------------------------
Goto(p, pc) == job' = [job EXCEPT ![p].pc = pc]

Ended == {"idle", "threw", "refused", "timedOut", "proved"}

\* A completion starts: of the operator or of a script that paid, which waits
\* for the XRPL, or by hand, which does not.
Start(p, waits) ==
    /\ job[p].pc \in Ended /\ paidIn[p] # 0
    /\ job' = [job EXCEPT ![p] = NewJob(IF waits THEN "confirm" ELSE "prepare", waits)]
    /\ UNCHANGED <<ledger, paidIn, now, final>>

Buried(p) == ledger - paidIn[p] >= Confirmations

\* Bug: one ledger too early.
ConfirmEarly(p) ==
    /\ job[p].pc = "confirm" /\ ledger - paidIn[p] >= Confirmations - 1
    /\ Goto(p, "prepare")
    /\ UNCHANGED <<ledger, paidIn, now, final>>

\* waitForXrplFinality: asks every four seconds, without a limit.
Confirm(p) ==
    /\ job[p].pc = "confirm" /\ Buried(p)
    /\ Goto(p, "prepare")
    /\ UNCHANGED <<ledger, paidIn, now, final>>

\* prepareRequest: anything but VALID throws.
Prepare(p) ==
    /\ job[p].pc = "prepare"
    /\ Goto(p, IF Buried(p) THEN "request" ELSE "refused")
    /\ UNCHANGED <<ledger, paidIn, now, final>>

\* requestAttestation is mined: its receipt names the block.
Request(p) ==
    /\ job[p].pc = "request"
    /\ job' = [job EXCEPT ![p].pc = "mined", ![p].minedAt = now]
    /\ UNCHANGED <<ledger, paidIn, now, final>>

RoundEnd(k) == FirstRound + (k + 1) * Epoch

\* Bug: an epoch that starts elsewhere (the values of another network).
VotingRoundElsewhere(t) == t \div Epoch

\* computeRoundId
VotingRound(t) == (t - FirstRound) \div Epoch

\* Bug: the time of the computation instead of the block's.
ComputeRoundLate(p) ==
    /\ job[p].pc = "mined"
    /\ job' = [job EXCEPT ![p].pc = "poll", ![p].round = VotingRound(now), ![p].next = now + 1]
    /\ UNCHANGED <<ledger, paidIn, now, final>>

ComputeRound(p) ==
    /\ job[p].pc = "mined"
    /\ job' = [job EXCEPT ![p].pc = "poll", ![p].round = VotingRound(job[p].minedAt),
                          ![p].next = now + 1]
    /\ UNCHANGED <<ledger, paidIn, now, final>>

\* The layer has a proof of the request for the round that was asked for.
Served(p) == job[p].round \in final /\ job[p].round = VotingRound(job[p].minedAt)

PollDue(p) == job[p].pc = "poll" /\ now >= job[p].next

PollFinds(p) ==
    /\ PollDue(p) /\ Served(p)
    /\ Goto(p, "proved")
    /\ UNCHANGED <<ledger, paidIn, now, final>>

\* Bug: the last attempt is not made.
MissedEarly(p) ==
    [job[p] EXCEPT !.pc = IF job[p].attempts + 2 = Attempts THEN "timedOut" ELSE "poll",
                   !.attempts = @ + 1, !.next = now + 1]

\* An attempt that found nothing; after the last of them it throws.
Missed(p) ==
    [job[p] EXCEPT !.pc = IF job[p].attempts + 1 = Attempts THEN "timedOut" ELSE "poll",
                   !.attempts = @ + 1, !.next = now + 1]

PollMisses(p) ==
    /\ PollDue(p)
    /\ \/ ~Served(p) /\ job' = [job EXCEPT ![p] = Missed(p)]
       \/ /\ job[p].outages < Outages
          /\ job' = [job EXCEPT ![p] = [Missed(p) EXCEPT !.outages = @ + 1]]
    /\ UNCHANGED <<ledger, paidIn, now, final>>

Throw(p) ==
    /\ job[p].pc \notin Ended
    /\ Goto(p, "threw")
    /\ UNCHANGED <<ledger, paidIn, now, final>>

-----------------------------------------------------------------------------
(* XRPL and Flare *)

Pay(p) ==
    /\ paidIn[p] = 0
    /\ paidIn' = [paidIn EXCEPT ![p] = ledger]
    /\ UNCHANGED <<ledger, now, final, job>>

CloseLedger ==
    /\ ledger < MaxLedger
    /\ ledger' = ledger + 1
    /\ UNCHANGED <<paidIn, now, final, job>>

Finalize(k) ==
    /\ k \notin final /\ RoundEnd(k) <= now
    /\ final' = final \cup {k}
    /\ UNCHANGED <<ledger, paidIn, now, job>>

Rounds == {k \in 0..MaxTime : RoundEnd(k) <= MaxTime}

\* Flare is prompt: time does not pass the moment a round must be final.
Tick ==
    /\ now < MaxTime
    /\ \A k \in Rounds : RoundEnd(k) + FinalWithin <= now => k \in final
    /\ now' = now + 1
    /\ UNCHANGED <<ledger, paidIn, final, job>>

-----------------------------------------------------------------------------
Next ==
    \/ \E p \in Payments :
          \/ \E waits \in BOOLEAN : Start(p, waits)
          \/ Confirm(p) \/ Prepare(p) \/ Request(p) \/ ComputeRound(p)
          \/ PollFinds(p) \/ PollMisses(p) \/ Throw(p)
          \/ Pay(p)
    \/ CloseLedger \/ Tick
    \/ \E k \in Rounds : Finalize(k)

Spec == Init /\ [][Next]_vars

-----------------------------------------------------------------------------
(* Properties *)

Before == {"confirm", "prepare", "request", "mined"}
Asked  == {"poll", "timedOut", "proved"}

Job == [pc: Ended \cup Before \cup Asked, waits: BOOLEAN,
        minedAt: Nat, round: Nat, attempts: 0..Attempts, next: Nat, outages: 0..Outages]

AttestationTypeOK ==
    /\ ledger \in Nat /\ paidIn \in [Payments -> Nat]
    /\ now \in FirstRound..MaxTime /\ final \subseteq Nat
    /\ job \in [Payments -> Job]

\* Who waited has a payment that is buried, and it stays so.
WaitedForBurial ==
    \A p \in Payments :
        /\ job[p].pc # "idle" => paidIn[p] # 0
        /\ job[p].waits /\ job[p].pc = "prepare" => Buried(p)

\* The proofs of a round are served in time.
FlareIsPrompt ==
    \A k \in Rounds : RoundEnd(k) + FinalWithin < now => k \in final

AskedAt(p) ==
    /\ job[p].pc \in Before => job[p].attempts = 0 /\ job[p].outages = 0
    /\ job[p].pc \in {"mined"} \cup Asked => job[p].minedAt \in FirstRound..now
    /\ job[p].pc \in Asked => job[p].round = VotingRound(job[p].minedAt)

\* The attempts that are not due to an outage were made at different times, all
\* before the round was final.
AttemptsTakeTime(p) ==
    job[p].pc \in {"poll", "timedOut"} =>
        LET wasted == job[p].attempts - job[p].outages
        IN  /\ job[p].next <= now + 1
            /\ wasted < job[p].next - job[p].minedAt
            /\ wasted <= Epoch + FinalWithin
            /\ job[p].pc = "timedOut" <=> job[p].attempts = Attempts

\* The inductive invariant.
AttestationInv ==
    /\ AttestationTypeOK /\ WaitedForBurial /\ FlareIsPrompt
    /\ \A p \in Payments : AskedAt(p) /\ AttemptsTakeTime(p)

\* createRule.ts:402: who waits for three confirmations is never turned away by
\* the verifier, whatever ledgers close meanwhile.
WaitingIsEnough == \A p \in Payments : job[p].pc = "refused" => ~job[p].waits

\* createRule.ts:368-371: the round that is polled is the one in which the
\* request was mined, however long the calls in between take.
PollsItsRound ==
    \A p \in Payments : job[p].pc \in Asked =>
        /\ job[p].minedAt < RoundEnd(job[p].round)
        /\ RoundEnd(job[p].round) <= job[p].minedAt + Epoch

\* createRule.ts:491-516: the attempts outlast the round.  If there are more of
\* them than the epoch, what Flare needs to finish it and the outages take
\* together, no completion gives up on a proof.
OutlastsTheRound ==
    Epoch + FinalWithin + Outages < Attempts =>
        \A p \in Payments : job[p].pc # "timedOut"
=============================================================================
