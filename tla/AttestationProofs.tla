-------------------------- MODULE AttestationProofs --------------------------
(***************************************************************************)
(* The properties of Attestation, for every number of payments, epoch,     *)
(* delay, number of attempts and outages.                                  *)
(***************************************************************************)
EXTENDS LegacyPayment, TLAPS

(***************************************************************************)
(* Rounds and time                                                         *)
(***************************************************************************)
LEMMA Division ==
    ASSUME NEW n \in Nat, NEW d \in Nat \ {0}
    PROVE  /\ n \div d \in Nat
           /\ (n \div d) * d <= n
           /\ n < (n \div d) * d + d
    BY Z3

LEMMA Growth ==
    ASSUME NEW n \in Nat, NEW d \in Nat \ {0}
    PROVE  /\ n * d \in Nat
           /\ n <= n * d
           /\ (n + 1) * d = n * d + d
    BY Z3

\* The voting round of a time is the one that contains it.
LEMMA RoundContains ==
    ASSUME NEW t \in Nat, FirstRound <= t
    PROVE  /\ VotingRound(t) \in Nat
           /\ RoundEnd(VotingRound(t)) \in Nat
           /\ t < RoundEnd(VotingRound(t))
           /\ RoundEnd(VotingRound(t)) <= t + Epoch
    <1> DEFINE k == VotingRound(t)
    <1>1. FirstRound \in Nat /\ Epoch \in Nat \ {0}
        BY AttestationAssumption
    <1>2. t - FirstRound \in Nat
        BY <1>1
    <1>3. k \in Nat /\ k * Epoch <= t - FirstRound /\ t - FirstRound < k * Epoch + Epoch
        BY <1>1, <1>2, Division DEF VotingRound
    <1>4. k * Epoch \in Nat /\ RoundEnd(k) = FirstRound + (k * Epoch + Epoch)
        BY <1>1, <1>3, Growth DEF RoundEnd
    <1> HIDE DEF k
    <1>5. /\ k \in Nat /\ RoundEnd(k) \in Nat
          /\ t < RoundEnd(k) /\ RoundEnd(k) <= t + Epoch
        BY <1>1, <1>3, <1>4
    <1> QED BY <1>5 DEF k

\* A round ends no later than one after it.
LEMMA RoundsInOrder ==
    ASSUME NEW k \in Nat, NEW m \in Nat, k <= m
    PROVE  RoundEnd(k) \in Nat /\ RoundEnd(k) <= RoundEnd(m)
    <1>1. FirstRound \in Nat /\ Epoch \in Nat \ {0} /\ m - k \in Nat
        BY AttestationAssumption
    <1>2. /\ (k + 1) * Epoch \in Nat /\ (m - k) * Epoch \in Nat
          /\ (m + 1) * Epoch = (k + 1) * Epoch + (m - k) * Epoch
        BY <1>1
    <1> QED BY <1>1, <1>2 DEF RoundEnd

\* As long as the round of t, or one before it, is not final, its grace has not
\* passed.
LEMMA NotFinalYet ==
    ASSUME AttestationTypeOK, FlareIsPrompt, NEW t \in FirstRound..now,
           NEW k \in Nat, k <= VotingRound(t), k \notin final
    PROVE  now <= t + Epoch + FinalWithin
    <1>1. /\ FirstRound \in Nat /\ Epoch \in Nat \ {0}
          /\ FinalWithin \in Nat /\ MaxTime \in Nat /\ now \in Nat /\ now <= MaxTime
        BY AttestationAssumption DEF AttestationTypeOK
    <1>2. t \in Nat /\ FirstRound <= t
        BY <1>1
    <1>3. RoundEnd(k) \in Nat /\ RoundEnd(k) <= t + Epoch
        <2>1. /\ VotingRound(t) \in Nat /\ RoundEnd(VotingRound(t)) \in Nat
              /\ RoundEnd(VotingRound(t)) <= t + Epoch
            BY <1>2, RoundContains
        <2>2. RoundEnd(k) \in Nat /\ RoundEnd(k) <= RoundEnd(VotingRound(t))
            BY <2>1, RoundsInOrder
        <2> QED BY <1>1, <1>2, <2>1, <2>2
    <1>4. (k + 1) * Epoch \in Nat /\ k + 1 <= (k + 1) * Epoch
        BY <1>1, Growth
    <1>5. k \notin final
        OBVIOUS
    <1>6. k < RoundEnd(k)
        BY <1>1, <1>3, <1>4 DEF RoundEnd
    <1>7. CASE RoundEnd(k) <= MaxTime
        <2>1. k \in Rounds
            BY <1>1, <1>3, <1>6, <1>7 DEF Rounds
        <2>2. ~(RoundEnd(k) + FinalWithin < now)
            BY <1>5, <2>1 DEF FlareIsPrompt
        <2> QED BY <1>1, <1>2, <1>3, <2>2
    <1>8. CASE RoundEnd(k) > MaxTime
        BY <1>1, <1>2, <1>3, <1>8
    <1> QED BY <1>1, <1>3, <1>7, <1>8

(***************************************************************************)
(* The invariant is inductive                                              *)
(***************************************************************************)

LEMMA NewJobType ==
    ASSUME NEW x \in Ended \cup Before \cup Asked, NEW waits \in BOOLEAN
    PROVE  NewJob(x, waits) \in Job
    BY AttestationAssumption DEF NewJob, Job

LEMMA InitEstablishes == Init => AttestationInv
    <1> SUFFICES ASSUME Init PROVE AttestationInv
        OBVIOUS
    <1> USE AttestationAssumption DEF Init
    <1>1. NewJob("idle", FALSE) \in Job
        BY NewJobType DEF Ended, Before, Asked
    <1>2. AttestationTypeOK
        <2>1. job \in [Payments -> Job]
            BY <1>1
        <2>2. ledger \in Nat /\ paidIn \in [Payments -> Nat]
            OBVIOUS
        <2>3. now \in FirstRound..MaxTime /\ final \subseteq Nat
            OBVIOUS
        <2> QED BY <2>1, <2>2, <2>3 DEF AttestationTypeOK
    <1>3. WaitedForBurial
        BY DEF WaitedForBurial, NewJob
    <1>4. FlareIsPrompt
        <2> SUFFICES ASSUME NEW k \in Rounds, RoundEnd(k) + FinalWithin < now PROVE FALSE
            BY DEF FlareIsPrompt
        <2>1. k \in Nat
            BY DEF Rounds
        <2>2. k + 1 \in Nat /\ (k + 1) * Epoch \in Nat
            BY <2>1, Growth
        <2> QED BY <2>2 DEF RoundEnd
    <1>5. \A p \in Payments : AskedAt(p) /\ AttemptsTakeTime(p)
        BY DEF AskedAt, AttemptsTakeTime, NewJob, Before, Asked
    <1> QED BY <1>2, <1>3, <1>4, <1>5 DEF AttestationInv

\* p's completion becomes j, and nothing else changes.
TurnsInto(p, j) ==
    /\ j \in Job
    /\ job' = [job EXCEPT ![p] = j]
    /\ UNCHANGED <<ledger, paidIn, now, final>>

\* The program counter of a job, set to x.
LEMMA Moved ==
    ASSUME NEW r \in Job, NEW x \in Ended \cup Before \cup Asked
    PROVE  LET j == [r EXCEPT !.pc = x]
           IN  /\ j \in Job
               /\ j.pc = x /\ j.waits = r.waits /\ j.minedAt = r.minedAt
               /\ j.round = r.round /\ j.attempts = r.attempts
               /\ j.next = r.next /\ j.outages = r.outages
    BY DEF Job

\* What AskedAt and AttemptsTakeTime say of p, they say of its job.
Punctual(j, t) ==
    /\ j.pc \in Before => j.attempts = 0 /\ j.outages = 0
    /\ j.pc \in {"mined"} \cup Asked => j.minedAt \in FirstRound..t
    /\ j.pc \in Asked => j.round = VotingRound(j.minedAt)
    /\ j.pc \in {"poll", "timedOut"} =>
        /\ j.next <= t + 1
        /\ j.attempts - j.outages < j.next - j.minedAt
        /\ j.attempts - j.outages <= Epoch + FinalWithin
        /\ j.pc = "timedOut" <=> j.attempts = Attempts

LEMMA PunctualJob ==
    ASSUME NEW p \in Payments
    PROVE  AskedAt(p) /\ AttemptsTakeTime(p) <=> Punctual(job[p], now)
    BY DEF AskedAt, AttemptsTakeTime, Punctual

LEMMA StartBecomes ==
    ASSUME AttestationInv, NEW p \in Payments, NEW waits \in BOOLEAN, Start(p, waits)
    PROVE  \E j : /\ TurnsInto(p, j) /\ Punctual(j, now)
                  /\ j.pc \notin {"idle", "refused"} /\ paidIn[p] # 0
                  /\ j.waits => j.pc # "prepare"
    <1> DEFINE j == NewJob(IF waits THEN "confirm" ELSE "prepare", waits)
    <1>1. j \in Job
        BY NewJobType DEF Before
    <1>2. TurnsInto(p, j)
        BY <1>1 DEF Start, TurnsInto
    <1>3. Punctual(j, now) /\ j.pc \notin {"idle", "refused"} /\ (j.waits => j.pc # "prepare")
        BY DEF NewJob, Punctual, Before, Asked
    <1> QED BY <1>2, <1>3 DEF Start

LEMMA ConfirmBecomes ==
    ASSUME AttestationInv, NEW p \in Payments, Confirm(p)
    PROVE  \E j : /\ TurnsInto(p, j) /\ Punctual(j, now)
                  /\ j.pc = "prepare" /\ paidIn[p] # 0 /\ Buried(p)
    <1> DEFINE j == [job[p] EXCEPT !.pc = "prepare"]
    <1>1. job[p] \in Job /\ job[p].pc = "confirm" /\ Punctual(job[p], now)
        BY PunctualJob DEF AttestationInv, AttestationTypeOK, Confirm
    <1>2. j \in Job /\ j.pc = "prepare" /\ j.attempts = job[p].attempts /\ j.outages = job[p].outages
        BY <1>1, Moved DEF Before
    <1>3. TurnsInto(p, j)
        BY <1>2 DEF Confirm, Goto, TurnsInto
    <1> HIDE DEF j
    <1>4. Punctual(j, now)
        BY <1>1, <1>2 DEF Punctual, Before, Asked
    <1>5. paidIn[p] # 0 /\ Buried(p)
        BY <1>1 DEF Confirm, AttestationInv, WaitedForBurial
    <1> QED BY <1>2, <1>3, <1>4, <1>5

LEMMA PrepareBecomes ==
    ASSUME AttestationInv, NEW p \in Payments, Prepare(p)
    PROVE  \E j : /\ TurnsInto(p, j) /\ Punctual(j, now)
                  /\ j.pc \notin {"idle", "prepare"} /\ paidIn[p] # 0
                  /\ j.pc = "refused" => ~j.waits
    <1> DEFINE x == IF Buried(p) THEN "request" ELSE "refused"
               j == [job[p] EXCEPT !.pc = x]
    <1>1. job[p] \in Job /\ job[p].pc = "prepare" /\ Punctual(job[p], now)
        BY PunctualJob DEF AttestationInv, AttestationTypeOK, Prepare
    <1>2. x \in Ended \cup Before \cup Asked
        BY DEF Ended, Before
    <1>3. /\ j \in Job /\ j.pc = x /\ j.waits = job[p].waits
          /\ j.attempts = job[p].attempts /\ j.outages = job[p].outages
        BY <1>1, <1>2, Moved
    <1>4. TurnsInto(p, j)
        BY <1>3 DEF Prepare, Goto, TurnsInto
    <1>5. paidIn[p] # 0 /\ (job[p].waits => x = "request")
        BY <1>1 DEF AttestationInv, WaitedForBurial
    <1>6. x \in {"request", "refused"}
        OBVIOUS
    <1> HIDE DEF x, j
    <1>7. Punctual(j, now)
        BY <1>1, <1>3, <1>6 DEF Punctual, Before, Asked
    <1> QED BY <1>3, <1>4, <1>5, <1>6, <1>7

LEMMA RequestBecomes ==
    ASSUME AttestationInv, NEW p \in Payments, Request(p)
    PROVE  \E j : /\ TurnsInto(p, j) /\ Punctual(j, now)
                  /\ j.pc = "mined" /\ paidIn[p] # 0
    <1> DEFINE j == [job[p] EXCEPT !.pc = "mined", !.minedAt = now]
    <1>1. /\ job[p] \in Job /\ job[p].pc = "request" /\ Punctual(job[p], now)
          /\ now \in FirstRound..MaxTime /\ now \in Nat
        BY PunctualJob, AttestationAssumption DEF AttestationInv, AttestationTypeOK, Request
    <1>2. /\ j \in Job /\ j.pc = "mined" /\ j.minedAt = now
          /\ j.attempts = job[p].attempts /\ j.outages = job[p].outages
        BY <1>1 DEF Job, Before
    <1>3. TurnsInto(p, j)
        BY <1>2 DEF Request, TurnsInto
    <1> HIDE DEF j
    <1>4. Punctual(j, now)
        BY <1>1, <1>2, AttestationAssumption DEF Punctual, Before, Asked
    <1>5. paidIn[p] # 0
        BY <1>1 DEF AttestationInv, WaitedForBurial
    <1> QED BY <1>2, <1>3, <1>4, <1>5

LEMMA ComputeRoundBecomes ==
    ASSUME AttestationInv, NEW p \in Payments, ComputeRound(p)
    PROVE  \E j : /\ TurnsInto(p, j) /\ Punctual(j, now)
                  /\ j.pc = "poll" /\ paidIn[p] # 0
    <1> DEFINE k == VotingRound(job[p].minedAt)
               j == [job[p] EXCEPT !.pc = "poll", !.round = k, !.next = now + 1]
    <1>1. /\ job[p] \in Job /\ job[p].pc = "mined" /\ Punctual(job[p], now)
          /\ now \in Nat
        BY PunctualJob, AttestationAssumption DEF AttestationInv, AttestationTypeOK, ComputeRound
    <1>2. /\ job[p].minedAt \in Nat /\ FirstRound <= job[p].minedAt /\ job[p].minedAt <= now
          /\ job[p].attempts = 0 /\ job[p].outages = 0
        BY <1>1, AttestationAssumption DEF Punctual, Before, Job
    <1>3. k \in Nat
        BY <1>2, RoundContains
    <1>4. /\ j \in Job /\ j.pc = "poll" /\ j.round = k /\ j.next = now + 1
          /\ j.minedAt = job[p].minedAt /\ j.attempts = 0 /\ j.outages = 0
        <2>1. now + 1 \in Nat /\ job[p] \in Job
            BY <1>1
        <2> HIDE DEF k
        <2>2. /\ j \in Job /\ j.pc = "poll" /\ j.round = k /\ j.next = now + 1
              /\ j.minedAt = job[p].minedAt /\ j.attempts = job[p].attempts
              /\ j.outages = job[p].outages
            BY <1>3, <2>1 DEF Job, Asked
        <2> QED BY <1>2, <2>2
    <1>5. TurnsInto(p, j)
        BY <1>4 DEF ComputeRound, TurnsInto
    <1> HIDE DEF j
    <1>6. Punctual(j, now)
        BY <1>1, <1>2, <1>4, AttestationAssumption DEF Punctual, Before, Asked
    <1>7. paidIn[p] # 0
        BY <1>1 DEF AttestationInv, WaitedForBurial
    <1> QED BY <1>4, <1>5, <1>6, <1>7

\* An attempt in vain, at time t, of which outages are nobody's fault.
LEMMA Attempted ==
    ASSUME NEW r \in Job, NEW t \in Nat, r.attempts < Attempts
    PROVE  LET j == [r EXCEPT !.pc = IF r.attempts + 1 = Attempts THEN "timedOut" ELSE "poll",
                              !.attempts = r.attempts + 1, !.next = t]
           IN  /\ j \in Job
               /\ j.pc \in {"poll", "timedOut"}
               /\ j.pc = "timedOut" <=> j.attempts = Attempts
               /\ j.attempts = r.attempts + 1 /\ j.next = t
               /\ j.minedAt = r.minedAt /\ j.round = r.round
               /\ j.waits = r.waits /\ j.outages = r.outages
    <1>1. r.attempts + 1 \in 0..Attempts
        BY AttestationAssumption DEF Job
    <1> QED BY <1>1 DEF Job, Asked, Ended

LEMMA Excused ==
    ASSUME NEW r \in Job, r.outages < Outages
    PROVE  LET j == [r EXCEPT !.outages = r.outages + 1]
           IN  /\ j \in Job
               /\ j.outages = r.outages + 1 /\ j.pc = r.pc
               /\ j.attempts = r.attempts /\ j.next = r.next
               /\ j.minedAt = r.minedAt /\ j.round = r.round
    <1>1. r.outages + 1 \in 0..Outages
        BY AttestationAssumption DEF Job
    <1> QED BY <1>1 DEF Job

LEMMA PollMissesBecomes ==
    ASSUME AttestationInv, NEW p \in Payments, PollMisses(p)
    PROVE  \E j : /\ TurnsInto(p, j) /\ Punctual(j, now)
                  /\ j.pc \in {"poll", "timedOut"} /\ paidIn[p] # 0
    <1> DEFINE r == job[p]
               m == Missed(p)
               x == [m EXCEPT !.outages = @ + 1]
    <1>1. /\ r \in Job /\ r.pc = "poll" /\ Punctual(r, now)
          /\ now \in Nat /\ now + 1 \in Nat /\ r.next <= now
        BY PunctualJob, AttestationAssumption
           DEF AttestationInv, AttestationTypeOK, PollMisses, PollDue
    <1>2. /\ r.attempts \in Nat /\ r.outages \in Nat /\ r.next \in Nat /\ r.minedAt \in Nat
          /\ FirstRound \in Nat /\ Attempts \in Nat /\ Epoch \in Nat /\ FinalWithin \in Nat
        BY <1>1, AttestationAssumption DEF Job
    <1>3. /\ r.minedAt \in FirstRound..now /\ r.round = VotingRound(r.minedAt)
          /\ r.attempts - r.outages < r.next - r.minedAt
          /\ r.attempts - r.outages <= Epoch + FinalWithin
          /\ r.attempts < Attempts
        <2>1. r.attempts # Attempts
            BY <1>1 DEF Punctual
        <2>2. r.attempts <= Attempts
            BY <1>1, AttestationAssumption DEF Job
        <2>3. r.minedAt \in FirstRound..now /\ r.round = VotingRound(r.minedAt)
            BY <1>1 DEF Punctual, Asked
        <2>4. /\ r.attempts - r.outages < r.next - r.minedAt
              /\ r.attempts - r.outages <= Epoch + FinalWithin
            BY <1>1 DEF Punctual
        <2> QED BY <1>2, <2>1, <2>2, <2>3, <2>4
    <1>4. /\ m \in Job /\ m.pc \in {"poll", "timedOut"}
          /\ m.pc = "timedOut" <=> m.attempts = Attempts
          /\ m.attempts = r.attempts + 1 /\ m.next = now + 1
          /\ m.minedAt = r.minedAt /\ m.round = r.round /\ m.outages = r.outages
        <2>1. m = [r EXCEPT !.pc = IF r.attempts + 1 = Attempts THEN "timedOut" ELSE "poll",
                            !.attempts = r.attempts + 1, !.next = now + 1]
            BY DEF Missed
        <2> HIDE DEF r, m
        <2> QED BY <1>1, <1>3, <2>1, Attempted
    <1>5. paidIn[p] # 0
        BY <1>1 DEF AttestationInv, WaitedForBurial
    <1>6. CASE ~Served(p) /\ job' = [job EXCEPT ![p] = m]
        <2>1. TurnsInto(p, m)
            BY <1>4, <1>6 DEF PollMisses, TurnsInto
        <2>2. VotingRound(r.minedAt) \notin final
            BY <1>3, <1>6 DEF Served
        <2>3. now <= r.minedAt + Epoch + FinalWithin
            <3>1. VotingRound(r.minedAt) \in Nat
                <4>1. r.minedAt \in Nat /\ FirstRound <= r.minedAt
                    BY <1>3, AttestationAssumption
                <4> HIDE DEF r
                <4> QED BY <4>1, RoundContains
            <3> QED BY <1>3, <2>2, <3>1, NotFinalYet DEF AttestationInv
        <2>4. m.attempts - m.outages < m.next - m.minedAt
            <3> HIDE DEF r, m
            <3> QED BY <1>1, <1>2, <1>3, <1>4
        <2>5. m.attempts - m.outages <= Epoch + FinalWithin
            <3> HIDE DEF r, m
            <3> QED BY <1>1, <1>2, <1>3, <1>4, <2>3
        <2>6. Punctual(m, now)
            <3> HIDE DEF r, m
            <3> QED BY <1>1, <1>3, <1>4, <2>4, <2>5 DEF Punctual, Before, Asked
        <2> QED BY <1>4, <1>5, <2>1, <2>6
    <1>7. CASE r.outages < Outages /\ job' = [job EXCEPT ![p] = x]
        <2>1. /\ x \in Job /\ x.outages = m.outages + 1 /\ x.pc = m.pc
              /\ x.attempts = m.attempts /\ x.next = m.next
              /\ x.minedAt = m.minedAt /\ x.round = m.round
            <3> HIDE DEF m
            <3> QED BY <1>4, <1>7, Excused
        <2>2. TurnsInto(p, x)
            BY <1>7, <2>1 DEF PollMisses, TurnsInto
        <2>3. /\ x.attempts - x.outages < x.next - x.minedAt
              /\ x.attempts - x.outages <= Epoch + FinalWithin
            <3> HIDE DEF r, m, x
            <3> QED BY <1>1, <1>2, <1>3, <1>4, <2>1
        <2>4. Punctual(x, now)
            <3> HIDE DEF r, m, x
            <3> QED BY <1>1, <1>3, <1>4, <2>1, <2>3 DEF Punctual, Before, Asked
        <2> QED BY <1>4, <1>5, <2>1, <2>2, <2>4
    <1> QED BY <1>6, <1>7 DEF PollMisses

LEMMA PollFindsBecomes ==
    ASSUME AttestationInv, NEW p \in Payments, PollFinds(p)
    PROVE  \E j : /\ TurnsInto(p, j) /\ Punctual(j, now)
                  /\ j.pc = "proved" /\ paidIn[p] # 0
    <1> DEFINE j == [job[p] EXCEPT !.pc = "proved"]
    <1>1. job[p] \in Job /\ job[p].pc = "poll" /\ Punctual(job[p], now)
        BY PunctualJob DEF AttestationInv, AttestationTypeOK, PollFinds, PollDue
    <1>2. j \in Job /\ j.pc = "proved" /\ j.minedAt = job[p].minedAt /\ j.round = job[p].round
        BY <1>1, Moved DEF Asked
    <1>3. TurnsInto(p, j)
        BY <1>2 DEF PollFinds, Goto, TurnsInto
    <1> HIDE DEF j
    <1>4. Punctual(j, now)
        BY <1>1, <1>2 DEF Punctual, Before, Asked
    <1>5. paidIn[p] # 0
        BY <1>1 DEF AttestationInv, WaitedForBurial
    <1> QED BY <1>2, <1>3, <1>4, <1>5

LEMMA ThrowBecomes ==
    ASSUME AttestationInv, NEW p \in Payments, Throw(p)
    PROVE  \E j : /\ TurnsInto(p, j) /\ Punctual(j, now)
                  /\ j.pc = "threw" /\ paidIn[p] # 0
    <1> DEFINE j == [job[p] EXCEPT !.pc = "threw"]
    <1>1. job[p] \in Job /\ job[p].pc # "idle"
        BY DEF AttestationInv, AttestationTypeOK, Throw, Ended
    <1>2. j \in Job /\ j.pc = "threw"
        BY <1>1, Moved DEF Ended
    <1>3. TurnsInto(p, j)
        BY <1>2 DEF Throw, Goto, TurnsInto
    <1> HIDE DEF j
    <1>4. Punctual(j, now)
        BY <1>2 DEF Punctual, Before, Asked
    <1>5. paidIn[p] # 0
        BY <1>1 DEF AttestationInv, WaitedForBurial
    <1> QED BY <1>2, <1>3, <1>4, <1>5

\* A step of a completion.
JobStep(p) ==
    \/ \E waits \in BOOLEAN : Start(p, waits)
    \/ Confirm(p) \/ Prepare(p) \/ Request(p) \/ ComputeRound(p)
    \/ PollFinds(p) \/ PollMisses(p) \/ Throw(p)

\* What is wanted of the job it leaves behind.
Sound(p, j) ==
    /\ Punctual(j, now) /\ paidIn[p] # 0
    /\ j.waits /\ j.pc = "prepare" => Buried(p)
    /\ j.pc = "refused" => ~j.waits

LEMMA StepBecomes ==
    ASSUME AttestationInv, NEW p \in Payments, JobStep(p)
    PROVE  \E j : TurnsInto(p, j) /\ Sound(p, j)
    <1>1. CASE \E waits \in BOOLEAN : Start(p, waits)
        BY <1>1, StartBecomes DEF Sound
    <1>2. CASE Confirm(p)
        BY <1>2, ConfirmBecomes DEF Sound
    <1>3. CASE Prepare(p)
        BY <1>3, PrepareBecomes DEF Sound
    <1>4. CASE Request(p)
        BY <1>4, RequestBecomes DEF Sound
    <1>5. CASE ComputeRound(p)
        BY <1>5, ComputeRoundBecomes DEF Sound
    <1>6. CASE PollFinds(p)
        BY <1>6, PollFindsBecomes DEF Sound
    <1>7. CASE PollMisses(p)
        BY <1>7, PollMissesBecomes DEF Sound
    <1>8. CASE Throw(p)
        BY <1>8, ThrowBecomes DEF Sound
    <1> QED BY <1>1, <1>2, <1>3, <1>4, <1>5, <1>6, <1>7, <1>8 DEF JobStep

\* A completion's step leaves the others, and the chains, alone.
LEMMA JobStepKeeps ==
    ASSUME AttestationInv, NEW p \in Payments, JobStep(p)
    PROVE  AttestationInv' /\ (WaitingIsEnough => WaitingIsEnough')
    <1>1. PICK j : TurnsInto(p, j) /\ Sound(p, j)
        BY StepBecomes
    <1>2. UNCHANGED <<ledger, paidIn, now, final>> /\ job' = [job EXCEPT ![p] = j] /\ j \in Job
        BY <1>1 DEF TurnsInto
    <1>3. job \in [Payments -> Job]
        BY DEF AttestationInv, AttestationTypeOK
    <1>4. job' \in [Payments -> Job]
        BY <1>2, <1>3
    <1>5. job'[p] = j /\ \A q \in Payments \ {p} : job'[q] = job[q]
        BY <1>2, <1>3
    <1>6. AttestationTypeOK'
        BY <1>2, <1>4 DEF AttestationInv, AttestationTypeOK
    <1>7. WaitedForBurial'
        BY <1>1, <1>2, <1>5 DEF AttestationInv, WaitedForBurial, Sound, Buried
    <1>8. FlareIsPrompt'
        BY <1>2 DEF AttestationInv, FlareIsPrompt, Rounds, RoundEnd
    <1>9. ASSUME NEW q \in Payments PROVE (AskedAt(q) /\ AttemptsTakeTime(q))'
        <2>1. Punctual(job'[q], now)
            BY <1>1, <1>5, PunctualJob DEF AttestationInv, Sound
        <2> QED BY <1>2, <2>1 DEF AskedAt, AttemptsTakeTime, Punctual, VotingRound
    <1>10. WaitingIsEnough => WaitingIsEnough'
        BY <1>1, <1>5 DEF WaitingIsEnough, Sound
    <1> QED BY <1>6, <1>7, <1>8, <1>9, <1>10 DEF AttestationInv

LEMMA PayKeeps ==
    ASSUME AttestationInv, NEW p \in Payments, Pay(p)
    PROVE  AttestationInv'
    <1>1. /\ UNCHANGED <<ledger, now, final, job>>
          /\ paidIn[p] = 0 /\ paidIn' = [paidIn EXCEPT ![p] = ledger]
        BY DEF Pay
    <1>2. AttestationTypeOK'
        BY <1>1 DEF AttestationInv, AttestationTypeOK
    <1>3. job[p].pc = "idle" /\ \A q \in Payments \ {p} : paidIn'[q] = paidIn[q]
        BY <1>1 DEF AttestationInv, AttestationTypeOK, WaitedForBurial
    <1>4. WaitedForBurial'
        BY <1>1, <1>3 DEF AttestationInv, WaitedForBurial, Buried
    <1>5. FlareIsPrompt'
        BY <1>1 DEF AttestationInv, FlareIsPrompt, Rounds, RoundEnd
    <1>6. \A q \in Payments : (AskedAt(q) /\ AttemptsTakeTime(q))'
        BY <1>1 DEF AttestationInv, AskedAt, AttemptsTakeTime, VotingRound
    <1> QED BY <1>2, <1>4, <1>5, <1>6 DEF AttestationInv

LEMMA CloseLedgerKeeps ==
    ASSUME AttestationInv, CloseLedger
    PROVE  AttestationInv'
    <1>1. UNCHANGED <<paidIn, now, final, job>> /\ ledger' = ledger + 1
        BY DEF CloseLedger
    <1>2. AttestationTypeOK'
        BY <1>1 DEF AttestationInv, AttestationTypeOK
    <1>3. \A q \in Payments : Buried(q) => Buried(q)'
        BY <1>1, AttestationAssumption DEF AttestationInv, AttestationTypeOK, Buried
    <1>4. WaitedForBurial'
        BY <1>1, <1>3 DEF AttestationInv, WaitedForBurial
    <1>5. FlareIsPrompt'
        BY <1>1 DEF AttestationInv, FlareIsPrompt, Rounds, RoundEnd
    <1>6. \A q \in Payments : (AskedAt(q) /\ AttemptsTakeTime(q))'
        BY <1>1 DEF AttestationInv, AskedAt, AttemptsTakeTime, VotingRound
    <1> QED BY <1>2, <1>4, <1>5, <1>6 DEF AttestationInv

LEMMA FinalizeKeeps ==
    ASSUME AttestationInv, NEW k \in Rounds, Finalize(k)
    PROVE  AttestationInv'
    <1>1. UNCHANGED <<ledger, paidIn, now, job>> /\ final' = final \cup {k}
        BY DEF Finalize
    <1>2. AttestationTypeOK'
        BY <1>1 DEF AttestationInv, AttestationTypeOK, Rounds
    <1>3. WaitedForBurial'
        BY <1>1 DEF AttestationInv, WaitedForBurial, Buried
    <1>4. FlareIsPrompt'
        BY <1>1 DEF AttestationInv, FlareIsPrompt, Rounds, RoundEnd
    <1>5. \A q \in Payments : (AskedAt(q) /\ AttemptsTakeTime(q))'
        BY <1>1 DEF AttestationInv, AskedAt, AttemptsTakeTime, VotingRound
    <1> QED BY <1>2, <1>3, <1>4, <1>5 DEF AttestationInv

\* A job that is in time stays so.
LEMMA PunctualLater ==
    ASSUME NEW j \in Job, NEW t \in Nat, Punctual(j, t)
    PROVE  Punctual(j, t + 1)
    <1>1. j.minedAt \in Nat /\ j.next \in Nat /\ FirstRound \in Nat
        BY AttestationAssumption DEF Job
    <1>2. j.minedAt \in FirstRound..t => j.minedAt \in FirstRound..(t + 1)
        BY <1>1
    <1>3. j.next <= t + 1 => j.next <= t + 1 + 1
        BY <1>1
    <1> QED BY <1>2, <1>3 DEF Punctual

LEMMA TickKeeps ==
    ASSUME AttestationInv, Tick
    PROVE  AttestationInv'
    <1>1. UNCHANGED <<ledger, paidIn, final, job>> /\ now' = now + 1 /\ now < MaxTime
        BY DEF Tick
    <1>2. now \in Nat /\ FirstRound \in Nat /\ Epoch \in Nat /\ FinalWithin \in Nat /\ MaxTime \in Nat
        BY AttestationAssumption DEF AttestationInv, AttestationTypeOK
    <1>3. AttestationTypeOK'
        <2>1. now' \in FirstRound..MaxTime
            BY <1>1, <1>2 DEF AttestationInv, AttestationTypeOK
        <2> QED BY <1>1, <2>1 DEF AttestationInv, AttestationTypeOK
    <1>4. WaitedForBurial'
        BY <1>1 DEF AttestationInv, WaitedForBurial, Buried
    <1>5. FlareIsPrompt'
        <2> SUFFICES ASSUME NEW k \in Rounds, RoundEnd(k) + FinalWithin < now + 1
                     PROVE  k \in final
            BY <1>1 DEF FlareIsPrompt, Rounds, RoundEnd
        <2>1. k \in Nat
            BY DEF Rounds
        <2>2. (k + 1) * Epoch \in Nat
            BY <1>2, <2>1
        <2>3. RoundEnd(k) + FinalWithin <= now
            BY <1>2, <2>2 DEF RoundEnd
        <2> QED BY <2>3 DEF Tick
    <1>6. ASSUME NEW q \in Payments PROVE (AskedAt(q) /\ AttemptsTakeTime(q))'
        <2>1. job[q] \in Job /\ Punctual(job[q], now)
            BY PunctualJob DEF AttestationInv, AttestationTypeOK
        <2>2. Punctual(job[q], now + 1)
            BY <1>2, <2>1, PunctualLater
        <2> QED BY <1>1, <2>2 DEF AskedAt, AttemptsTakeTime, Punctual, VotingRound
    <1> QED BY <1>3, <1>4, <1>5, <1>6 DEF AttestationInv

LEMMA InvariantIsInductive ==
    AttestationInv /\ [Next]_vars => AttestationInv' /\ (WaitingIsEnough => WaitingIsEnough')
    <1> SUFFICES ASSUME AttestationInv, [Next]_vars
                 PROVE  AttestationInv' /\ (WaitingIsEnough => WaitingIsEnough')
        OBVIOUS
    <1>1. CASE \E p \in Payments : JobStep(p)
        BY <1>1, JobStepKeeps
    <1>2. CASE \E p \in Payments : Pay(p)
        BY <1>2, PayKeeps DEF Pay, WaitingIsEnough
    <1>3. CASE CloseLedger
        BY <1>3, CloseLedgerKeeps DEF CloseLedger, WaitingIsEnough
    <1>4. CASE Tick
        BY <1>4, TickKeeps DEF Tick, WaitingIsEnough
    <1>5. CASE \E k \in Rounds : Finalize(k)
        BY <1>5, FinalizeKeeps DEF Finalize, WaitingIsEnough
    <1>6. CASE UNCHANGED vars
        <2>1. UNCHANGED <<ledger, paidIn, now, final, job>>
            BY <1>6 DEF vars
        <2> QED BY <2>1 DEF AttestationInv, AttestationTypeOK, WaitedForBurial, Buried,
                            FlareIsPrompt, Rounds, RoundEnd, AskedAt, AttemptsTakeTime,
                            VotingRound, WaitingIsEnough
    <1> QED BY <1>1, <1>2, <1>3, <1>4, <1>5, <1>6 DEF Next, JobStep

(***************************************************************************)
(* The theorems                                                            *)
(***************************************************************************)

\* The inductive invariant of Attestation.tla: who waited has a payment that is
\* buried, each round is final in time, and the polls of fetchXrpPaymentProof that no
\* outage excuses were made at different times before their round was final.
THEOREM AttestationInvariant == Spec => []AttestationInv
    <1>1. AttestationInv /\ [Next]_vars => AttestationInv'
        BY InvariantIsInductive
    <1> QED BY <1>1, InitEstablishes, PTL DEF Spec

\* createRule.ts:402: with any number of confirmations, a completion that waited
\* for them is never refused by a verifier that wants as many.
THEOREM WaitingSuffices == Spec => []WaitingIsEnough
    <1>1. Init => WaitingIsEnough
        BY DEF Init, NewJob, WaitingIsEnough
    <1>2. AttestationInv /\ WaitingIsEnough /\ [Next]_vars => WaitingIsEnough'
        BY InvariantIsInductive
    <1> QED BY <1>1, <1>2, AttestationInvariant, PTL DEF Spec

\* createRule.ts:399: the round that is polled contains the block of the
\* request, wherever the epochs start and however long they are.
THEOREM RoundIsPolled == Spec => []PollsItsRound
    <1>1. AttestationInv => PollsItsRound
        <2> SUFFICES ASSUME AttestationInv, NEW p \in Payments, job[p].pc \in Asked
                     PROVE  /\ job[p].minedAt < RoundEnd(job[p].round)
                            /\ RoundEnd(job[p].round) <= job[p].minedAt + Epoch
            BY DEF PollsItsRound
        <2>1. job[p].minedAt \in FirstRound..now /\ job[p].round = VotingRound(job[p].minedAt)
            BY DEF AttestationInv, AskedAt
        <2>2. job[p].minedAt \in Nat /\ FirstRound <= job[p].minedAt
            BY <2>1, AttestationAssumption
        <2> QED BY <2>1, <2>2, RoundContains
    <1> QED BY <1>1, AttestationInvariant, PTL

\* createRule.ts:491-516: with more attempts than an epoch, the delay of a round
\* and the outages take together, no completion gives up on a proof.
THEOREM AttemptsSuffice == Spec => []OutlastsTheRound
    <1>1. AttestationInv => OutlastsTheRound
        <2> SUFFICES ASSUME AttestationInv, Epoch + FinalWithin + Outages < Attempts,
                            NEW p \in Payments, job[p].pc = "timedOut"
                     PROVE  FALSE
            BY DEF OutlastsTheRound
        <2>1. job[p].attempts = Attempts /\ job[p].attempts - job[p].outages <= Epoch + FinalWithin
            BY DEF AttestationInv, AttemptsTakeTime
        <2>2. job[p].outages \in 0..Outages
            BY DEF AttestationInv, AttestationTypeOK, Job
        <2> QED BY <2>1, <2>2, AttestationAssumption
    <1> QED BY <1>1, AttestationInvariant, PTL

(***************************************************************************)
(* The first version of the operator (LegacyPayment)                       *)
(***************************************************************************)

LEMMA WholeQuotient ==
    ASSUME NEW n \in Int, NEW d \in Nat \ {0}
    PROVE  n \div d \in Int
    BY Z3

\* A call becomes r, in a step of its own.
LEMMA HandlerBecomes ==
    ASSUME LegacyInv, NEW h \in Handlers, NEW r \in Handler, Becomes(h, r),
           UNCHANGED <<vars, fdc, onRelay>>, WaitsFor(r),
           \/ r.pc # "notFinal"
           \/ r.round > VotingRound(r.minedAt)
           \/ ~(Epoch + FinalWithin + AnswerWithin <= Timeout)
    PROVE  LegacyInv'
    <1>1. /\ handler \in [Handlers -> Handler] /\ handler' = [handler EXCEPT ![h] = r]
          /\ UNCHANGED <<ledger, paidIn, now, final, job>> /\ onRelay' = onRelay /\ fdc' = fdc
        BY DEF LegacyInv, Becomes, vars
    <1>2. handler' \in [Handlers -> Handler]
        BY <1>1
    <1>3. handler'[h] = r /\ \A g \in Handlers : g # h => handler'[g] = handler[g]
        BY <1>1
    <1>4. AttestationInv'
        BY <1>1 DEF LegacyInv, AttestationInv, AttestationTypeOK, WaitedForBurial, Buried,
                    FlareIsPrompt, Rounds, RoundEnd, AskedAt, AttemptsTakeTime, VotingRound
    <1>5. ASSUME NEW g \in Handlers PROVE WaitsFor(handler[g])'
        <2>1. WaitsFor(handler'[g])
            BY <1>3 DEF LegacyInv
        <2> QED BY <1>1, <2>1 DEF WaitsFor, VotingRound
    <1>6. WaitOutlastsTheRound'
        BY <1>3 DEF LegacyInv, WaitOutlastsTheRound, At, VotingRound
    <1> QED BY <1>1, <1>2, <1>4, <1>5, <1>6 DEF LegacyInv, Handler

LEMMA HandlerFields ==
    ASSUME NEW r \in Handler, NEW x \in Over \cup Busy
    PROVE  /\ [r EXCEPT !.pc = x] \in Handler
           /\ [r EXCEPT !.pc = x].pc = x
           /\ [r EXCEPT !.pc = x].minedAt = r.minedAt
           /\ [r EXCEPT !.pc = x].round = r.round
    BY DEF Handler

\* A call that has asked.
Questioning(r, t, b) == [r EXCEPT !.pc = "asked", !.askedAt = t, !.answer = b]

LEMMA QuestionFields ==
    ASSUME NEW r \in Handler, NEW t \in Nat, NEW b \in BOOLEAN
    PROVE  LET n == Questioning(r, t, b)
           IN  /\ n \in Handler
               /\ n.pc = "asked" /\ n.askedAt = t /\ n.answer = b
               /\ n.minedAt = r.minedAt /\ n.round = r.round /\ n.deadline = r.deadline
    <1>1. "asked" \in Over \cup Busy
        BY DEF Busy
    <1> QED BY <1>1 DEF Handler, Questioning

\* Steps that only move a call on, to where it waits for nothing.
LEMMA HandlerMoves ==
    ASSUME LegacyInv, NEW h \in Handlers, NEW x \in Over \cup Busy, Now(h, x),
           UNCHANGED <<vars, fdc, onRelay>>, x \notin {"mined", "wait", "asked"},
           \/ x # "notFinal"
           \/ handler[h].round > VotingRound(handler[h].minedAt)
           \/ ~(Epoch + FinalWithin + AnswerWithin <= Timeout)
    PROVE  LegacyInv'
    <1> DEFINE r == [handler[h] EXCEPT !.pc = x]
    <1>1. handler[h] \in Handler
        BY DEF LegacyInv
    <1>2. /\ r \in Handler /\ r.pc = x
          /\ r.minedAt = handler[h].minedAt /\ r.round = handler[h].round
        BY <1>1, HandlerFields
    <1>3. Becomes(h, r)
        BY DEF Now
    <1> HIDE DEF r
    <1>4. WaitsFor(r)
        BY <1>2 DEF WaitsFor
    <1> QED BY <1>2, <1>3, <1>4, HandlerBecomes

\* A question whose answer is no, about a round no later than the request's, was
\* asked before Flare had to be done with it.
LEMMA AskedInTime ==
    ASSUME LegacyInv, NEW r \in Handler, r.minedAt \in FirstRound..now,
           r.round >= 0, r.round \notin onRelay, r.round <= VotingRound(r.minedAt)
    PROVE  now <= r.minedAt + Epoch + FinalWithin
    <1>1. r.round \in Nat
        BY DEF Handler
    <1>2. r.round \notin final /\ AttestationTypeOK /\ FlareIsPrompt
        BY DEF LegacyInv, AttestationInv
    <1> QED BY <1>1, <1>2, NotFinalYet

\* A wait that is long enough is given up for a round after the request's only.
LEMMA GivesUpLate ==
    ASSUME LegacyInv, NEW h \in Handlers, At(h, "asked"), ~handler[h].answer, TooLate(h)
    PROVE  \/ handler[h].round > VotingRound(handler[h].minedAt)
           \/ ~(Epoch + FinalWithin + AnswerWithin <= Timeout)
    <1> DEFINE r == handler[h]
    <1>1. r \in Handler /\ WaitsFor(r) /\ r.pc = "asked" /\ ~r.answer
        BY DEF LegacyInv, At
    <1>2. /\ r.minedAt \in FirstRound..now /\ r.minedAt + Timeout <= r.deadline
          /\ now <= r.askedAt + AnswerWithin
          /\ r.round <= VotingRound(r.minedAt) => r.askedAt <= r.minedAt + Epoch + FinalWithin
        BY <1>1 DEF WaitsFor
    <1>3. now > r.deadline
        BY DEF TooLate
    <1>4. /\ r.deadline \in Nat /\ r.minedAt \in Nat /\ r.askedAt \in Nat /\ r.round \in Int
          /\ FirstRound \in Nat /\ now \in Nat /\ Timeout \in Nat /\ AnswerWithin \in Nat
          /\ Epoch \in Nat /\ FinalWithin \in Nat
        BY <1>1, AttestationAssumption, LegacyAssumption
           DEF Handler, LegacyInv, AttestationInv, AttestationTypeOK
    <1>5. VotingRound(r.minedAt) \in Nat
        <2> HIDE DEF r
        <2> QED BY <1>2, <1>4, RoundContains
    <1>6. r.round > VotingRound(r.minedAt) \/ ~(Epoch + FinalWithin + AnswerWithin <= Timeout)
        <2> HIDE DEF r
        <2> QED BY <1>2, <1>3, <1>4, <1>5
    <1> QED BY <1>6

LEMMA HandlerKeeps ==
    ASSUME LegacyInv, NEW h \in Handlers,
           \/ \E p \in Payments : Deliver(h, p)
           \/ CheckUsed(h) \/ PrepareXrpPaymentRequest(h) \/ RequestAttestation(h)
           \/ StartWaiting(h) \/ AskRelay(h) \/ RelayAnswers(h) \/ FetchProof(h)
           \/ SubmitInstruction(h) \/ InstructionMined(h) \/ HandlerThrows(h)
    PROVE  LegacyInv'
    <1> DEFINE r == handler[h]
    <1>1. /\ r \in Handler /\ WaitsFor(r)
          /\ AttestationInv /\ now \in Nat /\ now \in FirstRound..now /\ FirstRound \in Nat
        BY AttestationAssumption DEF LegacyInv, AttestationInv, AttestationTypeOK
    <1>2. OnlyHandler => UNCHANGED <<vars, fdc, onRelay>>
        BY DEF OnlyHandler
    <1>3. ASSUME NEW p \in Payments, Deliver(h, p) PROVE LegacyInv'
        <2> DEFINE n == [Unused EXCEPT !.pc = "check", !.payment = p]
        <2>1. n \in Handler /\ n.pc = "check"
            <3>1. Unused \in Handler
                BY DEF Unused, Handler, Over
            <3>2. "check" \in Over \cup Busy
                BY DEF Busy
            <3> QED BY <3>1, <3>2 DEF Handler
        <2>2. Becomes(h, n) /\ OnlyHandler
            BY <1>3 DEF Deliver
        <2> HIDE DEF n
        <2>3. WaitsFor(n)
            BY <2>1 DEF WaitsFor
        <2> QED BY <1>2, <2>1, <2>2, <2>3, HandlerBecomes
    <1>4. CASE CheckUsed(h)
        <2> DEFINE x == IF PaymentOf(h) \in used THEN "skipped" ELSE "prepare"
        <2>1. Now(h, x) /\ OnlyHandler
            BY <1>4 DEF CheckUsed
        <2>2. x \in Over \cup Busy /\ x \notin {"mined", "wait", "asked", "notFinal"}
            BY DEF Over, Busy
        <2> HIDE DEF x
        <2> QED BY <1>2, <2>1, <2>2, HandlerMoves
    <1>5. CASE PrepareXrpPaymentRequest(h)
        <2> DEFINE x == IF Buried(PaymentOf(h)) THEN "request" ELSE "threw"
        <2>1. Now(h, x) /\ OnlyHandler
            BY <1>5 DEF PrepareXrpPaymentRequest
        <2>2. x \in Over \cup Busy /\ x \notin {"mined", "wait", "asked", "notFinal"}
            BY DEF Over, Busy
        <2> HIDE DEF x
        <2> QED BY <1>2, <2>1, <2>2, HandlerMoves
    <1>6. CASE RequestAttestation(h)
        <2> DEFINE n == [r EXCEPT !.pc = "mined", !.minedAt = now, !.round = ConfiguredRound(now)]
        <2>1. Becomes(h, n) /\ OnlyHandler
            BY <1>6 DEF RequestAttestation
        <2>2. ConfiguredRound(now) \in Int
            <3>1. fdc.start \in Int /\ fdc.epoch \in Nat \ {0}
                BY LegacyAssumption DEF LegacyInv
            <3>2. now - fdc.start \in Int
                BY <1>1, <3>1
            <3> QED BY <3>1, <3>2, WholeQuotient DEF ConfiguredRound
        <2>3. n \in Handler /\ n.pc = "mined" /\ n.minedAt = now
            BY <1>1, <2>2 DEF Handler, Busy
        <2> HIDE DEF n
        <2>4. WaitsFor(n)
            BY <1>1, <2>3 DEF WaitsFor
        <2> QED BY <1>2, <2>1, <2>3, <2>4, HandlerBecomes
    <1>7. CASE StartWaiting(h)
        <2> DEFINE n == [r EXCEPT !.pc = "wait", !.deadline = now + Timeout, !.next = now]
        <2>1. Becomes(h, n) /\ OnlyHandler /\ r.pc = "mined"
            BY <1>7 DEF StartWaiting, At
        <2>2. /\ n \in Handler /\ n.pc = "wait"
              /\ n.minedAt = r.minedAt /\ n.deadline = now + Timeout
            <3>1. now + Timeout \in Nat /\ "wait" \in Over \cup Busy
                BY <1>1, LegacyAssumption DEF Busy
            <3> HIDE DEF r
            <3> QED BY <1>1, <3>1 DEF Handler
        <2>3. r.minedAt \in FirstRound..now
            BY <1>1, <2>1 DEF WaitsFor
        <2>4. r.minedAt + Timeout <= now + Timeout
            BY <1>1, <2>3, LegacyAssumption
        <2> HIDE DEF n
        <2>5. WaitsFor(n)
            BY <2>2, <2>3, <2>4 DEF WaitsFor
        <2> QED BY <1>2, <2>1, <2>2, <2>5, HandlerBecomes
    <1>8. CASE AskRelay(h)
        <2> DEFINE n == [r EXCEPT !.pc = "asked", !.askedAt = now, !.answer = r.round \in onRelay]
        <2>1. Becomes(h, n) /\ OnlyHandler /\ r.pc = "wait" /\ r.round >= 0
            BY <1>8 DEF AskRelay, At
        <2>2. /\ n \in Handler /\ n.pc = "asked" /\ n.minedAt = r.minedAt
              /\ n.round = r.round /\ n.deadline = r.deadline
              /\ n.askedAt = now /\ n.answer = (r.round \in onRelay)
            <3> DEFINE b == r.round \in onRelay
            <3>1. b \in BOOLEAN /\ n = Questioning(r, now, b)
                BY DEF Questioning
            <3>2. r \in Handler /\ now \in Nat
                BY <1>1
            <3> HIDE DEF r, n, b
            <3>3. /\ n \in Handler /\ n.pc = "asked" /\ n.askedAt = now /\ n.answer = b
                  /\ n.minedAt = r.minedAt /\ n.round = r.round /\ n.deadline = r.deadline
                BY <3>1, <3>2, QuestionFields
            <3> QED BY Zenon, <3>3 DEF b
        <2>3. r.minedAt \in FirstRound..now /\ r.minedAt + Timeout <= r.deadline
            BY <1>1, <2>1 DEF WaitsFor
        <2>4. ASSUME r.round \notin onRelay, r.round <= VotingRound(r.minedAt)
              PROVE  now <= r.minedAt + Epoch + FinalWithin
            <3> HIDE DEF r
            <3> QED BY <1>1, <2>1, <2>3, <2>4, AskedInTime
        <2>5. now <= now + AnswerWithin
            BY <1>1, LegacyAssumption
        <2> HIDE DEF n
        <2>6. WaitsFor(n)
            <3> HIDE DEF r
            <3> QED BY <2>2, <2>3, <2>4, <2>5 DEF WaitsFor
        <2> QED BY <1>2, <2>1, <2>2, <2>6, HandlerBecomes
    <1>9. CASE RelayAnswers(h)
        <2>1. r.pc = "asked" /\ OnlyHandler
            BY <1>9 DEF RelayAnswers, At
        <2>2. CASE Now(h, "fetch")
            BY <1>2, <2>1, <2>2, HandlerMoves DEF Busy
        <2>3. CASE ~r.answer /\ TooLate(h) /\ Now(h, "notFinal")
            <3>1. \/ r.round > VotingRound(r.minedAt)
                  \/ ~(Epoch + FinalWithin + AnswerWithin <= Timeout)
                BY <2>1, <2>3, GivesUpLate DEF At
            <3>2. "notFinal" \in Over \cup Busy /\ "notFinal" \notin {"mined", "wait", "asked"}
                BY DEF Over
            <3> QED BY <1>2, <2>1, <2>3, <3>1, <3>2, HandlerMoves
        <2>4. CASE Becomes(h, [r EXCEPT !.pc = "wait", !.next = now + 1])
            <3> DEFINE n == [r EXCEPT !.pc = "wait", !.next = now + 1]
            <3>1. /\ n \in Handler /\ n.pc = "wait"
                  /\ n.minedAt = r.minedAt /\ n.deadline = r.deadline
                <4>1. now + 1 \in Nat /\ "wait" \in Over \cup Busy
                    BY <1>1 DEF Busy
                <4> HIDE DEF r
                <4> QED BY <1>1, <4>1 DEF Handler
            <3>2. Becomes(h, n)
                BY <2>4
            <3> HIDE DEF n
            <3>3. WaitsFor(n)
                BY <1>1, <2>1, <3>1 DEF WaitsFor
            <3> QED BY <1>2, <2>1, <3>1, <3>2, <3>3, HandlerBecomes
        <2> QED BY <1>9, <2>2, <2>3, <2>4 DEF RelayAnswers
    <1>10. CASE FetchProof(h)
        <2> DEFINE x == IF r.round \in final /\ r.round = VotingRound(r.minedAt)
                        THEN "submit" ELSE "threw"
        <2>1. Now(h, x) /\ OnlyHandler
            BY <1>10 DEF FetchProof
        <2>2. x \in Over \cup Busy /\ x \notin {"mined", "wait", "asked", "notFinal"}
            BY DEF Over, Busy
        <2> HIDE DEF x
        <2> QED BY <1>2, <2>1, <2>2, HandlerMoves
    <1>11. CASE SubmitInstruction(h)
        <2> DEFINE x == IF PaymentOf(h) \in used THEN "threw" ELSE "sent"
        <2>1. Now(h, x) /\ OnlyHandler
            BY <1>11 DEF SubmitInstruction
        <2>2. x \in Over \cup Busy /\ x \notin {"mined", "wait", "asked", "notFinal"}
            BY DEF Over, Busy
        <2> HIDE DEF x
        <2> QED BY <1>2, <2>1, <2>2, HandlerMoves
    <1>12. CASE InstructionMined(h)
        <2>1. Now(h, "done") /\ UNCHANGED <<vars, fdc, onRelay>>
            BY <1>12 DEF InstructionMined
        <2>2. "done" \in Over \cup Busy
            BY DEF Over
        <2> QED BY <2>1, <2>2, HandlerMoves
    <1>13. CASE HandlerThrows(h)
        <2>1. Now(h, "threw") /\ OnlyHandler
            BY <1>13 DEF HandlerThrows
        <2> QED BY <1>2, <2>1, HandlerMoves DEF Over
    <1> QED BY <1>3, <1>4, <1>5, <1>6, <1>7, <1>8, <1>9, <1>10, <1>11, <1>12, <1>13

\* Steps of the chains, and of everybody else.
LEMMA WorldKeeps ==
    ASSUME LegacyInv, [Next]_vars, final' \subseteq onRelay', fdc' = fdc,
           handler' = handler, AnswersArrive(now')
    PROVE  LegacyInv'
    <1>1. AttestationInv'
        BY InvariantIsInductive DEF LegacyInv
    <1>2. now \in Int /\ now' \in Int /\ now <= now'
        <2>1. now \in Int
            BY AttestationAssumption DEF LegacyInv, AttestationInv, AttestationTypeOK
        <2>2. now' = now \/ now' = now + 1
            BY DEF Next, vars, Start, Confirm, Prepare, Request, ComputeRound, PollFinds,
                   PollMisses, Throw, Pay, CloseLedger, Finalize, Tick
        <2> QED BY <2>1, <2>2
    <1>3. ASSUME NEW h \in Handlers PROVE WaitsFor(handler[h])'
        <2>1. WaitsFor(handler[h])
            BY DEF LegacyInv
        <2>2. \A t \in FirstRound..now : t \in FirstRound..now'
            BY <1>2, AttestationAssumption
        <2>3. handler[h].pc = "asked" => now' <= handler[h].askedAt + AnswerWithin
            BY DEF AnswersArrive, At
        <2> QED BY <2>1, <2>2, <2>3 DEF WaitsFor, VotingRound
    <1>4. handler' \in [Handlers -> Handler']
        BY DEF LegacyInv, Handler
    <1>5. WaitOutlastsTheRound'
        BY DEF LegacyInv, WaitOutlastsTheRound, At, VotingRound
    <1> QED BY <1>1, <1>3, <1>4, <1>5 DEF LegacyInv

\* No answer is overdue.
LEMMA NoneOverdue == LegacyInv => AnswersArrive(now)
    BY DEF LegacyInv, WaitsFor, AnswersArrive, At

LEMMA LegacyInitEstablishes == LegacyInit => LegacyInv
    <1> SUFFICES ASSUME LegacyInit PROVE LegacyInv
        OBVIOUS
    <1>1. AttestationInv
        BY InitEstablishes DEF LegacyInit
    <1>2. final \subseteq onRelay /\ fdc \in [start: Starts, epoch: Epochs]
        BY DEF LegacyInit, Init
    <1>3. Unused \in Handler
        BY DEF Unused, Handler, Over
    <1>4. Unused.pc = "idle" /\ \A h \in Handlers : handler[h] = Unused
        BY DEF LegacyInit, Unused
    <1>5. handler \in [Handlers -> Handler]
        BY <1>3 DEF LegacyInit
    <1>6. \A h \in Handlers : WaitsFor(handler[h])
        BY <1>4 DEF WaitsFor
    <1>7. WaitOutlastsTheRound
        BY <1>4 DEF WaitOutlastsTheRound, At
    <1> QED BY <1>1, <1>2, <1>5, <1>6, <1>7 DEF LegacyInv

LEMMA LegacyIsInductive == LegacyInv /\ [LegacyNext]_legacyVars => LegacyInv'
    <1> SUFFICES ASSUME LegacyInv, [LegacyNext]_legacyVars PROVE LegacyInv'
        OBVIOUS
    <1>0. final \subseteq onRelay /\ AnswersArrive(now)
        BY NoneOverdue DEF LegacyInv
    <1>1. CASE \E h \in Handlers :
                  \/ \E p \in Payments : Deliver(h, p)
                  \/ CheckUsed(h) \/ PrepareXrpPaymentRequest(h) \/ RequestAttestation(h)
                  \/ StartWaiting(h) \/ AskRelay(h) \/ RelayAnswers(h) \/ FetchProof(h)
                  \/ SubmitInstruction(h) \/ InstructionMined(h) \/ HandlerThrows(h)
        BY <1>1, HandlerKeeps
    <1>2. CASE \E k \in Rounds : Relay(k)
        <2>1. /\ UNCHANGED vars /\ now' = now /\ handler' = handler /\ fdc' = fdc
              /\ final' \subseteq onRelay'
            BY <1>0, <1>2 DEF Relay, vars
        <2> QED BY <1>0, <2>1, WorldKeeps
    <1>3. CASE \E p \in Payments : ExecutedElsewhere(p)
        <2>1. /\ UNCHANGED vars /\ now' = now /\ handler' = handler /\ fdc' = fdc
              /\ final' \subseteq onRelay'
            BY <1>0, <1>3 DEF ExecutedElsewhere, vars
        <2> QED BY <1>0, <2>1, WorldKeeps
    <1>4. CASE Next /\ final' \subseteq onRelay /\ AnswersArrive(now') /\ UNCHANGED handlerVars
        BY <1>4, WorldKeeps DEF handlerVars
    <1>5. CASE UNCHANGED legacyVars
        <2>1. /\ UNCHANGED vars /\ now' = now /\ handler' = handler /\ fdc' = fdc
              /\ final' \subseteq onRelay'
            BY <1>0, <1>5 DEF legacyVars, handlerVars, vars
        <2> QED BY <1>0, <2>1, WorldKeeps
    <1> QED BY <1>1, <1>2, <1>3, <1>4, <1>5 DEF LegacyNext

\* The inductive invariant of LegacyPayment.tla: for any configuration, a no of the
\* Relay for a round no later than the request's was given before Flare had to be
\* done, and reaches a handler whose wait began after the request was mined.
THEOREM LegacyInvariant == LegacySpec => []LegacyInv
    BY LegacyInitEstablishes, LegacyIsInductive, PTL DEF LegacySpec

\* fdc.ts:171-199: whatever the configured start and epoch, Flare's own, its delay,
\* the delay of the answers and the timeout: a wait as long as Flare's epoch and the
\* two delays together is given up only for a round after the request's.
THEOREM WaitsLongEnough == LegacySpec => []WaitOutlastsTheRound
    <1>1. LegacyInv => WaitOutlastsTheRound
        BY DEF LegacyInv
    <1> QED BY <1>1, LegacyInvariant, PTL
=============================================================================
