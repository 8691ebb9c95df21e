------------------------------ MODULE Operator ------------------------------
(***************************************************************************)
(* The operator (apps/operator/src/index.ts, store.ts, server.ts): it is   *)
(* handed instructions over HTTP, watches the payments that commit to      *)
(* them by their hash, and completes each such payment on Flare.           *)
(*                                                                         *)
(* HTTP requests, ledger events and the steps between two awaits of a      *)
(* completion interleave; what happens between two awaits is atomic.  The  *)
(* store is a file that every change rewrites.  Payments come from the     *)
(* XRPL and mints happen on Flare whether the operator is up or not.       *)
(*                                                                         *)
(* Disturbances: "restart", "torn" (a restart in the middle of a write),   *)
(* "disconnect" (events lost), "faults" (any call may fail), "delay" (a    *)
(* mint is rate limited), "byhand" (someone else completes a payment).     *)
(***************************************************************************)
EXTENDS Integers, SequencesExt, FiniteSetsExt, Lists

CONSTANTS
    Payments,      \* payments to the direct-minting address
    Hashes,        \* userOpHash values
    Commits,       \* payment |-> the hashes its memo may commit to
    None,          \* not paid yet
    Ours,          \* the hashes of instructions this operator may be handed
    NonceOf,       \* hash |-> the account nonce the instruction is bound to
    OrphanTTL,     \* ORPHAN_TTL_MS
    OrphanMax,     \* ORPHAN_MAX
    MaxClock,      \* bound: the clock
    MaxRestarts,   \* bound: crashes
    Disturbances   \* what else happens

ASSUME OperatorAssumption ==
    /\ Commits \in [Payments -> SUBSET Hashes] /\ Ours \subseteq Hashes
    /\ None \notin Hashes
    /\ NonceOf \in [Ours -> Nat]
    /\ OrphanTTL \in Nat /\ OrphanMax \in Nat \ {0}
    /\ MaxClock \in Nat /\ MaxRestarts \in Nat
    /\ Disturbances \subseteq {"restart", "torn", "disconnect", "faults", "delay", "byhand"}

VARIABLES
    phase,     \* "down", "starting" (HTTP only, wiring is null), "ready"
    mem,       \* the InstructionStore in memory
    disk,      \* instructions.json
    stream,    \* ledger events not handled yet
    task,      \* payment |-> where its completion stands in this process
    paid,      \* the XRPL: payment |-> the hash its memo commits to
    tx,        \* payment |-> our Flare transaction for it
    used,      \* isTransactionIdUsed
    opNonce,   \* getNonce of the account
    clock,     \* Date.now()
    restarts,  \* crashes so far
    submits,   \* history: payment |-> transactions sent for it
    lost       \* history: payments whose completion was begun and cut short

process == <<phase, mem, disk, stream, task>>
flare   == <<tx, used, opNonce>>
vars    == <<process, paid, flare, clock, restarts, submits, lost>>

EmptyStore == [stored |-> {}, done |-> {}, orphans |-> <<>>]

Init ==
    /\ phase = "down"
    /\ mem = EmptyStore /\ disk = EmptyStore
    /\ stream = <<>>
    /\ task = [p \in Payments |-> "none"]
    /\ paid = [p \in Payments |-> None] /\ used = {} /\ opNonce = 0
    /\ tx = [p \in Payments |-> "none"]
    /\ clock = 0 /\ restarts = 0
    /\ submits = [p \in Payments |-> 0]
    /\ lost = {}

-----------------------------------------------------------------------------
(* store.ts *)

OrphanOf(s, h) == {o \in ToSet(s.orphans) : o.hash = h}

Pending(s) == s.stored \ s.done

\* Bug: the store keeps the newest instruction only.
AddedAlone(s, h) == [s EXCEPT !.stored = {h}]

Added(s, h) == [s EXCEPT !.stored = @ \cup {h}]

Completed(s, h) == IF h \in s.stored THEN [s EXCEPT !.done = @ \cup {h}] ELSE s

\* Bug: the newest are trimmed.
PrunedNewest(orphans) == SubSeq(orphans, 1, Min({OrphanMax, Len(orphans)}))

\* pruneOrphans: what is too old goes, then the oldest above the ceiling.
\* Payments are held in the order they were seen.
Pruned(orphans) ==
    LET fresh == AtIndices(orphans, {i \in DOMAIN orphans :
                                        orphans[i].seenAt >= clock - OrphanTTL})
        n     == Len(fresh)
    IN  IF n <= OrphanMax THEN fresh ELSE SubSeq(fresh, n - OrphanMax + 1, n)

\* Bug: the ceiling is not applied.
RecordedUnbounded(s, h, p) ==
    IF OrphanOf(s, h) # {} THEN s
    ELSE [s EXCEPT !.orphans = Append(@, [hash |-> h, tx |-> p, seenAt |-> clock])]

\* recordOrphan: the first payment for a hash is the one held.
Recorded(s, h, p) ==
    IF OrphanOf(s, h) # {} THEN s
    ELSE [s EXCEPT !.orphans = Pruned(Append(@, [hash |-> h, tx |-> p, seenAt |-> clock]))]

Taken(s, hs) ==
    [s EXCEPT !.orphans = AtIndices(@, {i \in DOMAIN @ : @[i].hash \notin hs})]

\* Bug: takeOrphan forgets to persist.
DiskAfterTakeUnsaved(s, hs) == s

\* The file after takeOrphan for each of hs, from a store s that was saved or
\* is saved with it.
DiskAfterTake(s, hs) ==
    IF \E h \in hs : OrphanOf(s, h) # {} THEN Taken(s, hs) ELSE s

-----------------------------------------------------------------------------
(* The process *)

Up == phase # "down"

\* The payments held for one of hs.
Held(s, hs) == {o.tx : o \in {o \in ToSet(s.orphans) : o.hash \in hs}}

\* Bug: a completion displaces the ones that run.
BeginAlone(ps) == task' = [p \in Payments |-> IF p \in ps THEN "check" ELSE "none"]

\* complete(), up to its first await, for each of ps.
Begin(ps) == task' = [p \in Payments |-> IF p \in ps THEN "check" ELSE task[p]]

\* load(), and the server listens; wiring is null.
Boot ==
    /\ phase = "down"
    /\ phase' = "starting"
    /\ mem' = [disk EXCEPT !.orphans = Pruned(@)]
    /\ UNCHANGED <<disk, stream, task, paid, flare, clock, restarts, submits, lost>>

\* Bug: the sweep is left out.
SweptNothing == {}

\* What the sweep after startup calls completeHeld for.
Swept == Pending(mem)

\* The subscription is up: wiring is set and the sweep runs, at once.
Ready ==
    /\ phase = "starting"
    /\ phase' = "ready"
    /\ mem' = Taken(mem, Swept)
    /\ disk' = IF Held(mem, Swept) # {} THEN DiskAfterTake(mem, Swept) ELSE disk
    /\ Begin(Held(mem, Swept))
    /\ UNCHANGED <<stream, paid, flare, clock, restarts, submits, lost>>

\* POST /instructions with a valid body: add, then completeHeld, which does
\* nothing before wiring is set.  A refused body changes nothing.
Register(h) ==
    LET s  == Added(mem, h)
        hs == IF phase = "ready" THEN {h} ELSE {}
    IN  /\ Up
        /\ mem' = Taken(s, hs)
        /\ disk' = IF h \in mem.stored /\ Held(s, hs) = {} THEN disk ELSE DiskAfterTake(s, hs)
        /\ Begin(Held(s, hs))
        /\ UNCHANGED <<phase, stream, paid, flare, clock, restarts, submits, lost>>

\* The transaction handler, up to its first await.
Deliver ==
    LET p == Head(stream)
        h == paid[p]
    IN  /\ phase = "ready" /\ stream # <<>>
        /\ stream' = Tail(stream)
        /\ IF h \notin mem.stored
           THEN /\ mem' = Recorded(mem, h, p)
                /\ disk' = IF OrphanOf(mem, h) # {} THEN disk ELSE mem'
                /\ UNCHANGED task
           ELSE /\ IF h \in mem.done THEN UNCHANGED task ELSE Begin({p})
                /\ UNCHANGED <<mem, disk>>
        /\ UNCHANGED <<phase, paid, flare, clock, restarts, submits, lost>>

\* complete(), from one await to the next.
Goto(p, pc) == task' = [task EXCEPT ![p] = pc]

CheckUsed(p) ==
    /\ task[p] = "check"
    /\ Goto(p, IF p \in used THEN "none" ELSE "attest")
    /\ UNCHANGED <<phase, mem, disk, stream, paid, flare, clock, restarts, submits, lost>>

\* Three confirmations, the attestation and its proof.
FetchProof(p) ==
    /\ task[p] = "attest"
    /\ Goto(p, "submit")
    /\ UNCHANGED <<phase, mem, disk, stream, paid, flare, clock, restarts, submits, lost>>

\* executeDirectMintingWithData, called now, does not revert.
Accepted(p) == p \notin used /\ opNonce = NonceOf[paid[p]]

Submit(p) ==
    /\ task[p] = "submit" /\ Accepted(p)
    /\ Goto(p, "receipt")
    /\ tx' = [tx EXCEPT ![p] = "sent"]
    /\ submits' = [submits EXCEPT ![p] = @ + 1]
    /\ UNCHANGED <<phase, mem, disk, stream, paid, used, opNonce, clock, restarts, lost>>

\* It throws: an estimate or a receipt says reverted, or a call fails.  The
\* error is logged and nothing is kept to try again.
Throw(p) ==
    /\ \/ task[p] = "submit" /\ ~Accepted(p)
       \/ task[p] = "receipt" /\ tx[p] = "reverted"
       \/ task[p] # "none" /\ "faults" \in Disturbances
    /\ Goto(p, "none")
    /\ lost' = lost \cup {p}
    /\ UNCHANGED <<phase, mem, disk, stream, paid, flare, clock, restarts, submits>>

\* receipt.status is success: the mint went through, or it was delayed.
Succeeded(p) == tx[p] \in {"executed", "delayed"}

Complete(p) ==
    /\ task[p] = "receipt" /\ Succeeded(p)
    /\ Goto(p, "none")
    /\ mem' = Completed(mem, paid[p])
    /\ disk' = mem'
    /\ UNCHANGED <<phase, stream, paid, flare, clock, restarts, submits, lost>>

\* What the process may do next writes the file: an instruction is added, payments
\* held are taken, one is recorded, or a completion is marked.
MayWrite ==
    \/ Ours \ mem.stored # {}
    \/ phase = "starting" /\ Held(mem, Swept) # {}
    \/ phase = "ready" /\ Held(mem, Ours) # {}
    \/ phase = "ready" /\ stream # <<>> /\ LET h == paid[Head(stream)]
                                          IN  h \notin mem.stored /\ OrphanOf(mem, h) = {}
    \/ \E p \in Payments : task[p] = "receipt" /\ Succeeded(p) /\ paid[p] \in mem.stored

\* The process dies.  In the middle of writeFileSync, the file it leaves cannot
\* be parsed, and load() takes that for an empty one.
Crash ==
    /\ Up /\ restarts < MaxRestarts
    /\ \/ "restart" \in Disturbances /\ UNCHANGED disk
       \/ "torn" \in Disturbances /\ MayWrite /\ disk' = EmptyStore
    /\ phase' = "down"
    /\ mem' = EmptyStore
    /\ stream' = <<>>
    /\ task' = [p \in Payments |-> "none"]
    /\ restarts' = restarts + 1
    /\ lost' = lost \cup {p \in Payments : task[p] # "none"}
    /\ UNCHANGED <<paid, flare, clock, submits>>

-----------------------------------------------------------------------------
(* XRPL and Flare *)

\* A payment is validated; the operator hears of it if it is subscribed.
Pay(p, h) ==
    /\ paid[p] = None /\ h \in Commits[p]
    /\ paid' = [paid EXCEPT ![p] = h]
    /\ \/ phase = "ready" /\ stream' = Append(stream, p)
       \/ (phase # "ready" \/ "disconnect" \in Disturbances) /\ UNCHANGED stream
    /\ UNCHANGED <<phase, mem, disk, task, flare, clock, restarts, submits, lost>>

Executed(p) == used' = used \cup {p} /\ opNonce' = opNonce + 1

\* Our transaction is mined, whether or not anyone waits for it.
Mine(p) ==
    /\ tx[p] = "sent"
    /\ \/ Accepted(p) /\ Executed(p) /\ tx' = [tx EXCEPT ![p] = "executed"]
       \/ /\ Accepted(p) /\ "delay" \in Disturbances
          /\ tx' = [tx EXCEPT ![p] = "delayed"]
          /\ UNCHANGED <<used, opNonce>>
       \/ /\ ~Accepted(p) \/ "faults" \in Disturbances
          /\ tx' = [tx EXCEPT ![p] = "reverted"]
          /\ UNCHANGED <<used, opNonce>>
    /\ UNCHANGED <<process, paid, clock, restarts, submits, lost>>

\* Someone else completes the payment, as spike/finishRule.ts does.
ByHand(p) ==
    /\ "byhand" \in Disturbances
    /\ paid[p] \in Ours /\ Accepted(p)
    /\ Executed(p)
    /\ UNCHANGED <<process, paid, tx, clock, restarts, submits, lost>>

Elapse ==
    /\ clock < MaxClock
    /\ clock' = clock + 1
    /\ UNCHANGED <<process, paid, flare, restarts, submits, lost>>

-----------------------------------------------------------------------------
TaskStep(p) == CheckUsed(p) \/ FetchProof(p) \/ Submit(p) \/ Throw(p) \/ Complete(p)

Next ==
    \/ Boot \/ Ready \/ Deliver \/ Crash \/ Elapse
    \/ \E h \in Ours : Register(h)
    \/ \E p \in Payments :
          TaskStep(p) \/ (\E h \in Hashes : Pay(p, h)) \/ Mine(p) \/ ByHand(p)

Spec == Init /\ [][Next]_vars

\* The process is restarted when it is down, Node runs what is ready, answers
\* arrive, and transactions are mined.
Fairness ==
    /\ WF_vars(Boot) /\ WF_vars(Ready) /\ WF_vars(Deliver)
    /\ \A p \in Payments : WF_vars(TaskStep(p)) /\ WF_vars(Mine(p))

FairSpec == Spec /\ Fairness

-----------------------------------------------------------------------------
(* Properties *)

Orphan == [hash: Hashes, tx: Payments, seenAt: 0..MaxClock]
Store  == [stored: SUBSET Ours, done: SUBSET Ours, orphans: Seq(Orphan)]

\* The file never lags behind the memory, except for payments load() has
\* dropped: a crash between two steps loses what runs, not what is stored.
OperatorTypeOK ==
    /\ phase \in {"down", "starting", "ready"}
    /\ mem \in Store /\ disk \in Store
    /\ \A s \in {mem, disk} :
          /\ s.done \subseteq s.stored
          /\ Len(s.orphans) <= OrphanMax
          /\ \A i, j \in 1..Len(s.orphans) : s.orphans[i].hash = s.orphans[j].hash => i = j
    /\ Up => /\ mem.stored = disk.stored /\ mem.done = disk.done
             /\ ToSet(mem.orphans) \subseteq ToSet(disk.orphans)
    /\ task \in [Payments -> {"none", "check", "attest", "submit", "receipt"}]
    /\ tx \in [Payments -> {"none", "sent", "delayed", "reverted", "executed"}]

\* index.ts:171-179: once startup has finished, the store never holds both an
\* instruction that waits for its payment and a payment that waits for it,
\* whichever came first and whatever restarts came between.
NothingLeftBeside ==
    phase = "ready" => \A o \in ToSet(mem.orphans) : o.hash \notin Pending(mem)

\* store.ts:33: a restart does not submit a payment again.
SubmittedOnce == \A p \in Payments : submits[p] <= 1

\* An event that is handled before its instruction is there is held.
HandledIsHeld ==
    Len(stream') < Len(stream) /\ Up' =>
        LET h == paid[Head(stream)] IN h \in mem.stored \/ OrphanOf(disk', h) # {}

\* What goes from the file goes into a completion, or is too old, or is pushed
\* out by OrphanMax later ones.
GoesWhenDue ==
    Up' => \A o \in ToSet(disk.orphans) \ ToSet(disk'.orphans) :
             \/ task[o.tx] = "none" /\ task'[o.tx] = "check"
             \/ o.seenAt < clock - OrphanTTL
             \/ /\ Len(disk'.orphans) = OrphanMax
                /\ \A q \in ToSet(disk'.orphans) : q.seenAt >= o.seenAt

\* A payment handled before its instruction is held, and leaves the store only
\* into a completion, because it is too old, or pushed out by OrphanMax later
\* ones (store.ts:48-58, 172-191).
HeldUntilDue == [][HandledIsHeld /\ GoesWhenDue]_vars

\* The operator knows of a payment: its event is there, or it is held, or its
\* completion is under way.
Known(p) ==
    p \in ToSet(stream) \/ task[p] # "none" \/ \E o \in ToSet(mem.orphans) : o.tx = p

\* A payment the operator knows of and has the instruction for, whichever came
\* first, is completed, up to a mint that is rate limited, unless a failing call or
\* a crash cuts it short or its instruction was completed for another payment;
\* and however many completions run beside it.
KnownIsCarriedThrough ==
    \A p \in Payments :
        Known(p) /\ paid[p] \in mem.stored
          ~> \/ p \in used \/ p \in lost \/ tx[p] = "delayed" \/ ~Up
             \/ paid[p] \in mem.done /\ ~Known(p)

-----------------------------------------------------------------------------
(* What the documentation says and the code does not do *)

\* spike/mintLimits.ts:13-16: an over-limit mint is retried with the same proof;
\* so what is marked completed, and never looked at again, was executed.
CompletedIsExecuted ==
    \A h \in disk.done : \E p \in used : paid[p] = h

\* store.ts:39-46, index.ts:203-206: a payment that lands while the operator is
\* starting is held, not stranded: once it is paid and its instruction stored,
\* it is executed.
PaidIsExecuted ==
    \A p \in Payments : paid[p] \in disk.stored ~> p \in used
=============================================================================
