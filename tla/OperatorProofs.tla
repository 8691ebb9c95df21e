--------------------------- MODULE OperatorProofs ---------------------------
(***************************************************************************)
(* The operator, for any number of payments, instructions, restarts and    *)
(* held payments, and with the page.                                       *)
(*                                                                         *)
(* The argument follows a payment.  It is in one place at a time: in the   *)
(* stream of events, in the file, or in a completion; from each it moves   *)
(* on, and none gives it back once it has been submitted.  So what is      *)
(* still in the stream or in the file has never been submitted.            *)
(***************************************************************************)
EXTENDS Delivery, DataLemmas

\* Nothing has been done about a payment in this process, and nothing sent.
Untouched(p) == task[p] = "none" /\ submits[p] = 0

\* Held payments are in the order they were seen, one for a hash.
Orderly(l) ==
    /\ l \in Seq(Orphan)
    /\ \A i, j \in DOMAIN l : /\ l[i].hash = l[j].hash => i = j
                              /\ i < j => l[i].seenAt <= l[j].seenAt

GroundOK ==
    /\ stream \in Seq(Payments)
    /\ paid \in [Payments -> Hashes \cup {None}]
    /\ submits \in [Payments -> Nat]
    /\ clock \in 0..MaxClock /\ opNonce \in Nat

\* The process handles no event and completes nothing until it is ready.
QuietUntilReady ==
    phase # "ready" => stream = <<>> /\ \A p \in Payments : task[p] = "none"

ListsInOrder ==
    /\ Orderly(mem.orphans) /\ Orderly(disk.orphans)
    /\ \A o \in ToSet(disk.orphans) : o.seenAt <= clock

\* What the file holds beyond the memory is what load() found too old.
OnlyOldBeyond ==
    Up => \A o \in ToSet(disk.orphans) \ ToSet(mem.orphans) : o.seenAt < clock - OrphanTTL

\* An event is of a payment made, comes once, and not for a payment held.
StreamOK ==
    /\ \A i \in DOMAIN stream :
          /\ Untouched(stream[i]) /\ paid[stream[i]] # None
          /\ \A o \in ToSet(disk.orphans) : o.tx # stream[i]
    /\ \A i, j \in DOMAIN stream : stream[i] = stream[j] => i = j

FileOK == \A o \in ToSet(disk.orphans) : Untouched(o.tx) /\ paid[o.tx] = o.hash

TasksOK ==
    \A p \in Payments :
        /\ task[p] \in {"check", "attest", "submit"} => submits[p] = 0
        /\ paid[p] = None => Untouched(p)

OpInv ==
    /\ OperatorTypeOK /\ GroundOK /\ QuietUntilReady /\ ListsInOrder /\ OnlyOldBeyond
    /\ StreamOK /\ FileOK /\ TasksOK /\ SubmittedOnce /\ NothingLeftBeside

-----------------------------------------------------------------------------
(* The list of held payments *)

\* Skipping held payments keeps the others, in order.
LEMMA SkippingKeepsOrder ==
    ASSUME NEW l, Orderly(l), NEW K \in SUBSET (DOMAIN l)
    PROVE  LET r == AtIndices(l, K)
           IN  /\ Orderly(r) /\ Len(r) <= Len(l) /\ ToSet(r) = {l[k] : k \in K}
               /\ Len(l) \in K => r # <<>> /\ r[Len(r)] = l[Len(l)]
  <1>1. l \in Seq(Orphan)
    BY DEF Orderly
  <1>0. /\ Cardinality(K) \in 0..Len(l)
        /\ AtIndices(l, K) \in Seq(Orphan) /\ Len(AtIndices(l, K)) = Cardinality(K)
        /\ \E at \in [1..Cardinality(K) -> K] :
              /\ \A i \in 1..Cardinality(K) : AtIndices(l, K)[i] = l[at[i]]
              /\ \A i, j \in 1..Cardinality(K) : i < j => at[i] < at[j]
              /\ \A k \in K : \E i \in 1..Cardinality(K) : at[i] = k
    BY <1>1, AtIndicesWalks
  <1> DEFINE c == Cardinality(K)
             r == AtIndices(l, K)
  <1>2. c \in 0..Len(l) /\ r \in Seq(Orphan) /\ Len(r) = c
    BY <1>0
  <1>3. PICK at \in [1..c -> K] : /\ \A i \in 1..c : r[i] = l[at[i]]
                                  /\ \A i, j \in 1..c : i < j => at[i] < at[j]
                                  /\ \A k \in K : \E i \in 1..c : at[i] = k
    BY <1>0
  <1>4. DOMAIN r = 1..c /\ DOMAIN l = 1..Len(l) /\ Len(l) \in Nat
    BY <1>1, <1>2
  <1> HIDE DEF r, c
  <1>5. ToSet(r) = {l[k] : k \in K}
    BY <1>3, <1>4 DEF ToSet
  <1>6. \A i, j \in DOMAIN r : /\ r[i].hash = r[j].hash => i = j
                               /\ i < j => r[i].seenAt <= r[j].seenAt
    <2> TAKE i, j \in DOMAIN r
    <2>1. at[i] \in DOMAIN l /\ at[j] \in DOMAIN l /\ r[i] = l[at[i]] /\ r[j] = l[at[j]]
      BY <1>3, <1>4
    <2>2. r[i].hash = r[j].hash => at[i] = at[j]
      BY <2>1 DEF Orderly
    <2>3. i < j => at[i] < at[j]
      BY <1>3, <1>4
    <2>4. j < i => at[j] < at[i]
      BY <1>3, <1>4
    <2>5. i < j => r[i].seenAt <= r[j].seenAt
      BY <2>1, <2>3 DEF Orderly
    <2> QED
      BY <1>2, <1>4, <2>1, <2>2, <2>3, <2>4, <2>5
  <1>7. Len(l) \in K => r # <<>> /\ r[Len(r)] = l[Len(l)]
    <2> SUFFICES ASSUME Len(l) \in K
                 PROVE  r # <<>> /\ r[Len(r)] = l[Len(l)]
      OBVIOUS
    <2>1. PICK i \in 1..c : at[i] = Len(l)
      BY <1>3
    <2>2. c \in 1..c /\ at[c] \in 1..Len(l)
      BY <1>2, <1>3, <1>4, <2>1
    <2>3. i = c
      BY <1>2, <1>3, <1>4, <2>1, <2>2
    <2> QED
      BY <1>2, <1>3, <2>1, <2>2, <2>3
  <1> QED
    BY <1>2, <1>4, <1>5, <1>6, <1>7 DEF Orderly, r, c

\* The end of a list of held payments.
LEMMA EndKeepsOrder ==
    ASSUME NEW l, Orderly(l), NEW n \in Nat, n < Len(l)
    PROVE  LET r == SubSeq(l, Len(l) - n + 1, Len(l))
           IN  /\ Orderly(r) /\ Len(r) = n
               /\ \A i \in 1..n : r[i] = l[Len(l) - n + i]
               /\ \A o \in ToSet(l) \ ToSet(r) : \A q \in ToSet(r) : o.seenAt <= q.seenAt
  <1> DEFINE m == Len(l) - n
             r == SubSeq(l, m + 1, Len(l))
  <1>1. l \in Seq(Orphan) /\ Len(l) \in Nat /\ DOMAIN l = 1..Len(l) /\ m \in Nat
    BY DEF Orderly
  <1>2. r \in Seq(Orphan) /\ Len(r) = n /\ DOMAIN r = 1..n
        /\ \A i \in 1..n : r[i] = l[m + i] /\ m + i \in DOMAIN l
    BY <1>1
  <1> HIDE DEF r
  <1>3. Orderly(r)
    BY <1>1, <1>2 DEF Orderly
  <1>4. \A o \in ToSet(l) \ ToSet(r) : \A q \in ToSet(r) : o.seenAt <= q.seenAt
    <2> SUFFICES ASSUME NEW o \in ToSet(l) \ ToSet(r), NEW q \in ToSet(r)
                 PROVE  o.seenAt <= q.seenAt
      OBVIOUS
    <2>1. PICK i \in DOMAIN l : o = l[i]
      BY DEF ToSet
    <2>2. PICK j \in 1..n : q = l[m + j] /\ m + j \in DOMAIN l
      BY <1>2 DEF ToSet
    <2>3. ~(i > m)
      <3> SUFFICES ASSUME i > m
                   PROVE  FALSE
        OBVIOUS
      <3>1. i - m \in 1..n /\ m + (i - m) = i
        BY <1>1, <2>1
      <3>2. r[i - m] = o
        BY <1>2, <2>1, <3>1
      <3> QED
        BY <1>2, <3>1, <3>2 DEF ToSet
    <2> QED
      BY <1>1, <2>1, <2>2, <2>3 DEF Orderly
  <1> QED
    BY <1>2, <1>3, <1>4 DEF r

\* pruneOrphans drops what is too old, and above the ceiling the oldest.
LEMMA PruningDrops ==
    ASSUME NEW l, Orderly(l), clock \in Nat
    PROVE  LET r == Pruned(l)
           IN  /\ Orderly(r) /\ Len(r) <= OrphanMax /\ ToSet(r) \subseteq ToSet(l)
               /\ \A o \in ToSet(l) \ ToSet(r) :
                     \/ o.seenAt < clock - OrphanTTL
                     \/ /\ Len(l) > OrphanMax /\ Len(r) = OrphanMax
                        /\ \A q \in ToSet(r) : q.seenAt >= o.seenAt
               /\ l # <<>> /\ l[Len(l)].seenAt >= clock - OrphanTTL => l[Len(l)] \in ToSet(r)
  <1> DEFINE K == {i \in DOMAIN l : l[i].seenAt >= clock - OrphanTTL}
             fresh == AtIndices(l, K)
             n == Len(fresh)
             r == Pruned(l)
  <1>0. OrphanMax \in Nat \ {0} /\ OrphanTTL \in Nat
    BY OperatorAssumption
  <1>1. r = IF n <= OrphanMax THEN fresh ELSE SubSeq(fresh, n - OrphanMax + 1, n)
    BY DEF Pruned
  <1>2. l \in Seq(Orphan) /\ DOMAIN l = 1..Len(l) /\ Len(l) \in Nat
        /\ \A i \in DOMAIN l : l[i].seenAt \in Nat
    <2>1. l \in Seq(Orphan) /\ \A o \in Orphan : o.seenAt \in Nat
      BY OperatorAssumption DEF Orderly, Orphan
    <2> QED
      BY <2>1
  <1>3. Orderly(fresh) /\ n <= Len(l) /\ ToSet(fresh) = {l[k] : k \in K}
    BY SkippingKeepsOrder
  <1>4. n \in Nat /\ DOMAIN fresh = 1..n
    BY <1>3 DEF Orderly
  <1>5. \A o \in ToSet(l) \ ToSet(fresh) : o.seenAt < clock - OrphanTTL
    <2> SUFFICES ASSUME NEW o \in ToSet(l) \ ToSet(fresh)
                 PROVE  o.seenAt < clock - OrphanTTL
      OBVIOUS
    <2>1. PICK i \in DOMAIN l : o = l[i]
      BY DEF ToSet
    <2>2. i \notin K
      BY <1>3, <2>1
    <2> QED
      BY <1>0, <1>2, <2>1, <2>2
  <1>6. ToSet(fresh) \subseteq ToSet(l)
    BY <1>3 DEF ToSet
  <1>7. ASSUME l # <<>>, l[Len(l)].seenAt >= clock - OrphanTTL
        PROVE  fresh # <<>> /\ fresh[n] = l[Len(l)]
    <2>1. Len(l) \in K
      BY <1>2, <1>7
    <2> QED
      BY <2>1, SkippingKeepsOrder
  <1> HIDE DEF fresh, K
  <1>8. CASE n <= OrphanMax
    <2>1. r = fresh
      BY <1>1, <1>8
    <2>2. \A o \in ToSet(l) \ ToSet(r) : o.seenAt < clock - OrphanTTL
      BY <1>5, <2>1
    <2>3. l # <<>> /\ l[Len(l)].seenAt >= clock - OrphanTTL => l[Len(l)] \in ToSet(r)
      <3> SUFFICES ASSUME l # <<>>, l[Len(l)].seenAt >= clock - OrphanTTL
                   PROVE  l[Len(l)] \in ToSet(r)
        OBVIOUS
      <3>1. fresh # <<>> /\ fresh[n] = l[Len(l)]
        BY <1>7
      <3>2. n \in DOMAIN fresh
        BY <1>3, <1>4, <3>1 DEF Orderly
      <3> QED
        BY <2>1, <3>1, <3>2 DEF ToSet
    <2> QED
      BY <1>3, <1>6, <1>8, <2>1, <2>2, <2>3
  <1>9. CASE ~(n <= OrphanMax)
    <2>1. r = SubSeq(fresh, n - OrphanMax + 1, n) /\ OrphanMax < n
      BY <1>0, <1>1, <1>4, <1>9
    <2>2. /\ Orderly(r) /\ Len(r) = OrphanMax
          /\ \A i \in 1..OrphanMax : r[i] = fresh[n - OrphanMax + i]
          /\ \A o \in ToSet(fresh) \ ToSet(r) : \A q \in ToSet(r) : o.seenAt <= q.seenAt
      BY <1>0, <1>3, <2>1, EndKeepsOrder
    <2>3. DOMAIN r = 1..OrphanMax
      BY <1>0, <2>2 DEF Orderly
    <2>4. ToSet(r) \subseteq ToSet(fresh)
      <3> SUFFICES ASSUME NEW q \in ToSet(r)
                   PROVE  q \in ToSet(fresh)
        OBVIOUS
      <3>1. PICK i \in 1..OrphanMax : q = r[i]
        BY <2>3 DEF ToSet
      <3>2. n - OrphanMax + i \in 1..n
        BY <1>0, <1>4, <2>1, <3>1
      <3> QED
        BY <1>4, <2>2, <3>1, <3>2 DEF ToSet
    <2>5. \A o \in ToSet(l) \ ToSet(r) :
              \/ o.seenAt < clock - OrphanTTL
              \/ /\ Len(l) > OrphanMax /\ Len(r) = OrphanMax
                 /\ \A q \in ToSet(r) : q.seenAt >= o.seenAt
      <3> TAKE o \in ToSet(l) \ ToSet(r)
      <3>1. CASE o \in ToSet(fresh)
        <4>1. \A q \in ToSet(r) : o.seenAt <= q.seenAt
          BY <2>2, <3>1
        <4>2. \A q \in ToSet(l) : q.seenAt \in Nat
          BY <1>2 DEF ToSet
        <4>3. Len(l) > OrphanMax
          BY <1>0, <1>2, <1>3, <1>4, <2>1
        <4> QED
          BY <1>6, <2>2, <2>4, <4>1, <4>2, <4>3
      <3>2. CASE o \notin ToSet(fresh)
        BY <1>5, <3>2
      <3> QED
        BY <3>1, <3>2
    <2>6. l # <<>> /\ l[Len(l)].seenAt >= clock - OrphanTTL => l[Len(l)] \in ToSet(r)
      <3> SUFFICES ASSUME l # <<>>, l[Len(l)].seenAt >= clock - OrphanTTL
                   PROVE  l[Len(l)] \in ToSet(r)
        OBVIOUS
      <3>1. fresh[n] = l[Len(l)]
        BY <1>7
      <3>2. OrphanMax \in 1..OrphanMax /\ n - OrphanMax + OrphanMax = n
        BY <1>0, <1>4
      <3>3. r[OrphanMax] = fresh[n]
        BY <2>2, <3>2
      <3> QED
        BY <2>3, <3>1, <3>2, <3>3 DEF ToSet
    <2> QED
      BY <1>0, <1>6, <2>2, <2>4, <2>5, <2>6
  <1> QED
    BY <1>8, <1>9

-----------------------------------------------------------------------------
(* The store *)

\* t is s after takeOrphan for hs.
Takes(t, s, hs) ==
    /\ t \in Store /\ t.stored = s.stored /\ t.done = s.done
    /\ Orderly(t.orphans) /\ Len(t.orphans) <= Len(s.orphans)
    /\ ToSet(t.orphans) = {o \in ToSet(s.orphans) : o.hash \notin hs}

LEMMA TakingTakes ==
    ASSUME NEW s \in Store, Orderly(s.orphans), NEW hs
    PROVE  Takes(Taken(s, hs), s, hs) /\ Takes(DiskAfterTake(s, hs), s, hs)
  <1> DEFINE l == s.orphans
             K == {i \in DOMAIN l : l[i].hash \notin hs}
             t == Taken(s, hs)
  <1>1. Orderly(AtIndices(l, K)) /\ Len(AtIndices(l, K)) <= Len(l)
        /\ ToSet(AtIndices(l, K)) = {l[k] : k \in K}
    BY SkippingKeepsOrder
  <1>2. {l[k] : k \in K} = {o \in ToSet(l) : o.hash \notin hs}
    BY DEF ToSet
  <1>3. t = [s EXCEPT !.orphans = AtIndices(l, K)]
    BY DEF Taken
  <1> HIDE DEF K, t
  <1>4. t \in Store /\ t.stored = s.stored /\ t.done = s.done
        /\ t.orphans = AtIndices(l, K)
    BY <1>1, <1>3 DEF Store, Orderly
  <1>5. Takes(t, s, hs)
    BY <1>1, <1>2, <1>4 DEF Takes
  <1>6. CASE \E h \in hs : OrphanOf(s, h) # {}
    BY <1>5, <1>6 DEF DiskAfterTake, t
  <1>7. CASE ~ \E h \in hs : OrphanOf(s, h) # {}
    <2>1. DiskAfterTake(s, hs) = s
      BY <1>7 DEF DiskAfterTake
    <2>2. ToSet(s.orphans) = {o \in ToSet(s.orphans) : o.hash \notin hs}
      BY <1>7 DEF OrphanOf
    <2>3. Len(s.orphans) \in Nat
      BY DEF Orderly
    <2> QED
      BY <1>5, <2>1, <2>2, <2>3 DEF Takes, t
  <1> QED
    BY <1>5, <1>6, <1>7 DEF t

\* A payment that nothing is held for yet is held, whatever has to go for it.
LEMMA RecordingHolds ==
    ASSUME NEW s \in Store, Orderly(s.orphans), \A o \in ToSet(s.orphans) : o.seenAt <= clock,
           clock \in 0..MaxClock, NEW h \in Hashes, NEW p \in Payments, OrphanOf(s, h) = {},
           Len(s.orphans) <= OrphanMax
    PROVE  LET t == Recorded(s, h, p)
               o == [hash |-> h, tx |-> p, seenAt |-> clock]
           IN  /\ t \in Store /\ t.stored = s.stored /\ t.done = s.done
               /\ Orderly(t.orphans) /\ Len(t.orphans) <= OrphanMax
               /\ ToSet(t.orphans) \subseteq ToSet(s.orphans) \cup {o}
               /\ o \in ToSet(t.orphans)
               /\ \A x \in ToSet(s.orphans) \ ToSet(t.orphans) :
                     \/ x.seenAt < clock - OrphanTTL
                     \/ /\ Len(t.orphans) = OrphanMax
                        /\ \A q \in ToSet(t.orphans) : q.seenAt >= x.seenAt
  <1> DEFINE o == [hash |-> h, tx |-> p, seenAt |-> clock]
             l == s.orphans
             a == Append(l, o)
             t == Recorded(s, h, p)
  <1>0. MaxClock \in Nat /\ OrphanTTL \in Nat /\ clock \in Nat /\ OrphanMax \in Nat
    BY OperatorAssumption
  <1>1. l \in Seq(Orphan) /\ o \in Orphan
    BY DEF Orderly, Orphan
  <1>2. a \in Seq(Orphan) /\ Len(a) = Len(l) + 1 /\ Len(l) \in Nat /\ a[Len(a)] = o
        /\ \A i \in 1..Len(l) : a[i] = l[i]
    BY <1>1
  <1>3. DOMAIN a = 1..Len(a) /\ DOMAIN l = 1..Len(l)
    BY <1>1, <1>2
  <1> HIDE DEF a
  <1>4. ToSet(a) = ToSet(l) \cup {o}
    BY <1>2, <1>3 DEF ToSet
  <1>5. Orderly(a)
    <2>1. \A i \in 1..Len(l) : l[i].hash # h /\ l[i].seenAt <= clock
      BY <1>3 DEF OrphanOf, ToSet
    <2>2. o.hash = h /\ o.seenAt = clock
      OBVIOUS
    <2> HIDE DEF o
    <2>3. \A i \in DOMAIN a : \/ i \in 1..Len(l) /\ a[i] = l[i]
                              \/ i = Len(l) + 1 /\ a[i] = o
      BY <1>2, <1>3
    <2>4. \A i, j \in DOMAIN a : a[i].hash = a[j].hash => i = j
      BY <1>3, <2>1, <2>2, <2>3 DEF Orderly
    <2>5. \A i, j \in DOMAIN a : i < j => a[i].seenAt <= a[j].seenAt
      <3> TAKE i, j \in DOMAIN a
      <3>1. CASE j \in 1..Len(l)
        BY <1>2, <1>3, <2>3, <3>1 DEF Orderly
      <3>2. CASE j = Len(l) + 1
        BY <1>2, <1>3, <2>1, <2>2, <2>3, <3>2
      <3> QED
        BY <2>3, <3>1, <3>2
    <2> QED
      BY <1>2, <2>4, <2>5 DEF Orderly
  <1>6. t = [s EXCEPT !.orphans = Pruned(a)]
    BY DEF Recorded, a
  <1>7. /\ Orderly(Pruned(a)) /\ Len(Pruned(a)) <= OrphanMax
        /\ ToSet(Pruned(a)) \subseteq ToSet(a)
        /\ \A x \in ToSet(a) \ ToSet(Pruned(a)) :
              \/ x.seenAt < clock - OrphanTTL
              \/ /\ Len(a) > OrphanMax /\ Len(Pruned(a)) = OrphanMax
                 /\ \A q \in ToSet(Pruned(a)) : q.seenAt >= x.seenAt
        /\ a # <<>> /\ a[Len(a)].seenAt >= clock - OrphanTTL => a[Len(a)] \in ToSet(Pruned(a))
    BY <1>0, <1>5, PruningDrops
  <1>8. t \in Store /\ t.stored = s.stored /\ t.done = s.done /\ t.orphans = Pruned(a)
    BY <1>6, <1>7 DEF Store, Orderly
  <1>9. o \in ToSet(Pruned(a))
    <2>1. a # <<>>
      BY <1>2
    <2>2. o.seenAt >= clock - OrphanTTL
      BY <1>0
    <2> QED
      BY <1>2, <1>7, <2>1, <2>2
  <1> HIDE DEF t, o
  <1>10. ToSet(t.orphans) \subseteq ToSet(l) \cup {o}
    BY <1>4, <1>7, <1>8
  <1>11. \A x \in ToSet(l) \ ToSet(t.orphans) :
                     \/ x.seenAt < clock - OrphanTTL
                     \/ /\ Len(t.orphans) = OrphanMax
                        /\ \A q \in ToSet(t.orphans) : q.seenAt >= x.seenAt
    BY <1>4, <1>7, <1>8
  <1> QED
    BY <1>7, <1>8, <1>9, <1>10, <1>11 DEF t, o

-----------------------------------------------------------------------------
(* The inductive invariant *)

LEMMA InitOperator == Init => OpInv
  <1> SUFFICES ASSUME Init
               PROVE  OpInv
    OBVIOUS
  <1>1. EmptyStore \in Store /\ Orderly(EmptyStore.orphans) /\ Len(EmptyStore.orphans) = 0
        /\ ToSet(EmptyStore.orphans) = {} /\ EmptyStore.done \subseteq EmptyStore.stored
    BY DEF EmptyStore, Store, Orderly, ToSet
  <1>2. OrphanMax \in Nat /\ MaxClock \in Nat
    BY OperatorAssumption
  <1>3. OperatorTypeOK
    BY <1>1, <1>2 DEF Init, OperatorTypeOK, Up, EmptyStore
  <1>4. GroundOK
    BY <1>2 DEF Init, GroundOK
  <1>5. QuietUntilReady /\ ListsInOrder /\ OnlyOldBeyond /\ FileOK /\ TasksOK
    BY <1>1 DEF Init, QuietUntilReady, ListsInOrder, OnlyOldBeyond, FileOK, TasksOK, Up, Untouched
  <1>6. StreamOK /\ SubmittedOnce /\ NothingLeftBeside
    BY DEF Init, StreamOK, SubmittedOnce, NothingLeftBeside
  <1> QED
    BY <1>3, <1>4, <1>5, <1>6 DEF OpInv

Early == {"check", "attest", "submit"}

\* A step of completions, of Flare or of the clock: the store and the stream
\* stay, and no payment that waits there is touched.
LEMMA CompletionsOnly ==
    ASSUME OpInv, UNCHANGED <<phase, mem, disk, stream, paid>>,
           task' \in [Payments -> {"none", "check", "attest", "submit", "receipt"}],
           tx' \in [Payments -> {"none", "sent", "delayed", "reverted", "executed"}],
           submits' \in [Payments -> Nat], opNonce' \in Nat,
           clock' \in 0..MaxClock, clock <= clock',
           \A p \in Payments : /\ Untouched(p) => Untouched(p)'
                               /\ task[p] = "none" => task'[p] = "none"
                               /\ task'[p] \in Early => submits'[p] = 0
                               /\ submits'[p] <= 1
    PROVE  OpInv'
  <1> USE DEF OpInv
  <1>0. OrphanTTL \in Nat /\ MaxClock \in Nat /\ clock \in Nat /\ clock' \in Nat
    BY OperatorAssumption DEF GroundOK
  <1>1. \A o \in ToSet(disk.orphans) : o.tx \in Payments /\ o.seenAt \in Nat
    <2>1. \A o \in Orphan : o.tx \in Payments /\ o.seenAt \in Nat
      BY <1>0 DEF Orphan
    <2> QED
      BY <2>1 DEF ListsInOrder, Orderly, ToSet
  <1>2. OperatorTypeOK'
    BY DEF OperatorTypeOK, Up
  <1>3. GroundOK' /\ QuietUntilReady'
    BY DEF GroundOK, QuietUntilReady
  <1>4. ListsInOrder'
    BY <1>0, <1>1 DEF ListsInOrder, Orderly
  <1>5. OnlyOldBeyond'
    BY <1>0, <1>1 DEF OnlyOldBeyond, Up
  <1>6. StreamOK'
    <2>1. \A i \in DOMAIN stream : stream[i] \in Payments
      BY DEF GroundOK
    <2> QED
      BY <2>1 DEF StreamOK
  <1>7. FileOK'
    BY <1>1 DEF FileOK
  <1>8. TasksOK' /\ SubmittedOnce' /\ NothingLeftBeside'
    BY DEF TasksOK, Early, SubmittedOnce, NothingLeftBeside, Pending
  <1> QED
    BY <1>2, <1>3, <1>4, <1>5, <1>6, <1>7, <1>8

\* A completion that goes on, or is cut short.
LEMMA TaskSteps ==
    ASSUME OpInv, NEW p \in Payments,
           CheckUsed(p) \/ FetchProof(p) \/ Submit(p) \/ Throw(p)
    PROVE  OpInv'
  <1> USE DEF OpInv
  <1>0. /\ task \in [Payments -> {"none", "check", "attest", "submit", "receipt"}]
        /\ tx \in [Payments -> {"none", "sent", "delayed", "reverted", "executed"}]
        /\ submits \in [Payments -> Nat] /\ opNonce \in Nat /\ clock \in 0..MaxClock
        /\ \A q \in Payments : submits[q] <= 1 /\ (task[q] \in Early => submits[q] = 0)
    BY DEF OperatorTypeOK, GroundOK, SubmittedOnce, TasksOK, Early
  <1>1. clock <= clock
    BY <1>0, OperatorAssumption
  <1>2. CASE CheckUsed(p)
    BY <1>0, <1>1, <1>2, CompletionsOnly DEF CheckUsed, Goto, flare, Untouched, Early
  <1>3. CASE FetchProof(p)
    BY <1>0, <1>1, <1>3, CompletionsOnly DEF FetchProof, Goto, flare, Untouched, Early
  <1>4. CASE Submit(p)
    <2>1. submits[p] = 0 /\ task[p] = "submit"
      BY <1>0, <1>4 DEF Submit, Early
    <2>2. submits' = [submits EXCEPT ![p] = 1] /\ task' = [task EXCEPT ![p] = "receipt"]
          /\ tx' = [tx EXCEPT ![p] = "sent"]
      BY <1>0, <1>4, <2>1 DEF Submit, Goto
    <2> QED
      BY <1>0, <1>1, <1>4, <2>1, <2>2, CompletionsOnly DEF Submit, Untouched, Early
  <1>5. CASE Throw(p)
    BY <1>0, <1>1, <1>5, CompletionsOnly DEF Throw, Goto, flare, Untouched, Early
  <1> QED
    BY <1>2, <1>3, <1>4, <1>5

\* Transactions are mined, by us and by others, and time passes.
LEMMA WorldSteps ==
    ASSUME OpInv, Elapse \/ \E p \in Payments : Mine(p) \/ ByHand(p)
    PROVE  OpInv'
  <1> USE DEF OpInv
  <1>0. /\ task \in [Payments -> {"none", "check", "attest", "submit", "receipt"}]
        /\ tx \in [Payments -> {"none", "sent", "delayed", "reverted", "executed"}]
        /\ submits \in [Payments -> Nat] /\ opNonce \in Nat /\ clock \in 0..MaxClock
        /\ \A q \in Payments : submits[q] <= 1 /\ (task[q] \in Early => submits[q] = 0)
    BY DEF OperatorTypeOK, GroundOK, SubmittedOnce, TasksOK, Early
  <1>1. clock <= clock /\ MaxClock \in Nat
    BY <1>0, OperatorAssumption
  <1>2. CASE Elapse
    <2>1. clock' \in 0..MaxClock /\ clock <= clock'
      BY <1>0, <1>1, <1>2 DEF Elapse
    <2> QED
      BY <1>0, <1>2, <2>1, CompletionsOnly DEF Elapse, process, flare, Untouched
  <1>3. ASSUME NEW p \in Payments, Mine(p)
        PROVE  OpInv'
    <2>1. opNonce' \in Nat
          /\ tx' \in [Payments -> {"none", "sent", "delayed", "reverted", "executed"}]
      BY <1>0, <1>3 DEF Mine, Executed
    <2> QED
      BY <1>0, <1>1, <1>3, <2>1, CompletionsOnly DEF Mine, process, Untouched
  <1>4. ASSUME NEW p \in Payments, ByHand(p)
        PROVE  OpInv'
    BY <1>0, <1>1, <1>4, CompletionsOnly DEF ByHand, Executed, process, Untouched
  <1> QED
    BY <1>2, <1>3, <1>4

-----------------------------------------------------------------------------
\* What OpInv says of the two stores, and of what is held.
LEMMA StoresAre ==
    ASSUME OpInv
    PROVE  /\ mem \in Store /\ disk \in Store
           /\ mem.done \subseteq mem.stored /\ disk.done \subseteq disk.stored
           /\ Orderly(mem.orphans) /\ Orderly(disk.orphans)
           /\ Len(mem.orphans) <= OrphanMax /\ Len(disk.orphans) <= OrphanMax
           /\ clock \in Nat /\ OrphanTTL \in Nat /\ MaxClock \in Nat /\ OrphanMax \in Nat
           /\ \A o \in ToSet(mem.orphans) \cup ToSet(disk.orphans) :
                 o \in Orphan /\ o.tx \in Payments /\ o.hash \in Hashes /\ o.seenAt \in Nat
           /\ \A o, q \in ToSet(disk.orphans) : o.hash = q.hash => o = q
           /\ \A i \in DOMAIN stream : stream[i] \in Payments
           /\ stream \in Seq(Payments) /\ Len(stream) \in Nat
           /\ task \in [Payments -> {"none", "check", "attest", "submit", "receipt"}]
           /\ tx \in [Payments -> {"none", "sent", "delayed", "reverted", "executed"}]
  <1>1. MaxClock \in Nat /\ OrphanTTL \in Nat /\ OrphanMax \in Nat
    BY OperatorAssumption
  <1>2. \A o \in Orphan : o.tx \in Payments /\ o.hash \in Hashes /\ o.seenAt \in Nat
    BY <1>1 DEF Orphan
  <1>3. Orderly(mem.orphans) /\ Orderly(disk.orphans)
    BY DEF OpInv, ListsInOrder
  <1>4. \A o \in ToSet(mem.orphans) \cup ToSet(disk.orphans) : o \in Orphan
    BY <1>3 DEF Orderly, ToSet
  <1>5. \A o, q \in ToSet(disk.orphans) : o.hash = q.hash => o = q
    BY <1>3 DEF Orderly, ToSet
  <1> QED
    BY <1>1, <1>2, <1>3, <1>4, <1>5 DEF OpInv, OperatorTypeOK, GroundOK

\* Payments held for hs leave the store for their completions: the sweep, and a
\* registration.
LEMMA TakingStep ==
    ASSUME OpInv, Up, Up', NEW s \in Store, NEW hs,
           s.orphans = mem.orphans, s.done \subseteq s.stored,
           Takes(mem', s, hs),
           \/ disk' = disk /\ Held(s, hs) = {} /\ s.stored = disk.stored /\ s.done = disk.done
           \/ Takes(disk', s, hs),
           Begin(Held(s, hs)),
           phase' \in {"starting", "ready"}, phase' = "ready" \/ (phase' = phase /\ hs = {}),
           UNCHANGED <<stream, paid, tx, opNonce, clock, submits>>,
           NothingLeftBeside'
    PROVE  OpInv'
  <1> USE DEF OpInv
  <1>0. /\ mem \in Store /\ disk \in Store
        /\ disk.done \subseteq disk.stored
        /\ Orderly(mem.orphans) /\ Orderly(disk.orphans)
        /\ Len(mem.orphans) <= OrphanMax /\ Len(disk.orphans) <= OrphanMax
        /\ Len(mem.orphans) \in Nat
        /\ OrphanMax \in Nat
        /\ \A o \in ToSet(mem.orphans) \cup ToSet(disk.orphans) :
              o \in Orphan /\ o.tx \in Payments /\ o.hash \in Hashes /\ o.seenAt \in Nat
        /\ \A o, q \in ToSet(disk.orphans) : o.hash = q.hash => o = q
        /\ \A i \in DOMAIN stream : stream[i] \in Payments
        /\ task \in [Payments -> {"none", "check", "attest", "submit", "receipt"}]
    BY StoresAre DEF Orderly
  <1>1. ToSet(mem.orphans) \subseteq ToSet(disk.orphans)
    BY DEF OperatorTypeOK
  <1>2. /\ mem' \in Store /\ mem'.stored = s.stored /\ mem'.done = s.done
        /\ Orderly(mem'.orphans) /\ Len(mem'.orphans) <= Len(mem.orphans)
        /\ ToSet(mem'.orphans) = {o \in ToSet(mem.orphans) : o.hash \notin hs}
    BY DEF Takes
  <1>3. /\ disk' \in Store /\ disk'.stored = s.stored /\ disk'.done = s.done
        /\ Orderly(disk'.orphans) /\ Len(disk'.orphans) <= OrphanMax
        /\ ToSet(disk'.orphans) \subseteq ToSet(disk.orphans)
        /\ ToSet(mem'.orphans) \subseteq ToSet(disk'.orphans)
    <2>1. CASE disk' = disk /\ s.stored = disk.stored /\ s.done = disk.done
      BY <1>0, <1>1, <1>2, <2>1
    <2>2. CASE Takes(disk', s, hs)
      <3>1. Len(disk'.orphans) \in Nat
        BY <2>2 DEF Takes, Orderly
      <3> QED
        BY <1>0, <1>1, <1>2, <2>2, <3>1 DEF Takes
    <2> QED
      BY <2>1, <2>2
  <1>4. \A p \in Held(s, hs) : \E o \in ToSet(mem.orphans) : o.tx = p /\ o.hash \in hs
    BY DEF Held
  <1>5. \A p \in Held(s, hs) : p \in Payments /\ Untouched(p) /\ paid[p] # None
    BY <1>0, <1>1, <1>4, OperatorAssumption DEF FileOK
  <1>6. task' = [p \in Payments |-> IF p \in Held(s, hs) THEN "check" ELSE task[p]]
    BY DEF Begin
  <1>7. OperatorTypeOK'
    <2>1. \A i, j \in 1..Len(mem'.orphans) : mem'.orphans[i].hash = mem'.orphans[j].hash => i = j
      BY <1>2 DEF Orderly
    <2>2. \A i, j \in 1..Len(disk'.orphans) : disk'.orphans[i].hash = disk'.orphans[j].hash => i = j
      BY <1>3 DEF Orderly
    <2>3. task' \in [Payments -> {"none", "check", "attest", "submit", "receipt"}]
      BY <1>0, <1>6
    <2>4. tx' \in [Payments -> {"none", "sent", "delayed", "reverted", "executed"}]
      BY DEF OperatorTypeOK
    <2>5. Len(mem'.orphans) <= OrphanMax
      <3>1. Len(mem'.orphans) \in Nat
        BY <1>2 DEF Orderly
      <3> QED
        BY <1>0, <1>2, <3>1
    <2> QED
      BY <1>2, <1>3, <2>1, <2>2, <2>3, <2>4, <2>5 DEF OperatorTypeOK, Up
  <1>8. GroundOK'
    BY DEF GroundOK
  <1>9. QuietUntilReady'
    <2>1. hs = {} => Held(s, hs) = {}
      BY DEF Held
    <2> QED
      BY <1>6, <2>1 DEF QuietUntilReady
  <1>10. ListsInOrder'
    BY <1>2, <1>3 DEF ListsInOrder
  <1>11. OnlyOldBeyond'
    <2>1. CASE disk' = disk /\ Held(s, hs) = {}
      <3>1. ToSet(mem'.orphans) = ToSet(mem.orphans)
        BY <1>2, <2>1 DEF Held
      <3> QED
        BY <2>1, <3>1 DEF OnlyOldBeyond
    <2>2. CASE Takes(disk', s, hs)
      <3>1. ToSet(mem'.orphans) = ToSet(disk'.orphans)
        BY <1>2, <2>2 DEF Takes
      <3> QED
        BY <3>1 DEF OnlyOldBeyond
    <2> QED
      BY <2>1, <2>2
  <1>12. StreamOK'
    <2>1. \A i \in DOMAIN stream : stream[i] \notin Held(s, hs)
      BY <1>1, <1>4 DEF StreamOK
    <2> QED
      BY <1>0, <1>3, <1>6, <2>1 DEF StreamOK, Untouched
  <1>13. FileOK'
    <2> SUFFICES ASSUME NEW o \in ToSet(disk'.orphans)
                 PROVE  task'[o.tx] = "none" /\ submits'[o.tx] = 0 /\ paid'[o.tx] = o.hash
      BY DEF FileOK, Untouched
    <2>1. o \in ToSet(disk.orphans) /\ Untouched(o.tx) /\ paid[o.tx] = o.hash /\ o.tx \in Payments
      BY <1>0, <1>3 DEF FileOK
    <2>2. o.tx \notin Held(s, hs)
      <3> SUFFICES ASSUME o.tx \in Held(s, hs)
                   PROVE  FALSE
        OBVIOUS
      <3>1. PICK q \in ToSet(mem.orphans) : q.tx = o.tx /\ q.hash \in hs
        BY <1>4
      <3>2. q.hash = o.hash
        BY <1>1, <2>1, <3>1 DEF FileOK
      <3>3. Takes(disk', s, hs)
        OBVIOUS
      <3> QED
        BY <3>1, <3>2, <3>3 DEF Takes
    <2> QED
      BY <1>6, <2>1, <2>2 DEF Untouched
  <1>14. TasksOK'
    BY <1>5, <1>6 DEF TasksOK, Untouched
  <1>15. SubmittedOnce'
    BY DEF SubmittedOnce
  <1> QED
    BY <1>7, <1>8, <1>9, <1>10, <1>11, <1>12, <1>13, <1>14, <1>15

LEMMA ReadyStep ==
    ASSUME OpInv, Ready
    PROVE  OpInv'
  <1>1. mem \in Store /\ Orderly(mem.orphans) /\ mem.done \subseteq mem.stored
    BY StoresAre
  <1>2. Takes(mem', mem, Swept) /\ Takes(DiskAfterTake(mem, Swept), mem, Swept)
    BY <1>1, TakingTakes DEF Ready
  <1>3. mem.stored = disk.stored /\ mem.done = disk.done
    BY DEF Ready, Up, OpInv, OperatorTypeOK
  <1>4. \/ disk' = disk /\ Held(mem, Swept) = {}
        \/ Takes(disk', mem, Swept)
    BY <1>2 DEF Ready
  <1>5. NothingLeftBeside'
    BY <1>2 DEF Takes, NothingLeftBeside, Pending, Swept
  <1>6. Up /\ Up' /\ phase' = "ready" /\ Begin(Held(mem, Swept))
        /\ UNCHANGED <<stream, paid, tx, opNonce, clock, submits>>
    BY DEF Ready, Up, flare
  <1> QED
    BY <1>1, <1>2, <1>3, <1>4, <1>5, <1>6, TakingStep

LEMMA RegisterStep ==
    ASSUME OpInv, NEW h \in Ours, Register(h)
    PROVE  OpInv'
  <1> DEFINE s  == Added(mem, h)
             hs == IF phase = "ready" THEN {h} ELSE {}
  <1>1. mem \in Store /\ Orderly(mem.orphans) /\ mem.done \subseteq mem.stored
    BY StoresAre
  <1>2. s \in Store /\ s.orphans = mem.orphans /\ s.done = mem.done
        /\ s.stored = mem.stored \cup {h} /\ s.done \subseteq s.stored
    BY <1>1 DEF Added, Store
  <1>3. mem.stored = disk.stored /\ mem.done = disk.done /\ phase \in {"starting", "ready"}
    BY DEF Register, Up, OpInv, OperatorTypeOK
  <1>4. /\ Up /\ mem' = Taken(s, hs)
        /\ disk' = IF h \in mem.stored /\ Held(s, hs) = {} THEN disk ELSE DiskAfterTake(s, hs)
        /\ Begin(Held(s, hs))
        /\ UNCHANGED <<phase, stream, paid, tx, opNonce, clock, submits>>
    BY DEF Register, flare
  <1> HIDE DEF s
  <1>5. Takes(mem', s, hs) /\ Takes(DiskAfterTake(s, hs), s, hs)
    BY <1>1, <1>2, <1>4, TakingTakes
  <1>6. \/ disk' = disk /\ Held(s, hs) = {} /\ s.stored = disk.stored /\ s.done = disk.done
        \/ Takes(disk', s, hs)
    BY <1>2, <1>3, <1>4, <1>5
  <1>7. NothingLeftBeside'
    BY <1>2, <1>4, <1>5 DEF Takes, NothingLeftBeside, Pending, OpInv
  <1>8. Up' /\ (phase' = "ready" \/ (phase' = phase /\ hs = {}))
    BY <1>4 DEF Up
  <1> QED
    BY <1>2, <1>3, <1>4, <1>5, <1>6, <1>7, <1>8, TakingStep

\* load() drops what is too old from memory; the file keeps it.
LEMMA BootStep ==
    ASSUME OpInv, Boot
    PROVE  OpInv'
  <1> DEFINE l == Pruned(disk.orphans)
  <1>0. /\ disk \in Store /\ disk.done \subseteq disk.stored /\ Orderly(disk.orphans)
        /\ Len(disk.orphans) <= OrphanMax /\ clock \in Nat /\ OrphanMax \in Nat
    BY StoresAre
  <1>1. /\ Orderly(l) /\ Len(l) <= OrphanMax /\ ToSet(l) \subseteq ToSet(disk.orphans)
        /\ \A o \in ToSet(disk.orphans) \ ToSet(l) :
              o.seenAt < clock - OrphanTTL \/ Len(disk.orphans) > OrphanMax
    BY <1>0, PruningDrops
  <1>2. ~(Len(disk.orphans) > OrphanMax)
    <2>1. Len(disk.orphans) \in Nat
      BY <1>0 DEF Orderly
    <2> QED
      BY <1>0, <2>1
  <1>3. mem' = [disk EXCEPT !.orphans = l] /\ phase' = "starting"
        /\ UNCHANGED <<disk, stream, task, paid, tx, opNonce, clock, submits>> /\ phase = "down"
    BY DEF Boot, flare
  <1> HIDE DEF l
  <1>4. mem' \in Store /\ mem'.stored = disk.stored /\ mem'.done = disk.done /\ mem'.orphans = l
    BY <1>0, <1>1, <1>3 DEF Store, Orderly
  <1>5. OperatorTypeOK'
    <2>1. \A i, j \in 1..Len(l) : l[i].hash = l[j].hash => i = j
      BY <1>1 DEF Orderly
    <2> QED
      BY <1>0, <1>1, <1>3, <1>4, <2>1 DEF OpInv, OperatorTypeOK, Up
  <1>6. ListsInOrder' /\ OnlyOldBeyond'
    BY <1>0, <1>1, <1>2, <1>3, <1>4 DEF OpInv, ListsInOrder, OnlyOldBeyond
  <1>7. GroundOK' /\ QuietUntilReady' /\ StreamOK' /\ FileOK' /\ TasksOK' /\ SubmittedOnce'
    BY <1>3 DEF OpInv, GroundOK, QuietUntilReady, StreamOK, FileOK, TasksOK, SubmittedOnce,
                Untouched
  <1>8. NothingLeftBeside'
    BY <1>3 DEF NothingLeftBeside
  <1> QED
    BY <1>5, <1>6, <1>7, <1>8 DEF OpInv

\* A completion that ends marks its instruction and saves the store.
LEMMA CompleteStep ==
    ASSUME OpInv, NEW p \in Payments, Complete(p)
    PROVE  OpInv'
  <1>0. /\ mem \in Store /\ mem.done \subseteq mem.stored
        /\ Orderly(mem.orphans) /\ Len(mem.orphans) <= OrphanMax
        /\ task \in [Payments -> {"none", "check", "attest", "submit", "receipt"}]
        /\ task[p] = "receipt"
    BY StoresAre DEF Complete
  <1>1. phase = "ready" /\ Up /\ Up'
    BY <1>0 DEF OpInv, QuietUntilReady, Up, Complete
  <1>2. /\ mem' \in Store /\ mem'.stored = mem.stored /\ mem'.orphans = mem.orphans
        /\ mem.done \subseteq mem'.done /\ mem'.done \subseteq mem.stored /\ disk' = mem'
    BY <1>0 DEF Complete, Completed, Store
  <1>3. task' = [task EXCEPT ![p] = "none"]
        /\ UNCHANGED <<phase, stream, paid, tx, opNonce, clock, submits>>
    BY DEF Complete, Goto, flare
  <1>4. ToSet(mem.orphans) \subseteq ToSet(disk.orphans)
    BY <1>1 DEF OpInv, OperatorTypeOK
  <1>5. OperatorTypeOK'
    <2>1. \A i, j \in 1..Len(mem.orphans) : mem.orphans[i].hash = mem.orphans[j].hash => i = j
      BY <1>0 DEF Orderly
    <2> QED
      BY <1>0, <1>2, <1>3, <2>1 DEF OpInv, OperatorTypeOK
  <1>6. GroundOK' /\ QuietUntilReady'
    BY <1>1, <1>3 DEF OpInv, GroundOK, QuietUntilReady
  <1>7. ListsInOrder' /\ OnlyOldBeyond'
    BY <1>0, <1>2, <1>3, <1>4 DEF OpInv, ListsInOrder, OnlyOldBeyond
  <1>8. \A q \in Payments : Untouched(q) => Untouched(q)'
    BY <1>0, <1>3 DEF Untouched
  <1>9. StreamOK' /\ FileOK'
    <2>1. /\ \A i \in DOMAIN stream : stream[i] \in Payments
          /\ \A o \in ToSet(disk.orphans) : o.tx \in Payments
      BY StoresAre
    <2>2. ToSet(disk'.orphans) \subseteq ToSet(disk.orphans)
      BY <1>2, <1>4
    <2> QED
      BY <1>3, <1>8, <2>1, <2>2 DEF OpInv, StreamOK, FileOK
  <1>10. TasksOK' /\ SubmittedOnce'
    BY <1>0, <1>3, <1>8 DEF OpInv, TasksOK, SubmittedOnce
  <1>11. NothingLeftBeside'
    BY <1>1, <1>2 DEF OpInv, NothingLeftBeside, Pending
  <1> QED
    BY <1>5, <1>6, <1>7, <1>9, <1>10, <1>11 DEF OpInv

\* A crash loses the events and the completions, not what waits in the file.
LEMMA CrashStep ==
    ASSUME OpInv, Crash
    PROVE  OpInv'
  <1>1. EmptyStore \in Store /\ Orderly(EmptyStore.orphans) /\ Len(EmptyStore.orphans) = 0
        /\ ToSet(EmptyStore.orphans) = {} /\ EmptyStore.done \subseteq EmptyStore.stored
    BY DEF EmptyStore, Store, Orderly, ToSet
  <1>2. /\ disk \in Store /\ disk.done \subseteq disk.stored /\ Orderly(disk.orphans)
        /\ Len(disk.orphans) <= OrphanMax /\ OrphanMax \in Nat
    BY StoresAre
  <1>3. /\ disk' = disk \/ disk' = EmptyStore
        /\ mem' = EmptyStore /\ phase' = "down" /\ stream' = <<>>
        /\ task' = [p \in Payments |-> "none"]
        /\ UNCHANGED <<paid, tx, opNonce, clock, submits>>
    BY DEF Crash, flare
  <1>4. /\ disk' \in Store /\ disk'.done \subseteq disk'.stored /\ Orderly(disk'.orphans)
        /\ Len(disk'.orphans) <= OrphanMax
        /\ ToSet(disk'.orphans) \subseteq ToSet(disk.orphans)
    BY <1>1, <1>2, <1>3
  <1>5. OperatorTypeOK'
    <2>1. \A i, j \in 1..Len(disk'.orphans) : disk'.orphans[i].hash = disk'.orphans[j].hash => i = j
      BY <1>4 DEF Orderly
    <2>2. \A i, j \in 1..Len(EmptyStore.orphans) :
              EmptyStore.orphans[i].hash = EmptyStore.orphans[j].hash => i = j
      BY <1>1 DEF Orderly
    <2> QED
      BY <1>1, <1>2, <1>3, <1>4, <2>1, <2>2 DEF OpInv, OperatorTypeOK, Up
  <1>6. GroundOK' /\ QuietUntilReady' /\ ListsInOrder' /\ OnlyOldBeyond'
    BY <1>1, <1>3, <1>4
    DEF OpInv, GroundOK, QuietUntilReady, ListsInOrder, OnlyOldBeyond, Up
  <1>7. \A q \in Payments : Untouched(q) => Untouched(q)'
    BY <1>3 DEF Untouched
  <1>8. StreamOK' /\ FileOK'
    <2>1. \A o \in ToSet(disk.orphans) : o.tx \in Payments
      BY StoresAre
    <2> QED
      BY <1>3, <1>4, <1>7, <2>1 DEF OpInv, StreamOK, FileOK
  <1>9. TasksOK' /\ SubmittedOnce' /\ NothingLeftBeside'
    BY <1>3, <1>7 DEF OpInv, TasksOK, SubmittedOnce, NothingLeftBeside
  <1> QED
    BY <1>5, <1>6, <1>8, <1>9 DEF OpInv

\* A payment that is made was not known of before.
LEMMA PayStep ==
    ASSUME OpInv, NEW p \in Payments, NEW h \in Hashes, Pay(p, h)
    PROVE  OpInv'
  <1>0. stream \in Seq(Payments) /\ paid \in [Payments -> Hashes \cup {None}] /\ h # None
    BY OperatorAssumption DEF OpInv, GroundOK
  <1>1. /\ paid[p] = None /\ paid' = [paid EXCEPT ![p] = h]
        /\ \/ stream' = stream
           \/ phase = "ready" /\ stream' = Append(stream, p)
        /\ UNCHANGED <<phase, mem, disk, task, tx, opNonce, clock, submits>>
    BY DEF Pay, flare
  <1>2. Untouched(p) /\ (\A o \in ToSet(disk.orphans) : o.tx # p)
        /\ \A i \in DOMAIN stream : stream[i] # p
    <2>1. \A o \in ToSet(disk.orphans) : o.hash # None
      BY StoresAre, OperatorAssumption
    <2> QED
      BY <1>1, <2>1 DEF OpInv, TasksOK, FileOK, StreamOK
  <1>3. OperatorTypeOK' /\ ListsInOrder' /\ OnlyOldBeyond' /\ SubmittedOnce' /\ NothingLeftBeside'
    BY <1>1 DEF OpInv, OperatorTypeOK, ListsInOrder, OnlyOldBeyond, SubmittedOnce,
                NothingLeftBeside, Pending, Up, Orderly
  <1>4. GroundOK' /\ QuietUntilReady'
    <2>1. paid' \in [Payments -> Hashes \cup {None}]
      BY <1>0, <1>1
    <2>2. stream' \in Seq(Payments)
      BY <1>0, <1>1
    <2>3. GroundOK'
      BY <1>1, <2>1, <2>2 DEF OpInv, GroundOK
    <2>4. QuietUntilReady'
      BY <1>1 DEF OpInv, QuietUntilReady
    <2> QED
      BY <2>3, <2>4
  <1>5. StreamOK'
    <2>1. CASE stream' = stream
      BY <1>0, <1>1, <1>2, <2>1 DEF OpInv, StreamOK, Untouched
    <2>2. CASE stream' = Append(stream, p)
      <3>1. \A i \in DOMAIN stream' : \/ i \in DOMAIN stream /\ stream'[i] = stream[i]
                                      \/ i = Len(stream) + 1 /\ stream'[i] = p
        BY <1>0, <2>2
      <3>2. \A i \in DOMAIN stream' : paid'[stream'[i]] # None /\ task'[stream'[i]] = "none"
                                      /\ submits'[stream'[i]] = 0
        <4> TAKE i \in DOMAIN stream'
        <4>1. CASE i \in DOMAIN stream /\ stream'[i] = stream[i]
          BY <1>0, <1>1, <1>2, <4>1 DEF OpInv, StreamOK, Untouched
        <4>2. CASE stream'[i] = p
          BY <1>0, <1>1, <1>2, <4>2 DEF Untouched
        <4> QED
          BY <3>1, <4>1, <4>2
      <3>3. \A i, j \in DOMAIN stream' : stream'[i] = stream'[j] => i = j
        BY <1>2, <3>1 DEF OpInv, StreamOK
      <3>4. \A i \in DOMAIN stream' : \A o \in ToSet(disk.orphans) : o.tx # stream'[i]
        BY <1>2, <3>1 DEF OpInv, StreamOK
      <3> QED
        <4>1. ToSet(disk.orphans)' = ToSet(disk.orphans)
          BY <1>1
        <4> QED
          BY <3>2, <3>3, <3>4, <4>1 DEF StreamOK, Untouched
    <2> QED
      BY <1>1, <2>1, <2>2
  <1>6. FileOK' /\ TasksOK'
    BY <1>0, <1>1, <1>2 DEF OpInv, FileOK, TasksOK, Untouched
  <1> QED
    BY <1>3, <1>4, <1>5, <1>6 DEF OpInv

\* An event is of a payment that is nowhere else; it is handled once.
LEMMA HeadOfStream ==
    ASSUME OpInv, stream # <<>>
    PROVE  LET p == Head(stream)
           IN  /\ p \in Payments /\ paid[p] \in Hashes /\ Untouched(p)
               /\ \A o \in ToSet(disk.orphans) : o.tx # p
               /\ Tail(stream) \in Seq(Payments) /\ Len(Tail(stream)) < Len(stream)
               /\ \A i \in DOMAIN Tail(stream) : /\ i + 1 \in DOMAIN stream
                                                 /\ Tail(stream)[i] = stream[i + 1]
                                                 /\ Tail(stream)[i] # p
  <1>1. stream \in Seq(Payments) /\ paid \in [Payments -> Hashes \cup {None}]
    BY DEF OpInv, GroundOK
  <1>2. Head(stream) = stream[1] /\ 1 \in DOMAIN stream /\ stream[1] \in Payments
    BY <1>1
  <1>3. \A i \in DOMAIN Tail(stream) : /\ i + 1 \in DOMAIN stream /\ i + 1 # 1
                                       /\ Tail(stream)[i] = stream[i + 1]
    BY <1>1
  <1>4. Tail(stream) \in Seq(Payments) /\ Len(Tail(stream)) < Len(stream)
    BY <1>1
  <1>5. \A i \in DOMAIN Tail(stream) : Tail(stream)[i] # stream[1]
    BY <1>2, <1>3 DEF OpInv, StreamOK
  <1>6. paid[stream[1]] \in Hashes /\ Untouched(stream[1])
        /\ \A o \in ToSet(disk.orphans) : o.tx # stream[1]
    BY <1>1, <1>2 DEF OpInv, StreamOK
  <1> QED
    BY <1>2, <1>3, <1>4, <1>5, <1>6

\* An event whose store, and whose completions but its own, stay.
LEMMA HandledStep ==
    ASSUME OpInv, stream # <<>>, stream' = Tail(stream), phase = "ready",
           UNCHANGED <<phase, mem, disk, paid, tx, opNonce, clock, submits>>,
           \/ task' = task
           \/ Begin({Head(stream)})
    PROVE  OpInv'
  <1> DEFINE p == Head(stream)
  <1>1. /\ p \in Payments /\ paid[p] \in Hashes /\ Untouched(p)
        /\ \A o \in ToSet(disk.orphans) : o.tx # p
        /\ stream' \in Seq(Payments)
        /\ \A i \in DOMAIN stream' : /\ i + 1 \in DOMAIN stream
                                     /\ stream'[i] = stream[i + 1]
                                     /\ stream'[i] # p
    BY HeadOfStream
  <1>2. task \in [Payments -> {"none", "check", "attest", "submit", "receipt"}]
        /\ \A o \in ToSet(disk.orphans) : o.tx \in Payments
        /\ \A i \in DOMAIN stream : stream[i] \in Payments
    BY StoresAre
  <1>3. /\ task' \in [Payments -> {"none", "check", "attest", "submit", "receipt"}]
        /\ \A q \in Payments : q # p => task'[q] = task[q]
        /\ task'[p] \in {"none", "check"}
    BY <1>1, <1>2 DEF Begin, Untouched
  <1> HIDE DEF p
  <1>4. OperatorTypeOK' /\ ListsInOrder' /\ OnlyOldBeyond' /\ SubmittedOnce' /\ NothingLeftBeside'
    BY <1>3 DEF OpInv, OperatorTypeOK, ListsInOrder, OnlyOldBeyond, SubmittedOnce,
                NothingLeftBeside, Pending, Up, Orderly
  <1>5. GroundOK' /\ QuietUntilReady'
    BY <1>1 DEF OpInv, GroundOK, QuietUntilReady
  <1>6. StreamOK'
    <2>1. \A i \in DOMAIN stream' :
             /\ task'[stream'[i]] = "none" /\ submits[stream'[i]] = 0 /\ paid[stream'[i]] # None
             /\ \A o \in ToSet(disk.orphans) : o.tx # stream'[i]
      BY <1>1, <1>2, <1>3 DEF OpInv, StreamOK, Untouched
    <2>2. \A i, j \in DOMAIN stream' : stream'[i] = stream'[j] => i = j
      <3> TAKE i, j \in DOMAIN stream'
      <3>1. stream'[i] = stream'[j] => i + 1 = j + 1
        BY <1>1 DEF OpInv, StreamOK
      <3>2. i \in Nat /\ j \in Nat
        BY <1>1
      <3> QED
        BY <3>1, <3>2
    <2> QED
      BY <2>1, <2>2 DEF StreamOK, Untouched
  <1>7. FileOK' /\ TasksOK'
    <2>1. paid[p] # None
      BY <1>1, OperatorAssumption
    <2> QED
      BY <1>1, <1>2, <1>3, <2>1 DEF OpInv, FileOK, TasksOK, Untouched
  <1> QED
    BY <1>4, <1>5, <1>6, <1>7 DEF OpInv

LEMMA DeliverStep ==
    ASSUME OpInv, Deliver
    PROVE  OpInv'
  <1> DEFINE p == Head(stream)
             h == paid[p]
             o == [hash |-> h, tx |-> p, seenAt |-> clock]
  <1>1. stream # <<>> /\ stream' = Tail(stream) /\ phase = "ready"
        /\ UNCHANGED <<phase, paid, tx, opNonce, clock, submits>>
    BY DEF Deliver, flare
  <1>2. CASE h \in mem.stored
    BY <1>1, <1>2, HandledStep DEF Deliver
  <1>3. CASE h \notin mem.stored /\ OrphanOf(mem, h) # {}
    BY <1>1, <1>3, HandledStep DEF Deliver, Recorded
  <1>4. CASE h \notin mem.stored /\ OrphanOf(mem, h) = {}
    <2>1. /\ p \in Payments /\ h \in Hashes /\ Untouched(p)
          /\ \A q \in ToSet(disk.orphans) : q.tx # p
          /\ stream' \in Seq(Payments)
          /\ \A i \in DOMAIN stream' : /\ i + 1 \in DOMAIN stream
                                       /\ stream'[i] = stream[i + 1]
                                       /\ stream'[i] # p
      BY <1>1, HeadOfStream
    <2>2. mem' = Recorded(mem, h, p) /\ disk' = mem' /\ task' = task
      BY <1>4 DEF Deliver
    <2>3. /\ mem \in Store /\ Orderly(mem.orphans) /\ Len(mem.orphans) <= OrphanMax
          /\ mem.done \subseteq mem.stored
          /\ \A q \in ToSet(disk.orphans) : q.tx \in Payments
          /\ \A i \in DOMAIN stream : stream[i] \in Payments
      BY StoresAre
    <2>4. clock \in 0..MaxClock /\ Up /\ Up'
      BY <1>1 DEF OpInv, GroundOK, Up
    <2>5. ToSet(mem.orphans) \subseteq ToSet(disk.orphans)
      BY <2>4 DEF OpInv, OperatorTypeOK
    <2>6. \A q \in ToSet(mem.orphans) : q.seenAt <= clock
      BY <2>5 DEF OpInv, ListsInOrder
    <2>7. /\ mem' \in Store /\ mem'.stored = mem.stored /\ mem'.done = mem.done
          /\ Orderly(mem'.orphans) /\ Len(mem'.orphans) <= OrphanMax
          /\ ToSet(mem'.orphans) \subseteq ToSet(mem.orphans) \cup {o}
      BY <1>4, <2>1, <2>2, <2>3, <2>4, <2>6, RecordingHolds
    <2>8. o.hash = h /\ o.tx = p /\ o.seenAt = clock /\ clock <= clock
      BY <2>4, OperatorAssumption
    <2> HIDE DEF o
    <2>9. OperatorTypeOK'
      <3>1. \A i, j \in 1..Len(mem'.orphans) : mem'.orphans[i].hash = mem'.orphans[j].hash => i = j
        BY <2>7 DEF Orderly
      <3> QED
        BY <1>1, <2>2, <2>3, <2>7, <3>1 DEF OpInv, OperatorTypeOK
    <2>10. ListsInOrder' /\ OnlyOldBeyond'
      BY <1>1, <2>2, <2>6, <2>7, <2>8 DEF ListsInOrder, OnlyOldBeyond
    <2>11. SubmittedOnce' /\ GroundOK' /\ QuietUntilReady'
      BY <1>1, <2>1, <2>2 DEF OpInv, SubmittedOnce, GroundOK, QuietUntilReady
    <2>12. NothingLeftBeside'
      BY <1>1, <1>4, <2>7, <2>8 DEF OpInv, NothingLeftBeside, Pending
    <2>13. StreamOK'
      <3>1. \A i \in DOMAIN stream' :
               /\ task'[stream'[i]] = "none" /\ submits'[stream'[i]] = 0
               /\ paid'[stream'[i]] # None
        BY <1>1, <2>1, <2>2, <2>3 DEF OpInv, StreamOK, Untouched
      <3>2. \A i \in DOMAIN stream' : \A q \in ToSet(disk'.orphans) : q.tx # stream'[i]
        BY <2>1, <2>2, <2>5, <2>7, <2>8 DEF OpInv, StreamOK
      <3>3. \A i, j \in DOMAIN stream' : stream'[i] = stream'[j] => i = j
        <4> TAKE i, j \in DOMAIN stream'
        <4>1. stream'[i] = stream'[j] => i + 1 = j + 1
          BY <2>1 DEF OpInv, StreamOK
        <4>2. i \in Nat /\ j \in Nat
          BY <2>1
        <4> QED
          BY <4>1, <4>2
      <3> QED
        BY <3>1, <3>2, <3>3 DEF StreamOK, Untouched
    <2>14. FileOK' /\ TasksOK'
      <3>1. \A q \in ToSet(disk'.orphans) : Untouched(q.tx) /\ paid[q.tx] = q.hash
        BY <2>1, <2>2, <2>5, <2>7, <2>8 DEF OpInv, FileOK
      <3> QED
        BY <1>1, <2>2, <3>1 DEF OpInv, FileOK, TasksOK, Untouched
    <2> QED
      BY <2>9, <2>10, <2>11, <2>12, <2>13, <2>14 DEF OpInv
  <1> QED
    BY <1>2, <1>3, <1>4

LEMMA NextOperator ==
    ASSUME OpInv, Next
    PROVE  OpInv'
  <1>1. CASE Boot
    BY <1>1, BootStep
  <1>2. CASE Ready
    BY <1>2, ReadyStep
  <1>3. CASE Deliver
    BY <1>3, DeliverStep
  <1>4. CASE Crash
    BY <1>4, CrashStep
  <1>5. CASE Elapse \/ \E p \in Payments : Mine(p) \/ ByHand(p)
    BY <1>5, WorldSteps
  <1>6. CASE \E h \in Ours : Register(h)
    BY <1>6, RegisterStep
  <1>7. ASSUME NEW p \in Payments, TaskStep(p)
        PROVE  OpInv'
    BY <1>7, TaskSteps, CompleteStep DEF TaskStep
  <1>8. CASE \E p \in Payments, h \in Hashes : Pay(p, h)
    BY <1>8, PayStep
  <1> QED
    BY <1>1, <1>2, <1>3, <1>4, <1>5, <1>6, <1>7, <1>8 DEF Next

LEMMA IdleOperator ==
    ASSUME OpInv, UNCHANGED vars
    PROVE  OpInv'
  BY DEF OpInv, vars, process, flare, OperatorTypeOK, GroundOK, QuietUntilReady, ListsInOrder,
         OnlyOldBeyond, StreamOK, FileOK, TasksOK, SubmittedOnce, NothingLeftBeside, Up,
         Untouched, Orderly, Pending

\* The operator's state is of its form, and the file never lags behind the
\* memory (store.ts, index.ts), whatever restarts, lost events and failing calls
\* there are.
THEOREM OperatorIsTyped == Spec => []OperatorTypeOK
  <1>1. OpInv /\ [Next]_vars => OpInv'
    BY NextOperator, IdleOperator
  <1>2. OpInv => OperatorTypeOK
    BY DEF OpInv
  <1> QED
    BY InitOperator, <1>1, <1>2, PTL DEF Spec

\* index.ts:171-179: an instruction and its payment never wait side by side.
THEOREM NothingIsLeftBeside == Spec => []NothingLeftBeside
  <1>1. OpInv /\ [Next]_vars => OpInv'
    BY NextOperator, IdleOperator
  <1>2. OpInv => NothingLeftBeside
    BY DEF OpInv
  <1> QED
    BY InitOperator, <1>1, <1>2, PTL DEF Spec

\* store.ts:33: no payment is submitted twice, by one process or by several one
\* after the other.
THEOREM IsSubmittedOnce == Spec => []SubmittedOnce
  <1>1. OpInv /\ [Next]_vars => OpInv'
    BY NextOperator, IdleOperator
  <1>2. OpInv => SubmittedOnce
    BY DEF OpInv
  <1> QED
    BY InitOperator, <1>1, <1>2, PTL DEF Spec

-----------------------------------------------------------------------------
(* What is held stays until it is due *)

\* A registration and the sweep take what is held for hs, and no more.
LEMMA TakingIsDue ==
    ASSUME OpInv, Up, NEW s \in Store, NEW hs, s.orphans = mem.orphans,
           \/ disk' = disk
           \/ Takes(disk', s, hs),
           Begin(Held(s, hs))
    PROVE  GoesWhenDue
  <1> SUFFICES ASSUME NEW o \in ToSet(disk.orphans) \ ToSet(disk'.orphans)
               PROVE  \/ task[o.tx] = "none" /\ task'[o.tx] = "check"
                      \/ o.seenAt < clock - OrphanTTL
    BY DEF GoesWhenDue
  <1>1. Takes(disk', s, hs)
    OBVIOUS
  <1>2. CASE o \in ToSet(mem.orphans)
    <2>1. o.hash \in hs
      BY <1>1, <1>2 DEF Takes
    <2>2. o.tx \in Held(s, hs)
      BY <1>2, <2>1 DEF Held
    <2>3. task[o.tx] = "none" /\ o.tx \in Payments
      BY StoresAre DEF OpInv, FileOK, Untouched
    <2> QED
      BY <2>2, <2>3 DEF Begin
  <1>3. CASE o \notin ToSet(mem.orphans)
    BY <1>3 DEF OpInv, OnlyOldBeyond
  <1> QED
    BY <1>2, <1>3

\* Every step holds what it handles, and drops what is due.
LEMMA StepHolds ==
    ASSUME OpInv, [Next]_vars
    PROVE  HandledIsHeld /\ GoesWhenDue
  <1>0. /\ mem \in Store /\ Orderly(mem.orphans) /\ Len(mem.orphans) <= OrphanMax
        /\ stream \in Seq(Payments) /\ Len(stream) \in Nat
    BY StoresAre
  <1>1. ASSUME stream' = stream, disk' = disk
        PROVE  HandledIsHeld /\ GoesWhenDue
    BY <1>0, <1>1 DEF HandledIsHeld, GoesWhenDue
  <1>2. CASE Ready
    <2>1. HandledIsHeld
      BY <1>0, <1>2 DEF Ready, HandledIsHeld
    <2>2. Takes(DiskAfterTake(mem, Swept), mem, Swept)
      BY <1>0, TakingTakes
    <2>3. Up /\ Begin(Held(mem, Swept)) /\ (disk' = disk \/ Takes(disk', mem, Swept))
      BY <1>2, <2>2 DEF Ready, Up
    <2> QED
      BY <1>0, <2>1, <2>3, TakingIsDue
  <1>3. ASSUME NEW h \in Ours, Register(h)
        PROVE  HandledIsHeld /\ GoesWhenDue
    <2> DEFINE s  == Added(mem, h)
               hs == IF phase = "ready" THEN {h} ELSE {}
    <2>1. HandledIsHeld
      BY <1>0, <1>3 DEF Register, HandledIsHeld
    <2>2. s \in Store /\ s.orphans = mem.orphans
      BY <1>0 DEF Added, Store
    <2>3. Up /\ Begin(Held(s, hs)) /\ (disk' = disk \/ disk' = DiskAfterTake(s, hs))
      BY <1>3 DEF Register
    <2> HIDE DEF s, hs
    <2>4. Takes(DiskAfterTake(s, hs), s, hs)
      BY <1>0, <2>2, TakingTakes
    <2> QED
      BY <2>1, <2>2, <2>3, <2>4, TakingIsDue
  <1>4. CASE Deliver
    <2> DEFINE p == Head(stream)
               h == paid[p]
               o == [hash |-> h, tx |-> p, seenAt |-> clock]
    <2>1. phase = "ready" /\ Up /\ stream # <<>>
      BY <1>4 DEF Deliver, Up
    <2>2. ToSet(mem.orphans) \subseteq ToSet(disk.orphans)
      BY <2>1 DEF OpInv, OperatorTypeOK
    <2>3. CASE h \in mem.stored
      BY <1>4, <2>3 DEF Deliver, HandledIsHeld, GoesWhenDue
    <2>4. CASE h \notin mem.stored /\ OrphanOf(mem, h) # {}
      <3>1. disk' = disk
        BY <1>4, <2>4 DEF Deliver
      <3> QED
        BY <2>2, <2>4, <3>1 DEF HandledIsHeld, GoesWhenDue, OrphanOf
    <2>5. CASE h \notin mem.stored /\ OrphanOf(mem, h) = {}
      <3>1. p \in Payments /\ h \in Hashes
        BY <2>1, HeadOfStream
      <3>2. disk' = Recorded(mem, h, p)
        BY <1>4, <2>5 DEF Deliver
      <3>3. clock \in 0..MaxClock /\ \A q \in ToSet(mem.orphans) : q.seenAt <= clock
        BY <2>2 DEF OpInv, GroundOK, ListsInOrder
      <3>4. /\ o \in ToSet(disk'.orphans)
            /\ \A x \in ToSet(mem.orphans) \ ToSet(disk'.orphans) :
                  \/ x.seenAt < clock - OrphanTTL
                  \/ /\ Len(disk'.orphans) = OrphanMax
                     /\ \A q \in ToSet(disk'.orphans) : q.seenAt >= x.seenAt
        BY <1>0, <2>5, <3>1, <3>2, <3>3, RecordingHolds
      <3>5. HandledIsHeld
        <4>1. o.hash = h
          OBVIOUS
        <4> HIDE DEF o
        <4> QED
          BY <3>4, <4>1 DEF HandledIsHeld, OrphanOf
      <3>6. GoesWhenDue
        BY <2>1, <3>4 DEF GoesWhenDue, OpInv, OnlyOldBeyond
      <3> QED
        BY <3>5, <3>6
    <2> QED
      BY <2>3, <2>4, <2>5
  <1>5. ASSUME NEW p \in Payments, Complete(p)
        PROVE  HandledIsHeld /\ GoesWhenDue
    <2>1. phase = "ready" /\ Up
      BY <1>5 DEF Complete, OpInv, QuietUntilReady, Up
    <2>2. disk'.orphans = mem.orphans /\ stream' = stream
      BY <1>0, <1>5 DEF Complete, Completed, Store
    <2> QED
      BY <1>0, <2>1, <2>2 DEF HandledIsHeld, GoesWhenDue, OpInv, OnlyOldBeyond
  <1>6. CASE Crash
    BY <1>6 DEF Crash, Up, HandledIsHeld, GoesWhenDue
  <1>7. ASSUME NEW p \in Payments, NEW h \in Hashes, Pay(p, h)
        PROVE  HandledIsHeld /\ GoesWhenDue
    <2>1. disk' = disk /\ ~(Len(stream') < Len(stream))
      BY <1>0, <1>7 DEF Pay
    <2> QED
      BY <2>1 DEF HandledIsHeld, GoesWhenDue
  <1>8. CASE Boot \/ Elapse \/ UNCHANGED vars
    BY <1>1, <1>8 DEF Boot, Elapse, vars, process
  <1>9. ASSUME NEW p \in Payments,
               CheckUsed(p) \/ FetchProof(p) \/ Submit(p) \/ Throw(p) \/ Mine(p) \/ ByHand(p)
        PROVE  HandledIsHeld /\ GoesWhenDue
    BY <1>1, <1>9 DEF CheckUsed, FetchProof, Submit, Throw, Mine, ByHand, process
  <1> QED
    BY <1>2, <1>3, <1>4, <1>5, <1>6, <1>7, <1>8, <1>9 DEF Next, TaskStep

\* store.ts:48-58, 172-191: a payment that comes before its instruction is held,
\* until its completion begins, it is too old, or OrphanMax later ones are held.
THEOREM IsHeldUntilDue == Spec => HeldUntilDue
  <1>1. OpInv /\ [Next]_vars => OpInv'
    BY NextOperator, IdleOperator
  <1>2. OpInv /\ [Next]_vars => HandledIsHeld /\ GoesWhenDue
    BY StepHolds
  <1> QED
    BY InitOperator, <1>1, <1>2, PTL DEF Spec, HeldUntilDue

-----------------------------------------------------------------------------
(* With the page *)

\* What is proved of the page, with the operator's file for what the operator
\* has and the account's nonce for what the account has come to.
PageSide == INSTANCE PageProofs WITH chain <- opNonce, held <- disk.stored, phase <- button

LEMMA OnePage ==
    /\ Client!Init <=> PageSide!Init
    /\ Client!Next <=> PageSide!Next
    /\ Client!vars = PageSide!vars
  <1>1. Client!Init <=> PageSide!Init
    BY DEF Client!Init, PageSide!Init, Client!Kinds, PageSide!Kinds
  <1>2. Client!Next <=> PageSide!Next
    BY DEF Client!Next, PageSide!Next, Client!Type, PageSide!Type, Client!Stop, PageSide!Stop,
           Client!Render, PageSide!Render, Client!Instruction, PageSide!Instruction,
           Client!Active, PageSide!Active, Client!Kinds, PageSide!Kinds,
           Client!NonceArrives, PageSide!NonceArrives, Client!RulesArrive, PageSide!RulesArrive,
           Client!ResolveFails, PageSide!ResolveFails, Client!BalanceArrives,
           PageSide!BalanceArrives, Client!RunEffects, PageSide!RunEffects,
           Client!ChainMoves, PageSide!ChainMoves, Client!Accept, PageSide!Accept,
           Client!Reaches, PageSide!Reaches, Client!Answer, PageSide!Answer,
           Client!Counts, PageSide!Counts, Client!Press, PageSide!Press,
           Client!Enabled, PageSide!Enabled, Client!Checked, PageSide!Checked,
           Client!SetPhase, PageSide!SetPhase, Client!NotSent, PageSide!NotSent,
           Client!Sent, PageSide!Sent, Client!shown, PageSide!shown,
           Client!operator, PageSide!operator
  <1>3. Client!vars = PageSide!vars
    BY DEF Client!vars, PageSide!vars, Client!shown, PageSide!shown,
           Client!operator, PageSide!operator
  <1> QED
    BY <1>1, <1>2, <1>3

\* The presses are a list of records, no longer than there are payments to make,
\* and every payment made is for a press, and for what was pressed.
Press(k) == [instr |-> sends[k].instr, state |-> sends[k].state, mounted |-> sends[k].mounted,
             vouched |-> sends[k].vouched, stopping |-> sends[k].stopping]

PressesOK ==
    /\ sends \in Seq({sends[k] : k \in DOMAIN sends}) /\ Len(sends) <= MaxPresses
    /\ \A k \in DOMAIN sends : sends[k] = Press(k)

PaidByPress ==
    \A k \in 1..MaxPresses :
        paid[PaymentOf[k]] # None => k \in DOMAIN sends /\ paid[PaymentOf[k]] = sends[k].instr

\* A list that is a function on 1..n.
LEMMA IsAList ==
    ASSUME NEW n \in Nat, NEW f, f = [i \in 1..n |-> f[i]]
    PROVE  f \in Seq({f[i] : i \in DOMAIN f}) /\ Len(f) = n /\ DOMAIN f = 1..n
  <1> DEFINE S == {f[i] : i \in DOMAIN f}
  <1>1. DOMAIN f = 1..n
    OBVIOUS
  <1>2. \A i \in 1..n : f[i] \in S
    BY <1>1
  <1> HIDE DEF S
  <1>3. f \in [1..n -> S]
    BY <1>2
  <1>4. f \in Seq(S) /\ Len(f) = n
    BY <1>3
  <1> QED
    BY <1>1, <1>4 DEF S

LEMMA LongerList ==
    ASSUME NEW S, NEW s \in Seq(S), NEW x
    PROVE  LET a == Append(s, x)
               n == Len(s) + 1
           IN  /\ n \in Nat /\ a = [i \in 1..n |-> a[i]]
               /\ a[n] = x /\ \A i \in 1..Len(s) : a[i] = s[i]
  <1> DEFINE T == S \cup {x}
             a == Append(s, x)
  <1>1. s \in Seq(T) /\ x \in T
    OBVIOUS
  <1> HIDE DEF T
  <1>2. a \in Seq(T) /\ Len(a) = Len(s) + 1 /\ Len(s) \in Nat
        /\ a[Len(s) + 1] = x /\ \A i \in 1..Len(s) : a[i] = s[i]
    BY <1>1
  <1> HIDE DEF a
  <1>3. a = [i \in 1..Len(a) |-> a[i]]
    BY <1>2
  <1> QED
    BY <1>2, <1>3 DEF a

\* Presses are added to, and keep what was pressed.
LEMMA PressesStay ==
    ASSUME PressesOK, PageStep \/ UNCHANGED sends
    PROVE  /\ PressesOK'
           /\ \A k \in DOMAIN sends : k \in DOMAIN sends' /\ sends'[k].instr = sends[k].instr
  <1>0. /\ Len(sends) \in 0..MaxPresses /\ DOMAIN sends = 1..Len(sends)
        /\ sends \in Seq({sends[k] : k \in DOMAIN sends})
    BY DeliveryAssumption DEF PressesOK
  <1>1. ASSUME NEW f, sends' = [k \in DOMAIN sends |-> f[k]],
               \A k \in DOMAIN sends : f[k] = [instr |-> sends[k].instr, state |-> f[k].state,
                   mounted |-> f[k].mounted, vouched |-> f[k].vouched,
                   stopping |-> f[k].stopping]
        PROVE  /\ PressesOK'
               /\ \A k \in DOMAIN sends : k \in DOMAIN sends' /\ sends'[k].instr = sends[k].instr
    <2>1. sends' = [k \in 1..Len(sends) |-> sends'[k]]
      BY <1>0, <1>1
    <2>2. sends' \in Seq({sends'[k] : k \in DOMAIN sends'}) /\ Len(sends') = Len(sends)
          /\ DOMAIN sends' = DOMAIN sends
      BY <1>0, <2>1, IsAList
    <2>3. \A k \in DOMAIN sends : sends'[k] = f[k] /\ sends'[k].instr = sends[k].instr
      <3> TAKE k \in DOMAIN sends
      <3>1. sends'[k] = f[k]
        BY <1>1
      <3>2. f[k] = [instr |-> sends[k].instr, state |-> f[k].state, mounted |-> f[k].mounted,
                    vouched |-> f[k].vouched, stopping |-> f[k].stopping]
        BY <1>1
      <3>3. f[k].instr = sends[k].instr
        BY <3>2
      <3> QED
        BY <3>1, <3>3
    <2> QED
      BY <1>0, <1>1, <2>2, <2>3 DEF PressesOK, Press
  <1>2. ASSUME NEW kind, Client!Press(kind)
        PROVE  /\ PressesOK'
               /\ \A k \in DOMAIN sends : k \in DOMAIN sends' /\ sends'[k].instr = sends[k].instr
    <2> DEFINE press == [instr |-> Client!Instruction(kind), state |-> "checking",
                         mounted |-> TRUE, vouched |-> registered = "yes" /\ due = {},
                         stopping |-> stopping # None]
    <2>1. sends' = Append(sends, press) /\ Len(sends) < MaxPresses
      BY <1>2 DEF Client!Press
    <2>2. press = [instr |-> press.instr, state |-> press.state, mounted |-> press.mounted,
                   vouched |-> press.vouched, stopping |-> press.stopping]
      OBVIOUS
    <2> HIDE DEF press
    <2>3. LET a == Append(sends, press)
              n == Len(sends) + 1
          IN  /\ n \in Nat /\ a = [i \in 1..n |-> a[i]]
              /\ a[n] = press /\ \A i \in 1..Len(sends) : a[i] = sends[i]
      BY <1>0, LongerList
    <2> DEFINE n == Len(sends) + 1
    <2>4. /\ n \in Nat /\ sends' = [k \in 1..n |-> sends'[k]]
          /\ sends'[n] = press /\ \A k \in 1..Len(sends) : sends'[k] = sends[k]
      BY <2>1, <2>3
    <2>5. sends' \in Seq({sends'[k] : k \in DOMAIN sends'}) /\ Len(sends') = n
          /\ DOMAIN sends' = 1..n
      BY <1>0, <2>4, IsAList
    <2>6. n <= MaxPresses /\ (\A k \in 1..n : k = n \/ k \in 1..Len(sends))
          /\ \A k \in 1..Len(sends) : k \in 1..n
      <3>1. Len(sends) \in Nat /\ MaxPresses \in Nat
        BY <1>0, DeliveryAssumption
      <3> QED
        BY <2>1, <3>1
    <2>7. \A k \in 1..n : sends'[k] = Press(k)'
      BY <1>0, <2>2, <2>4, <2>6 DEF PressesOK, Press
    <2> QED
      BY <1>0, <2>4, <2>5, <2>6, <2>7 DEF PressesOK
  <1>3. CASE UNCHANGED sends
    BY <1>3 DEF PressesOK, Press
  <1>4. ASSUME NEW i \in DOMAIN sends, NEW p, NEW state, Client!SetPhase(i, p, state)
        PROVE  /\ PressesOK'
               /\ \A k \in DOMAIN sends : k \in DOMAIN sends' /\ sends'[k].instr = sends[k].instr
    <2> DEFINE g(k) == IF k = i THEN [Press(k) EXCEPT !.state = state] ELSE Press(k)
               f == [k \in DOMAIN sends |-> g(k)]
    <2>1. sends' = [k \in DOMAIN sends |-> f[k]]
      BY <1>0, <1>4 DEF Client!SetPhase, PressesOK
    <2>2. \A k \in DOMAIN sends : f[k] = [instr |-> sends[k].instr, state |-> f[k].state,
                   mounted |-> f[k].mounted, vouched |-> f[k].vouched,
                   stopping |-> f[k].stopping]
      BY DEF Press
    <2> HIDE DEF f
    <2> QED
      BY <1>1, <2>1, <2>2
  <1>5. ASSUME NEW rebuilt, Client!Render(rebuilt)
        PROVE  /\ PressesOK'
               /\ \A k \in DOMAIN sends : k \in DOMAIN sends' /\ sends'[k].instr = sends[k].instr
    <2> DEFINE gone == {k \in Client!Kinds : Client!Instruction(k)' = None}
               g(k) == [Press(k) EXCEPT
                          !.mounted = sends[k].mounted /\ sends[k].instr.kind \notin gone]
               f == [k \in DOMAIN sends |-> g(k)]
    <2>0. sends' = [k \in DOMAIN sends |-> [sends[k] EXCEPT
                          !.mounted = sends[k].mounted /\ sends[k].instr.kind \notin gone]]
      BY <1>5 DEF Client!Render
    <2> HIDE DEF gone
    <2>1. sends' = [k \in DOMAIN sends |-> f[k]]
      BY <2>0 DEF PressesOK
    <2>2. \A k \in DOMAIN sends : f[k] = [instr |-> sends[k].instr, state |-> f[k].state,
                   mounted |-> f[k].mounted, vouched |-> f[k].vouched,
                   stopping |-> f[k].stopping]
      BY DEF Press
    <2> HIDE DEF f
    <2> QED
      BY <1>1, <2>1, <2>2
  <1>6. CASE PageStep
    <2>1. \/ UNCHANGED sends
          \/ \E kind \in Client!Kinds : Client!Press(kind)
          \/ \E rebuilt : Client!Render(rebuilt)
          \/ \E i \in DOMAIN sends : \E p, state : Client!SetPhase(i, p, state)
      BY <1>6 DEF PageStep, Client!Type, Client!Stop, Client!NonceArrives, Client!RulesArrive,
                  Client!ResolveFails, Client!BalanceArrives, Client!RunEffects,
                  Client!Answer, Client!Checked, Client!NotSent, Client!Sent
    <2> QED
      BY <1>2, <1>3, <1>4, <1>5, <2>1
  <1> QED
    BY <1>3, <1>6

\* The operator and the presses, whatever is torn.
BothInv == OpInv /\ PressesOK /\ PaidByPress

LEMMA InitBoth == DeliveryInit => BothInv
  <1> SUFFICES ASSUME DeliveryInit
               PROVE  BothInv
    OBVIOUS
  <1>1. sends = <<>> /\ \A p \in Payments : paid[p] = None
    BY DEF DeliveryInit, Init, Client!Init
  <1>2. PressesOK /\ PaidByPress
    BY <1>1, DeliveryAssumption DEF PressesOK, PaidByPress
  <1> QED
    BY <1>2, InitOperator DEF DeliveryInit, BothInv

\* A step of the two is a step of the operator, or none.
LEMMA DeliveryIsOperator ==
    ASSUME BothInv, [DeliveryNext]_bothVars
    PROVE  [Next]_vars
  <1>1. CASE PageStep
    BY <1>1 DEF PageStep
  <1>2. CASE OperatorStep
    BY <1>2 DEF OperatorStep, Next
  <1>3. ASSUME NEW i \in DOMAIN posts, HandOver(i)
        PROVE  Next
    BY <1>3 DEF HandOver, Next
  <1>4. ASSUME NEW k \in DOMAIN sends, PaymentLands(k)
        PROVE  Next
    <2>1. k \in 1..MaxPresses
      BY DeliveryAssumption DEF BothInv, PressesOK
    <2>2. PaymentOf[k] \in Payments /\ Pay(PaymentOf[k], sends[k].instr)
      BY <1>4, <2>1, DeliveryAssumption DEF PaymentLands
    <2>3. sends[k].instr \in Hashes
      BY <2>2, OperatorAssumption DEF Pay
    <2> QED
      BY <2>2, <2>3 DEF Next
  <1>5. CASE UNCHANGED bothVars
    BY <1>5 DEF bothVars
  <1> QED
    BY <1>1, <1>2, <1>3, <1>4, <1>5 DEF DeliveryNext

LEMMA NextBoth ==
    ASSUME BothInv, [DeliveryNext]_bothVars
    PROVE  BothInv'
  <1>1. OpInv'
    BY DeliveryIsOperator, NextOperator, IdleOperator DEF BothInv
  <1>2. /\ PressesOK'
        /\ \A k \in DOMAIN sends : k \in DOMAIN sends' /\ sends'[k].instr = sends[k].instr
    <2>1. PageStep \/ UNCHANGED sends
      BY DEF DeliveryNext, OperatorStep, pageVars, HandOver, Client!Reaches, PaymentLands, bothVars
    <2> QED
      BY <2>1, PressesStay DEF BothInv
  <1>3. PaidByPress'
    <2>1. CASE UNCHANGED paid
      BY <1>2, <2>1 DEF BothInv, PaidByPress
    <2>2. ASSUME NEW j \in DOMAIN sends, PaymentLands(j)
          PROVE  PaidByPress'
      <3>1. j \in 1..MaxPresses
        BY DeliveryAssumption DEF BothInv, PressesOK
      <3>2. paid' = [paid EXCEPT ![PaymentOf[j]] = sends[j].instr] /\ PaymentOf[j] \in Payments
            /\ paid \in [Payments -> Hashes \cup {None}]
        BY <2>2, <3>1, DeliveryAssumption DEF PaymentLands, Pay, BothInv, OpInv, GroundOK
      <3> SUFFICES ASSUME NEW k \in 1..MaxPresses, paid'[PaymentOf[k]] # None
                   PROVE  k \in DOMAIN sends' /\ paid'[PaymentOf[k]] = sends'[k].instr
        BY DEF PaidByPress
      <3>3. CASE k = j
        BY <1>2, <3>2, <3>3
      <3>4. CASE k # j
        <4>1. PaymentOf[k] # PaymentOf[j] /\ PaymentOf[k] \in Payments
          BY <3>1, <3>4, DeliveryAssumption
        <4>2. paid'[PaymentOf[k]] = paid[PaymentOf[k]]
          BY <3>2, <4>1
        <4> QED
          BY <1>2, <4>2 DEF BothInv, PaidByPress
      <3> QED
        BY <3>3, <3>4
    <2>3. UNCHANGED paid \/ \E j \in DOMAIN sends : PaymentLands(j)
      BY DEF DeliveryNext, PageStep, OperatorStep, vars, HandOver, Register, bothVars, Boot, Ready,
             Deliver, Crash, Elapse, TaskStep, Mine, ByHand, CheckUsed, FetchProof, Submit,
             Throw, Complete
    <2> QED
      BY <2>1, <2>2, <2>3
  <1> QED
    BY <1>1, <1>2, <1>3 DEF BothInv

\* The operator by itself hands nothing over and, unless a write is torn, loses
\* nothing; and the account's nonce moves by one.
LEMMA OperatorAlone ==
    ASSUME OpInv, OperatorStep, disk' = disk \/ Up'
    PROVE  /\ disk'.stored = disk.stored /\ UNCHANGED pageVars
           /\ opNonce' = opNonce \/ opNonce' = opNonce + 1
  <1>0. UNCHANGED pageVars /\ mem \in Store /\ Orderly(mem.orphans)
    BY StoresAre DEF OperatorStep
  <1>1. Up => mem.stored = disk.stored
    BY DEF OpInv, OperatorTypeOK
  <1>2. CASE Ready
    <2>1. Takes(DiskAfterTake(mem, Swept), mem, Swept)
      BY <1>0, TakingTakes
    <2> QED
      BY <1>0, <1>1, <1>2, <2>1 DEF Ready, Takes, Up, flare
  <1>3. CASE Deliver
    <2>1. disk' = disk \/ disk' = Recorded(mem, paid[Head(stream)], Head(stream))
      BY <1>3 DEF Deliver
    <2>2. Recorded(mem, paid[Head(stream)], Head(stream)).stored = mem.stored
      BY <1>0 DEF Recorded, Store
    <2> QED
      BY <1>0, <1>1, <1>3, <2>1, <2>2 DEF Deliver, Up, flare
  <1>4. ASSUME NEW p \in Payments, Complete(p)
        PROVE  disk'.stored = disk.stored /\ opNonce' = opNonce
    <2>1. Up
      BY <1>4 DEF Complete, OpInv, QuietUntilReady, Up
    <2>2. disk'.stored = mem.stored
      BY <1>0, <1>4 DEF Complete, Completed, Store
    <2> QED
      BY <1>1, <1>4, <2>1, <2>2 DEF Complete, flare
  <1>5. CASE Crash
    BY <1>0, <1>5 DEF Crash, Up, flare
  <1>6. CASE Boot \/ Elapse
    BY <1>0, <1>6 DEF Boot, Elapse, process, flare
  <1>7. ASSUME NEW p \in Payments,
               CheckUsed(p) \/ FetchProof(p) \/ Submit(p) \/ Throw(p)
        PROVE  disk'.stored = disk.stored /\ opNonce' = opNonce
    BY <1>7 DEF CheckUsed, FetchProof, Submit, Throw, flare
  <1>8. ASSUME NEW p \in Payments, Mine(p) \/ ByHand(p)
        PROVE  disk'.stored = disk.stored /\ (opNonce' = opNonce \/ opNonce' = opNonce + 1)
    BY <1>8 DEF Mine, ByHand, Executed, process
  <1> QED
    BY <1>0, <1>2, <1>3, <1>4, <1>5, <1>6, <1>7, <1>8 DEF OperatorStep, TaskStep

\* A registration adds to the file what is handed over.
LEMMA RegisterAdds ==
    ASSUME OpInv, NEW h \in Ours, Register(h)
    PROVE  disk'.stored = disk.stored \cup {h} /\ UNCHANGED opNonce
  <1> DEFINE s  == Added(mem, h)
             hs == IF phase = "ready" THEN {h} ELSE {}
  <1>0. mem \in Store /\ Orderly(mem.orphans)
    BY StoresAre
  <1>1. mem.stored = disk.stored
    BY DEF Register, OpInv, OperatorTypeOK
  <1>2. s \in Store /\ s.orphans = mem.orphans /\ s.stored = mem.stored \cup {h}
    BY <1>0 DEF Added, Store
  <1>3. (disk' = disk /\ h \in mem.stored) \/ disk' = DiskAfterTake(s, hs)
    BY DEF Register
  <1>4. UNCHANGED opNonce
    BY DEF Register, flare
  <1> HIDE DEF s, hs
  <1>5. Takes(DiskAfterTake(s, hs), s, hs)
    BY <1>0, <1>2, TakingTakes
  <1> QED
    BY <1>1, <1>2, <1>3, <1>4, <1>5 DEF Takes

\* Every whole step of the two is a step of the page with an operator that keeps
\* what it is handed, or none, or only moves the account past Page's bound.
LEMMA StepsOfPage ==
    ASSUME BothInv, Whole
    PROVE  \/ Client!Next
           \/ UNCHANGED Client!vars
           \/ ~(opNonce' <= MaxChain) /\ opNonce' \in Nat
              /\ UNCHANGED <<pageVars, disk.stored>>
  <1>0. opNonce \in Nat /\ MaxChain \in Nat
    BY DeliveryAssumption DEF BothInv, OpInv, GroundOK
  <1>1. CASE PageStep
    BY <1>1, Zenon DEF PageStep, Client!Next
  <1>2. CASE OperatorStep
    <2>1. /\ disk'.stored = disk.stored /\ UNCHANGED pageVars
          /\ opNonce' = opNonce \/ opNonce' = opNonce + 1
      BY <1>2, OperatorAlone DEF BothInv, Whole
    <2>2. CASE opNonce' = opNonce
      BY <2>1, <2>2 DEF pageVars, Client!vars, Client!shown, Client!operator
    <2>3. CASE opNonce' = opNonce + 1 /\ opNonce < MaxChain
      BY <2>1, <2>3 DEF pageVars, Client!Next, Client!ChainMoves, Client!shown, Client!operator
    <2>4. CASE opNonce' = opNonce + 1 /\ ~(opNonce < MaxChain)
      BY <1>0, <2>1, <2>4
    <2> QED
      BY <2>1, <2>2, <2>3, <2>4
  <1>3. ASSUME NEW i \in DOMAIN posts, HandOver(i)
        PROVE  Client!Next
    <2>1. disk'.stored = disk.stored \cup {posts[i].instr}
      BY <1>3, RegisterAdds DEF BothInv, HandOver
    <2>2. Client!Accept(i)
      BY <1>3, <2>1 DEF HandOver, Client!Accept
    <2> QED
      BY <2>2 DEF Client!Next
  <1>4. ASSUME NEW k \in DOMAIN sends, PaymentLands(k)
        PROVE  UNCHANGED Client!vars
    BY <1>4 DEF PaymentLands, Pay, flare, pageVars, Client!vars, Client!shown, Client!operator
  <1> QED
    BY <1>1, <1>2, <1>3, <1>4 DEF Whole, DeliveryNext

\* server.ts, store.ts, app.tsx:241-262: the operator with its file is what the
\* page takes it for, as long as no write is torn.
THEOREM DeliveryImplementsPage == DeliverySpec => ImplementsPage
  <1>1. DeliveryInit => Client!Init
    BY DEF DeliveryInit
  <1>2. BothInv /\ [DeliveryNext]_bothVars => BothInv'
    BY NextBoth
  <1>3. BothInv => [Whole /\ opNonce' <= MaxChain => Client!Next]_(Client!vars)
    BY StepsOfPage
  <1> QED
    BY InitBoth, <1>1, <1>2, <1>3, PTL DEF DeliverySpec, ImplementsPage

-----------------------------------------------------------------------------
\* An event leaves the stream, of a process that goes on, by being handled.
LEMMA OnlyDeliverHandles ==
    ASSUME BothInv, [DeliveryNext]_bothVars,
           stream # <<>>, stream' = Tail(stream), phase' = "ready"
    PROVE  Deliver
  <1>1. stream \in Seq(Payments)
    BY DEF BothInv, OpInv, GroundOK
  <1>2. stream' # stream /\ \A p \in Payments : stream' # Append(stream, p)
    <2>1. Len(Tail(stream)) = Len(stream) - 1 /\ Len(stream) \in Nat
      BY <1>1
    <2>2. \A p \in Payments : Len(Append(stream, p)) = Len(stream) + 1
      BY <1>1
    <2>3. stream' # stream
      <3> SUFFICES ASSUME stream' = stream
                   PROVE  FALSE
        OBVIOUS
      <3>1. Tail(stream) = stream
        OBVIOUS
      <3> QED
        BY <1>1, <2>1, <3>1
    <2>4. ASSUME NEW p \in Payments, stream' = Append(stream, p)
          PROVE  FALSE
      BY <2>1, <2>2, <2>4
    <2> QED
      BY <2>3, <2>4
  <1>3. CASE PageStep
    BY <1>2, <1>3 DEF PageStep, vars, process
  <1>4. CASE OperatorStep
    BY <1>2, <1>4 DEF OperatorStep, Boot, Ready, Crash, Elapse, TaskStep, Mine, ByHand, CheckUsed,
                      FetchProof, Submit, Throw, Complete, process
  <1>5. ASSUME NEW i \in DOMAIN posts, HandOver(i)
        PROVE  FALSE
    BY <1>2, <1>5 DEF HandOver, Register
  <1>6. ASSUME NEW k \in DOMAIN sends, PaymentLands(k)
        PROVE  FALSE
    <2>1. PaymentOf[k] \in Payments
      BY DeliveryAssumption DEF BothInv, PressesOK
    <2>2. stream' = Append(stream, PaymentOf[k]) \/ stream' = stream
      BY <1>6 DEF PaymentLands, Pay
    <2> QED
      BY <1>2, <2>1, <2>2
  <1>7. CASE UNCHANGED bothVars
    BY <1>2, <1>7 DEF bothVars, vars, process
  <1> QED
    BY <1>3, <1>4, <1>5, <1>6, <1>7 DEF DeliveryNext

\* A vouched press is of an instruction the operator has, so its payment begins
\* a completion, or its instruction was completed before.
LEMMA VouchedBegins ==
    ASSUME BothInv, PageSide!PageInv, [DeliveryNext]_bothVars,
           NEW k \in DOMAIN sends, Vouched(k),
           phase' = "ready", stream # <<>>, stream' = Tail(stream),
           Head(stream) = PaymentOf[k]
    PROVE  task'[PaymentOf[k]] = "check" \/ sends[k].instr \in mem.done
  <1> DEFINE p == PaymentOf[k]
  <1>1. Deliver
    BY OnlyDeliverHandles
  <1>2. p \in Payments /\ k \in 1..MaxPresses
    BY DeliveryAssumption DEF BothInv, PressesOK
  <1>3. paid[p] = sends[k].instr
    <2>1. 1 \in DOMAIN stream /\ Head(stream) = stream[1]
      BY DEF BothInv, OpInv, GroundOK
    <2>2. paid[p] # None
      BY <2>1 DEF BothInv, OpInv, StreamOK
    <2> QED
      BY <1>2, <2>2 DEF BothInv, PaidByPress
  <1>4. sends[k].instr \in disk.stored
    BY DEF PageSide!PageInv, PageSide!VouchedIsHeld, Vouched
  <1>5. sends[k].instr \in mem.stored
    <2>1. Up
      BY <1>1 DEF Deliver, Up
    <2> QED
      BY <1>4, <2>1 DEF BothInv, OpInv, OperatorTypeOK
  <1>6. sends[k].instr \in mem.done \/ Begin({p})
    BY <1>1, <1>3, <1>5 DEF Deliver
  <1> QED
    BY <1>2, <1>6 DEF Begin

\* While no write can be torn, the page's own invariant holds of the page and
\* the operator: what the page takes for registered is in the file.
LEMMA StepsKeepPage ==
    ASSUME "torn" \notin Disturbances, BothInv, PageSide!PageInv, [DeliveryNext]_bothVars
    PROVE  PageSide!PageInv'
  <1>1. CASE UNCHANGED bothVars
    <2>1. UNCHANGED PageSide!vars
      BY <1>1 DEF bothVars, vars, process, flare, pageVars, PageSide!vars, PageSide!shown,
                  PageSide!operator
    <2> QED
      BY <2>1, PageSide!StepPage
  <1>2. CASE DeliveryNext
    <2>1. Crash => Up /\ disk' = disk
      BY DEF Crash
    <2>2. Whole
      <3>1. CASE PageStep
        BY <1>2, <3>1 DEF Whole, PageStep, vars, process
      <3>2. CASE OperatorStep
        BY <1>2, <2>1, <3>2 DEF Whole, OperatorStep, Boot, Ready, Deliver, Elapse, TaskStep, Mine,
              ByHand, CheckUsed, FetchProof, Submit, Throw, Complete, process, Up, BothInv, OpInv,
              QuietUntilReady
      <3>3. ASSUME NEW i \in DOMAIN posts, HandOver(i)
            PROVE  Whole
        BY <1>2, <3>3 DEF Whole, HandOver, Register, Up
      <3>4. ASSUME NEW j \in DOMAIN sends, PaymentLands(j)
            PROVE  Whole
        BY <1>2, <3>4 DEF Whole, PaymentLands, Pay
      <3> QED
        BY <1>2, <3>1, <3>2, <3>3, <3>4 DEF DeliveryNext
    <2>3. CASE Client!Next \/ UNCHANGED Client!vars
      <3>1. [PageSide!Next]_(PageSide!vars)
        BY <2>3, OnePage DEF Client!vars, PageSide!vars, Client!shown, PageSide!shown,
                             Client!operator, PageSide!operator
      <3> QED
        BY <3>1, PageSide!StepPage
    <2>4. CASE opNonce' \in Nat /\ UNCHANGED <<pageVars, disk.stored>>
      BY <2>4 DEF pageVars, PageSide!PageInv, PageSide!TypeOK, PageSide!LastIsActive,
                  PageSide!YesIsOfLast, PageSide!AcceptedHeld, PageSide!VouchedIsHeld,
                  PageSide!Last, PageSide!Active, PageSide!Instruction
    <2> QED
      BY <2>2, <2>3, <2>4, StepsOfPage
  <1> QED
    BY <1>1, <1>2

\* app.tsx:235-236, index.ts:201-220: unless a write is torn, a payment made in
\* trust of the page is never taken for a stranger's, whatever restarts and newer
\* instructions came between.
THEOREM VouchedAlwaysBegun ==
    ASSUME "torn" \notin Disturbances
    PROVE  DeliverySpec => VouchedIsBegun
  <1> DEFINE Inv == BothInv /\ PageSide!PageInv
             Begins == \A k \in DOMAIN sends :
                 Vouched(k) /\ phase' = "ready" /\ stream # <<>> /\ stream' = Tail(stream)
                   /\ Head(stream) = PaymentOf[k]
                 => task'[PaymentOf[k]] = "check" \/ sends[k].instr \in mem.done
  <1>1. DeliveryInit => Inv
    BY InitBoth, OnePage, PageSide!InitPage DEF DeliveryInit
  <1>2. Inv /\ [DeliveryNext]_bothVars => Inv'
    BY NextBoth, StepsKeepPage
  <1>3. Inv /\ [DeliveryNext]_bothVars => [Begins]_bothVars
    BY VouchedBegins
  <1> QED
    BY <1>1, <1>2, <1>3, PTL DEF DeliverySpec, VouchedIsBegun
=============================================================================
