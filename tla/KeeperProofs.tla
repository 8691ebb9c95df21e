---------------------------- MODULE KeeperProofs ----------------------------
(***************************************************************************)
(* Proofs about Keeper, for every registry, every page and batch size and  *)
(* every mix of disturbances.                                              *)
(*                                                                         *)
(* The invariant has three parts, each proved for each step: what stays in *)
(* the chain (Kept), what the keeper remembers (Counts), and the tick      *)
(* under way (TickOK).                                                     *)
(***************************************************************************)
EXTENDS Keeper, RuleEngineProofs, SequenceTheorems, DataLemmas

Kept ==
    /\ config \in Configs
    /\ ListOK
    /\ batch \in Seq(Executors \X Ids)

Counts ==
    /\ DOMAIN quarantine \subseteq Ids
    /\ strikes \in [Ids -> Nat]
    /\ noops \in [Ids -> Nat]
    /\ \A id \in Ids : noops[id] <= strikes[id]
    /\ BatchNoopsBounded

Waiting == {"mined", "check"}

\* The lists of a tick at each of its stages.
ListsOK ==
    /\ tick \in Ticks
    /\ Len(tick.due) <= MaxBatchSize
    /\ ToSet(tick.left) \subseteq ToSet(tick.due)
    /\ tick.deposited \subseteq ToSet(tick.due)
    /\ tick.pc \in {"one", "sendOne"} => Len(tick.due) = 1
    /\ tick.pc \in {"many", "sendMany", "mined"} => Len(tick.due) > 1
    /\ tick.pc = "check" => tick.left # <<>>

\* What they have to do with the chain and with what the keeper remembers.
LinksOK ==
    /\ batch # <<>> => tick.pc \in {"mined", "sleep"}
    /\ tick.pc = "mined" => \A i \in DOMAIN batch : batch[i][2] \in ToSet(tick.due)
    /\ tick.pc \notin {"sleep", "check"} => ToSet(tick.due) \cap DOMAIN quarantine = {}

TickOK == ListsOK /\ LinksOK /\ ScanOK

LEMMA Parts == KeeperInv <=> Kept /\ Counts /\ TickOK
  <1>1. tick \in Ticks => ToSet(tick.due) \subseteq Ids
    BY DEF Ticks, ToSet
  <1> QED
    BY <1>1 DEF KeeperInv, KeeperTypeOK, Kept, Counts, TickOK, ListsOK, LinksOK,
                BatchOK, StrikesOK

-----------------------------------------------------------------------------
(* Lists *)

LEMMA ElementsAre ==
    ASSUME NEW T, NEW s \in Seq(T)
    PROVE  /\ Len(s) \in Nat /\ DOMAIN s = 1..Len(s) /\ ToSet(s) \subseteq T
           /\ \A i \in DOMAIN s : s[i] \in ToSet(s)
  BY DEF ToSet

\* A loop that leaves out the others keeps the rest, each once if each was there once.
LEMMA ThoseAre ==
    ASSUME NEW T, NEW s \in Seq(T), NEW S
    PROVE  /\ Those(s, S) \in Seq(T)
           /\ ToSet(Those(s, S)) = ToSet(s) \cap S
           /\ Distinct(s) => Distinct(Those(s, S))
  <1> DEFINE K == {i \in DOMAIN s : s[i] \in S}
             c == Cardinality(K)
             r == AtIndices(s, K)
  <1>0. K \in SUBSET (DOMAIN s) /\ DOMAIN s = 1..Len(s) /\ Len(s) \in Nat
    OBVIOUS
  <1> HIDE DEF K
  <1>1. /\ c \in 0..Len(s) /\ r \in Seq(T) /\ Len(r) = c
        /\ \E at \in [1..c -> K] :
              /\ \A i \in 1..c : r[i] = s[at[i]]
              /\ \A i, j \in 1..c : i < j => at[i] < at[j]
              /\ \A k \in K : \E i \in 1..c : at[i] = k
    BY <1>0, AtIndicesWalks
  <1>2. Those(s, S) = r
    BY DEF Those, K
  <1>3. PICK at \in [1..c -> K] :
              /\ \A i \in 1..c : r[i] = s[at[i]]
              /\ \A i, j \in 1..c : i < j => at[i] < at[j]
              /\ \A k \in K : \E i \in 1..c : at[i] = k
    BY <1>1
  <1> HIDE DEF c, r
  <1>4. DOMAIN r = 1..c
    BY <1>1
  <1>5. ToSet(r) = ToSet(s) \cap S
    BY <1>0, <1>3, <1>4 DEF ToSet, K
  <1>6. ASSUME Distinct(s)
        PROVE  Distinct(r)
    <2> SUFFICES ASSUME NEW i \in 1..c, NEW j \in 1..c, r[i] = r[j], i # j
                 PROVE  FALSE
      BY <1>4 DEF Distinct
    <2>1. at[i] \in DOMAIN s /\ at[j] \in DOMAIN s /\ s[at[i]] = s[at[j]]
      BY <1>0, <1>3
    <2>2. at[i] = at[j]
      BY <1>6, <2>1 DEF Distinct
    <2>a. at[i] \in Nat /\ at[j] \in Nat
      BY <1>0, <2>1
    <2>b. c \in Nat
      BY <1>0, <1>1
    <2>3. i \in Nat /\ j \in Nat /\ at[i] \in Nat /\ at[j] \in Nat
      BY <2>a, <2>b
    <2>4. i < j \/ j < i
      BY <2>3
    <2> QED
      BY <1>3, <2>2, <2>3, <2>4
  <1> QED
    BY <1>1, <1>2, <1>5, <1>6

\* A list that names nothing twice is as long as what it names is many.
LEMMA DistinctCount ==
    ASSUME NEW T, NEW s \in Seq(T), Distinct(s)
    PROVE  Cardinality(ToSet(s)) = Len(s)
  <1>1. Len(s) \in Nat /\ DOMAIN s = 1..Len(s)
    OBVIOUS
  <1>2. IsFiniteSet(1..Len(s)) /\ Cardinality(1..Len(s)) = Len(s)
    BY <1>1, FS_Interval
  <1> DEFINE f == [i \in 1..Len(s) |-> s[i]]
  <1>3. f \in Surjection(1..Len(s), ToSet(s))
    BY <1>1 DEF Surjection, ToSet
  <1>4. f \in Injection(1..Len(s), ToSet(s))
    BY <1>1, <1>3 DEF Surjection, Injection, IsInjective, Distinct
  <1> HIDE DEF f
  <1> QED
    BY <1>2, <1>3, <1>4, FS_Surjection

\* A stretch of a list.
LEMMA StretchIs ==
    ASSUME NEW T, NEW s \in Seq(T), NEW n \in 0..Len(s), NEW m \in 0..n
    PROVE  /\ SubSeq(s, m + 1, n) \in Seq(T) /\ Len(SubSeq(s, m + 1, n)) = n - m
           /\ ToSet(SubSeq(s, m + 1, n)) = {s[i] : i \in (m + 1)..n}
           /\ Distinct(s) => Distinct(SubSeq(s, m + 1, n))
  <1> DEFINE r == SubSeq(s, m + 1, n)
  <1>1. Len(s) \in Nat /\ DOMAIN s = 1..Len(s) /\ n \in Nat /\ m \in Nat /\ m <= n
        /\ n <= Len(s)
    OBVIOUS
  <1>2. r \in Seq(T) /\ Len(r) = n - m /\ \A i \in 1..(n - m) : r[i] = s[m + i]
    <2>1. \A i \in (m + 1)..n : s[i] \in T
      BY <1>1
    <2>2. m + 1 \in Int /\ n \in Int
      BY <1>1
    <2>3. /\ r \in Seq(T) /\ Len(r) = IF m + 1 <= n THEN n - (m + 1) + 1 ELSE 0
          /\ \A i \in 1 .. n - (m + 1) + 1 : r[i] = s[(m + 1) + i - 1]
      BY <2>1, <2>2, SubSeqProperties
    <2> HIDE DEF r
    <2>4. Len(r) = n - m
      BY <1>1, <2>3
    <2>5. \A i \in 1..(n - m) : r[i] = s[m + i]
      <3> SUFFICES ASSUME NEW i \in 1..(n - m)
                   PROVE  r[i] = s[m + i]
        OBVIOUS
      <3>1. i \in 1 .. n - (m + 1) + 1 /\ (m + 1) + i - 1 = m + i
        BY <1>1
      <3>2. r[i] = s[(m + 1) + i - 1]
        BY <2>3, <3>1
      <3> QED
        BY <3>1, <3>2
    <2> QED
      BY <2>3, <2>4, <2>5
  <1> HIDE DEF r
  <1>3. DOMAIN r = 1..(n - m)
    BY <1>2
  <1>4. ToSet(r) = {s[i] : i \in (m + 1)..n}
    <2>1. \A i \in 1..(n - m) : m + i \in (m + 1)..n
      BY <1>1
    <2>2. \A i \in (m + 1)..n : i - m \in 1..(n - m) /\ m + (i - m) = i
      BY <1>1
    <2>3. \A x : x \in ToSet(r) <=> \E i \in 1..(n - m) : x = r[i]
      BY <1>3 DEF ToSet
    <2>4. \A i \in 1..(n - m) : r[i] \in {s[k] : k \in (m + 1)..n}
      BY <1>2, <2>1
    <2>5. ASSUME NEW i \in (m + 1)..n PROVE s[i] \in ToSet(r)
      <3>1. i - m \in 1..(n - m) /\ s[i] = r[i - m]
        BY <1>2, <2>2
      <3> QED
        BY <2>3, <3>1
    <2>6. ToSet(r) \subseteq {s[i] : i \in (m + 1)..n}
      BY <2>3, <2>4
    <2>7. {s[i] : i \in (m + 1)..n} \subseteq ToSet(r)
      BY <2>5
    <2> QED
      BY <2>6, <2>7
  <1>5. ASSUME Distinct(s)
        PROVE  Distinct(r)
    <2> SUFFICES ASSUME NEW i \in 1..(n - m), NEW j \in 1..(n - m), r[i] = r[j]
                 PROVE  i = j
      BY <1>3 DEF Distinct
    <2>1. m + i \in DOMAIN s /\ m + j \in DOMAIN s
      BY <1>1
    <2>2. m + i = m + j
      BY <1>2, <1>5, <2>1 DEF Distinct
    <2> QED
      BY <1>1, <2>2
  <1> QED
    BY <1>2, <1>4, <1>5 DEF r

\* One list after the other.
LEMMA JoinedAre ==
    ASSUME NEW T, NEW s \in Seq(T), NEW r \in Seq(T)
    PROVE  /\ s \o r \in Seq(T)
           /\ ToSet(s \o r) = ToSet(s) \cup ToSet(r)
           /\ Distinct(s) /\ Distinct(r) /\ ToSet(s) \cap ToSet(r) = {} => Distinct(s \o r)
  <1> DEFINE q == s \o r
             m == Len(s)
             n == Len(r)
  <1>1. /\ m \in Nat /\ DOMAIN s = 1..m /\ n \in Nat /\ DOMAIN r = 1..n
    OBVIOUS
  <1>2. /\ q \in Seq(T) /\ Len(q) = m + n
        /\ \A i \in 1..(m + n) : q[i] = IF i <= m THEN s[i] ELSE r[i - m]
    BY ConcatProperties
  <1> HIDE DEF q, m, n
  <1>3. DOMAIN q = 1..(m + n)
    BY <1>2
  <1>4. \A i \in 1..m : i \in 1..(m + n) /\ q[i] = s[i] /\ s[i] \in ToSet(s)
    <2> SUFFICES ASSUME NEW i \in 1..m
                 PROVE  i \in 1..(m + n) /\ q[i] = s[i] /\ s[i] \in ToSet(s)
      OBVIOUS
    <2>1. i \in 1..(m + n) /\ i <= m
      BY <1>1
    <2>2. s[i] \in ToSet(s)
      BY <1>1 DEF ToSet
    <2> QED
      BY <1>2, <2>1, <2>2
  <1>5. \A i \in 1..n : m + i \in 1..(m + n) /\ q[m + i] = r[i] /\ r[i] \in ToSet(r)
    <2> SUFFICES ASSUME NEW i \in 1..n
                 PROVE  m + i \in 1..(m + n) /\ q[m + i] = r[i] /\ r[i] \in ToSet(r)
      OBVIOUS
    <2>1. m + i \in 1..(m + n) /\ ~(m + i <= m) /\ (m + i) - m = i
      BY <1>1
    <2>2. r[i] \in ToSet(r)
      BY <1>1 DEF ToSet
    <2> QED
      BY <1>2, <2>1, <2>2
  <1>6. \A i \in 1..(m + n) : i \in 1..m \/ (i - m \in 1..n /\ m + (i - m) = i)
    BY <1>1
  <1>7. ToSet(q) = ToSet(s) \cup ToSet(r)
    <2>1. \A x : x \in ToSet(q) <=> \E i \in 1..(m + n) : x = q[i]
      BY <1>3 DEF ToSet
    <2>2. \A x : x \in ToSet(s) <=> \E i \in 1..m : x = s[i]
      BY <1>1 DEF ToSet
    <2>3. \A x : x \in ToSet(r) <=> \E i \in 1..n : x = r[i]
      BY <1>1 DEF ToSet
    <2>4. \A i \in 1..(m + n) : q[i] \in ToSet(s) \cup ToSet(r)
      <3> SUFFICES ASSUME NEW i \in 1..(m + n)
                   PROVE  q[i] \in ToSet(s) \cup ToSet(r)
        OBVIOUS
      <3>1. CASE i \in 1..m
        BY <1>4, <3>1
      <3>2. CASE i - m \in 1..n /\ m + (i - m) = i
        <4>1. q[m + (i - m)] \in ToSet(r)
          BY <1>5, <3>2
        <4> QED
          BY <3>2, <4>1
      <3> QED
        BY <1>6, <3>1, <3>2
    <2>5. ToSet(q) \subseteq ToSet(s) \cup ToSet(r)
      BY <2>1, <2>4
    <2>6. ToSet(s) \subseteq ToSet(q)
      BY <1>4, <2>1, <2>2
    <2>7. ToSet(r) \subseteq ToSet(q)
      BY <1>5, <2>1, <2>3
    <2> QED
      BY <2>5, <2>6, <2>7
  <1>8. ASSUME Distinct(s), Distinct(r), ToSet(s) \cap ToSet(r) = {}
        PROVE  Distinct(q)
    <2> SUFFICES ASSUME NEW i \in 1..(m + n), NEW j \in 1..(m + n), q[i] = q[j]
                 PROVE  i = j
      BY <1>3 DEF Distinct
    <2>1. CASE i \in 1..m /\ j \in 1..m
      BY <1>1, <1>4, <1>8, <2>1 DEF Distinct
    <2>2. CASE i \in 1..m /\ j - m \in 1..n /\ m + (j - m) = j
      <3>1. q[i] \in ToSet(s)
        BY <1>4, <2>2
      <3>2. q[m + (j - m)] \in ToSet(r)
        BY <1>5, <2>2
      <3> QED
        BY <1>8, <2>2, <3>1, <3>2
    <2>3. CASE j \in 1..m /\ i - m \in 1..n /\ m + (i - m) = i
      <3>1. q[j] \in ToSet(s)
        BY <1>4, <2>3
      <3>2. q[m + (i - m)] \in ToSet(r)
        BY <1>5, <2>3
      <3> QED
        BY <1>8, <2>3, <3>1, <3>2
    <2>4. CASE /\ i - m \in 1..n /\ m + (i - m) = i
               /\ j - m \in 1..n /\ m + (j - m) = j
      <3>1. q[m + (i - m)] = r[i - m] /\ q[m + (j - m)] = r[j - m]
        BY <1>5, <2>4
      <3>2. r[i - m] = r[j - m]
        BY <2>4, <3>1
      <3>3. i - m = j - m
        BY <1>1, <1>8, <2>4, <3>2 DEF Distinct
      <3> QED
        BY <2>4, <3>3
    <2> QED
      BY <1>6, <2>1, <2>2, <2>3, <2>4
  <1> QED
    BY <1>2, <1>7, <1>8 DEF q

\* The first elements.
LEMMA PrefixIs ==
    ASSUME NEW T, NEW s \in Seq(T), NEW n \in 0..Len(s)
    PROVE  /\ SubSeq(s, 1, n) \in Seq(T) /\ Len(SubSeq(s, 1, n)) = n
           /\ ToSet(SubSeq(s, 1, n)) \subseteq ToSet(s)
           /\ Distinct(s) => Distinct(SubSeq(s, 1, n))
  <1>1. 0 \in 0..n /\ n \in Nat /\ 0 + 1 = 1 /\ n - 0 = n
    OBVIOUS
  <1>2. /\ SubSeq(s, 0 + 1, n) \in Seq(T) /\ Len(SubSeq(s, 0 + 1, n)) = n - 0
        /\ ToSet(SubSeq(s, 0 + 1, n)) = {s[i] : i \in (0 + 1)..n}
        /\ Distinct(s) => Distinct(SubSeq(s, 0 + 1, n))
    BY <1>1, StretchIs
  <1>3. {s[i] : i \in 1..n} \subseteq ToSet(s)
    BY DEF ToSet
  <1> QED
    BY <1>1, <1>2, <1>3

\* The rest.
LEMMA RestIs ==
    ASSUME NEW T, NEW s \in Seq(T), s # <<>>
    PROVE  /\ Head(s) \in ToSet(s)
           /\ Tail(s) \in Seq(T) /\ ToSet(Tail(s)) \subseteq ToSet(s)
           /\ Len(s) # 1 => Tail(s) # <<>>
  <1>1. /\ Tail(s) \in Seq(T) /\ Len(Tail(s)) = Len(s) - 1
        /\ \A i \in 1 .. Len(Tail(s)) : Tail(s)[i] = s[i + 1]
    BY HeadTailProperties
  <1>2. Len(s) \in Nat \ {0} /\ DOMAIN s = 1..Len(s) /\ Head(s) = s[1]
    OBVIOUS
  <1>3. DOMAIN Tail(s) = 1..(Len(s) - 1)
    BY <1>1
  <1>4. \A i \in DOMAIN Tail(s) : i + 1 \in DOMAIN s /\ Tail(s)[i] = s[i + 1]
    BY <1>1, <1>2, <1>3
  <1>5. ToSet(Tail(s)) \subseteq ToSet(s)
    BY <1>4 DEF ToSet
  <1>6. Head(s) \in ToSet(s)
    BY <1>2 DEF ToSet
  <1>7. Len(s) # 1 => Len(Tail(s)) # 0
    BY <1>1, <1>2
  <1> QED
    BY <1>1, <1>5, <1>6, <1>7

-----------------------------------------------------------------------------
(* What the steps leave alone *)

LEMMA AsleepOK == tick = Asleep => TickOK
  <1> SUFFICES ASSUME tick = Asleep
               PROVE  TickOK
    OBVIOUS
  <1>1. /\ tick.pc = "sleep" /\ tick.offset = 0 /\ tick.due = <<>> /\ tick.left = <<>>
        /\ tick.deposited = {} /\ tick.wasDue = {}
    BY DEF Asleep
  <1>2. tick \in Ticks
    BY DEF Asleep, Ticks
  <1>3. MaxBatchSize \in Nat
    BY KeeperAssumption, EngineAssumption
  <1>4. ToSet(<<>>) = {} /\ Distinct(<<>>)
    BY DEF ToSet, Distinct
  <1> QED
    BY <1>1, <1>2, <1>3, <1>4 DEF TickOK, ListsOK, LinksOK, ScanOK

LEMMA ChainKept == Kept /\ ChainStays /\ config' = config => Kept' /\ Ids' = Ids
  BY DEF Kept, ListOK, ChainStays, vars, Ids

LEMMA CountsKept ==
    Counts /\ Ids' = Ids /\ UNCHANGED <<quarantine, strikes, noops>> => Counts'
  BY DEF Counts, BatchNoopsBounded

\* Rules are given up; nothing else is counted.
LEMMA GivenUp ==
    ASSUME Counts, Ids' = Ids, UNCHANGED <<strikes, noops>>,
           NEW ids \in SUBSET Ids, NEW reason,
           quarantine' = Quarantined(quarantine, ids, reason)
    PROVE  Counts' /\ DOMAIN quarantine' = DOMAIN quarantine \cup ids
  <1>1. DOMAIN quarantine' = DOMAIN quarantine \cup ids
    BY DEF Quarantined
  <1> QED
    BY <1>1 DEF Counts, BatchNoopsBounded

\* Rules get a strike, for anything but a receipt.
LEMMA Struck ==
    ASSUME Counts, Ids' = Ids, UNCHANGED noops,
           NEW ids \in SUBSET Ids, NEW reason, Strike(ids, reason)
    PROVE  Counts'
  <1> DEFINE out == {id \in ids : Out(strikes[id] + 1)}
  <1>1. strikes' = [id \in Ids |-> IF id \in ids THEN strikes[id] + 1 ELSE strikes[id]]
        /\ quarantine' = Quarantined(quarantine, out, reason)
    BY DEF Strike
  <1>2. out \subseteq Ids
    OBVIOUS
  <1> HIDE DEF out
  <1>3. DOMAIN quarantine' = DOMAIN quarantine \cup out
    BY <1>1 DEF Quarantined
  <1>4. strikes \in [Ids -> Nat] /\ noops \in [Ids -> Nat]
        /\ \A id \in Ids : noops[id] <= strikes[id]
    BY DEF Counts
  <1>5. strikes' \in [Ids -> Nat] /\ \A id \in Ids : strikes[id] <= strikes'[id]
    BY <1>1, <1>4
  <1>6. \A id \in Ids : noops[id] <= strikes'[id]
    BY <1>4, <1>5
  <1> QED
    BY <1>2, <1>3, <1>4, <1>5, <1>6 DEF Counts, BatchNoopsBounded

-----------------------------------------------------------------------------
(* The start *)

LEMMA PlacedApart ==
    ASSUME NEW i \in Nat, NEW j \in Nat, 1 <= i, i < j
    PROVE  Placed(i) # Placed(j)
  <1> SUFFICES ASSUME Placed(i) = Placed(j)
               PROVE  FALSE
    OBVIOUS
  <1> DEFINE Before(m) == {k \in 1..(m - 1) : Orders[k][1] = Orders[i][1]}
  <1>1. Orders[i][1] = Orders[j][1]
    BY DEF Placed
  <1>2. Cardinality(Before(i)) = Cardinality(Before(j))
    BY <1>1 DEF Placed
  <1>3. Before(i) \in SUBSET Before(j) /\ i \in Before(j) /\ i \notin Before(i)
    OBVIOUS
  <1>4. IsFiniteSet(Before(j))
    <2>1. IsFiniteSet(1..(j - 1))
      BY FS_Interval
    <2>2. Before(j) \in SUBSET (1..(j - 1))
      OBVIOUS
    <2> QED
      BY <2>1, <2>2, FS_Subset
  <1> HIDE DEF Before
  <1> QED
    BY <1>2, <1>3, <1>4, FS_Subset

\* The registry at the start holds the orders, each under its own id.
LEMMA InitLists ==
    ASSUME KeeperInit
    PROVE  /\ config \in Configs /\ Len(Orders) \in Nat
           /\ allRuleIds = [i \in 1..Len(Orders) |-> Placed(i)]
           /\ Ids = {Placed(i) : i \in 1..Len(Orders)}
           /\ ListOK
  <1>1. config \in Configs
    BY DEF KeeperInit
  <1>2. allRuleIds = [i \in 1..Len(Orders) |-> Placed(i)]
        /\ Ids = {Placed(i) : i \in 1..Len(Orders)}
    BY DEF KeeperInit, Ids
  <1>3. Len(Orders) \in Nat
    BY <1>1, KeeperAssumption DEF Config, Orders
  <1>4. ListOK
    <2>1. DOMAIN allRuleIds = 1..Len(Orders)
      BY <1>2
    <2>2. ToSet(allRuleIds) = Ids
      BY <1>2, <2>1 DEF ToSet
    <2>3. allRuleIds \in Seq(Ids)
      <3>1. \A i \in 1..Len(Orders) : Placed(i) \in Ids
        BY <1>2
      <3> QED
        BY <1>2, <1>3, <3>1
    <2>4. ASSUME NEW i \in 1..Len(Orders), NEW j \in 1..Len(Orders),
                 allRuleIds[i] = allRuleIds[j]
          PROVE  i = j
      <3>1. Placed(i) = Placed(j) /\ i \in Nat /\ j \in Nat /\ 1 <= i /\ 1 <= j
        BY <1>2, <1>3, <2>4
      <3>2. ~(i < j) /\ ~(j < i)
        BY <3>1, PlacedApart
      <3> QED
        BY <3>1, <3>2
    <2> QED
      BY <2>1, <2>2, <2>3, <2>4 DEF ListOK, Distinct
  <1> QED
    BY <1>1, <1>2, <1>3, <1>4

LEMMA InitKeeps == KeeperInit => KeeperInv
  <1> SUFFICES ASSUME KeeperInit
               PROVE  KeeperInv
    OBVIOUS
  <1>1. batch = <<>> /\ tick = Asleep
        /\ quarantine = [id \in {} |-> ""]
        /\ strikes = [id \in Ids |-> 0] /\ noops = [id \in Ids |-> 0]
    BY DEF KeeperInit, Ids
  <1>2. Kept
    BY <1>1, InitLists DEF Kept
  <1>3. Counts
    <2>1. MaxNoopStrikes \in Nat /\ MaxNoopStrikes > 0
      BY KeeperAssumption
    <2>2. \A id \in Ids : noops[id] = 0 /\ strikes[id] = 0
      BY <1>1
    <2> QED
      BY <1>1, <2>1, <2>2 DEF Counts, BatchNoopsBounded
  <1> QED
    BY <1>1, <1>2, <1>3, AsleepOK, Parts

-----------------------------------------------------------------------------
(* The steps around a tick *)

\* A tick that ends, or is given up, leaves only its counts to be looked at.
LEMMA Sleeps ==
    ASSUME Kept', Counts', Sleep
    PROVE  KeeperInv'
  <1>1. (tick = Asleep)'
    BY DEF Sleep, Asleep
  <1>2. TickOK'
    BY <1>1, AsleepOK, PTL
  <1>3. Kept' /\ Counts' /\ TickOK'
    BY <1>2
  <1> QED
    BY <1>3, Parts, PTL

LEMMA Assembled ==
    ASSUME Kept', Counts', TickOK'
    PROVE  KeeperInv'
  <1>1. Kept' /\ Counts' /\ TickOK'
    OBVIOUS
  <1> QED
    BY <1>1, Parts, PTL

LEMMA WakeKeeps ==
    ASSUME KeeperInv, Idle, Wake, config' = config
    PROVE  KeeperInv'
  <1> DEFINE found == StillDue(Ids \ DOMAIN quarantine)
  <1>1. Kept /\ Counts /\ TickOK
    BY Parts
  <1>2. Kept' /\ Ids' = Ids
    BY <1>1, ChainKept DEF Wake
  <1>3. Counts'
    BY <1>1, <1>2, CountsKept DEF Wake
  <1>4. tick' = [Asleep EXCEPT !.pc = "scan", !.wasDue = found]
    BY DEF Wake
  <1>5. /\ tick'.pc = "scan" /\ tick'.offset = 0 /\ tick'.due = <<>> /\ tick'.left = <<>>
        /\ tick'.deposited = {} /\ tick'.wasDue = found
    BY <1>4 DEF Asleep
  <1>6. \A id \in found : id \in Ids /\ IsDue(rules[id], now) /\ id \notin DOMAIN quarantine
    BY DEF StillDue
  <1>a. found \in SUBSET Ids
    BY <1>6
  <1> HIDE DEF found
  <1>7. UNCHANGED <<rules, now, quarantine, batch, allRuleIds>>
    BY DEF Wake, ChainStays, vars
  <1>8. tick' \in Ticks'
    <2>1. tick' = [pc |-> "scan", offset |-> 0, due |-> <<>>, left |-> <<>>,
                   deposited |-> {}, wasDue |-> found]
      BY <1>4 DEF Asleep
    <2>2. <<>> \in Seq(Ids)
      OBVIOUS
    <2>3. tick' \in Ticks
      BY <1>a, <2>1, <2>2 DEF Ticks
    <2> QED
      BY <1>2, <2>3 DEF Ticks
  <1>9. MaxBatchSize \in Nat /\ MaxBatchSize > 0
    BY KeeperAssumption, EngineAssumption
  <1>10. ToSet(<<>>) = {} /\ Distinct(<<>>)
    BY DEF ToSet, Distinct
  <1>11. ListsOK' /\ LinksOK'
    BY <1>5, <1>7, <1>8, <1>9, <1>10 DEF ListsOK, LinksOK, Idle
  <1>12. DOMAIN allRuleIds \subseteq Nat \ {0}
    BY <1>1 DEF Kept, ListOK
  <1>13. ScanOK'
    <2>1. \A id \in tick'.wasDue : IsDue(rules'[id], now') /\ id \notin DOMAIN quarantine'
      BY <1>5, <1>6, <1>7
    <2>2. \A i \in DOMAIN allRuleIds' : ~(i <= tick'.offset)
      BY <1>5, <1>7, <1>12
    <2>3. Len(tick'.due) < MaxBatchSize /\ ToSet(tick'.due) = {} /\ Distinct(tick'.due)
      BY <1>5, <1>9, <1>10
    <2> QED
      BY <1>5, <2>1, <2>2, <2>3 DEF ScanOK
  <1>14. Kept' /\ Counts' /\ TickOK'
    BY <1>2, <1>3, <1>11, <1>13 DEF TickOK
  <1> QED
    BY <1>14, Assembled

LEMMA TickFailsKeeps ==
    ASSUME KeeperInv, TickFails, config' = config
    PROVE  KeeperInv'
  <1>1. Kept /\ Counts
    BY Parts
  <1>2. Kept' /\ Ids' = Ids
    BY <1>1, ChainKept DEF TickFails
  <1>3. Counts'
    BY <1>1, <1>2, CountsKept DEF TickFails
  <1> QED
    BY <1>2, <1>3, Sleeps DEF TickFails

LEMMA RestartKeeps ==
    ASSUME KeeperInv, Restart, config' = config
    PROVE  KeeperInv'
  <1>1. Kept
    BY Parts
  <1>2. Kept' /\ Ids' = Ids
    BY <1>1, ChainKept DEF Restart
  <1>3. MaxNoopStrikes \in Nat /\ MaxNoopStrikes > 0
    BY KeeperAssumption
  <1>4. quarantine' = [id \in {} |-> ""] /\ strikes' = [id \in Ids |-> 0]
        /\ noops' = [id \in Ids |-> 0]
    BY DEF Restart
  <1>5. Counts'
    <2>1. \A id \in Ids : noops'[id] = 0 /\ strikes'[id] = 0
      BY <1>4
    <2> QED
      BY <1>2, <1>3, <1>4, <2>1 DEF Counts, BatchNoopsBounded
  <1> QED
    BY <1>2, <1>5, Sleeps DEF Restart

LEMMA WorldKeeps ==
    ASSUME KeeperInv, World, config' = config
    PROVE  KeeperInv'
  <1>1. Kept /\ Counts /\ TickOK
    BY Parts
  <1>2. /\ Idle /\ batch' = batch
        /\ allRuleIds' = allRuleIds /\ Ids' = Ids
    <2>1. CASE \E id \in Ids : Execute(OurExecutor, id)
      BY <2>1 DEF Execute, DoExecute, Ids
    <2>2. CASE \E id \in Ids : CancelRule(rules[id].account, id)
      BY <2>2 DEF CancelRule, DoCancelRule, Ids
    <2>3. CASE \E value \in BOOLEAN : SetPaused(OurExecutor, value)
      BY <2>3 DEF SetPaused, registryVars, Ids
    <2>4. CASE \E a \in Accounts, x \in MintAmounts : Mint(a, x)
      BY <2>4 DEF Mint, registryVars, Ids
    <2>5. CASE Tick
      BY <2>5 DEF Tick, registryVars, Ids
    <2> QED
      BY <2>1, <2>2, <2>3, <2>4, <2>5 DEF World
  <1>3. Kept'
    BY <1>1, <1>2 DEF Kept, ListOK
  <1>4. UNCHANGED <<quarantine, strikes, noops>>
    BY DEF World
  <1>5. Counts'
    BY <1>1, <1>2, <1>4, CountsKept
  <1>6. tick' = [tick EXCEPT !.wasDue = {id \in @ : IsDue(rules'[id], now')}]
    BY DEF World
  <1> DEFINE still == {id \in tick.wasDue : IsDue(rules'[id], now')}
  <1>7. tick \in Ticks
    BY <1>1 DEF TickOK, ListsOK
  <1>8. /\ tick' \in Ticks
        /\ tick'.pc = tick.pc /\ tick'.offset = tick.offset /\ tick'.due = tick.due
        /\ tick'.left = tick.left /\ tick'.deposited = tick.deposited
        /\ tick'.wasDue = still
    BY <1>6, <1>7 DEF Ticks
  <1>9. Ticks' = Ticks
    BY <1>2 DEF Ticks
  <1>10. ListsOK' /\ LinksOK'
    <2>1. ListsOK /\ LinksOK
      BY <1>1 DEF TickOK
    <2> HIDE DEF still
    <2>2. ListsOK'
      BY <1>8, <1>9, <2>1 DEF ListsOK
    <2> QED
      BY <1>2, <1>4, <1>8, <2>1, <2>2 DEF LinksOK, Idle
  <1>11. ScanOK'
    <2>1. ScanOK
      BY <1>1 DEF TickOK
    <2>2. still \subseteq tick.wasDue /\ \A id \in still : IsDue(rules'[id], now')
      OBVIOUS
    <2> HIDE DEF still
    <2> QED
      BY <1>2, <1>4, <1>8, <2>1, <2>2 DEF ScanOK
  <1>12. Kept' /\ Counts' /\ TickOK'
    BY <1>3, <1>5, <1>10, <1>11 DEF TickOK
  <1> QED
    BY <1>12, Assembled

\* A list that grows at its end: what was there stays where it was.
LEMMA ListGrows ==
    ASSUME NEW T, NEW s \in Seq(T), NEW x, x \notin T, ToSet(s) = T, Distinct(s)
    PROVE  LET t == Append(s, x)
           IN  /\ t \in Seq(T \cup {x}) /\ ToSet(t) = T \cup {x} /\ Distinct(t)
               /\ DOMAIN s \subseteq DOMAIN t
               /\ \A i \in DOMAIN t : IF i \in DOMAIN s THEN t[i] = s[i] ELSE t[i] = x
  <1> DEFINE t == Append(s, x)
             n == Len(s)
  <1>1. /\ n \in Nat /\ DOMAIN s = 1..n /\ DOMAIN t = 1..(n + 1) /\ t \in Seq(T \cup {x})
        /\ t[n + 1] = x /\ \A i \in 1..n : t[i] = s[i] /\ s[i] \in T
    OBVIOUS
  <1> HIDE DEF t, n
  <1>2. \A i \in DOMAIN t : i \in DOMAIN s \/ i = n + 1
    BY <1>1
  <1>3. n + 1 \in DOMAIN t /\ n + 1 \notin DOMAIN s
    BY <1>1
  <1>4. ToSet(t) = T \cup {x}
    <2>1. T = {s[i] : i \in DOMAIN s}
      BY DEF ToSet
    <2> QED
      BY <1>1, <1>2, <1>3, <2>1 DEF ToSet
  <1>5. Distinct(t)
    BY <1>1, <1>2 DEF Distinct
  <1> QED
    BY <1>1, <1>2, <1>4, <1>5 DEF t

LEMMA RuleCreatedKeeps ==
    ASSUME KeeperInv, EngineInv, RuleCreated, config' = config
    PROVE  KeeperInv'
  <1>1. Kept /\ Counts /\ TickOK
    BY Parts
  <1>2. PICK a \in Accounts, p \in ParamChoices : CreateRule(a, p)
    BY DEF RuleCreated
  <1> DEFINE id == <<a, nonces[a]>>
  <1>3. /\ batch = <<>> /\ batch' = batch /\ now' = now
        /\ Ids' = Ids \cup {id} /\ allRuleIds' = Append(allRuleIds, id)
        /\ \A x \in Ids : x # id => rules'[x] = rules[x]
    BY <1>2 DEF CreateRule, DoCreateRule, Idle, Ids
  <1>4. id \notin Ids
    <2>1. nonces[a] \in Nat
      BY DEF EngineInv, TypeOK
    <2>2. id \in Ids => nonces[a] < nonces[a]
      BY DEF EngineInv, IdsAreSpent
    <2> QED
      BY <2>1, <2>2
  <1> HIDE DEF id
  <1>5. allRuleIds \in Seq(Ids) /\ ToSet(allRuleIds) = Ids /\ Distinct(allRuleIds)
    BY <1>1 DEF Kept, ListOK
  <1>6. /\ allRuleIds' \in Seq(Ids') /\ ToSet(allRuleIds') = Ids' /\ Distinct(allRuleIds')
        /\ DOMAIN allRuleIds \subseteq DOMAIN allRuleIds'
        /\ \A i \in DOMAIN allRuleIds' :
             IF i \in DOMAIN allRuleIds THEN allRuleIds'[i] = allRuleIds[i]
             ELSE allRuleIds'[i] = id
    BY <1>3, <1>4, <1>5, ListGrows
  <1>7. Kept'
    BY <1>1, <1>3, <1>6 DEF Kept, ListOK, Distinct
  <1>8. quarantine' = quarantine /\ tick' = tick
    BY DEF RuleCreated
  <1>9. Counts'
    <2>1. /\ strikes' = [x \in Ids' |-> IF x \in Ids THEN strikes[x] ELSE 0]
          /\ noops' = [x \in Ids' |-> IF x \in Ids THEN noops[x] ELSE 0]
      BY DEF RuleCreated
    <2>2. MaxNoopStrikes \in Nat /\ MaxNoopStrikes > 0
      BY KeeperAssumption
    <2>3. strikes \in [Ids -> Nat] /\ noops \in [Ids -> Nat]
      BY <1>1 DEF Counts
    <2>4. \A x \in Ids' : /\ strikes'[x] = IF x \in Ids THEN strikes[x] ELSE 0
                          /\ noops'[x] = IF x \in Ids THEN noops[x] ELSE 0
      BY <2>1
    <2>5. strikes' \in [Ids' -> Nat] /\ noops' \in [Ids' -> Nat]
      BY <2>1, <2>3
    <2> QED
      BY <1>1, <1>3, <1>8, <2>2, <2>4, <2>5 DEF Counts, BatchNoopsBounded
  <1>10. tick \in Ticks /\ tick \in Ticks'
    <2>1. tick \in Ticks
      BY <1>1 DEF TickOK, ListsOK
    <2>2. Seq(Ids) \subseteq Seq(Ids') /\ SUBSET Ids \subseteq SUBSET Ids'
      BY <1>3
    <2> QED
      BY <2>1, <2>2 DEF Ticks
  <1>11. ListsOK' /\ LinksOK'
    <2>1. ListsOK /\ LinksOK
      BY <1>1 DEF TickOK
    <2> QED
      BY <1>3, <1>8, <1>10, <2>1 DEF ListsOK, LinksOK
  <1>12. ScanOK'
    <2>1. ScanOK
      BY <1>1 DEF TickOK
    <2>2. tick.wasDue \subseteq Ids /\ ToSet(tick.due) \subseteq Ids
      BY <1>10, ElementsAre DEF Ticks
    <2>3. ASSUME tick.pc = "scan", NEW x \in tick.wasDue
          PROVE  IsDue(rules'[x], now') /\ x \notin DOMAIN quarantine'
      BY <1>3, <1>4, <1>8, <2>1, <2>2, <2>3 DEF ScanOK
    <2>4. ASSUME tick.pc = "scan", NEW i \in DOMAIN allRuleIds'
          PROVE  IF i <= tick.offset
                 THEN allRuleIds'[i] \in tick.wasDue => allRuleIds'[i] \in ToSet(tick.due)
                 ELSE allRuleIds'[i] \notin ToSet(tick.due)
      BY <1>4, <1>6, <2>1, <2>2, <2>4 DEF ScanOK
    <2> QED
      BY <1>8, <2>1, <2>3, <2>4 DEF ScanOK
  <1>13. Kept' /\ Counts' /\ TickOK'
    BY <1>7, <1>9, <1>11, <1>12 DEF TickOK
  <1> QED
    BY <1>13, Assembled

-----------------------------------------------------------------------------
(* Scanning *)

\* dueRules: the due rules of a window, and where the next one starts; the last
\* window is the one that does not get any further.
LEMMA PageIs ==
    ASSUME ListOK, NEW offset \in Nat
    PROVE  LET page == DueRules(offset, PageSize)
           IN  /\ page.ids \in Seq(Ids) /\ Distinct(page.ids)
               /\ page.nextOffset \in Nat
               /\ page.nextOffset <= offset => offset >= Len(allRuleIds)
               /\ \A i \in DOMAIN allRuleIds :
                     offset < i =>
                       (allRuleIds[i] \in ToSet(page.ids)
                          <=> i <= page.nextOffset /\ IsDue(rules[allRuleIds[i]], now))
               /\ ToSet(page.ids) \subseteq
                     {allRuleIds[i] : i \in {k \in DOMAIN allRuleIds : offset < k}}
  <1> DEFINE total == Len(allRuleIds)
             end == IF offset + PageSize > total THEN total ELSE offset + PageSize
             due == {id \in Ids : IsDue(rules[id], now)}
             window == SubSeq(allRuleIds, offset + 1, end)
             page == DueRules(offset, PageSize)
  <1>1. /\ allRuleIds \in Seq(Ids) /\ Distinct(allRuleIds)
        /\ total \in Nat /\ DOMAIN allRuleIds = 1..total
        /\ PageSize \in Nat /\ PageSize > 0
    BY KeeperAssumption DEF ListOK
  <1>2. CASE offset >= total
    <2>1. page.ids = <<>> /\ page.nextOffset = total
      BY <1>2 DEF DueRules
    <2>2. <<>> \in Seq(Ids) /\ ToSet(<<>>) = {} /\ Distinct(<<>>)
      BY DEF ToSet, Distinct
    <2>3. \A i \in DOMAIN allRuleIds : ~(offset < i)
      BY <1>1, <1>2
    <2> HIDE DEF page, total
    <2>4. page.nextOffset <= offset => offset >= total
      BY <1>2
    <2> QED
      BY <1>1, <2>1, <2>2, <2>3, <2>4 DEF page, total
  <1>3. CASE ~(offset >= total)
    <2>1. page.ids = Those(window, due) /\ page.nextOffset = end
      BY <1>3 DEF DueRules
    <2>2. end \in 0..total /\ offset \in 0..end /\ offset < end
      BY <1>1, <1>3
    <2> HIDE DEF end
    <2>3. window \in Seq(Ids) /\ Distinct(window)
          /\ ToSet(window) = {allRuleIds[i] : i \in (offset + 1)..end}
      BY <1>1, <2>2, StretchIs
    <2> HIDE DEF window
    <2>4. /\ Those(window, due) \in Seq(Ids) /\ Distinct(Those(window, due))
          /\ ToSet(Those(window, due)) = ToSet(window) \cap due
      BY <2>3, ThoseAre
    <2>5. end \in Nat /\ ~(end <= offset)
      BY <1>1, <2>2
    <2>6. (offset + 1)..end = {i \in 1..total : offset < i /\ i <= end}
      BY <1>1, <2>2
    <2>7. \A i \in 1..total : allRuleIds[i] \in Ids
      BY <1>1
    <2>8. \A i, j \in 1..total : allRuleIds[i] = allRuleIds[j] => i = j
      BY <1>1 DEF Distinct
    <2>9. \A i \in 1..total : offset < i =>
             (allRuleIds[i] \in ToSet(window) <=> i <= end)
      BY <2>3, <2>6, <2>8
    <2>10. \A i \in 1..total : offset < i =>
             (allRuleIds[i] \in ToSet(page.ids)
                <=> i <= page.nextOffset /\ IsDue(rules[allRuleIds[i]], now))
      BY <2>1, <2>4, <2>7, <2>9
    <2>11. ToSet(page.ids) \subseteq
             {allRuleIds[i] : i \in {k \in DOMAIN allRuleIds : offset < k}}
      BY <1>1, <2>1, <2>3, <2>4, <2>6
    <2> HIDE DEF page, total, due
    <2> QED
      BY <1>1, <2>1, <2>4, <2>5, <2>10, <2>11 DEF page
  <1> QED
    BY <1>2, <1>3

LEMMA ScanPageKeeps ==
    ASSUME KeeperInv, Idle, ScanPage, config' = config
    PROVE  KeeperInv'
  <1> DEFINE page == DueRules(tick.offset, PageSize)
             fresh == {id \in Ids : ~Skipped(id)}
             more == Those(page.ids, fresh)
             out == tick.due \o more
             next == page.nextOffset
             ended == next <= tick.offset \/ next >= Len(allRuleIds)
  <1>1. Kept /\ Counts /\ ListsOK /\ LinksOK /\ ScanOK
    BY Parts DEF TickOK
  <1>2. Kept' /\ Ids' = Ids
    BY <1>1, ChainKept DEF ScanPage
  <1>3. Counts'
    BY <1>1, <1>2, CountsKept DEF ScanPage
  <1>4. /\ tick.pc = "scan"
        /\ tick' = IF Len(out) >= MaxBatchSize
                   THEN [tick EXCEPT !.pc = "plan", !.due = SubSeq(out, 1, MaxBatchSize)]
                   ELSE [tick EXCEPT !.pc = IF ended THEN "plan" ELSE "scan",
                                     !.due = out, !.offset = next]
    BY DEF ScanPage, NextOffset
  <1>5. UNCHANGED <<rules, now, quarantine, batch, allRuleIds>>
    BY DEF ScanPage, ChainStays, vars
  <1>6. tick \in Ticks /\ Ticks' = Ticks
    BY <1>1, <1>2 DEF ListsOK, Ticks
  <1>7. /\ tick.offset \in Nat /\ tick.due \in Seq(Ids) /\ tick.wasDue \subseteq Ids
        /\ tick.left = <<>> /\ tick.deposited = {}
    BY <1>1, <1>4, <1>6 DEF Ticks, ScanOK
  <1>8. /\ allRuleIds \in Seq(Ids) /\ ToSet(allRuleIds) = Ids /\ Distinct(allRuleIds)
        /\ ListOK
    BY <1>1 DEF Kept, ListOK
  <1> DEFINE total == Len(allRuleIds)
  <1>9. total \in Nat /\ DOMAIN allRuleIds = 1..total
    BY <1>8
  <1>10. /\ page.ids \in Seq(Ids) /\ Distinct(page.ids)
         /\ next \in Nat
         /\ next <= tick.offset => tick.offset >= total
         /\ \A i \in DOMAIN allRuleIds :
               tick.offset < i =>
                 (allRuleIds[i] \in ToSet(page.ids)
                    <=> i <= next /\ IsDue(rules[allRuleIds[i]], now))
         /\ ToSet(page.ids) \subseteq
               {allRuleIds[i] : i \in {k \in DOMAIN allRuleIds : tick.offset < k}}
    BY <1>7, <1>8, PageIs
  <1>11. /\ Distinct(tick.due) /\ Len(tick.due) < MaxBatchSize
         /\ \A id \in tick.wasDue : IsDue(rules[id], now) /\ id \notin DOMAIN quarantine
         /\ \A i \in DOMAIN allRuleIds :
               IF i <= tick.offset
               THEN allRuleIds[i] \in tick.wasDue => allRuleIds[i] \in ToSet(tick.due)
               ELSE allRuleIds[i] \notin ToSet(tick.due)
    BY <1>1, <1>4 DEF ScanOK
  <1> HIDE DEF page
  <1>12. more \in Seq(Ids) /\ ToSet(more) = ToSet(page.ids) \cap fresh /\ Distinct(more)
    BY <1>10, ThoseAre
  <1>13. ToSet(tick.due) \cap ToSet(more) = {}
    <2>1. \A i \in DOMAIN allRuleIds : tick.offset < i => allRuleIds[i] \notin ToSet(tick.due)
      BY <1>7, <1>9, <1>11
    <2> QED
      BY <1>10, <1>12, <2>1
  <1> HIDE DEF more
  <1>14. /\ out \in Seq(Ids) /\ Distinct(out)
         /\ ToSet(out) = ToSet(tick.due) \cup ToSet(more)
    BY <1>7, <1>11, <1>12, <1>13, JoinedAre
  <1> HIDE DEF out
  <1>15. ToSet(out) \cap DOMAIN quarantine = {}
    <2>1. ToSet(tick.due) \cap DOMAIN quarantine = {}
      BY <1>1, <1>4 DEF LinksOK
    <2> QED
      BY <1>12, <1>14, <2>1 DEF Skipped
  <1> HIDE DEF next
  <1>16. \A i \in DOMAIN allRuleIds : i <= next \/ i <= tick.offset =>
            (allRuleIds[i] \in tick.wasDue => allRuleIds[i] \in ToSet(out))
    <2> SUFFICES ASSUME NEW i \in DOMAIN allRuleIds, i <= next \/ i <= tick.offset,
                        allRuleIds[i] \in tick.wasDue
                 PROVE  allRuleIds[i] \in ToSet(out)
      OBVIOUS
    <2>1. CASE i <= tick.offset
      BY <1>11, <1>14, <2>1
    <2>2. CASE ~(i <= tick.offset)
      <3>1. tick.offset < i /\ i <= next
        BY <1>7, <1>9, <2>2
      <3>2. IsDue(rules[allRuleIds[i]], now) /\ allRuleIds[i] \in fresh
        BY <1>7, <1>11 DEF Skipped
      <3>3. allRuleIds[i] \in ToSet(page.ids)
        BY <1>10, <3>1, <3>2 DEF next
      <3> QED
        BY <1>12, <1>14, <3>2, <3>3
    <2> QED
      BY <2>1, <2>2
  <1>17. MaxBatchSize \in Nat /\ MaxBatchSize > 0
    BY KeeperAssumption, EngineAssumption
  <1> HIDE DEF fresh
  <1>18. CASE Len(out) >= MaxBatchSize
    <2> DEFINE full == SubSeq(out, 1, MaxBatchSize)
    <2>1. MaxBatchSize \in 0..Len(out)
      BY <1>14, <1>17, <1>18
    <2>2. /\ full \in Seq(Ids) /\ Len(full) = MaxBatchSize
          /\ ToSet(full) \subseteq ToSet(out) /\ Distinct(full)
      BY <1>14, <2>1, PrefixIs
    <2>3. tick' = [tick EXCEPT !.pc = "plan", !.due = full]
      BY <1>4, <1>18
    <2> HIDE DEF full
    <2>4. /\ tick' \in Ticks /\ tick'.pc = "plan" /\ tick'.due = full
          /\ tick'.left = <<>> /\ tick'.deposited = {}
      BY <1>6, <1>7, <2>2, <2>3 DEF Ticks
    <2>5. ListsOK' /\ LinksOK'
      <3>1. ToSet(<<>>) = {}
        BY DEF ToSet
      <3>2. ListsOK'
        BY <1>6, <1>17, <2>2, <2>4, <3>1 DEF ListsOK
      <3>3. LinksOK'
        BY <1>5, <1>15, <2>2, <2>4 DEF LinksOK, Idle
      <3> QED
        BY <3>2, <3>3
    <2>6. ScanOK'
      BY <2>2, <2>4 DEF ScanOK
    <2>7. Kept' /\ Counts' /\ TickOK'
      BY <1>2, <1>3, <2>5, <2>6 DEF TickOK
    <2> QED
      BY <2>7, Assembled
  <1>19. CASE ~(Len(out) >= MaxBatchSize)
    <2>1. tick' = [tick EXCEPT !.pc = IF ended THEN "plan" ELSE "scan",
                               !.due = out, !.offset = next]
      BY <1>4, <1>19 DEF next
    <2>2. next \in Nat
      BY <1>10 DEF next
    <2>3. Len(out) < MaxBatchSize /\ Len(out) \in Nat
      BY <1>14, <1>17, <1>19
    <2>4. ended \in BOOLEAN
      OBVIOUS
    <2> HIDE DEF ended
    <2>5. /\ tick' \in Ticks /\ tick'.pc = (IF ended THEN "plan" ELSE "scan")
          /\ tick'.due = out /\ tick'.offset = next /\ tick'.wasDue = tick.wasDue
          /\ tick'.left = <<>> /\ tick'.deposited = {}
      BY <1>6, <1>7, <1>14, <2>1, <2>2 DEF Ticks
    <2>6. ListsOK' /\ LinksOK'
      <3>1. ToSet(<<>>) = {}
        BY DEF ToSet
      <3>2. ListsOK'
        BY <1>6, <1>17, <2>3, <2>5, <3>1 DEF ListsOK
      <3>3. LinksOK'
        BY <1>5, <1>15, <2>5 DEF LinksOK, Idle
      <3> QED
        BY <3>2, <3>3
    <2>7. CASE ended
      <3>1. \A i \in DOMAIN allRuleIds : i <= next \/ i <= tick.offset
        <4>1. next >= total \/ tick.offset >= total
          BY <1>10, <2>7 DEF ended, next
        <4> HIDE DEF total
        <4> QED
          BY <1>7, <1>9, <2>2, <4>1
      <3>2. tick.wasDue \subseteq ToSet(out)
        BY <1>7, <1>8, <1>16, <3>1 DEF ToSet
      <3>3. ScanOK'
        BY <1>14, <2>5, <2>7, <3>2 DEF ScanOK
      <3>4. Kept' /\ Counts' /\ TickOK'
        BY <1>2, <1>3, <2>6, <3>3 DEF TickOK
      <3> QED
        BY <3>4, Assembled
    <2>8. CASE ~ended
      <3>1. next > tick.offset
        BY <1>7, <2>2, <2>8 DEF ended
      <3>2. ASSUME NEW i \in DOMAIN allRuleIds
            PROVE  IF i <= next
                   THEN allRuleIds[i] \in tick.wasDue => allRuleIds[i] \in ToSet(out)
                   ELSE allRuleIds[i] \notin ToSet(out)
        <4>1. CASE i <= next
          BY <1>16, <4>1
        <4>2. CASE ~(i <= next)
          <5>1. tick.offset < i /\ ~(i <= tick.offset)
            BY <1>7, <1>9, <2>2, <3>1, <4>2
          <5>2. allRuleIds[i] \notin ToSet(tick.due)
            BY <1>11, <5>1
          <5>3. allRuleIds[i] \notin ToSet(page.ids)
            BY <1>10, <4>2, <5>1 DEF next
          <5> QED
            BY <1>12, <1>14, <4>2, <5>2, <5>3
        <4> QED
          BY <4>1, <4>2
      <3>3. ScanOK'
        BY <1>5, <1>11, <1>14, <2>3, <2>5, <2>8, <3>2 DEF ScanOK
      <3>4. Kept' /\ Counts' /\ TickOK'
        BY <1>2, <1>3, <2>6, <3>3 DEF TickOK
      <3> QED
        BY <3>4, Assembled
    <2> QED
      BY <2>7, <2>8
  <1> QED
    BY <1>18, <1>19

LEMMA PlanKeeps ==
    ASSUME KeeperInv, Idle, Plan, config' = config
    PROVE  KeeperInv'
  <1> DEFINE due == Trimmed(tick.due)
  <1>1. Kept /\ Counts /\ ListsOK /\ LinksOK /\ ScanOK
    BY Parts DEF TickOK
  <1>2. Kept' /\ Ids' = Ids
    BY <1>1, ChainKept DEF Plan
  <1>3. Counts'
    BY <1>1, <1>2, CountsKept DEF Plan
  <1>4. UNCHANGED <<quarantine, batch>> /\ tick.pc = "plan"
    BY DEF Plan, ChainStays, vars
  <1>5. CASE tick.due = <<>>
    BY <1>2, <1>3, <1>5, Sleeps DEF Plan
  <1>6. CASE tick.due # <<>>
    <2>1. tick \in Ticks /\ Ticks' = Ticks
      BY <1>1, <1>2 DEF ListsOK, Ticks
    <2>2. /\ tick.due \in Seq(Ids) /\ Distinct(tick.due)
          /\ tick.left = <<>> /\ tick.deposited = {}
      BY <1>1, <1>4, <2>1 DEF Ticks, ScanOK
    <2>3. Len(tick.due) \in Nat \ {0}
      BY <1>6, <2>2
    <2>4. due \in Seq(Ids) /\ Distinct(due) /\ ToSet(due) \subseteq ToSet(tick.due)
          /\ Len(due) \in 1..Len(tick.due)
      <3> DEFINE n == IF MaxByGas > 1 THEN MaxByGas ELSE 1
      <3>1. CASE ~(Len(tick.due) > MaxByGas)
        <4>1. due = tick.due
          BY <3>1 DEF Trimmed
        <4> HIDE DEF due
        <4> QED
          BY <2>2, <2>3, <4>1
      <3>2. CASE Len(tick.due) > MaxByGas
        <4>1. MaxByGas \in Int
          <5>1. config.maxTxGas \in Nat
            BY <1>1, KeeperAssumption DEF Kept, Config
          <5>2. GasBatchOverhead \in Nat /\ GasPerRule \in Nat /\ GasPerRule > 0
            BY KeeperAssumption
          <5>3. config.maxTxGas - GasBatchOverhead \in Int
            BY <5>1, <5>2
          <5> QED
            BY <5>2, <5>3 DEF MaxByGas
        <4>2. n \in 1..Len(tick.due)
          BY <2>3, <3>2, <4>1
        <4>3. due = SubSeq(tick.due, 1, n)
          BY <3>2 DEF Trimmed
        <4> HIDE DEF due, n
        <4>4. n \in 0..Len(tick.due)
          BY <2>3, <4>2
        <4> QED
          BY <2>2, <4>2, <4>3, <4>4, PrefixIs
      <3> QED
        BY <3>1, <3>2
    <2>5. tick' = [tick EXCEPT !.due = due, !.pc = IF Len(due) = 1 THEN "one" ELSE "many"]
      BY <1>6 DEF Plan
    <2> HIDE DEF due
    <2>6. /\ tick' \in Ticks /\ tick'.pc = (IF Len(due) = 1 THEN "one" ELSE "many")
          /\ tick'.due = due /\ tick'.left = <<>> /\ tick'.deposited = {}
      BY <2>1, <2>2, <2>4, <2>5 DEF Ticks
    <2>7. ListsOK'
      <3>1. ToSet(<<>>) = {}
        BY DEF ToSet
      <3>2. Len(due) <= MaxBatchSize /\ (Len(due) # 1 => Len(due) > 1)
        <4>1. Len(tick.due) <= MaxBatchSize /\ MaxBatchSize \in Nat
          BY <1>1, KeeperAssumption, EngineAssumption DEF ListsOK
        <4>2. Len(due) \in Nat /\ Len(due) >= 1 /\ Len(due) <= Len(tick.due)
          BY <2>3, <2>4
        <4>3. Len(tick.due) \in Nat
          BY <2>3
        <4>4. \A k, l, m \in Nat : k <= l /\ l <= m => k <= m
          OBVIOUS
        <4>5. \A k \in Nat : k >= 1 /\ k # 1 => k > 1
          OBVIOUS
        <4> HIDE DEF due
        <4> QED
          BY <4>1, <4>2, <4>3, <4>4, <4>5
      <3> QED
        BY <2>1, <2>4, <2>6, <3>1, <3>2 DEF ListsOK
    <2>8. LinksOK' /\ ScanOK'
      <3>1. ToSet(tick.due) \cap DOMAIN quarantine = {}
        BY <1>1, <1>4 DEF LinksOK
      <3>2. LinksOK'
        BY <1>4, <2>4, <2>6, <3>1 DEF LinksOK, Idle
      <3>3. ScanOK'
        BY <2>4, <2>6 DEF ScanOK
      <3> QED
        BY <3>2, <3>3
    <2>9. Kept' /\ Counts' /\ TickOK'
      BY <1>2, <1>3, <2>7, <2>8 DEF TickOK
    <2> QED
      BY <2>9, Assembled
  <1> QED
    BY <1>5, <1>6

-----------------------------------------------------------------------------
(* One rule due *)

\* The next stage of a tick, with nothing else changed.
LEMMA GoesOn ==
    ASSUME KeeperInv, Idle, ChainStays, config' = config,
           UNCHANGED <<quarantine, strikes, noops>>,
           \/ tick.pc = "one" /\ Goto("sendOne")
           \/ tick.pc = "many" /\ Goto("sendMany")
    PROVE  KeeperInv'
  <1>1. Kept /\ Counts /\ ListsOK /\ LinksOK /\ ScanOK
    BY Parts DEF TickOK
  <1>2. Kept' /\ Ids' = Ids
    BY <1>1, ChainKept
  <1>3. Counts'
    BY <1>1, <1>2, CountsKept
  <1>4. tick \in Ticks /\ Ticks' = Ticks
    BY <1>1, <1>2 DEF ListsOK, Ticks
  <1>5. /\ tick' \in Ticks
        /\ tick'.due = tick.due /\ tick'.left = tick.left /\ tick'.deposited = tick.deposited
        /\ \/ tick.pc = "one" /\ tick'.pc = "sendOne"
           \/ tick.pc = "many" /\ tick'.pc = "sendMany"
    BY <1>4 DEF Goto, Ticks
  <1>6. ListsOK'
    BY <1>1, <1>4, <1>5 DEF ListsOK
  <1>7. batch' = <<>> /\ quarantine' = quarantine
    BY DEF ChainStays, vars, Idle
  <1>8. LinksOK' /\ ScanOK'
    <2>1. LinksOK'
      BY <1>1, <1>5, <1>7 DEF LinksOK
    <2> QED
      BY <1>1, <1>5, <2>1 DEF ScanOK
  <1>9. Kept' /\ Counts' /\ TickOK'
    BY <1>2, <1>3, <1>6, <1>8 DEF TickOK
  <1> QED
    BY <1>9, Assembled

LEMMA SimulateOneKeeps ==
    ASSUME KeeperInv, Idle, SimulateOne, config' = config
    PROVE  KeeperInv'
  <1> DEFINE id == tick.due[1]
  <1>1. Kept /\ Counts /\ ListsOK
    BY Parts DEF TickOK
  <1>2. Kept' /\ Ids' = Ids
    BY <1>1, ChainKept DEF SimulateOne
  <1>3. id \in Ids
    <2>1. tick.due \in Seq(Ids) /\ Len(tick.due) = 1
      BY <1>1 DEF ListsOK, Ticks, SimulateOne
    <2> QED
      BY <2>1
  <1>4. CASE Goto("sendOne") /\ UNCHANGED <<quarantine, strikes, noops>>
    BY <1>4, GoesOn DEF SimulateOne
  <1>5. CASE \E err \in SimErrors(id) :
                /\ IF Classify(err) = "permanent"
                   THEN quarantine' = Quarantined(quarantine, {id}, err) /\ UNCHANGED strikes
                   ELSE Strike({id}, err)
                /\ Sleep
                /\ UNCHANGED noops
    <2>1. PICK err \in SimErrors(id) :
                /\ IF Classify(err) = "permanent"
                   THEN quarantine' = Quarantined(quarantine, {id}, err) /\ UNCHANGED strikes
                   ELSE Strike({id}, err)
                /\ Sleep
                /\ UNCHANGED noops
      BY <1>5
    <2>2. {id} \in SUBSET Ids
      BY <1>3
    <2> HIDE DEF id
    <2>3. Counts'
      <3>1. CASE Classify(err) = "permanent"
        BY <1>1, <1>2, <2>1, <2>2, <3>1, GivenUp
      <3>2. CASE Classify(err) # "permanent"
        BY <1>1, <1>2, <2>1, <2>2, <3>2, Struck
      <3> QED
        BY <3>1, <3>2
    <2> QED
      BY <1>2, <2>1, <2>3, Sleeps
  <1> QED
    BY <1>4, <1>5 DEF SimulateOne

LEMMA ExecuteKept ==
    ASSUME Kept, NEW id \in Ids, Execute(OurExecutor, id), config' = config
    PROVE  Kept' /\ Ids' = Ids
  BY DEF Kept, ListOK, Execute, DoExecute, Ids

LEMMA SendOneKeeps ==
    ASSUME KeeperInv, Idle, SendOne, config' = config
    PROVE  KeeperInv'
  <1> DEFINE id == tick.due[1]
  <1>1. Kept /\ Counts /\ ListsOK
    BY Parts DEF TickOK
  <1>2. id \in Ids
    <2>1. tick.due \in Seq(Ids) /\ Len(tick.due) = 1
      BY <1>1 DEF ListsOK, Ticks, SendOne
    <2> QED
      BY <2>1
  <1>3. Sleep /\ UNCHANGED quarantine
    BY DEF SendOne
  <1>4. CASE /\ Execute(OurExecutor, id)
             /\ strikes' = [strikes EXCEPT ![id] = 0]
             /\ noops' = [noops EXCEPT ![id] = 0]
    <2> HIDE DEF id
    <2>1. Kept' /\ Ids' = Ids
      BY <1>1, <1>2, <1>4, ExecuteKept
    <2>2. Counts'
      <3>1. /\ DOMAIN quarantine \subseteq Ids
            /\ strikes \in [Ids -> Nat] /\ noops \in [Ids -> Nat]
            /\ \A x \in Ids : noops[x] <= strikes[x]
            /\ BatchNoopsBounded
        BY <1>1 DEF Counts
      <3>2. strikes' \in [Ids -> Nat] /\ noops' \in [Ids -> Nat]
        BY <1>4, <3>1
      <3>3. /\ noops'[id] = 0 /\ strikes'[id] = 0
            /\ \A x \in Ids : x # id => noops'[x] = noops[x] /\ strikes'[x] = strikes[x]
        BY <1>2, <1>4, <3>1
      <3>4. MaxNoopStrikes \in Nat /\ MaxNoopStrikes > 0
        BY KeeperAssumption
      <3>5. \A x \in Ids : noops'[x] <= strikes'[x]
        BY <3>1, <3>3
      <3>6. BatchNoopsBounded'
        BY <1>3, <2>1, <3>1, <3>3, <3>4 DEF BatchNoopsBounded
      <3> QED
        BY <1>3, <2>1, <3>1, <3>2, <3>5, <3>6 DEF Counts
    <2> QED
      BY <1>3, <2>1, <2>2, Sleeps
  <1>5. CASE /\ Execute(OurExecutor, id) \/ ChainStays
             /\ UNCHANGED <<strikes, noops>>
    <2> HIDE DEF id
    <2>1. Kept' /\ Ids' = Ids
      BY <1>1, <1>2, <1>5, ExecuteKept, ChainKept
    <2>2. Counts'
      BY <1>1, <1>3, <1>5, <2>1, CountsKept
    <2> QED
      BY <1>3, <2>1, <2>2, Sleeps
  <1> QED
    BY <1>4, <1>5 DEF SendOne

-----------------------------------------------------------------------------
(* Several rules due *)

LEMMA SimulateManyKeeps ==
    ASSUME KeeperInv, Idle, SimulateMany, config' = config
    PROVE  KeeperInv'
  <1> DEFINE ids == ToSet(tick.due)
  <1>1. Kept /\ Counts /\ ListsOK /\ LinksOK /\ ScanOK
    BY Parts DEF TickOK
  <1>2. Kept' /\ Ids' = Ids
    BY <1>1, ChainKept DEF SimulateMany
  <1>3. tick \in Ticks /\ Ticks' = Ticks
    BY <1>1, <1>2 DEF ListsOK, Ticks
  <1>4. tick.pc = "many" /\ ChainStays
    BY DEF SimulateMany
  <1>5. tick.due \in Seq(Ids) /\ ids \in SUBSET Ids /\ Len(tick.due) > 1
    BY <1>1, <1>3, <1>4 DEF ListsOK, Ticks, ToSet
  <1>6. CASE Sleep /\ UNCHANGED <<quarantine, strikes, noops>>
    <2>1. Counts'
      BY <1>1, <1>2, <1>6, CountsKept
    <2> QED
      BY <1>2, <1>6, <2>1, Sleeps
  <1>7. CASE Goto("sendMany") /\ UNCHANGED <<quarantine, strikes, noops>>
    BY <1>4, <1>7, GoesOn
  <1>8. CASE /\ Strike(ids, "noop")
             /\ UNCHANGED noops
             /\ tick' = [tick EXCEPT !.pc = "check", !.left = tick.due]
    <2> HIDE DEF ids
    <2>1. Counts'
      BY <1>1, <1>2, <1>5, <1>8, Struck
    <2>2. /\ tick' \in Ticks /\ tick'.pc = "check" /\ tick'.due = tick.due
          /\ tick'.left = tick.due /\ tick'.deposited = tick.deposited
      BY <1>3, <1>5, <1>8 DEF Ticks
    <2>3. tick.due # <<>>
      BY <1>5
    <2>4. ListsOK'
      BY <1>1, <1>3, <2>2, <2>3 DEF ListsOK
    <2>5. batch' = <<>>
      BY <1>4 DEF ChainStays, vars, Idle
    <2>6. LinksOK' /\ ScanOK'
      <3>1. LinksOK'
        BY <2>2, <2>5 DEF LinksOK
      <3> QED
        BY <1>1, <2>2, <3>1 DEF ScanOK
    <2>7. Kept' /\ Counts' /\ TickOK'
      BY <1>2, <2>1, <2>4, <2>6 DEF TickOK
    <2> QED
      BY <2>7, Assembled
  <1> QED
    BY <1>6, <1>7, <1>8 DEF SimulateMany

LEMMA SendManyKeeps ==
    ASSUME KeeperInv, Idle, SendMany, config' = config
    PROVE  KeeperInv'
  <1>1. Kept /\ Counts /\ ListsOK /\ LinksOK /\ ScanOK
    BY Parts DEF TickOK
  <1>2. UNCHANGED <<quarantine, strikes, noops>> /\ tick.pc = "sendMany"
    BY DEF SendMany
  <1>3. CASE Sleep /\ ChainStays
    <2>1. Kept' /\ Ids' = Ids
      BY <1>1, <1>3, ChainKept
    <2>2. Counts'
      BY <1>1, <1>2, <2>1, CountsKept
    <2> QED
      BY <1>3, <2>1, <2>2, Sleeps
  <1>4. CASE ExecuteBatch(OurExecutor, tick.due) /\ Goto("mined")
    <2>1. /\ allRuleIds' = allRuleIds /\ Ids' = Ids
          /\ batch' = [i \in 1..Len(tick.due) |-> <<OurExecutor, tick.due[i]>>]
      BY <1>4 DEF ExecuteBatch, registryVars, Ids
    <2>2. tick \in Ticks /\ Ticks' = Ticks
      BY <1>1, <2>1 DEF ListsOK, Ticks
    <2>3. tick.due \in Seq(Ids) /\ Len(tick.due) \in Nat /\ DOMAIN tick.due = 1..Len(tick.due)
      BY <2>2 DEF Ticks
    <2>4. batch' \in Seq(Executors \X Ids)
      <3>1. \A i \in 1..Len(tick.due) : <<OurExecutor, tick.due[i]>> \in Executors \X Ids
        BY <2>3, KeeperAssumption
      <3> QED
        BY <2>1, <2>3, <3>1
    <2>5. Kept'
      BY <1>1, <2>1, <2>4 DEF Kept, ListOK
    <2>6. Counts'
      BY <1>1, <1>2, <2>1, CountsKept
    <2>7. /\ tick' \in Ticks /\ tick'.pc = "mined" /\ tick'.due = tick.due
          /\ tick'.left = tick.left /\ tick'.deposited = tick.deposited
      BY <1>4, <2>2 DEF Goto, Ticks
    <2>8. ListsOK'
      BY <1>1, <1>2, <2>2, <2>7 DEF ListsOK
    <2>9. LinksOK'
      <3>1. \A i \in DOMAIN batch' : batch'[i][2] \in ToSet(tick.due)
        BY <2>1, <2>3 DEF ToSet
      <3> QED
        BY <1>1, <1>2, <2>7, <3>1 DEF LinksOK
    <2>10. ScanOK'
      BY <1>1, <2>7 DEF ScanOK
    <2>11. Kept' /\ Counts' /\ TickOK'
      BY <2>5, <2>6, <2>8, <2>9, <2>10 DEF TickOK
    <2> QED
      BY <2>11, Assembled
  <1> QED
    BY <1>3, <1>4 DEF SendMany

LEMMA BatchStepKeeps ==
    ASSUME KeeperInv, BatchStep, config' = config
    PROVE  KeeperInv'
  <1> DEFINE id == Head(batch)[2]
  <1>1. Kept /\ Counts /\ ListsOK /\ LinksOK /\ ScanOK
    BY Parts DEF TickOK
  <1>2. /\ batch # <<>> /\ batch' = Tail(batch)
        /\ allRuleIds' = allRuleIds /\ Ids' = Ids
    BY DEF BatchStep, BatchRuns, BatchSkips, DoExecute, registryVars, Ids
  <1>3. UNCHANGED <<quarantine, strikes, noops>>
    BY DEF BatchStep
  <1>4. batch \in Seq(Executors \X Ids)
    BY <1>1 DEF Kept
  <1>5. /\ Tail(batch) \in Seq(Executors \X Ids)
        /\ ToSet(Tail(batch)) \subseteq ToSet(batch) /\ Head(batch) \in ToSet(batch)
    BY <1>2, <1>4, RestIs
  <1>6. Kept'
    BY <1>1, <1>2, <1>5 DEF Kept, ListOK
  <1>7. Counts'
    BY <1>1, <1>2, <1>3, CountsKept
  <1>8. tick \in Ticks /\ Ticks' = Ticks
    BY <1>1, <1>2 DEF ListsOK, Ticks
  <1>9. tick.pc \in {"mined", "sleep"}
    BY <1>1, <1>2 DEF LinksOK
  <1>10. tick.pc = "mined" => \A b \in ToSet(batch) : b[2] \in ToSet(tick.due)
    BY <1>1 DEF LinksOK, ToSet
  <1>11. tick' = tick \/ (tick.pc = "mined" /\ tick' = [tick EXCEPT !.deposited = @ \cup {id}])
    BY DEF BatchStep
  <1>12. /\ tick' \in Ticks /\ tick'.pc = tick.pc /\ tick'.due = tick.due
         /\ tick'.left = tick.left
         /\ tick'.deposited \subseteq ToSet(tick.due)
         /\ tick.pc # "mined" => tick' = tick
    <2>1. CASE tick' = tick
      BY <1>1, <1>8, <2>1 DEF ListsOK
    <2>2. CASE tick.pc = "mined" /\ tick' = [tick EXCEPT !.deposited = @ \cup {id}]
      <3>1. id \in ToSet(tick.due)
        BY <1>5, <1>10, <2>2
      <3>2. tick.due \in Seq(Ids)
        BY <1>8 DEF Ticks
      <3>3. id \in Ids
        BY <3>1, <3>2 DEF ToSet
      <3> HIDE DEF id
      <3>4. tick' \in Ticks /\ tick'.deposited = tick.deposited \cup {id}
        BY <1>8, <2>2, <3>3 DEF Ticks
      <3>5. tick'.pc = tick.pc /\ tick'.due = tick.due /\ tick'.left = tick.left
        BY <1>8, <2>2 DEF Ticks
      <3> QED
        BY <1>1, <2>2, <3>1, <3>4, <3>5 DEF ListsOK
    <2> QED
      BY <1>11, <2>1, <2>2
  <1>13. ListsOK'
    BY <1>1, <1>8, <1>12 DEF ListsOK
  <1>14. LinksOK'
    <2>1. tick.pc = "mined" => \A i \in DOMAIN batch' : batch'[i][2] \in ToSet(tick.due)
      BY <1>2, <1>5, <1>10 DEF ToSet
    <2> QED
      BY <1>1, <1>3, <1>9, <1>12, <2>1 DEF LinksOK
  <1>15. ScanOK'
    BY <1>1, <1>9, <1>12 DEF ScanOK
  <1>16. Kept' /\ Counts' /\ TickOK'
    BY <1>6, <1>7, <1>13, <1>14, <1>15 DEF TickOK
  <1> QED
    BY <1>16, Assembled

\* A rule in the batch that made no deposit has one more batch behind it, and
\* with the last one it may have it is given up.
LEMMA ReceiptCounts ==
    ASSUME KeeperInv, Receipt, Ids' = Ids
    PROVE  Counts'
  <1> DEFINE struck == ToSet(tick.due) \ tick.deposited
             out == {id \in struck : Out(strikes[id] + 1)}
  <1>1. Counts /\ ListsOK /\ LinksOK
    BY Parts DEF TickOK
  <1>2. tick.pc = "mined" /\ struck \subseteq Ids
    BY <1>1 DEF ListsOK, Ticks, ToSet, Receipt
  <1>3. struck \cap DOMAIN quarantine = {} /\ struck \cap tick.deposited = {}
    BY <1>1, <1>2 DEF LinksOK
  <1>4. /\ quarantine' = Quarantined(quarantine, out, "noop")
        /\ strikes' = [id \in Ids |-> IF id \in tick.deposited THEN 0
                         ELSE IF id \in struck THEN strikes[id] + 1 ELSE strikes[id]]
        /\ noops' = [id \in Ids |-> IF id \in tick.deposited THEN 0
                         ELSE IF id \in struck THEN noops[id] + 1 ELSE noops[id]]
    BY DEF Receipt
  <1>5. /\ DOMAIN quarantine \subseteq Ids
        /\ strikes \in [Ids -> Nat] /\ noops \in [Ids -> Nat]
        /\ \A id \in Ids : noops[id] <= strikes[id]
        /\ BatchNoopsBounded
    BY <1>1 DEF Counts
  <1>6. \A id \in out : id \in struck /\ strikes[id] + 1 >= MaxNoopStrikes
    BY DEF Out
  <1>7. \A id \in struck : strikes[id] + 1 >= MaxNoopStrikes => id \in out
    BY DEF Out
  <1> HIDE DEF struck, out
  <1>8. DOMAIN quarantine' = DOMAIN quarantine \cup out
    BY <1>4 DEF Quarantined
  <1>9. strikes' \in [Ids -> Nat] /\ noops' \in [Ids -> Nat]
    BY <1>4, <1>5
  <1>10. ASSUME NEW id \in Ids
         PROVE  /\ noops'[id] <= strikes'[id]
                /\ noops'[id] <= MaxNoopStrikes
                /\ noops'[id] = MaxNoopStrikes => id \in DOMAIN quarantine'
    <2>1. /\ MaxNoopStrikes \in Nat /\ MaxNoopStrikes > 0
          /\ noops[id] \in Nat /\ strikes[id] \in Nat /\ noops[id] <= strikes[id]
          /\ noops[id] <= MaxNoopStrikes
          /\ noops[id] = MaxNoopStrikes => id \in DOMAIN quarantine
      BY <1>5, KeeperAssumption DEF BatchNoopsBounded
    <2>2. CASE id \in tick.deposited
      <3>1. noops'[id] = 0 /\ strikes'[id] = 0
        BY <1>4, <2>2
      <3> QED
        BY <2>1, <3>1
    <2>3. CASE id \notin tick.deposited /\ id \in struck
      <3>1. noops'[id] = noops[id] + 1 /\ strikes'[id] = strikes[id] + 1
        BY <1>4, <2>3
      <3>2. noops[id] < MaxNoopStrikes
        BY <1>3, <2>1, <2>3
      <3>3. noops[id] + 1 = MaxNoopStrikes => strikes[id] + 1 >= MaxNoopStrikes
        BY <2>1
      <3>4. noops'[id] = MaxNoopStrikes => id \in DOMAIN quarantine'
        BY <1>7, <1>8, <2>3, <3>1, <3>3
      <3> QED
        BY <2>1, <3>1, <3>2, <3>4
    <2>4. CASE id \notin tick.deposited /\ id \notin struck
      <3>1. noops'[id] = noops[id] /\ strikes'[id] = strikes[id]
        BY <1>4, <2>4
      <3> QED
        BY <1>8, <2>1, <3>1
    <2> QED
      BY <2>2, <2>3, <2>4
  <1>11. DOMAIN quarantine' \subseteq Ids
    BY <1>2, <1>5, <1>6, <1>8
  <1> QED
    BY <1>9, <1>10, <1>11 DEF Counts, BatchNoopsBounded

LEMMA ReceiptKeeps ==
    ASSUME KeeperInv, Idle, Receipt, config' = config
    PROVE  KeeperInv'
  <1> DEFINE struck == ToSet(tick.due) \ tick.deposited
             left == Those(tick.due, struck)
  <1>1. Kept /\ Counts /\ ListsOK /\ LinksOK /\ ScanOK
    BY Parts DEF TickOK
  <1>2. Kept' /\ Ids' = Ids
    BY <1>1, ChainKept DEF Receipt
  <1>3. Counts'
    BY <1>2, ReceiptCounts
  <1>4. tick' = IF struck = {} THEN Asleep ELSE [tick EXCEPT !.pc = "check", !.left = left]
    BY DEF Receipt
  <1>5. CASE struck = {}
    BY <1>2, <1>3, <1>4, <1>5, Sleeps DEF Sleep
  <1>6. CASE struck # {}
    <2>1. tick \in Ticks /\ Ticks' = Ticks /\ tick.due \in Seq(Ids)
      BY <1>1, <1>2 DEF ListsOK, Ticks
    <2>2. left \in Seq(Ids) /\ ToSet(left) = ToSet(tick.due) \cap struck
      BY <2>1, ThoseAre
    <2>3. ToSet(left) \subseteq ToSet(tick.due) /\ ToSet(left) # {}
      BY <1>6, <2>2
    <2>4. left # <<>>
      BY <2>3 DEF ToSet
    <2>5. tick' = [tick EXCEPT !.pc = "check", !.left = left]
      BY <1>4, <1>6
    <2> HIDE DEF left
    <2>6. /\ tick' \in Ticks /\ tick'.pc = "check" /\ tick'.due = tick.due
          /\ tick'.left = left /\ tick'.deposited = tick.deposited
      BY <2>1, <2>2, <2>5 DEF Ticks
    <2>7. ListsOK'
      BY <1>1, <2>1, <2>3, <2>4, <2>6 DEF ListsOK
    <2>8. batch' = <<>>
      BY DEF Receipt, ChainStays, vars, Idle
    <2>9. LinksOK' /\ ScanOK'
      <3>1. LinksOK'
        BY <2>6, <2>8 DEF LinksOK
      <3> QED
        BY <1>1, <2>6, <3>1 DEF ScanOK
    <2>10. Kept' /\ Counts' /\ TickOK'
      BY <1>2, <1>3, <2>7, <2>9 DEF TickOK
    <2> QED
      BY <2>10, Assembled
  <1> QED
    BY <1>5, <1>6

LEMMA CheckOneKeeps ==
    ASSUME KeeperInv, Idle, CheckOne, config' = config
    PROVE  KeeperInv'
  <1> DEFINE id == Head(tick.left)
  <1>1. Kept /\ Counts /\ ListsOK /\ LinksOK /\ ScanOK
    BY Parts DEF TickOK
  <1>2. Kept' /\ Ids' = Ids
    BY <1>1, ChainKept DEF CheckOne
  <1>3. tick.pc = "check" /\ UNCHANGED <<strikes, noops>>
    BY DEF CheckOne
  <1>4. tick \in Ticks /\ Ticks' = Ticks /\ tick.left \in Seq(Ids) /\ tick.left # <<>>
    BY <1>1, <1>2, <1>3 DEF ListsOK, Ticks
  <1>5. /\ id \in ToSet(tick.left) /\ Tail(tick.left) \in Seq(Ids)
        /\ ToSet(Tail(tick.left)) \subseteq ToSet(tick.left)
        /\ Len(tick.left) # 1 => Tail(tick.left) # <<>>
    BY <1>4, RestIs
  <1>6. Counts'
    <2>1. CASE UNCHANGED quarantine
      BY <1>1, <1>2, <1>3, <2>1, CountsKept
    <2>2. CASE \E err \in SimErrors(id) : quarantine' = Quarantined(quarantine, {id}, err)
      <3>1. {id} \in SUBSET Ids
        BY <1>4, <1>5 DEF ToSet
      <3> HIDE DEF id
      <3> QED
        BY <1>1, <1>2, <1>3, <2>2, <3>1, GivenUp
    <2> QED
      BY <2>1, <2>2 DEF CheckOne
  <1>7. CASE Len(tick.left) = 1
    BY <1>2, <1>6, <1>7, Sleeps DEF CheckOne, Sleep
  <1>8. CASE Len(tick.left) # 1
    <2>1. tick' = [tick EXCEPT !.left = Tail(@)]
      BY <1>8 DEF CheckOne
    <2>2. /\ tick' \in Ticks /\ tick'.pc = "check" /\ tick'.due = tick.due
          /\ tick'.left = Tail(tick.left) /\ tick'.deposited = tick.deposited
      BY <1>3, <1>4, <1>5, <2>1 DEF Ticks
    <2>3. ListsOK'
      BY <1>1, <1>4, <1>5, <1>8, <2>2 DEF ListsOK
    <2>4. batch' = <<>>
      BY DEF CheckOne, ChainStays, vars, Idle
    <2>5. LinksOK' /\ ScanOK'
      <3>1. LinksOK'
        BY <2>2, <2>4 DEF LinksOK
      <3> QED
        BY <1>1, <2>2, <3>1 DEF ScanOK
    <2>6. Kept' /\ Counts' /\ TickOK'
      BY <1>2, <1>6, <2>3, <2>5 DEF TickOK
    <2> QED
      BY <2>6, Assembled
  <1> QED
    BY <1>7, <1>8

-----------------------------------------------------------------------------
(* The chain the keeper works on *)

\* An account has as many rules in the registry as orders.
LEMMA OwnCount ==
    ASSUME KeeperInit, NEW a
    PROVE  LET mine == {j \in 1..Len(Orders) : Orders[j][1] = a}
               own  == {id \in Ids : id[1] = a}
           IN  /\ IsFiniteSet(mine) /\ Cardinality(mine) \in Nat
               /\ Cardinality(own) = Cardinality(mine)
  <1> DEFINE mine == {j \in 1..Len(Orders) : Orders[j][1] = a}
             own  == {id \in Ids : id[1] = a}
             f == [j \in mine |-> Placed(j)]
  <1>1. Len(Orders) \in Nat /\ Ids = {Placed(i) : i \in 1..Len(Orders)}
    BY InitLists
  <1>2. IsFiniteSet(mine) /\ Cardinality(mine) \in Nat
    BY <1>1, PositionsAreFinite
  <1>3. f \in Bijection(mine, own)
    <2>1. \A i \in 1..Len(Orders) : Placed(i)[1] = Orders[i][1]
      BY DEF Placed
    <2>2. f \in [mine -> own]
      BY <1>1, <2>1
    <2>3. \A x \in own : \E j \in mine : f[j] = x
      BY <1>1, <2>1
    <2>4. ASSUME NEW i \in mine, NEW j \in mine, f[i] = f[j]
          PROVE  i = j
      <3>1. i \in Nat /\ j \in Nat /\ 1 <= i /\ 1 <= j /\ Placed(i) = Placed(j)
        BY <1>1, <2>4
      <3>2. ~(i < j) /\ ~(j < i)
        BY <3>1, PlacedApart
      <3> QED
        BY <3>1, <3>2
    <2> HIDE DEF f, mine, own
    <2> QED
      BY <2>2, <2>3, <2>4 DEF Bijection, Injection, Surjection, IsInjective
  <1> HIDE DEF f, mine, own
  <1>4. ExistsBijection(mine, own)
    BY <1>3 DEF ExistsBijection
  <1>5. Cardinality(own) = Cardinality(mine)
    BY <1>2, <1>4, FS_Bijection
  <1> QED
    BY <1>2, <1>5 DEF mine, own

LEMMA InitEngine == KeeperInit => EngineInv
  <1> SUFFICES ASSUME KeeperInit
               PROVE  EngineInv
    OBVIOUS
  <1> DEFINE n(id) == CHOOSE i \in 1..Len(Orders) : allRuleIds[i] = id
  <1>1. /\ config \in Configs /\ Len(Orders) \in Nat
        /\ allRuleIds = [i \in 1..Len(Orders) |-> Placed(i)]
        /\ Ids = {Placed(i) : i \in 1..Len(Orders)} /\ ListOK
    BY InitLists
  <1>2. /\ Orders \in Seq(Accounts \X {p \in CreateRuleParams : ValidParams(p)})
        /\ config.funds \in [Accounts -> Nat] /\ config.allowances \in [Accounts -> Nat]
    BY <1>1, KeeperAssumption DEF Config, Orders
  <1>3. /\ rules = [id \in Ids |-> NewRule(id[1], Orders[n(id)][2], 1)]
        /\ book = [id \in Ids |-> NewEntry(rules[id].nextRunAt)]
        /\ nonces = [a \in Accounts |-> Cardinality({id \in Ids : id[1] = a})]
    BY DEF KeeperInit, Ids
  <1>4. ASSUME NEW id \in Ids
        PROVE  /\ n(id) \in 1..Len(Orders) /\ Placed(n(id)) = id
               /\ id[1] = Orders[n(id)][1] /\ id[1] \in Accounts /\ id \in RuleId
               /\ id[2] = Cardinality({j \in 1..(n(id) - 1) : Orders[j][1] = id[1]})
               /\ Orders[n(id)][2] \in CreateRuleParams /\ ValidParams(Orders[n(id)][2])
    <2>1. \E i \in 1..Len(Orders) : allRuleIds[i] = id
      BY <1>1
    <2>2. n(id) \in 1..Len(Orders) /\ allRuleIds[n(id)] = id
      BY <2>1
    <2> HIDE DEF n
    <2>3. Placed(n(id)) = id
      BY <1>1, <2>2
    <2>4. Orders[n(id)] \in Accounts \X {p \in CreateRuleParams : ValidParams(p)}
      BY <1>2, <2>2
    <2>5. /\ id[1] = Orders[n(id)][1]
          /\ id = <<id[1], id[2]>>
          /\ id[2] = Cardinality({j \in 1..(n(id) - 1) : Orders[j][1] = id[1]})
      BY <2>3 DEF Placed
    <2>6. id[2] \in Nat
      <3>1. n(id) - 1 \in Nat
        BY <1>1, <2>2
      <3> QED
        BY <2>5, <3>1, PositionsAreFinite
    <2> QED
      BY <2>2, <2>3, <2>4, <2>5, <2>6 DEF RuleId
  <1> HIDE DEF n
  <1>5. ASSUME NEW id \in Ids
        PROVE  rules[id] \in Rule /\ book[id] \in Entry /\ Consistent(rules[id], book[id])
               /\ rules[id].account = id[1]
    <2> DEFINE p == Orders[n(id)][2]
    <2>1. p \in CreateRuleParams /\ ValidParams(p) /\ id[1] \in Accounts /\ 1 \in Nat
      BY <1>4
    <2>2. rules[id] = NewRule(id[1], p, 1)
      BY <1>3
    <2> HIDE DEF p
    <2>3. book[id] = NewEntry(FirstRunAt(p, 1))
      BY <1>3, <2>2 DEF NewRule
    <2>4. rules[id].account = id[1]
      BY <2>2 DEF NewRule
    <2> QED
      BY <2>1, <2>2, <2>3, <2>4, NewConsistent
  <1>6. IdsAreSpent
    <2> SUFFICES ASSUME NEW id \in Ids
                 PROVE  id[2] < nonces[id[1]]
      BY <1>5 DEF IdsAreSpent
    <2> DEFINE mine == {j \in 1..Len(Orders) : Orders[j][1] = id[1]}
               before == {j \in 1..(n(id) - 1) : Orders[j][1] = id[1]}
    <2>1. IsFiniteSet(mine) /\ Cardinality(mine) \in Nat
          /\ Cardinality({x \in Ids : x[1] = id[1]}) = Cardinality(mine)
      BY OwnCount
    <2>2. nonces[id[1]] = Cardinality(mine)
      BY <1>3, <1>4, <2>1
    <2>3. id[2] = Cardinality(before)
      BY <1>4
    <2>4. n(id) \in 1..Len(Orders) /\ Orders[n(id)][1] = id[1]
      BY <1>4
    <2>5. before \in SUBSET mine /\ n(id) \in mine /\ n(id) \notin before
      BY <1>1, <2>4
    <2> HIDE DEF mine, before
    <2>6. Cardinality(before) <= Cardinality(mine) /\ Cardinality(before) # Cardinality(mine)
          /\ Cardinality(before) \in Nat
      BY <2>1, <2>5, FS_Subset, FS_CardinalityType
    <2> QED
      BY <2>1, <2>2, <2>3, <2>6
  <1>7. TypeOK
    <2>1. rules \in [Ids -> Rule] /\ Ids \subseteq RuleId /\ book \in [Ids -> Entry]
      BY <1>3, <1>4, <1>5
    <2>2. nonces \in [Accounts -> Nat]
      <3>1. \A a \in Accounts : Cardinality({id \in Ids : id[1] = a}) \in Nat
        BY OwnCount
      <3> QED
        BY <1>3, <3>1
    <2>3. allRuleIds \in Seq(Ids)
      BY <1>1 DEF ListOK
    <2>4. /\ vaultAllowed \subseteq Vaults /\ executor \in Executors \cup {NoExecutor}
          /\ paused \subseteq Executors /\ batch \in Seq(Executors \X RuleId)
          /\ now \in Nat /\ balance \in [Accounts -> Nat]
      BY <1>2, KeeperAssumption DEF KeeperInit
    <2>5. /\ allowance \in [Accounts -> [Executors -> Nat]]
          /\ position \in [Accounts -> [Vaults -> Nat]]
      <3>1. /\ allowance = [a \in Accounts |-> [e \in Executors |-> config.allowances[a]]]
            /\ position = [a \in Accounts |-> [v \in Vaults |-> 0]]
        BY DEF KeeperInit
      <3> QED
        BY <1>2, <3>1
    <2> QED
      BY <2>1, <2>2, <2>3, <2>4, <2>5 DEF TypeOK
  <1> QED
    BY <1>5, <1>6, <1>7 DEF EngineInv

\* Whatever the keeper does, and the world around it, is a step of the engine or none.
LEMMA StepIsEngines == KeeperInv /\ EngineInv /\ [KeeperNext]_allVars => [Next]_vars
  <1> SUFFICES ASSUME KeeperInv, EngineInv, [KeeperNext]_allVars
               PROVE  Next \/ UNCHANGED vars
    OBVIOUS
  <1> USE DEF Next, OwnerNext, AccountNext, ExecutorNext
  <1>1. Kept /\ ListsOK
    BY Parts DEF TickOK
  <1>2. OurExecutor \in Executors
    BY KeeperAssumption
  <1>3. CASE UNCHANGED allVars
    BY <1>3 DEF allVars
  <1>4. CASE Wake \/ ScanPage \/ Plan \/ SimulateOne \/ SimulateMany \/ Receipt \/ CheckOne
             \/ TickFails \/ Restart
    BY <1>4 DEF Wake, ScanPage, Plan, SimulateOne, SimulateMany, Receipt, CheckOne,
                TickFails, Restart, ChainStays
  <1>5. CASE SendOne
    <2>1. tick.due \in Seq(Ids) /\ Len(tick.due) = 1
      BY <1>1, <1>5 DEF ListsOK, Ticks, SendOne
    <2>2. tick.due[1] \in Ids
      BY <2>1
    <2>3. Execute(OurExecutor, tick.due[1]) \/ ChainStays
      BY <1>5 DEF SendOne
    <2> QED
      BY <1>2, <2>2, <2>3 DEF ChainStays
  <1>6. CASE SendMany
    <2>1. CASE ChainStays
      BY <2>1 DEF ChainStays
    <2>2. CASE ExecuteBatch(OurExecutor, tick.due)
      <3>1. tick.due \in Seq(Ids) /\ Len(tick.due) \in 1..MaxBatch
        BY <1>1, <2>2 DEF ListsOK, Ticks, ExecuteBatch
      <3>2. tick.due \in [1..Len(tick.due) -> Ids]
        BY <3>1
      <3>3. \E k \in 1..MaxBatch : \E ids \in [1..k -> Ids] : ExecuteBatch(OurExecutor, ids)
        BY <2>2, <3>1, <3>2
      <3> QED
        BY <1>2, <3>3
    <2> QED
      BY <1>6, <2>1, <2>2 DEF SendMany
  <1>7. CASE BatchStep
    BY <1>7 DEF BatchStep
  <1>8. CASE World
    <2>1. CASE \E id \in Ids : Execute(OurExecutor, id)
      BY <1>2, <2>1
    <2>2. CASE \E id \in Ids : CancelRule(rules[id].account, id)
      <3>1. \A id \in Ids : rules[id].account \in Accounts
        BY DEF EngineInv, TypeOK, Rule
      <3> QED
        BY <2>2, <3>1
    <2>3. CASE \E value \in BOOLEAN : SetPaused(OurExecutor, value)
      BY <1>2, <2>3
    <2>4. CASE \E a \in Accounts, x \in MintAmounts : Mint(a, x)
      BY <2>4
    <2>5. CASE Tick
      BY <2>5
    <2> QED
      BY <1>8, <2>1, <2>2, <2>3, <2>4, <2>5 DEF World
  <1>9. CASE RuleCreated
    BY <1>9 DEF RuleCreated
  <1> QED
    BY <1>3, <1>4, <1>5, <1>6, <1>7, <1>8, <1>9 DEF KeeperNext, TickStep

-----------------------------------------------------------------------------
(* The theorems *)

LEMMA StepKeeps == KeeperInv /\ EngineInv /\ [KeeperNext]_allVars => KeeperInv'
  <1> SUFFICES ASSUME KeeperInv, EngineInv, [KeeperNext]_allVars
               PROVE  KeeperInv'
    OBVIOUS
  <1>1. CASE UNCHANGED allVars
    <2>1. Kept /\ Counts /\ TickOK
      BY Parts
    <2>2. ChainStays /\ UNCHANGED <<quarantine, strikes, noops, tick, config>>
      BY <1>1 DEF allVars, keeperVars, ChainStays
    <2>3. Kept' /\ Ids' = Ids
      BY <2>1, <2>2, ChainKept
    <2>4. Counts'
      BY <2>1, <2>2, <2>3, CountsKept
    <2>5. UNCHANGED <<rules, now, batch, allRuleIds>>
      BY <2>2 DEF ChainStays, vars
    <2>6. TickOK'
      <3>1. ListsOK'
        BY <2>1, <2>2, <2>3 DEF TickOK, ListsOK, Ticks
      <3>2. LinksOK'
        BY <2>1, <2>2, <2>5 DEF TickOK, LinksOK
      <3>3. ScanOK'
        BY <2>1, <2>2, <2>5 DEF TickOK, ScanOK
      <3> QED
        BY <3>1, <3>2, <3>3 DEF TickOK
    <2>7. Kept' /\ Counts' /\ TickOK'
      BY <2>3, <2>4, <2>6
    <2> QED
      BY <2>7, Assembled
  <1>2. CASE TickStep
    <2>1. config' = config
      BY <1>2 DEF TickStep
    <2>2. CASE Idle /\ Wake
      BY <2>1, <2>2, WakeKeeps
    <2>3. CASE Idle /\ ScanPage
      BY <2>1, <2>3, ScanPageKeeps
    <2>4. CASE Idle /\ Plan
      BY <2>1, <2>4, PlanKeeps
    <2>5. CASE Idle /\ SimulateOne
      BY <2>1, <2>5, SimulateOneKeeps
    <2>6. CASE Idle /\ SendOne
      BY <2>1, <2>6, SendOneKeeps
    <2>7. CASE Idle /\ SimulateMany
      BY <2>1, <2>7, SimulateManyKeeps
    <2>8. CASE Idle /\ SendMany
      BY <2>1, <2>8, SendManyKeeps
    <2>9. CASE Idle /\ Receipt
      BY <2>1, <2>9, ReceiptKeeps
    <2>10. CASE Idle /\ CheckOne
      BY <2>1, <2>10, CheckOneKeeps
    <2>11. CASE BatchStep
      BY <2>1, <2>11, BatchStepKeeps
    <2> QED
      BY <1>2, <2>2, <2>3, <2>4, <2>5, <2>6, <2>7, <2>8, <2>9, <2>10, <2>11 DEF TickStep
  <1>3. CASE TickFails /\ UNCHANGED config
    BY <1>3, TickFailsKeeps
  <1>4. CASE Restart /\ UNCHANGED config
    BY <1>4, RestartKeeps
  <1>5. CASE World /\ UNCHANGED config
    BY <1>5, WorldKeeps
  <1>6. CASE RuleCreated /\ UNCHANGED config
    BY <1>6, RuleCreatedKeeps
  <1> QED
    BY <1>1, <1>2, <1>3, <1>4, <1>5, <1>6 DEF KeeperNext

\* The keeper's invariant and the engine's hold together.
LEMMA BothHold == KeeperSpec => [](KeeperInv /\ EngineInv)
  <1>1. EngineInv /\ KeeperInv /\ [KeeperNext]_allVars => EngineInv'
    BY StepIsEngines, StepInv
  <1> QED
    BY <1>1, InitKeeps, InitEngine, StepKeeps, PTL DEF KeeperSpec

\* The invariant of the keeper against a chain that moves between its reads.
THEOREM KeeperInvariant == KeeperSpec => []KeeperInv
  BY BothHold, PTL

\* The memory of the keeper speaks of rules of the registry, and each stage of a
\* tick has the list it needs: one rule, several, or some still to be checked
\* (index.ts tick, executeSingle, executeBatch, quarantineStillDue).
THEOREM KeeperIsTyped == KeeperSpec => []KeeperTypeOK
  BY KeeperInvariant, PTL DEF KeeperInv

\* Between restarts a rule is put into at most MAX_NOOP_STRIKES batches without
\* a deposit of its own in between, and is then given up (index.ts strike).
THEOREM NoopsAreBounded == KeeperSpec => []BatchNoopsBounded
  BY KeeperInvariant, PTL DEF KeeperInv

\* However the pages fall and whatever runs or is cancelled between them, a scan
\* that did not fill a batch holds every rule that was due throughout, and each
\* one once (index.ts collectDue, RuleRegistry dueRules).
THEOREM ScansMissNothing == KeeperSpec => []ScanMissesNothing
  <1>1. KeeperInv => ScanMissesNothing
    <2> SUFFICES ASSUME KeeperInv, tick.pc = "plan"
                 PROVE  /\ tick.wasDue \subseteq ToSet(tick.due) \/ Len(tick.due) = MaxBatchSize
                        /\ Cardinality(ToSet(tick.due)) = Len(tick.due)
      BY DEF ScanMissesNothing
    <2>1. tick.due \in Seq(Ids) /\ Distinct(tick.due)
          /\ (tick.wasDue \subseteq ToSet(tick.due) \/ Len(tick.due) = MaxBatchSize)
      BY DEF KeeperInv, Ticks, ScanOK
    <2> QED
      BY <2>1, DistinctCount
  <1> QED
    BY <1>1, KeeperInvariant, PTL

\* The keeper's chain, with whoever else calls it, is a run of the engine from a
\* state its own invariant holds in: what is proved of the engine from there (no
\* order runs past its limits or again once closed) holds whatever the keeper does
\* (RuleExecutor.execute is open to anyone).
THEOREM KeeperKeepsTheEngine == KeeperSpec => []EngineInv /\ [][Next]_vars
  <1>1. KeeperSpec => []EngineInv
    BY BothHold, PTL
  <1> QED
    BY <1>1, BothHold, StepIsEngines, PTL DEF KeeperSpec
=============================================================================
