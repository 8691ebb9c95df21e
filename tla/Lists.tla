------------------------------- MODULE Lists -------------------------------
(***************************************************************************)
(* What the code does to lists beyond what Sequences offers, written so    *)
(* that it can be reasoned about (DataLemmas).                             *)
(***************************************************************************)
EXTENDS Naturals, Sequences, FiniteSets

\* The elements of s at the positions in K, in the order of s: what a loop
\* that skips the others leaves.
AtIndices(s, K) ==
    [i \in 1..Cardinality(K) |->
        s[CHOOSE k \in K : Cardinality({j \in K : j <= k}) = i]]

\* The elements of s that are in S, in the order of s.
Those(s, S) == AtIndices(s, {i \in DOMAIN s : s[i] \in S})
=============================================================================
