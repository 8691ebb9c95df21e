----------------------------- MODULE MCDelivery -----------------------------
(***************************************************************************)
(* Operator and Delivery for TLC.  instance is "operator": the page stands *)
(* still, anybody hands instructions over and pays, twice for one and once *)
(* for the next.  Or it is "page": all that is handed over and paid comes  *)
(* from the page; no write is torn, no completion is done by hand, or cut  *)
(* short that could have gone on; one restart, and what is typed is only   *)
(* taken back beside a cancel panel, before any press.                     *)
(***************************************************************************)
EXTENDS Delivery, TLC

CONSTANTS p1, p2, p3, draft1, order1

VARIABLE instance

allVars == <<bothVars, instance>>

Readings == {None} \cup 0..MaxChain

MCHashes ==
    [kind: {"create"}, what: Drafts, nonce: 0..MaxChain, rules: Readings]
      \cup [kind: {"cancel"}, what: Orders, nonce: 0..MaxChain, rules: Readings]

h1 == [kind |-> "create", what |-> draft1, nonce |-> 0, rules |-> 0]
h2 == [kind |-> "cancel", what |-> order1, nonce |-> 1, rules |-> 1]

MCNonce     == [h \in MCHashes |-> h.nonce]
MCCommits   == (p1 :> MCHashes) @@ (p2 :> {h1}) @@ (p3 :> {h2})
MCPaymentOf == <<p1>>

Twice == (p1 :> h1) @@ (p2 :> h1) @@ (p3 :> h2)

InInstance ==
    \/ /\ instance = "operator"
       /\ mem.stored \subseteq {h1, h2}
       /\ \A p \in Payments : paid[p] \in {None, Twice[p]}
    \/ /\ instance = "page"
       /\ clock = 0 /\ restarts <= 1
       /\ \A p \in lost : tx[p] = "reverted" \/ opNonce # NonceOf[paid[p]]
       /\ \A p \in used : tx[p] # "none"
       /\ draft = None => stopping # None /\ sends = <<>>

\* The page may not hand over any more.
Exhausted ==
    /\ instance = "page" /\ due # {} /\ Len(posts) = MaxPosts
    /\ UNCHANGED bothVars

MCInit == DeliveryInit /\ instance \in {"operator", "page"}

MCNext ==
    /\ \/ instance = "operator" /\ Next /\ UNCHANGED pageVars
       \/ instance = "page" /\ DeliveryNext /\ (disk' = disk \/ Up')
       \/ Exhausted
    /\ UNCHANGED instance
    /\ InInstance'

MCSpec == MCInit /\ [][MCNext]_allVars /\ Fairness
=============================================================================
