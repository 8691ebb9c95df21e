------------------------------ MODULE Figures -------------------------------
(***************************************************************************)
(* What the web page and the scripts compute from the first things they    *)
(* read, over small inputs: the list of vaults and the one selected        *)
(* (getVaults of apps/web/src/lib/flare.ts, app.tsx), the windows of the   *)
(* history (History), the price of a payment (MintPrice) and the time of a *)
(* mint over the limit (MintLimits).  The registry, the clock and the      *)
(* accounts are those of Instructions; what Flare lists, which of its      *)
(* answers fail, its fees and its limiters may be anything small.          *)
(***************************************************************************)
EXTENDS Instructions, MintPrice, MintLimits, History

\* A client opens: nothing is read yet and nothing paid.
Opens(which) ==
    client = which /\ payments = <<>> /\ \A a \in Accounts : page[a] = EmptyPage

\* Seconds, and blocks, in a unit of the model's time; drops in a unit of money.
Grain == 4
Drops == 5000

\* The instants, or the blocks, of the moment.
Moments == now * Grain .. now * Grain + Grain - 1

-----------------------------------------------------------------------------
(* The list of vaults.  A vault is marked "yes" or "no" as the registry      *)
(* answers, or "unknown" when the question failed.                           *)

\* Flare's list, and the configured vault in front unless it is listed.
Merged(listed, configured) ==
    IF configured = None \/ configured \in Range(listed) THEN listed
    ELSE <<configured>> \o listed

Mark(v, failed) ==
    IF v \in failed THEN "unknown" ELSE IF v \in vaultAllowed THEN "yes" ELSE "no"

FirstOf(I, otherwise) ==
    IF I = {} THEN otherwise ELSE CHOOSE i \in I : \A j \in I : i <= j

\* Bug: a question that failed taken for a yes.
SelectedUnlessRefused(list, failed) ==
    FirstOf({i \in DOMAIN list : Mark(list[i], failed) # "no"}, 1)

\* The position selected when the page opens.
Selected(list, failed) ==
    FirstOf({i \in DOMAIN list : Mark(list[i], failed) = "yes"}, 1)

-----------------------------------------------------------------------------
(* Inputs *)

\* Flare lists vaults the registry has never heard of.
FlaresVaults == Vaults \cup {"stranger", "another"}

FlaresLists ==
    UNION {{s \in [1..n -> FlaresVaults] : IsInjective(s)} : n \in 0..3}

SomeFees == [feeBIPS: {0, 1, 25, 10000}, minimumFeeUBA: {0, 1, 3}, executorFeeUBA: {0, 2}]

-----------------------------------------------------------------------------
(* Properties *)

\* app.tsx:109-112 and flare.ts:87-98: whatever Flare lists and whichever
\* questions to the registry fail, the configured vault is offered, none twice,
\* and if the registry is known to take one of them, it takes the one selected.
SelectedVaultIsTaken ==
    Opens("web") =>
        \A listed \in FlaresLists, configured \in FlaresVaults \cup {None},
           failed \in SUBSET FlaresVaults :
            LET list == Merged(listed, configured)
            IN  /\ IsInjective(list)
                /\ configured \in Range(list) \cup {None}
                /\ Range(list) \cap (vaultAllowed \ failed) # {}
                     => list[Selected(list, failed)] \in vaultAllowed

\* flare.ts:376-387: the windows ask for no block twice, for none more than the
\* RPC answers at once, and between them for every block after the earliest.
WindowsPartition ==
    Opens("web") =>
        \A l \in [span: 1..3, head: Moments, windows: 0..4] :
            LET asked == {k \in 0..l.head : Asked(l, k)}
            IN  /\ \A k \in asked :
                      From(l, k) >= 0 /\ To(l, k) - From(l, k) + 1 \in 1..l.span
                /\ \A b \in Earliest(l) + 1..l.head :
                      Cardinality({k \in asked : Sees(l, k, b)}) = 1

\* flare.ts:209-214, app.tsx:200-205: the payment quoted for an order from fees read
\* earlier is enough as long as none has risen since, and never enough to mint
\* more; its parts are what it adds up to.
QuotesSuffice ==
    Opens("web") =>
        \A f \in SomeFees, p \in ParamChoices, held \in 0..3 :
            LET q == CreateQuote(f, p.totalSpendCap * Drops, held * Drops)
            IN  /\ q.amountUBA = q.netMintUBA + q.mintingFeeUBA + q.executorFeeUBA
                /\ \A g \in SomeFees :
                      NoDearer(g, f) => Mints(q.amountUBA, q.netMintUBA, g)
                /\ \A more \in {1, Drops, Bips} : ~Mints(q.amountUBA, q.netMintUBA + more, f)

\* mintLimits.ts:13-16, 100-113: from the time named for a mint that is over the
\* limit, whenever it is tried again, it fits, if nothing else was minted.
RetryFits ==
    Opens("cli") =>
        \A t \in Moments, size, limit \in 1..3, used \in 0..7 :
            \A start \in {x \in (t - size + 1)..t : x > 0}, proposed \in 1..limit :
                LET w  == [start |-> start, used |-> used]
                    at == WindowAllowedAt(w, t, proposed, limit, size)
                IN  /\ at >= t
                    /\ \A u \in at..(at + size) :
                          proposed <= Remaining(WindowState(w, u, limit, size), limit)
=============================================================================
