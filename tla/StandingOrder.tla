---------------------------- MODULE StandingOrder ----------------------------
(***************************************************************************)
(* What GiroLedger promises about standing orders, with none of the        *)
(* machinery that delivers it: an order pays equal instalments out of its  *)
(* own account into its own account's position in the chosen vault, never  *)
(* before its start, never closer together than its interval, never more   *)
(* of them than it was limited to, never past its cap, and never again     *)
(* once it was stopped.                                                    *)
(*                                                                         *)
(* There is no active flag, no next-run time, no wrapping counter, no      *)
(* allowance, pause switch or executor here.  RuleEngine implements this   *)
(* (property ImplementsStandingOrder, theorem EngineImplements).           *)
(***************************************************************************)
EXTENDS Integers

CONSTANTS Accounts, Vaults

VARIABLES
    terms,     \* order |-> what was agreed when it was placed; never changes
    book,      \* order |-> what has happened to it
    purse,     \* account |-> FXRP it holds
    position,  \* account |-> vault |-> FXRP deposited to its credit
    clock      \* the time

vars == <<terms, book, purse, position, clock>>

Terms == [account: Accounts, vault: Vaults, amountPerRun: Nat \ {0},
          totalSpendCap: Nat, intervalSecs: Nat \ {0}, maxRuns: Nat]

Entry == [startAt: Nat, runs: Nat, paid: Nat, lastAt: Nat, stopped: BOOLEAN]

Init ==
    /\ terms = [o \in {} |-> {}]
    /\ book  = [o \in {} |-> {}]
    /\ purse \in [Accounts -> Nat]
    /\ position = [a \in Accounts |-> [v \in Vaults |-> 0]]
    /\ clock \in Nat

\* A new order; it must be able to pay at least once.
Place ==
    \E o \in DOMAIN terms' \ DOMAIN terms :
        /\ DOMAIN terms' = DOMAIN terms \cup {o}
        /\ DOMAIN book' = DOMAIN terms'
        /\ \A x \in DOMAIN terms : terms'[x] = terms[x] /\ book'[x] = book[x]
        /\ terms'[o] \in Terms
        /\ terms'[o].totalSpendCap >= terms'[o].amountPerRun
        /\ book'[o] \in Entry
        /\ book'[o].runs = 0 /\ book'[o].paid = 0 /\ ~book'[o].stopped
        /\ UNCHANGED <<purse, position, clock>>

\* Order o may pay an instalment now.
MayPay(o) ==
    LET t == terms[o]
        b == book[o]
    IN  /\ ~b.stopped
        /\ t.maxRuns # 0 => b.runs < t.maxRuns
        /\ b.paid + t.amountPerRun <= t.totalSpendCap
        /\ clock >= IF b.runs = 0 THEN b.startAt ELSE b.lastAt + t.intervalSecs
        /\ purse[t.account] >= t.amountPerRun

Instalment(o) ==
    LET t == terms[o]
    IN  /\ MayPay(o)
        /\ purse' = [purse EXCEPT ![t.account] = @ - t.amountPerRun]
        /\ position' = [position EXCEPT ![t.account][t.vault] = @ + t.amountPerRun]
        /\ book' = [book EXCEPT ![o].runs = @ + 1,
                                ![o].paid = @ + t.amountPerRun,
                                ![o].lastAt = clock]
        /\ UNCHANGED <<terms, clock>>

Stop(o) ==
    /\ book' = [book EXCEPT ![o].stopped = TRUE]
    /\ UNCHANGED <<terms, purse, position, clock>>

\* Accounts receive FXRP, and time passes.
World ==
    /\ \A a \in Accounts : purse'[a] >= purse[a]
    /\ DOMAIN purse' = Accounts
    /\ clock' >= clock
    /\ UNCHANGED <<terms, book, position>>

Next == Place \/ (\E o \in DOMAIN terms : Instalment(o) \/ Stop(o)) \/ World

Spec == Init /\ [][Next]_vars
=============================================================================
