---------------------------- MODULE AccountSlots ----------------------------
(***************************************************************************)
(* What the account locks and the global semaphore promise to whoever      *)
(* drives a Telegram account: an account has one owner at a time, only its *)
(* owner may use it, at most Limit owners use theirs, and an owner stops   *)
(* using its account before it gives it up.                                *)
(***************************************************************************)
EXTENDS Naturals, FiniteSets

CONSTANTS
    Users,       \* those who drive accounts
    Accounts,
    AccountFor,  \* the account a user drives
    Limit,       \* how many may use their accounts at once
    Free         \* owner of an account nobody owns

VARIABLES
    owner,  \* who owns each account
    using   \* the owners using their account

vars == <<owner, using>>

Init ==
    /\ owner = [a \in Accounts |-> Free]
    /\ using = {}

Own(u) ==
    /\ owner[AccountFor[u]] = Free
    /\ owner' = [owner EXCEPT ![AccountFor[u]] = u]
    /\ UNCHANGED using

Use(u) ==
    /\ owner[AccountFor[u]] = u
    /\ u \notin using
    /\ Cardinality(using) < Limit
    /\ using' = using \cup {u}
    /\ UNCHANGED owner

StopUsing(u) ==
    /\ u \in using
    /\ using' = using \ {u}
    /\ UNCHANGED owner

GiveUp(u) ==
    /\ owner[AccountFor[u]] = u
    /\ u \notin using
    /\ owner' = [owner EXCEPT ![AccountFor[u]] = Free]
    /\ UNCHANGED using

Next == \E u \in Users : Own(u) \/ Use(u) \/ StopUsing(u) \/ GiveUp(u)

Spec == Init /\ [][Next]_vars

(* Nobody uses or owns an account forever. *)
FairSpec ==
    /\ Spec
    /\ \A u \in Users : WF_vars(StopUsing(u)) /\ WF_vars(GiveUp(u))

=============================================================================
