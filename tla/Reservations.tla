---------------------------- MODULE Reservations ----------------------------
(***************************************************************************)
(* What the machine table promises to those who book, without saying how:  *)
(* a booking is made at one instant, with all of its amounts or not at     *)
(* all, and only when they fit the machine next to what the others hold;   *)
(* it ends when its client ends it, and no one else's call touches it.     *)
(***************************************************************************)
EXTENDS Naturals, Functions

CONSTANTS Clients,      \* who books
          Machines,     \* on what
          Kinds         \* amounts of which extents

VARIABLES limit,        \* what a machine has of each extent
          shares        \* the share of each client that has one

rvars == <<limit, shares>>

Shares == [machine : Machines, amounts : [Kinds -> Nat]]

SharesOf(m, k) ==
    [c \in Clients |->
        IF c \in DOMAIN shares /\ shares[c].machine = m THEN shares[c].amounts[k] ELSE 0]

(* No machine has promised more than it has. *)
Fits == \A m \in Machines, k \in Kinds :
            SumFunction(SharesOf(m, k)) <= limit[m][k]

Init ==
    /\ limit \in [Machines -> [Kinds -> Nat]]
    /\ DOMAIN shares = {}

OthersKeep(c) == \A d \in DOMAIN shares \ {c} : shares'[d] = shares[d]

Book(c) ==
    /\ c \notin DOMAIN shares
    /\ DOMAIN shares' = DOMAIN shares \cup {c}
    /\ shares'[c] \in Shares
    /\ OthersKeep(c)
    /\ Fits'
    /\ UNCHANGED limit

GiveUp(c) ==
    /\ c \in DOMAIN shares
    /\ DOMAIN shares' = DOMAIN shares \ {c}
    /\ OthersKeep(c)
    /\ UNCHANGED limit

Next == \E c \in Clients : Book(c) \/ GiveUp(c)

Spec == Init /\ [][Next]_rvars
=============================================================================
