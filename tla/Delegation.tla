----------------------------- MODULE Delegation -----------------------------
(***************************************************************************)
(* What the grant system promises, without saying how: roles form a strict *)
(* order that only ever grows, and a permission is issued for a role only  *)
(* by that role or by one above it at the moment of issue, at most once    *)
(* for each slot (target, operation, resource).                            *)
(*                                                                         *)
(* `above` holds <<a, d>> when role a is above role d.  An issued          *)
(* permission remembers who issued it.                                     *)
(***************************************************************************)
CONSTANTS Roles,      \* role names
          Slots,      \* what a permission is about: its duplicate key
          Terms       \* the rest of a permission: its condition

VARIABLES above, issued

dvars == <<above, issued>>

Permissions == [by : Roles, target : Roles, slot : Slots, term : Terms]

StrictOrder(R) ==
    /\ \A a \in Roles : <<a, a>> \notin R
    /\ \A a, b, c \in Roles : <<a, b>> \in R /\ <<b, c>> \in R => <<a, c>> \in R

Init == above = {} /\ issued = {}

Extend ==
    /\ above' \in SUBSET (Roles \X Roles)
    /\ above \subseteq above'
    /\ StrictOrder(above')
    /\ UNCHANGED issued

Issue(p) ==
    /\ p.by = p.target \/ <<p.by, p.target>> \in above
    /\ \A q \in issued : <<q.target, q.slot>> # <<p.target, p.slot>>
    /\ issued' = issued \cup {p}
    /\ UNCHANGED above

Next == Extend \/ \E p \in Permissions : Issue(p)

Spec == Init /\ [][Next]_dvars
=============================================================================
