---------------------------- MODULE MachineInfo ----------------------------
(***************************************************************************)
(* The bookkeeping of MachineInfo (scheduler.rs) under clients that book   *)
(* the costs of an operation, on a machine of their choice or on the one a *)
(* plan names, and release what they booked.                               *)
(*                                                                         *)
(* allocate and deallocate are loops over the cost entries that change the *)
(* table as they go, and allocate can stop half-way: an entry is a step.   *)
(* `holds` is the clients' own record.                                     *)
(***************************************************************************)
EXTENDS CostScheduler, FiniteSetsExt

CONSTANTS Clients,      \* who books costs
          Capacities,   \* bound: capacities of an extent
          None          \* nothing held, no call, no plan

ASSUME BookingConstants == Capacities \subseteq Nat /\ IsFiniteSet(Clients)

VARIABLES capacity,     \* MachineInfo.extents
          allocated,    \* MachineInfo.allocated
          holds,        \* history: what a client booked and has not released
          plan,         \* the plan of the last schedule, while nothing has changed
          call          \* the allocate or deallocate that is running

vars == <<capacity, allocated, holds, plan, call>>

Tables == [Machines -> [Kinds -> Nat]]

Bookings == [machine : Machines, costs : CostLists]

Calls == [op : {"allocate", "deallocate"}, client : Clients, machine : Machines,
          costs : CostLists, rest : CostLists, planned : BOOLEAN]

ASSUME NoneIsNothing == None \notin Bookings /\ None \notin Calls

Init ==
    /\ capacity \in [Machines -> [Kinds -> Capacities]]
    /\ allocated = [m \in Machines |-> [k \in Kinds |-> 0]]
    /\ holds = [c \in Clients |-> None]
    /\ plan = None
    /\ call = None

(* CostScheduler::schedule changes nothing; its plan is kept for BookPlan. *)
Schedule(required, costs) ==
    /\ call = None
    /\ plan' \in Schedules(capacity, allocated, required, costs)
    /\ UNCHANGED <<capacity, allocated, holds, call>>

Begin(op, c, m, costs, planned) ==
    /\ call = None
    /\ call' = [op |-> op, client |-> c, machine |-> m, costs |-> costs,
                rest |-> costs, planned |-> planned]
    /\ plan' = None
    /\ UNCHANGED <<capacity, allocated, holds>>

Book(c, m, costs) == holds[c] = None /\ Begin("allocate", c, m, costs, FALSE)

BookPlan(c) ==
    /\ holds[c] = None
    /\ plan # None /\ plan.feasible
    /\ Begin("allocate", c, plan.machine, plan.costs, TRUE)

Release(c) ==
    /\ holds[c] # None
    /\ Begin("deallocate", c, holds[c].machine, holds[c].costs, FALSE)

-----------------------------------------------------------------------------
Running(op) == call # None /\ call.op = op

Entry == Head(call.rest)

(* Mutant: the entry is compared with the capacity. *)
AffordableIdle ==
    /\ Entry.value # Bad
    /\ Entry.value <= capacity[call.machine][Entry.kind]

Affordable ==
    /\ Entry.value # Bad
    /\ Entry.value <= Remaining(capacity, allocated, call.machine, Entry.kind)

(* One turn of the loop in allocate. *)
AllocateEntry ==
    /\ Running("allocate") /\ call.rest # <<>>
    /\ Affordable
    /\ allocated' = [allocated EXCEPT ![call.machine][Entry.kind] = @ + Entry.value]
    /\ call' = [call EXCEPT !.rest = Tail(@)]
    /\ UNCHANGED <<capacity, holds, plan>>

(* Mutant: on an error the entry that failed is given back. *)
AllocateFailsUndoing ==
    /\ Running("allocate") /\ call.rest # <<>>
    /\ ~Affordable
    /\ allocated' = IF Entry.value = Bad THEN allocated
                    ELSE [allocated EXCEPT ![call.machine][Entry.kind] = @ - Entry.value]
    /\ call' = None
    /\ UNCHANGED <<capacity, holds, plan>>

(* Mutant: an entry that does not fit is passed over. *)
AllocateFailsGoesOn ==
    /\ Running("allocate") /\ call.rest # <<>>
    /\ ~Affordable
    /\ call' = IF Entry.value = Bad THEN None ELSE [call EXCEPT !.rest = Tail(@)]
    /\ UNCHANGED <<capacity, allocated, holds, plan>>

(* allocate returns an error; what earlier entries took stays taken. *)
AllocateFails ==
    /\ Running("allocate") /\ call.rest # <<>>
    /\ ~Affordable
    /\ call' = None
    /\ UNCHANGED <<capacity, allocated, holds, plan>>

AllocateDone ==
    /\ Running("allocate") /\ call.rest = <<>>
    /\ holds' = [holds EXCEPT ![call.client] =
                    [machine |-> call.machine, costs |-> call.costs]]
    /\ call' = None
    /\ UNCHANGED <<capacity, allocated, plan>>

(* Mutant: the extent's entry is removed from the table. *)
DeallocateEntryRemoves ==
    /\ Running("deallocate") /\ call.rest # <<>>
    /\ allocated' = [allocated EXCEPT ![call.machine][Entry.kind] = 0]
    /\ call' = [call EXCEPT !.rest = Tail(@)]
    /\ UNCHANGED <<capacity, holds, plan>>

(* One turn of the loop in deallocate: it gives back one unit, not the amount. *)
DeallocateEntry ==
    /\ Running("deallocate") /\ call.rest # <<>>
    /\ allocated' = [allocated EXCEPT ![call.machine][Entry.kind] =
                        IF @ > 0 THEN @ - 1 ELSE 0]
    /\ call' = [call EXCEPT !.rest = Tail(@)]
    /\ UNCHANGED <<capacity, holds, plan>>

DeallocateDone ==
    /\ Running("deallocate") /\ call.rest = <<>>
    /\ holds' = [holds EXCEPT ![call.client] = None]
    /\ call' = None
    /\ UNCHANGED <<capacity, allocated, plan>>

Next ==
    \/ \E required \in SUBSET Machines, costs \in CostLists : Schedule(required, costs)
    \/ \E c \in Clients, m \in Machines, costs \in CostLists : Book(c, m, costs)
    \/ \E c \in Clients : BookPlan(c) \/ Release(c)
    \/ AllocateEntry \/ AllocateFails \/ AllocateDone
    \/ DeallocateEntry \/ DeallocateDone

Spec == Init /\ [][Next]_vars

-----------------------------------------------------------------------------
(* Every variable holds a value of its kind. *)
TypeOK ==
    /\ capacity \in Tables
    /\ allocated \in Tables
    /\ holds \in [Clients -> Bookings \cup {None}]
    /\ plan \in FeasiblePlans \cup {Infeasible, None}
    /\ call \in Calls \cup {None}

(***************************************************************************)
(* A machine is never booked beyond its capacity, also in the middle of a  *)
(* loop and when cost entries name the same extent several times.          *)
(***************************************************************************)
NeverOverbooked == \A m \in Machines, k \in Kinds : allocated[m][k] <= capacity[m][k]

Distinct(costs) == \A i, j \in DOMAIN costs : costs[i].kind = costs[j].kind => i = j

(***************************************************************************)
(* schedule and allocate agree: booking a fresh plan does not fail, unless *)
(* its costs name one extent twice.                                        *)
(***************************************************************************)
PlansAreHonoured == [][AllocateFails => ~(call.planned /\ Distinct(call.costs))]_vars

(* The amounts of a kind in a cost list, entry by entry, and together. *)
Amounts(costs, k) ==
    [i \in DOMAIN costs |-> IF costs[i].kind = k THEN costs[i].value ELSE 0]

HeldBy(m, k) ==
    [c \in Clients |->
        IF holds[c] # None /\ holds[c].machine = m
        THEN SumFunction(Amounts(holds[c].costs, k)) ELSE 0]

HeldOn(m, k) == SumFunction(HeldBy(m, k))

(***************************************************************************)
(* What clients hold stays booked, so that no one else can book it,        *)
(* whatever others release and whatever allocations fail (for costs of at  *)
(* least one unit).                                                        *)
(***************************************************************************)
HeldIsBooked ==
    call = None => \A m \in Machines, k \in Kinds : HeldOn(m, k) <= allocated[m][k]

(* A client's share of a machine is all that it booked there. *)
SharesNow ==
    [c \in {d \in Clients : holds[d] # None} |->
        [machine |-> holds[c].machine,
         amounts |-> [k \in Kinds |-> SumFunction(Amounts(holds[c].costs, k))]]]

Res == INSTANCE Reservations WITH limit <- capacity, shares <- SharesNow

(***************************************************************************)
(* The loops of allocate and deallocate, half-done ones included, refine   *)
(* Reservations: a booking takes effect at one instant, with all of its    *)
(* costs or with none, and fits next to all that others hold then (for     *)
(* costs of at least one unit).                                            *)
(***************************************************************************)
ImplementsReservations == Res!Spec

-----------------------------------------------------------------------------
(* What a comment in scheduler.rs says, and the code does not do. *)

(* "Release allocated extents": when all is released, nothing is allocated. *)
ReleaseReturnsAll ==
    call = None /\ (\A c \in Clients : holds[c] = None) =>
        \A m \in Machines, k \in Kinds : allocated[m][k] = 0
=============================================================================
