---------------------------- MODULE ExtentEngine ----------------------------
(***************************************************************************)
(* The extent engine (resource.rs): devices with direct and inherited      *)
(* extent pools, allocation from them, and the cost rules evaluated over   *)
(* what is allocated.                                                      *)
(*                                                                         *)
(* Amounts are u64 in the code, words 0..WordSize - 1 here: additions wrap *)
(* as in a release build.  Devices come from Device::new and add_extent,   *)
(* so they arrive with direct pools only.  `held` is history: what the     *)
(* callers of allocate have not given back since the device was            *)
(* registered; `granted` is all that was ever allocated of an extent.      *)
(***************************************************************************)
EXTENDS Integers, FiniteSetsExt

CONSTANTS Devices,      \* device names
          Extents,      \* extent names
          WordSize,     \* number of values of an amount: 2^64 in the code
          Amounts,      \* bound: amounts that are requested or freed
          Capacities,   \* bound: capacities of registered pools
          Limits,       \* bound: right-hand sides of cost rules
          MaxGranted,   \* bound: total ever allocated of one extent
          None          \* no pool, no parent

Word == 0..WordSize - 1

ASSUME ExtentConstants ==
    /\ WordSize \in Nat \ {0}
    /\ Amounts \subseteq Word /\ Capacities \subseteq Word /\ Limits \subseteq Word
    /\ None \notin Devices

VARIABLES known,        \* keys of ExtentEngine.devices
          direct,       \* Device.extents
          inherited,    \* Device.inherited_extents
          parentOf,     \* ExtentEngine.device_parents
          held,         \* history: allocated and not given back
          granted       \* history: ever allocated

vars == <<known, direct, inherited, parentOf, held, granted>>

NoPool == [capacity |-> -1, allocated |-> 0]

Pools == {p \in [capacity : Word \cup {-1}, allocated : Word] :
             p.capacity = -1 => p.allocated = 0}

PoolMaps == [Extents -> Pools]

Empty == [e \in Extents |-> NoPool]

Has(pools, e) == pools[e] # NoPool

(* Device::has_extent *)
HasExtent(d, e) == Has(direct[d], e) \/ Has(inherited[d], e)

(* The pool allocate draws on: the direct one if there is one. *)
PoolFor(d, e) == IF Has(direct[d], e) THEN direct[d][e] ELSE inherited[d][e]

(* Mutant: what is allocated already is forgotten. *)
CanAllocAnew(pool, n) == pool.capacity >= n

CanAlloc(pool, n) == pool.capacity - pool.allocated >= n

(* Mutant: a plain subtraction. *)
MonusUnchecked(a, b) == a - b

Monus(a, b) == IF a > b THEN a - b ELSE 0

Free(pool, n) == [pool EXCEPT !.allocated = Monus(@, n)]

-----------------------------------------------------------------------------
(* Cost rules: sum(left) <= limit, or sum(left) op sum(right) <= limit. *)
CostRules == [op : {"sum", "plus", "minus"}, left : Extents, right : Extents, limit : Limits]

Wrap(n) == n % WordSize

Usage(e) == [d \in known |-> direct[d][e].allocated + inherited[d][e].allocated]

TotalUsage(e) == Wrap(SumFunction(Usage(e)))

CurrentUsage(rule) ==
    LET l == TotalUsage(rule.left)
        r == TotalUsage(rule.right)
    IN  CASE rule.op = "sum"   -> l
          [] rule.op = "plus"  -> IF l + r \in Word THEN l + r ELSE WordSize - 1
          [] rule.op = "minus" -> Monus(l, r)

(* evaluate_constraint(rule).satisfied *)
Satisfied(rule) ==
    \/ CurrentUsage(rule) <= rule.limit
    \/ rule.op = "sum" /\ Wrap(CurrentUsage(rule) + rule.limit) <= rule.limit

(* Mutant: the present usage alone is compared. *)
CanSatisfyNow(rule, n) == CurrentUsage(rule) <= rule.limit

CanSatisfy(rule, n) == Wrap(CurrentUsage(rule) + n) <= rule.limit

-----------------------------------------------------------------------------
Init ==
    /\ known = {}
    /\ direct = [d \in Devices |-> Empty]
    /\ inherited = [d \in Devices |-> Empty]
    /\ parentOf = [d \in Devices |-> None]
    /\ held = [d \in Devices |-> [e \in Extents |-> 0]]
    /\ granted = [e \in Extents |-> 0]

(* Mutant: registering a device again keeps what it inherited. *)
AddDeviceMerges(d, capacity) ==
    /\ known' = known \cup {d}
    /\ direct' = [direct EXCEPT ![d] =
                    [e \in Extents |-> [capacity |-> capacity[e], allocated |-> 0]]]
    /\ held' = [held EXCEPT ![d] = [e \in Extents |-> 0]]
    /\ UNCHANGED <<inherited, parentOf, granted>>

(* add_device replaces a device of the same name, pools, usage and all. *)
AddDevice(d, capacity) ==
    /\ known' = known \cup {d}
    /\ direct' = [direct EXCEPT ![d] =
                    [e \in Extents |-> [capacity |-> capacity[e], allocated |-> 0]]]
    /\ inherited' = [inherited EXCEPT ![d] = Empty]
    /\ held' = [held EXCEPT ![d] = [e \in Extents |-> 0]]
    /\ UNCHANGED <<parentOf, granted>>

SetDeviceParent(child, p) ==
    /\ parentOf' = [parentOf EXCEPT ![child] = p]
    /\ UNCHANGED <<known, direct, inherited, held, granted>>

(* Mutant: the copy is taken again on every pass. *)
InheritsAgain(d, e) ==
    /\ d \in known /\ parentOf[d] \in known
    /\ Has(direct[parentOf[d]], e) /\ ~Has(direct[d], e)

(* A child takes a copy of a pool its parent has directly and it lacks. *)
Inherits(d, e) ==
    /\ d \in known /\ parentOf[d] \in known
    /\ Has(direct[parentOf[d]], e) /\ ~HasExtent(d, e)

(***************************************************************************)
(* resolve_inheritance: only direct pools are copied and a child has one   *)
(* parent, so the first pass of the loop reaches the fixpoint in whatever  *)
(* order the HashMap yields the pairs.                                     *)
(***************************************************************************)
ResolveInheritance ==
    /\ inherited' = [d \in Devices |-> [e \in Extents |->
                        IF Inherits(d, e) THEN direct[parentOf[d]][e] ELSE inherited[d][e]]]
    /\ UNCHANGED <<known, direct, parentOf, held, granted>>

Allocate(d, e, n) ==
    LET Taken(pool) == [pool EXCEPT !.allocated = @ + n] IN
    /\ granted[e] + n <= MaxGranted
    /\ d \in known /\ HasExtent(d, e)
    /\ CanAlloc(PoolFor(d, e), n)
    /\ IF Has(direct[d], e)
         THEN direct' = [direct EXCEPT ![d][e] = Taken(@)] /\ UNCHANGED inherited
         ELSE inherited' = [inherited EXCEPT ![d][e] = Taken(@)] /\ UNCHANGED direct
    /\ held' = [held EXCEPT ![d][e] = @ + n]
    /\ granted' = [granted EXCEPT ![e] = @ + n]
    /\ UNCHANGED <<known, parentOf>>

(* The errors of allocate: no such device, no such extent, exhausted. *)
AllocateFails(d, e, n) ==
    /\ d \notin known \/ ~HasExtent(d, e) \/ ~CanAlloc(PoolFor(d, e), n)
    /\ UNCHANGED vars

(* deallocate frees from the direct and from the inherited pool. *)
Deallocate(d, e, n) ==
    /\ d \in known
    /\ direct' = [direct EXCEPT ![d][e] = Free(@, n)]
    /\ inherited' = [inherited EXCEPT ![d][e] = Free(@, n)]
    /\ held' = [held EXCEPT ![d][e] = Monus(@, n)]
    /\ UNCHANGED <<known, parentOf, granted>>

Next ==
    \/ \E d \in Devices, capacity \in [Extents -> Capacities \cup {-1}] : AddDevice(d, capacity)
    \/ \E child, p \in Devices : SetDeviceParent(child, p)
    \/ ResolveInheritance
    \/ \E d \in Devices, e \in Extents, n \in Amounts :
          Allocate(d, e, n) \/ AllocateFails(d, e, n) \/ Deallocate(d, e, n)

Spec == Init /\ [][Next]_vars

-----------------------------------------------------------------------------
(* Every variable holds a value of its kind. *)
TypeOK ==
    /\ known \subseteq Devices
    /\ direct \in [Devices -> PoolMaps]
    /\ inherited \in [Devices -> PoolMaps]
    /\ parentOf \in [Devices -> Devices \cup {None}]
    /\ held \in [Devices -> [Extents -> Nat]]
    /\ granted \in [Extents -> Nat]

(***************************************************************************)
(* No pool, direct or copied, ever holds more than its capacity: the       *)
(* unchecked subtraction in can_alloc and remaining cannot underflow.      *)
(***************************************************************************)
Fits(pool) == pool # NoPool => pool.allocated <= pool.capacity

PoolsFit == \A d \in Devices, e \in Extents : Fits(direct[d][e]) /\ Fits(inherited[d][e])

(***************************************************************************)
(* A device never has a direct and an inherited pool for one extent, in    *)
(* whatever order devices are registered again, re-parented and resolved:  *)
(* deallocate, which frees both, gives back to the pool allocate took from.*)
(***************************************************************************)
OnePoolPerExtent == \A d \in Devices, e \in Extents : ~(Has(direct[d], e) /\ Has(inherited[d], e))

(***************************************************************************)
(* What callers hold is still booked as allocated: no inheritance pass and *)
(* no deallocation of others lets a pool hand it out a second time.        *)
(***************************************************************************)
HeldIsBooked == \A d \in Devices, e \in Extents : held[d][e] <= PoolFor(d, e).allocated

(***************************************************************************)
(* can_satisfy, asked before allocate, is enough to keep a cost rule: the  *)
(* rule holds after the allocation (for sums that stay within a word, and  *)
(* rules that do not add an extent to itself).                             *)
(***************************************************************************)
CheckedAllocationKeepsRule ==
    [][\A d \in Devices, e \in Extents, n \in Amounts :
          Allocate(d, e, n) =>
             \A rule \in CostRules :
                (rule.op = "plus" => rule.left # rule.right) /\ CanSatisfy(rule, n)
                => Satisfied(rule)']_vars
=============================================================================
