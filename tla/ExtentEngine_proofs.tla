------------------------ MODULE ExtentEngine_proofs ------------------------
(***************************************************************************)
(* Theorems about ExtentEngine for every set of devices and extents, every *)
(* word width and all amounts.  The last one, about cost rules, is for     *)
(* finitely many devices whose sums are words.                             *)
(***************************************************************************)
EXTENDS ExtentEngine, FiniteSetTheorems, WellFoundedInduction, TLAPS

(***************************************************************************)
(* The inductive invariant.  Without OnePoolPerExtent a deallocation could *)
(* take a unit from the pool that books it, and HeldIsBooked would fail;   *)
(* PoolsFit needs the type of capacities and amounts.                      *)
(***************************************************************************)
IInv ==
    /\ TypeOK
    /\ PoolsFit
    /\ OnePoolPerExtent
    /\ HeldIsBooked

LEMMA WordFacts == Word \subseteq Nat /\ 0 \in Word /\ \A w \in Word : 0..w \subseteq Word
BY ExtentConstants DEF Word

LEMMA MonusType ==
    ASSUME NEW a \in Nat, NEW b \in Nat
    PROVE  Monus(a, b) \in 0..a
BY DEF Monus

(* What freeing does to one pool that fits. *)
LEMMA FreePool ==
    ASSUME NEW p \in Pools, Fits(p), NEW n \in Word
    PROVE  /\ Free(p, n) \in Pools
           /\ Fits(Free(p, n))
           /\ Free(p, n) = NoPool <=> p = NoPool
           /\ Free(p, n).allocated = Monus(p.allocated, n)
<1>2. /\ p.capacity \in Word \cup {-1} /\ p.allocated \in Word
      /\ p.allocated \in Nat /\ n \in Nat
  BY WordFacts DEF Pools
<1>1. Monus(p.allocated, n) \in Word /\ Monus(p.allocated, n) <= p.allocated
  <2>1. Monus(p.allocated, n) \in 0..p.allocated
    BY <1>2, MonusType
  <2>2. 0..p.allocated \subseteq Word
    BY <1>2, WordFacts
  <2>. QED  BY <1>2, <2>1, <2>2
<1>3. Free(p, n) = [capacity |-> p.capacity, allocated |-> Monus(p.allocated, n)]
  BY DEF Free, Pools
<1>4. p = NoPool <=> p.capacity = -1
  BY DEF Pools, NoPool
<1>5. p.capacity = -1 => p.allocated = 0 /\ Monus(p.allocated, n) = 0
  BY <1>2 DEF Pools, Monus
<1>6. Free(p, n) \in Pools /\ Free(p, n).allocated = Monus(p.allocated, n)
  BY <1>1, <1>2, <1>3, <1>5 DEF Pools
<1>7. Free(p, n) = NoPool <=> p = NoPool
  BY <1>3, <1>4, <1>5 DEF NoPool
<1>8. Fits(Free(p, n))
  <2>1. SUFFICES ASSUME p # NoPool PROVE Monus(p.allocated, n) <= p.capacity
    BY <1>3, <1>7 DEF Fits
  <2>2. p.allocated <= p.capacity /\ p.capacity \in Nat
    BY <1>2, <1>4, <2>1, WordFacts DEF Fits
  <2>3. Monus(p.allocated, n) \in Nat
    BY <1>1, WordFacts
  <2>. QED  BY <1>1, <1>2, <2>2, <2>3
<1>. QED  BY <1>6, <1>7, <1>8

LEMMA InitIInv == Init => IInv
<1>. SUFFICES ASSUME Init PROVE IInv
  OBVIOUS
<1>1. NoPool \in Pools
  BY WordFacts DEF NoPool, Pools
<1>2. \A d \in Devices, e \in Extents : direct[d][e] = NoPool /\ inherited[d][e] = NoPool
  BY DEF Init, Empty
<1>3. TypeOK
  BY <1>1 DEF Init, TypeOK, PoolMaps, Empty
<1>4. PoolsFit /\ OnePoolPerExtent
  BY <1>2 DEF PoolsFit, OnePoolPerExtent, Fits, Has
<1>5. HeldIsBooked
  BY <1>2 DEF Init, HeldIsBooked, PoolFor, Has, NoPool
<1>. QED  BY <1>3, <1>4, <1>5 DEF IInv

LEMMA AddDeviceStep ==
    ASSUME IInv, NEW d \in Devices, NEW capacity \in [Extents -> Capacities \cup {-1}],
           AddDevice(d, capacity)
    PROVE  IInv'
<1>. DEFINE P(e) == [capacity |-> capacity[e], allocated |-> 0]
<1>1. \A e \in Extents : P(e) \in Pools /\ Fits(P(e))
  <2>. SUFFICES ASSUME NEW e \in Extents PROVE P(e) \in Pools /\ Fits(P(e))
    OBVIOUS
  <2>1. capacity[e] \in Word \cup {-1}
    BY ExtentConstants
  <2>2. capacity[e] = -1 => P(e) = NoPool
    BY DEF NoPool
  <2>3. \A w \in Word : 0 <= w
    BY WordFacts
  <2>. QED  BY <2>1, <2>2, <2>3, WordFacts DEF Pools, Fits
<1>2. NoPool \in Pools
  BY WordFacts DEF NoPool, Pools
<1>3. /\ direct' = [direct EXCEPT ![d] = [e \in Extents |-> P(e)]]
      /\ inherited' = [inherited EXCEPT ![d] = [e \in Extents |-> NoPool]]
      /\ held' = [held EXCEPT ![d] = [e \in Extents |-> 0]]
  BY DEF AddDevice, Empty
<1>4. TypeOK'
  BY <1>1, <1>2, <1>3 DEF IInv, TypeOK, AddDevice, PoolMaps
<1>5. \A x \in Devices, e \in Extents :
         /\ direct'[x][e] = IF x = d THEN P(e) ELSE direct[x][e]
         /\ inherited'[x][e] = IF x = d THEN NoPool ELSE inherited[x][e]
         /\ held'[x][e] = IF x = d THEN 0 ELSE held[x][e]
  BY <1>3 DEF IInv, TypeOK
<1>6. Fits(NoPool) /\ NoPool.allocated = 0 /\ \A e \in Extents : P(e).allocated = 0
  BY DEF Fits, NoPool
<1>. HIDE DEF P
<1>7. PoolsFit' /\ OnePoolPerExtent'
  BY <1>1, <1>5, <1>6 DEF IInv, PoolsFit, OnePoolPerExtent, Has
<1>8. HeldIsBooked'
  <2>. SUFFICES ASSUME NEW x \in Devices, NEW e \in Extents
                PROVE  held'[x][e] <= PoolFor(x, e)'.allocated
    BY DEF HeldIsBooked
  <2>1. CASE x = d
    BY <1>5, <1>6, <2>1 DEF PoolFor
  <2>2. CASE x # d
    BY <1>5, <2>2 DEF IInv, HeldIsBooked, PoolFor, Has
  <2>. QED  BY <2>1, <2>2
<1>. QED  BY <1>4, <1>7, <1>8 DEF IInv

LEMMA SetDeviceParentStep ==
    ASSUME IInv, NEW child \in Devices, NEW p \in Devices, SetDeviceParent(child, p)
    PROVE  IInv'
BY DEF IInv, SetDeviceParent, TypeOK, PoolsFit, OnePoolPerExtent, HeldIsBooked, PoolFor

(***************************************************************************)
(* Inheriting: a copied pool fits because the parent's does, and goes only *)
(* where the child has no pool, so nothing the child holds is forgotten.   *)
(***************************************************************************)
LEMMA ResolveInheritanceStep ==
    ASSUME IInv, ResolveInheritance
    PROVE  IInv'
<1>1. \A d \in Devices, e \in Extents :
         /\ direct'[d][e] = direct[d][e]
         /\ held'[d][e] = held[d][e]
         /\ inherited'[d][e] = IF Inherits(d, e) THEN direct[parentOf[d]][e] ELSE inherited[d][e]
  BY DEF ResolveInheritance
<1>2. \A d \in Devices, e \in Extents :
         Inherits(d, e) => /\ parentOf[d] \in Devices
                           /\ direct[d][e] = NoPool /\ inherited[d][e] = NoPool
  BY DEF IInv, TypeOK, Inherits, HasExtent, Has
<1>3. TypeOK'
  <2>1. inherited' \in [Devices -> PoolMaps]
    BY <1>2 DEF IInv, TypeOK, PoolMaps, ResolveInheritance
  <2>. QED  BY <2>1 DEF IInv, TypeOK, ResolveInheritance
<1>4. PoolsFit'
  BY <1>1, <1>2 DEF IInv, PoolsFit
<1>5. OnePoolPerExtent'
  BY <1>1, <1>2 DEF IInv, OnePoolPerExtent, Has
<1>6. HeldIsBooked'
  <2>. SUFFICES ASSUME NEW d \in Devices, NEW e \in Extents
                PROVE  held[d][e] <= PoolFor(d, e)'.allocated
    BY <1>1 DEF HeldIsBooked
  <2>1. held[d][e] <= PoolFor(d, e).allocated /\ held[d][e] \in Nat
    BY DEF IInv, HeldIsBooked, TypeOK
  <2>2. CASE Inherits(d, e)
    <3>1. held[d][e] = 0
      BY <1>2, <2>1, <2>2 DEF PoolFor, Has, NoPool
    <3>2. PoolFor(d, e)' = direct[parentOf[d]][e]
      BY <1>1, <1>2, <2>2 DEF PoolFor, Has
    <3>3. direct[parentOf[d]][e].allocated \in Nat
      BY <1>2, <2>2, WordFacts DEF IInv, TypeOK, PoolMaps, Pools
    <3>. QED  BY <3>1, <3>2, <3>3
  <2>3. CASE ~Inherits(d, e)
    BY <1>1, <2>1, <2>3 DEF PoolFor, Has
  <2>. QED  BY <2>2, <2>3
<1>. QED  BY <1>3, <1>4, <1>5, <1>6 DEF IInv

LEMMA AllocateStep ==
    ASSUME IInv, NEW d \in Devices, NEW e \in Extents, NEW n \in Amounts, Allocate(d, e, n)
    PROVE  IInv'
<1>. DEFINE Taken(p) == [p EXCEPT !.allocated = @ + n]
            q == PoolFor(d, e)
<1>1. q \in Pools /\ q # NoPool /\ q.capacity - q.allocated >= n /\ n \in Word
  BY ExtentConstants DEF Allocate, IInv, TypeOK, PoolMaps, PoolFor, Has, HasExtent, CanAlloc
<1>2. q.capacity \in Word /\ q.allocated \in Word
  BY <1>1 DEF Pools, NoPool
<1>3. /\ Taken(q) \in Pools /\ Fits(Taken(q)) /\ Taken(q) # NoPool
      /\ Taken(q).allocated = q.allocated + n
  <2>1. Taken(q) = [capacity |-> q.capacity, allocated |-> q.allocated + n]
    BY <1>1 DEF Pools
  <2>2. q.allocated + n \in Word /\ q.allocated + n <= q.capacity
    BY <1>1, <1>2, ExtentConstants DEF Word
  <2>. QED  BY <1>2, <2>1, <2>2, ExtentConstants DEF Pools, Fits, NoPool, Word
<1>4. held' = [held EXCEPT ![d][e] = held[d][e] + n] /\ held[d][e] <= q.allocated
      /\ held[d][e] \in Nat /\ n \in Nat /\ q.allocated \in Nat
  BY <1>1, <1>2, WordFacts DEF Allocate, IInv, HeldIsBooked, TypeOK
<1>5. \A x \in Devices, y \in Extents :
         held'[x][y] = IF x = d /\ y = e THEN held[d][e] + n ELSE held[x][y]
  BY <1>4 DEF IInv, TypeOK
<1>6. held' \in [Devices -> [Extents -> Nat]]
  BY <1>4 DEF IInv, TypeOK
<1>7. granted' \in [Extents -> Nat]
  BY <1>4 DEF Allocate, IInv, TypeOK
<1>8. CASE Has(direct[d], e)
  <2>1. q = direct[d][e]
    BY <1>8 DEF PoolFor
  <2>2. direct' = [direct EXCEPT ![d][e] = Taken(q)] /\ inherited' = inherited
    BY <1>8, <2>1 DEF Allocate
  <2>3. \A x \in Devices, y \in Extents :
           direct'[x][y] = IF x = d /\ y = e THEN Taken(q) ELSE direct[x][y]
    BY <2>2 DEF IInv, TypeOK, PoolMaps
  <2>4. direct' \in [Devices -> PoolMaps]
    BY <1>3, <2>2 DEF IInv, TypeOK, PoolMaps
  <2>5. TypeOK'
    BY <1>6, <1>7, <2>2, <2>4 DEF Allocate, IInv, TypeOK
  <2>. HIDE DEF Taken, q
  <2>6. PoolsFit' /\ OnePoolPerExtent'
    BY <1>3, <1>8, <2>2, <2>3 DEF IInv, PoolsFit, OnePoolPerExtent, Has
  <2>7. HeldIsBooked'
    <3>. SUFFICES ASSUME NEW x \in Devices, NEW y \in Extents
                  PROVE  held'[x][y] <= PoolFor(x, y)'.allocated
      BY DEF HeldIsBooked
    <3>1. CASE x = d /\ y = e
      BY <1>3, <1>4, <1>5, <2>3, <3>1 DEF PoolFor, Has
    <3>2. CASE ~(x = d /\ y = e)
      BY <1>5, <2>2, <2>3, <3>2 DEF IInv, HeldIsBooked, PoolFor, Has
    <3>. QED  BY <3>1, <3>2
  <2>. QED  BY <2>5, <2>6, <2>7 DEF IInv
<1>9. CASE ~Has(direct[d], e)
  <2>1. q = inherited[d][e]
    BY <1>9 DEF PoolFor
  <2>2. inherited' = [inherited EXCEPT ![d][e] = Taken(q)] /\ direct' = direct
    BY <1>9, <2>1 DEF Allocate
  <2>3. \A x \in Devices, y \in Extents :
           inherited'[x][y] = IF x = d /\ y = e THEN Taken(q) ELSE inherited[x][y]
    BY <2>2 DEF IInv, TypeOK, PoolMaps
  <2>4. inherited' \in [Devices -> PoolMaps]
    BY <1>3, <2>2 DEF IInv, TypeOK, PoolMaps
  <2>5. TypeOK'
    BY <1>6, <1>7, <2>2, <2>4 DEF Allocate, IInv, TypeOK
  <2>. HIDE DEF Taken, q
  <2>6. PoolsFit' /\ OnePoolPerExtent'
    BY <1>3, <1>9, <2>2, <2>3 DEF IInv, PoolsFit, OnePoolPerExtent, Has
  <2>7. HeldIsBooked'
    <3>. SUFFICES ASSUME NEW x \in Devices, NEW y \in Extents
                  PROVE  held'[x][y] <= PoolFor(x, y)'.allocated
      BY DEF HeldIsBooked
    <3>1. CASE x = d /\ y = e
      BY <1>3, <1>4, <1>5, <1>9, <2>2, <2>3, <3>1 DEF PoolFor, Has
    <3>2. CASE ~(x = d /\ y = e)
      BY <1>5, <2>2, <2>3, <3>2 DEF IInv, HeldIsBooked, PoolFor, Has
    <3>. QED  BY <3>1, <3>2
  <2>. QED  BY <2>5, <2>6, <2>7 DEF IInv
<1>. QED  BY <1>8, <1>9

LEMMA DeallocateStep ==
    ASSUME IInv, NEW d \in Devices, NEW e \in Extents, NEW n \in Amounts, Deallocate(d, e, n)
    PROVE  IInv'
<1>. DEFINE p == direct[d][e]
            q == inherited[d][e]
<1>1. n \in Word /\ n \in Nat /\ p \in Pools /\ q \in Pools /\ Fits(p) /\ Fits(q)
  BY ExtentConstants, WordFacts DEF IInv, TypeOK, PoolMaps, PoolsFit
<1>2. /\ direct' = [direct EXCEPT ![d][e] = Free(p, n)]
      /\ inherited' = [inherited EXCEPT ![d][e] = Free(q, n)]
      /\ held' = [held EXCEPT ![d][e] = Monus(held[d][e], n)]
  BY DEF Deallocate
<1>3. held[d][e] \in Nat /\ Monus(held[d][e], n) \in Nat
  <2>1. held[d][e] \in Nat
    BY DEF IInv, TypeOK
  <2>2. Monus(held[d][e], n) \in 0..held[d][e]
    BY <1>1, <2>1, MonusType
  <2>. QED  BY <2>1, <2>2
<1>4. TypeOK'
  BY <1>1, <1>2, <1>3, FreePool DEF IInv, TypeOK, PoolMaps, Deallocate
<1>5. \A x \in Devices, y \in Extents :
         /\ direct'[x][y] = IF x = d /\ y = e THEN Free(p, n) ELSE direct[x][y]
         /\ inherited'[x][y] = IF x = d /\ y = e THEN Free(q, n) ELSE inherited[x][y]
         /\ held'[x][y] = IF x = d /\ y = e THEN Monus(held[d][e], n) ELSE held[x][y]
  BY <1>2 DEF IInv, TypeOK, PoolMaps
<1>6. PoolsFit' /\ OnePoolPerExtent'
  BY <1>1, <1>5, FreePool DEF IInv, PoolsFit, OnePoolPerExtent, Has
<1>7. HeldIsBooked'
  <2>. SUFFICES ASSUME NEW x \in Devices, NEW y \in Extents
                PROVE  held'[x][y] <= PoolFor(x, y)'.allocated
    BY DEF HeldIsBooked
  <2>1. CASE x = d /\ y = e
    <3>1. PoolFor(d, e)' = Free(PoolFor(d, e), n)
      BY <1>1, <1>5, FreePool DEF PoolFor, Has
    <3>2. PoolFor(d, e) \in Pools /\ Fits(PoolFor(d, e))
      BY <1>1 DEF PoolFor
    <3>3. PoolFor(d, e)'.allocated = Monus(PoolFor(d, e).allocated, n)
      BY <1>1, <3>1, <3>2, FreePool
    <3>4. PoolFor(d, e).allocated \in Nat /\ held[d][e] <= PoolFor(d, e).allocated
      BY <3>2, WordFacts DEF IInv, HeldIsBooked, Pools
    <3>5. Monus(held[d][e], n) <= Monus(PoolFor(d, e).allocated, n)
      BY <1>1, <1>3, <3>4 DEF Monus
    <3>. QED  BY <1>5, <2>1, <3>3, <3>5
  <2>2. CASE ~(x = d /\ y = e)
    BY <1>5, <2>2 DEF IInv, HeldIsBooked, PoolFor, Has
  <2>. QED  BY <2>1, <2>2
<1>. QED  BY <1>4, <1>6, <1>7 DEF IInv

LEMMA Inductive == Spec => []IInv
<1>1. IInv /\ [Next]_vars => IInv'
  <2>1. IInv /\ UNCHANGED vars => IInv'
    BY DEF vars, IInv, TypeOK, PoolsFit, OnePoolPerExtent, HeldIsBooked, PoolFor
  <2>. QED
    BY <2>1, AddDeviceStep, SetDeviceParentStep, ResolveInheritanceStep, AllocateStep,
       DeallocateStep DEF Next, AllocateFails
<1>. QED  BY InitIInv, <1>1, PTL DEF Spec

(***************************************************************************)
(* Pools stay within their capacity under every sequence of registering,   *)
(* inheriting, allocating and freeing: `capacity - allocated`, computed    *)
(* without a check in can_alloc, never underflows.                         *)
(***************************************************************************)
THEOREM NoOvercommit == Spec => []PoolsFit
BY Inductive, PTL DEF IInv

(* Amounts stay words and pools stay pools under all calls. *)
THEOREM TypeCorrect == Spec => []TypeOK
BY Inductive, PTL DEF IInv

(* deallocate finds at most one pool of an extent on a device. *)
THEOREM DeallocationUnambiguous == Spec => []OnePoolPerExtent
BY Inductive, PTL DEF IInv

(* What callers hold of a device registered once stays booked in its pool. *)
THEOREM HeldStaysBooked == Spec => []HeldIsBooked
BY Inductive, PTL DEF IInv
-----------------------------------------------------------------------------
(***************************************************************************)
(* Sums over finite sets, as the folds of the library define them.         *)
(***************************************************************************)
LEMMA SmallestSet ==
    ASSUME NEW F, IsFiniteSet(F), NEW T, T \subseteq SUBSET F, T # {}
    PROVE  \E s \in T : \A t \in T : t \subseteq s => t = s
<1>1. IsWellFoundedOn(StrictSubsetOrdering(F), SUBSET F)
  BY FS_FiniteSubsetsOfFinite, FS_StrictSubsetOrderingWellFounded
<1>2. PICK s \in T : \A t \in T : ~ (<<t, s>> \in StrictSubsetOrdering(F))
  BY <1>1, WFMin
<1>. QED  BY <1>2 DEF StrictSubsetOrdering

AnyOf(s) == CHOOSE x \in s : TRUE

(* g adds up f over the subsets of S. *)
Adds(f, S, g) ==
    g = [s \in SUBSET S |->
            IF s = {} THEN 0 ELSE LET x == CHOOSE x \in s : TRUE IN f[x] + g[s \ {x}]]

LEMMA AddsOne ==
    ASSUME NEW f, NEW S, NEW g, Adds(f, S, g)
    PROVE  /\ g[{}] = 0
           /\ \A s \in SUBSET S : s # {} =>
                  AnyOf(s) \in s /\ g[s] = f[AnyOf(s)] + g[s \ {AnyOf(s)}]
<1>1. ASSUME NEW s \in SUBSET S
      PROVE  g[s] = IF s = {} THEN 0 ELSE f[AnyOf(s)] + g[s \ {AnyOf(s)}]
  BY DEF Adds, AnyOf
<1>2. \A s : s # {} => AnyOf(s) \in s
  BY DEF AnyOf
<1>. QED  BY <1>1, <1>2

LEMMA AddsTheSame ==
    ASSUME NEW f, NEW S, NEW g, Adds(f, S, g), NEW U, NEW h, Adds(f, U, h),
           IsFiniteSet(U), U \subseteq S
    PROVE  \A s \in SUBSET U : g[s] = h[s]
<1>. DEFINE T == {s \in SUBSET U : g[s] # h[s]}
<1>. SUFFICES ASSUME T # {} PROVE FALSE
  OBVIOUS
<1>1. PICK s \in T : \A t \in T : t \subseteq s => t = s
  <2>1. T \subseteq SUBSET U
    OBVIOUS
  <2>. HIDE DEF T
  <2>. QED  BY <2>1, SmallestSet
<1>2. s # {} /\ s \in SUBSET U /\ s \in SUBSET S
  <2>1. g[{}] = 0 /\ h[{}] = 0
    BY AddsOne
  <2>. QED  BY <1>1, <2>1
<1>. DEFINE x == AnyOf(s)
<1>3. x \in s /\ g[s] = f[x] + g[s \ {x}] /\ h[s] = f[x] + h[s \ {x}]
  <2>1. x \in s /\ g[s] = f[x] + g[s \ {x}]
    BY <1>2, AddsOne
  <2>2. h[s] = f[x] + h[s \ {x}]
    BY <1>2, AddsOne
  <2>. QED  BY <2>1, <2>2
<1>. HIDE DEF x
<1>4. s \ {x} \notin T /\ s \ {x} \in SUBSET U
  BY <1>1, <1>3
<1>. QED  BY <1>1, <1>3, <1>4

LEMMA AddsSomehow ==
    ASSUME NEW f, NEW S, IsFiniteSet(S)
    PROVE  \E g : Adds(f, S, g)
<1>. DEFINE T == {U \in SUBSET S : ~ \E g : Adds(f, U, g)}
<1>. SUFFICES ASSUME T # {} PROVE FALSE
  OBVIOUS
<1>1. PICK U \in T : \A t \in T : t \subseteq U => t = U
  <2>1. T \subseteq SUBSET S
    OBVIOUS
  <2>. HIDE DEF T
  <2>. QED  BY <2>1, SmallestSet
<1>. DEFINE H(s) == CHOOSE h : Adds(f, s, h)
            G(s) == IF s = {} THEN 0 ELSE f[AnyOf(s)] + H(s \ {AnyOf(s)})[s \ {AnyOf(s)}]
            g == [s \in SUBSET U |-> G(s)]
<1>2. \A s \in SUBSET U : s # U => Adds(f, s, H(s))
  BY <1>1
<1>3. ASSUME NEW s \in SUBSET U, s # {}
      PROVE  G(s) = f[AnyOf(s)] + G(s \ {AnyOf(s)})
  <2>. DEFINE x == AnyOf(s)
              t == s \ {x}
  <2>1. x \in s
    BY <1>3 DEF AnyOf
  <2>2. t \in SUBSET U /\ t # U /\ IsFiniteSet(t)
    BY <1>1, <2>1, FS_Subset
  <2>3. G(t) = H(t)[t]
    <3>. HIDE DEF t, H, x
    <3>1. Adds(f, t, H(t))
      BY <1>2, <2>2
    <3>2. CASE t = {}
      BY <3>1, <3>2, AddsOne
    <3>3. CASE t # {}
      <4>. DEFINE y == AnyOf(t)
                  u == t \ {y}
      <4>1. y \in t /\ H(t)[t] = f[y] + H(t)[u]
        BY <3>1, <3>3, AddsOne
      <4>2. u \in SUBSET U /\ u # U /\ IsFiniteSet(u) /\ u \subseteq t
        BY <2>2, <4>1, FS_Subset
      <4>3. H(t)[u] = H(u)[u]
        <5>. HIDE DEF u, y
        <5>1. Adds(f, u, H(u))
          BY <1>2, <4>2
        <5>. QED  BY <3>1, <4>2, <5>1, AddsTheSame
      <4>. QED  BY <3>3, <4>1, <4>3
    <3>. QED  BY <3>2, <3>3
  <2>4. G(s) = f[x] + H(t)[t]
    BY <1>3
  <2>. QED  BY <2>3, <2>4
<1>4. Adds(f, U, g)
  <2>1. g = [s \in SUBSET U |-> IF s = {} THEN 0 ELSE f[AnyOf(s)] + g[s \ {AnyOf(s)}]]
    <3>1. ASSUME NEW s \in SUBSET U
          PROVE  G(s) = IF s = {} THEN 0 ELSE f[AnyOf(s)] + g[s \ {AnyOf(s)}]
      <4>1. CASE s = {}
        BY <4>1
      <4>2. CASE s # {}
        <5>1. s \ {AnyOf(s)} \in SUBSET U
          OBVIOUS
        <5>2. g[s \ {AnyOf(s)}] = G(s \ {AnyOf(s)})
          <6>. HIDE DEF G
          <6>. QED  BY <5>1
        <5>3. G(s) = f[AnyOf(s)] + G(s \ {AnyOf(s)})
          BY <1>3, <4>2
        <5>. HIDE DEF G, g
        <5>. QED  BY <4>2, <5>2, <5>3
      <4>. QED  BY <4>1, <4>2
    <3>2. g = [s \in SUBSET U |-> G(s)]
      OBVIOUS
    <3>. HIDE DEF G, g
    <3>. QED  BY <3>1, <3>2
  <2>. HIDE DEF g
  <2>. QED  BY <2>1 DEF Adds, AnyOf
<1>. QED  BY <1>1, <1>4

LEMMA SumAdds ==
    ASSUME NEW S, IsFiniteSet(S), NEW f, DOMAIN f = S
    PROVE  \E g : Adds(f, S, g) /\ SumFunction(f) = g[S]
<1>. DEFINE g == CHOOSE g : Adds(f, S, g)
<1>1. Adds(f, S, g)
  BY AddsSomehow
<1>2. SumFunction(f) = g[S]
  BY DEF SumFunction, SumFunctionOnSet, FoldFunctionOnSet, MapThenFoldSet, Adds
<1>. QED  BY <1>1, <1>2

(* A sum of numbers up to a bound stays up to the bound times their number. *)
LEMMA SumIsBounded ==
    ASSUME NEW S, IsFiniteSet(S), NEW bound \in Nat, NEW f, DOMAIN f = S,
           \A x \in S : f[x] \in 0 .. bound
    PROVE  SumFunction(f) \in 0 .. bound * Cardinality(S)
<1>1. PICK g : Adds(f, S, g) /\ SumFunction(f) = g[S]
  BY SumAdds
<1>a. \A u \in SUBSET S : u # {} => AnyOf(u) \in u /\ g[u] = f[AnyOf(u)] + g[u \ {AnyOf(u)}]
  BY <1>1, AddsOne
<1>. DEFINE T == {s \in SUBSET S : g[s] \notin 0 .. bound * Cardinality(s)}
<1>. SUFFICES ASSUME T # {} PROVE FALSE
  BY <1>1
<1>2. PICK s \in T : \A t \in T : t \subseteq s => t = s
  <2>1. T \subseteq SUBSET S
    OBVIOUS
  <2>. HIDE DEF T
  <2>. QED  BY <2>1, SmallestSet
<1>3. s # {}
  <2>. SUFFICES ASSUME s = {} PROVE s \notin T
    BY <1>2
  <2>1. g[{}] = 0 /\ Cardinality({}) = 0 /\ bound * 0 = 0
    BY <1>1, AddsOne, FS_EmptySet
  <2>2. g[s] \in 0 .. bound * Cardinality(s)
    <3>1. g[s] = 0 /\ bound * Cardinality(s) = 0
      BY <2>1
    <3>. QED  BY <3>1
  <2>. QED  BY <2>2
<1>. DEFINE x == AnyOf(s)
            t == s \ {x}
<1>4. s \in SUBSET S /\ x \in s /\ g[s] = f[x] + g[t]
  <2>1. s \in SUBSET S
    BY <1>2
  <2>. HIDE DEF T
  <2>. QED  BY <1>a, <1>3, <2>1
<1>5. IsFiniteSet(s) /\ Cardinality(s) \in Nat /\ Cardinality(t) = Cardinality(s) - 1
      /\ Cardinality(t) \in Nat
  <2>1. IsFiniteSet(s)
    BY <1>4, FS_Subset
  <2>2. IsFiniteSet(t) /\ Cardinality(t) = Cardinality(s) - 1
    BY <1>4, <2>1, FS_RemoveElement
  <2>. QED  BY <2>1, <2>2, FS_CardinalityType
<1>6. g[t] \in 0 .. bound * Cardinality(t)
  <2>1. t \notin T /\ t \in SUBSET S
    BY <1>2, <1>4
  <2>. QED  BY <2>1
<1>. DEFINE k == Cardinality(t)
<1>7. bound * Cardinality(s) = bound * k + bound
  <2>1. Cardinality(s) = k + 1 /\ k \in Nat
    BY <1>5
  <2>. HIDE DEF k
  <2>. QED  BY <2>1
<1>8. f[x] \in 0 .. bound /\ bound * k \in Nat
  BY <1>4, <1>5
<1>9. g[s] \in 0 .. bound * Cardinality(s)
  <2>. DEFINE b == bound * k
  <2>1. f[x] \in 0 .. bound /\ g[t] \in 0 .. b /\ b \in Nat
    BY <1>6, <1>8
  <2>2. g[s] = f[x] + g[t] /\ bound * Cardinality(s) = b + bound
    BY <1>4, <1>7
  <2>. HIDE DEF b, x, t
  <2>. QED  BY <2>1, <2>2
<1>. QED  BY <1>2, <1>9

(* A sum grows by what one of its values grows. *)
LEMMA SumGrows ==
    ASSUME NEW S, IsFiniteSet(S), NEW f, DOMAIN f = S, NEW e, DOMAIN e = S,
           \A x \in S : f[x] \in Nat, NEW d \in S, NEW n \in Nat,
           \A x \in S : e[x] = f[x] + (IF x = d THEN n ELSE 0)
    PROVE  SumFunction(e) = SumFunction(f) + n
<1>1. PICK g : Adds(f, S, g) /\ SumFunction(f) = g[S]
  BY SumAdds
<1>2. PICK h : Adds(e, S, h) /\ SumFunction(e) = h[S]
  BY SumAdds
<1>a. \A u \in SUBSET S : u # {} => AnyOf(u) \in u /\ g[u] = f[AnyOf(u)] + g[u \ {AnyOf(u)}]
  BY <1>1, AddsOne
<1>b. \A u \in SUBSET S : u # {} => h[u] = e[AnyOf(u)] + h[u \ {AnyOf(u)}]
  BY <1>2, AddsOne
<1>. DEFINE T == {s \in SUBSET S : ~(g[s] \in Nat /\ h[s] = g[s] + IF d \in s THEN n ELSE 0)}
<1>. SUFFICES ASSUME T # {} PROVE FALSE
  BY <1>1, <1>2
<1>3. PICK s \in T : \A t \in T : t \subseteq s => t = s
  <2>1. T \subseteq SUBSET S
    OBVIOUS
  <2>. HIDE DEF T
  <2>. QED  BY <2>1, SmallestSet
<1>4. s # {}
  <2>. SUFFICES ASSUME s = {} PROVE s \notin T
    BY <1>3
  <2>1. g[s] = 0 /\ h[s] = 0 /\ d \notin s
    BY <1>1, <1>2, AddsOne
  <2>. QED  BY <2>1
<1>. DEFINE x == AnyOf(s)
            t == s \ {x}
<1>5. x \in s /\ g[s] = f[x] + g[t] /\ h[s] = e[x] + h[t]
  <2>0. s \in SUBSET S
    BY <1>3
  <2>. HIDE DEF T
  <2>1. x \in s /\ g[s] = f[x] + g[t]
    BY <1>a, <1>4, <2>0
  <2>2. h[s] = e[x] + h[t]
    BY <1>b, <1>4, <2>0
  <2>. QED  BY <2>1, <2>2
<1>6. g[t] \in Nat /\ h[t] = g[t] + IF d \in t THEN n ELSE 0
  <2>1. t \notin T /\ t \in SUBSET S
    BY <1>3, <1>5
  <2>. QED  BY <2>1
<1>7. f[x] \in Nat /\ e[x] = f[x] + (IF x = d THEN n ELSE 0)
  BY <1>3, <1>5
<1>8. d \in s <=> (x = d \/ d \in t)
  BY <1>5
<1>9. x = d => d \notin t
  OBVIOUS
<1>10. g[s] \in Nat /\ h[s] = g[s] + IF d \in s THEN n ELSE 0
  <2>. HIDE DEF x, t, T
  <2>. QED  BY <1>5, <1>6, <1>7, <1>8, <1>9
<1>. QED  BY <1>3, <1>10

-----------------------------------------------------------------------------
(***************************************************************************)
(* Rules about sums.  Room is what the pools of an extent hold together.   *)
(***************************************************************************)
SmallPools(bound) ==
    \A d \in Devices, e \in Extents :
        direct[d][e].capacity <= bound /\ inherited[d][e].capacity <= bound

LEMMA InitSmall ==
    ASSUME NEW bound \in Nat, Init
    PROVE  SmallPools(bound)
<1>1. \A d \in Devices, e \in Extents : direct[d][e] = NoPool /\ inherited[d][e] = NoPool
  BY DEF Init, Empty
<1>2. NoPool.capacity <= bound
  BY DEF NoPool
<1>. QED  BY <1>1, <1>2 DEF SmallPools

Used(pool, v) == [pool EXCEPT !.allocated = v]

LEMMA UsedPool ==
    ASSUME NEW pool \in Pools, NEW v
    PROVE  Used(pool, v).capacity = pool.capacity /\ Used(pool, v).allocated = v
BY DEF Used, Pools

LEMMA NextSmall ==
    ASSUME NEW bound \in Nat, \A c \in Capacities : c <= bound,
           IInv, SmallPools(bound), [Next]_vars
    PROVE  SmallPools(bound)'
<1>1. ASSUME NEW d \in Devices, NEW capacity \in [Extents -> Capacities \cup {-1}],
             AddDevice(d, capacity)
      PROVE  SmallPools(bound)'
  <2>1. \A x \in Devices, e \in Extents :
           /\ direct'[x][e].capacity = IF x = d THEN capacity[e] ELSE direct[x][e].capacity
           /\ inherited'[x][e].capacity = IF x = d THEN -1 ELSE inherited[x][e].capacity
    BY <1>1 DEF AddDevice, Empty, NoPool, IInv, TypeOK
  <2>2. ASSUME NEW e \in Extents PROVE capacity[e] <= bound
    <3>1. capacity[e] = -1 => capacity[e] <= bound
      OBVIOUS
    <3>2. capacity[e] \in Capacities \/ capacity[e] = -1
      OBVIOUS
    <3>. QED  BY <3>1, <3>2
  <2>. QED  BY <2>1, <2>2 DEF SmallPools
<1>2. ASSUME NEW child \in Devices, NEW p \in Devices, SetDeviceParent(child, p)
      PROVE  SmallPools(bound)'
  BY <1>2 DEF SetDeviceParent, SmallPools
<1>3. CASE ResolveInheritance
  <2>1. \A d \in Devices, e \in Extents :
           /\ Inherits(d, e) => parentOf[d] \in Devices
           /\ inherited'[d][e] =
                 IF Inherits(d, e) THEN direct[parentOf[d]][e] ELSE inherited[d][e]
    BY <1>3 DEF ResolveInheritance, Inherits, IInv, TypeOK
  <2>. QED  BY <1>3, <2>1 DEF ResolveInheritance, SmallPools
<1>4. ASSUME NEW d \in Devices, NEW e \in Extents, NEW n \in Amounts,
             Allocate(d, e, n) \/ Deallocate(d, e, n)
      PROVE  SmallPools(bound)'
  <2>1. direct \in [Devices -> [Extents -> Pools]] /\ inherited \in [Devices -> [Extents -> Pools]]
    BY DEF IInv, TypeOK, PoolMaps
  <2>. DEFINE Turned(P, v) == [P EXCEPT ![d][e] = Used(@, v)]
  <2>2. /\ (\E v : direct' = Turned(direct, v)) \/ direct' = direct
        /\ (\E v : inherited' = Turned(inherited, v)) \/ inherited' = inherited
    BY <1>4, <2>1 DEF Allocate, Deallocate, Free, Used
  <2>3. ASSUME NEW x \in Devices, NEW y \in Extents
        PROVE  /\ direct'[x][y].capacity = direct[x][y].capacity
               /\ inherited'[x][y].capacity = inherited[x][y].capacity
    <3>1. ASSUME NEW P \in [Devices -> [Extents -> Pools]], NEW v
          PROVE  Turned(P, v)[x][y].capacity = P[x][y].capacity
      BY UsedPool
    <3>. HIDE DEF Turned
    <3>. QED  BY <2>1, <2>2, <3>1
  <2>. QED  BY <2>3 DEF SmallPools
<1>5. CASE UNCHANGED vars
  BY <1>5 DEF vars, SmallPools
<1>. QED
  BY <1>1, <1>2, <1>3, <1>4, <1>5 DEF Next, AllocateFails

(* What a device uses of an extent is in one pool, and sums stay in the room there is. *)
LEMMA UsageIsBounded ==
    ASSUME NEW bound \in Nat, IsFiniteSet(Devices), IInv, SmallPools(bound), NEW e \in Extents
    PROVE  /\ IsFiniteSet(known) /\ DOMAIN Usage(e) = known
           /\ \A d \in known : Usage(e)[d] \in 0 .. bound
           /\ SumFunction(Usage(e)) \in 0 .. bound * Cardinality(Devices)
<1>1. IsFiniteSet(known) /\ DOMAIN Usage(e) = known /\ known \subseteq Devices
  BY FS_Subset DEF Usage, IInv, TypeOK
<1>2. ASSUME NEW d \in known PROVE Usage(e)[d] \in 0 .. bound
  <2>. DEFINE p == direct[d][e]
              q == inherited[d][e]
  <2>1. /\ p \in Pools /\ q \in Pools /\ Fits(p) /\ Fits(q) /\ (p = NoPool \/ q = NoPool)
        /\ p.capacity <= bound /\ q.capacity <= bound
    BY <1>1 DEF IInv, TypeOK, PoolMaps, PoolsFit, OnePoolPerExtent, Has, SmallPools
  <2>2. Usage(e)[d] = p.allocated + q.allocated
    BY DEF Usage
  <2>3. ASSUME NEW r \in Pools, Fits(r), r.capacity <= bound PROVE r.allocated \in 0 .. bound
    <3>1. r.allocated \in Nat /\ r.capacity \in Word \cup {-1}
      BY WordFacts DEF Pools
    <3>2. CASE r.capacity = -1
      BY <3>2 DEF Pools
    <3>3. CASE r.capacity # -1
      <4>0. r # NoPool /\ r.capacity \in Nat
        <5>1. NoPool.capacity = -1
          BY DEF NoPool
        <5>. QED  BY <3>1, <3>3, <5>1, WordFacts
      <4>1. r.allocated <= r.capacity
        BY <2>3, <4>0 DEF Fits
      <4>. QED  BY <2>3, <3>1, <4>0, <4>1
    <3>. QED  BY <3>2, <3>3
  <2>4. NoPool.allocated = 0
    BY DEF NoPool
  <2>. HIDE DEF p, q
  <2>5. p.allocated \in 0 .. bound /\ q.allocated \in 0 .. bound
    BY <2>1, <2>3
  <2>. QED  BY <2>1, <2>2, <2>4, <2>5
<1>3. SumFunction(Usage(e)) \in 0 .. bound * Cardinality(known)
  BY <1>1, <1>2, SumIsBounded
<1>4. bound * Cardinality(known) <= bound * Cardinality(Devices)
      /\ bound * Cardinality(known) \in Nat /\ bound * Cardinality(Devices) \in Nat
  <2>1. Cardinality(known) <= Cardinality(Devices) /\ Cardinality(known) \in Nat
        /\ Cardinality(Devices) \in Nat
    BY <1>1, FS_Subset, FS_CardinalityType
  <2>. DEFINE a == Cardinality(known)
              b == Cardinality(Devices)
  <2>. HIDE DEF a, b
  <2>2. bound * (b - a) \in Nat /\ bound * b = bound * a + bound * (b - a) /\ bound * a \in Nat
        /\ bound * b \in Nat
    BY <2>1 DEF a, b
  <2>. QED  BY <2>2 DEF a, b
<1>. QED  BY <1>1, <1>2, <1>3, <1>4

(* An allocation adds to one extent's usage. *)
LEMMA AllocationAdds ==
    ASSUME NEW bound \in Nat, IsFiniteSet(Devices), IInv, SmallPools(bound),
           NEW d \in Devices, NEW e \in Extents, NEW n \in Amounts, Allocate(d, e, n),
           NEW y \in Extents
    PROVE  SumFunction(Usage(y))' = SumFunction(Usage(y)) + (IF y = e THEN n ELSE 0)
<1>. DEFINE m == IF y = e THEN n ELSE 0
            after == [x \in known |-> direct'[x][y].allocated + inherited'[x][y].allocated]
<1>1. n \in Nat /\ m \in Nat
  BY ExtentConstants, WordFacts
<1>2. known' = known /\ d \in known /\ Usage(y)' = after
  BY DEF Allocate, Usage
<1>3. \A x \in known : /\ direct[x][y].allocated \in Nat /\ inherited[x][y].allocated \in Nat
                       /\ direct[x][y] \in Pools /\ inherited[x][y] \in Pools
  BY WordFacts DEF IInv, TypeOK, PoolMaps, Pools
<1>4. ASSUME NEW x \in known PROVE after[x] = Usage(y)[x] + (IF x = d THEN m ELSE 0)
  <2>1. direct \in [Devices -> [Extents -> Pools]] /\ inherited \in [Devices -> [Extents -> Pools]]
        /\ x \in Devices
    BY DEF IInv, TypeOK, PoolMaps
  <2>2. \/ /\ direct'[x][y].allocated =
                direct[x][y].allocated + (IF x = d /\ y = e THEN n ELSE 0)
           /\ inherited' = inherited
        \/ /\ inherited'[x][y].allocated =
                inherited[x][y].allocated + (IF x = d /\ y = e THEN n ELSE 0)
           /\ direct' = direct
    BY <1>1, <1>3, <2>1 DEF Allocate, Pools
  <2>. QED  BY <1>1, <1>3, <2>2 DEF Usage
<1>5. \A x \in known : Usage(y)[x] \in Nat
  BY <1>3 DEF Usage
<1>6. IsFiniteSet(known) /\ DOMAIN Usage(y) = known /\ DOMAIN after = known
  BY UsageIsBounded
<1>. HIDE DEF m, after
<1>7. SumFunction(after) = SumFunction(Usage(y)) + m
  BY <1>1, <1>2, <1>4, <1>5, <1>6, SumGrows
<1>. QED  BY <1>2, <1>7 DEF m

(***************************************************************************)
(* can_satisfy before allocate keeps a cost rule, provided that what all   *)
(* devices could hold of two extents, with one more amount, is a word:     *)
(* `usage + amount` in can_satisfy is not checked for overflow.            *)
(***************************************************************************)
THEOREM CheckedAllocationsKeepRules ==
    ASSUME IsFiniteSet(Devices), NEW bound \in Nat,
           \A c \in Capacities : c <= bound,
           \A n \in Amounts : 2 * (bound * Cardinality(Devices)) + n < WordSize
    PROVE  Spec => CheckedAllocationKeepsRule
<1>. DEFINE room == bound * Cardinality(Devices)
<1>1. room \in Nat
  BY FS_CardinalityType
<1>2. ASSUME IInv, SmallPools(bound),
             NEW d \in Devices, NEW e \in Extents, NEW n \in Amounts, Allocate(d, e, n),
             NEW rule \in CostRules, rule.op = "plus" => rule.left # rule.right,
             CanSatisfy(rule, n)
      PROVE  Satisfied(rule)'
  <2>. DEFINE l == SumFunction(Usage(rule.left))
              r == SumFunction(Usage(rule.right))
              i == IF rule.left = e THEN n ELSE 0
              j == IF rule.right = e THEN n ELSE 0
  <2>1. /\ rule.left \in Extents /\ rule.right \in Extents
        /\ rule.op \in {"sum", "plus", "minus"} /\ rule.limit \in Nat /\ n \in Nat
    BY ExtentConstants, WordFacts DEF CostRules
  <2>2. l \in 0 .. room /\ r \in 0 .. room
    BY <1>2, <2>1, UsageIsBounded
  <2>3. l' = l + i /\ r' = r + j
    BY <1>2, <2>1, AllocationAdds
  <2>4. room + room + n < WordSize /\ WordSize \in Nat /\ Word = 0 .. WordSize - 1
    <3>1. 2 * room = room + room /\ WordSize \in Nat
      BY <1>1, ExtentConstants
    <3>. QED  BY <3>1 DEF Word
  <2>. HIDE DEF room
  <2>5. \A k \in Nat : k <= room + room + n => Wrap(k) = k /\ k \in Word
    BY <1>1, <2>1, <2>4 DEF Wrap
  <2>6. /\ TotalUsage(rule.left) = l /\ TotalUsage(rule.right) = r
        /\ TotalUsage(rule.left)' = l + i /\ TotalUsage(rule.right)' = r + j
    <3>1. TotalUsage(rule.left)' = Wrap(l') /\ TotalUsage(rule.right)' = Wrap(r')
      BY DEF TotalUsage
    <3>2. TotalUsage(rule.left) = Wrap(l) /\ TotalUsage(rule.right) = Wrap(r)
      BY DEF TotalUsage
    <3>3. /\ l \in Nat /\ l <= room + room + n /\ r \in Nat /\ r <= room + room + n
          /\ l + i \in Nat /\ l + i <= room + room + n
          /\ r + j \in Nat /\ r + j <= room + room + n
      <4>. HIDE DEF l, r
      <4>. QED  BY <1>1, <2>1, <2>2
    <3>. QED  BY <2>3, <2>5, <3>1, <3>2, <3>3
  <2>. HIDE DEF l, r
  <2>7. CASE rule.op = "sum"
    <3>1. CurrentUsage(rule) = l /\ CurrentUsage(rule)' = l + i
      BY <2>6, <2>7 DEF CurrentUsage
    <3>2. l + n <= rule.limit
      BY <1>1, <1>2, <2>1, <2>2, <2>5, <3>1 DEF CanSatisfy
    <3>. QED  BY <2>1, <2>2, <3>1, <3>2 DEF Satisfied
  <2>8. CASE rule.op = "plus"
    <3>1. rule.left # rule.right /\ i + j <= n
      BY <1>2, <2>1, <2>8
    <3>2. l + r \in Word /\ (l + i) + (r + j) \in Word
      BY <1>1, <2>1, <2>2, <2>5, <3>1
    <3>3. CurrentUsage(rule) = l + r /\ CurrentUsage(rule)' = (l + i) + (r + j)
      BY <2>6, <2>8, <3>2 DEF CurrentUsage
    <3>4. (l + r) + n <= rule.limit
      BY <1>1, <1>2, <2>1, <2>2, <2>5, <3>3 DEF CanSatisfy
    <3>. QED  BY <2>1, <2>2, <3>1, <3>3, <3>4 DEF Satisfied
  <2>9. CASE rule.op = "minus"
    <3>1. CurrentUsage(rule) = Monus(l, r) /\ CurrentUsage(rule)' = Monus(l + i, r + j)
      BY <2>6, <2>9 DEF CurrentUsage
    <3>2. Monus(l, r) \in Nat /\ Monus(l, r) <= room
      BY <1>1, <2>2 DEF Monus
    <3>3. Monus(l, r) + n <= rule.limit
      BY <1>1, <1>2, <2>1, <2>5, <3>1, <3>2 DEF CanSatisfy
    <3>4. Monus(l + i, r + j) <= Monus(l, r) + n
      BY <1>1, <2>1, <2>2 DEF Monus
    <3>5. Monus(l + i, r + j) <= rule.limit
      BY <1>1, <2>1, <2>2, <3>2, <3>3, <3>4 DEF Monus
    <3>. QED  BY <3>1, <3>5 DEF Satisfied
  <2>. QED  BY <2>1, <2>7, <2>8, <2>9
<1>3. IInv /\ SmallPools(bound) /\ [Next]_vars => SmallPools(bound)'
  BY NextSmall
<1>4. Init => SmallPools(bound)
  BY InitSmall
<1>5. IInv /\ SmallPools(bound) /\ [Next]_vars =>
          [\A d \in Devices, e \in Extents, n \in Amounts :
              Allocate(d, e, n) =>
                 \A rule \in CostRules :
                    (rule.op = "plus" => rule.left # rule.right) /\ CanSatisfy(rule, n)
                    => Satisfied(rule)']_vars
  BY <1>2
<1>. QED  BY <1>3, <1>4, <1>5, Inductive, PTL DEF Spec, CheckedAllocationKeepsRule
=============================================================================
