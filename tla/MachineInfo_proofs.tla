------------------------- MODULE MachineInfo_proofs -------------------------
(***************************************************************************)
(* For any machines, extents, cost lists and clients: a machine is never   *)
(* booked beyond its capacity; a plan can be booked; what clients hold     *)
(* stays booked.                                                           *)
(*                                                                         *)
(* Type correctness and the bound are inductive together: the bound alone  *)
(* says nothing of the entry that is booked next, types say that it names  *)
(* an extent of the table and that an affordable value is a number.  The   *)
(* booking of a plan adds that what is left of the plan can be booked, and *)
(* the holdings that the table covers them and the part of the running     *)
(* loop that is done, or still to do.                                      *)
(***************************************************************************)
EXTENDS MachineInfo, FiniteSetTheorems, NaturalsInduction, WellFoundedInduction,
        SequenceTheorems, TLAPS

(* The running loop always stands before a cost entry of a cost list. *)
LEMMA RestOfCosts ==
    ASSUME NEW s \in CostLists, s # <<>>
    PROVE  Head(s) \in Costs /\ Tail(s) \in CostLists
<1> USE SchedulerConstants
<1>1. PICK n \in 0..MaxCosts : s \in [1..n -> Costs]
  BY DEF CostLists, SeqOf
<1>2. s \in Seq(Costs) /\ Len(s) = n
  BY <1>1
<1>3. n # 0
  BY <1>2
<1>4. Head(s) \in Costs
  BY <1>2, <1>3
<1>5. Tail(s) \in [1..n - 1 -> Costs]
  <2>1. Tail(s) \in Seq(Costs) /\ Len(Tail(s)) = n - 1
    BY <1>2, <1>3, HeadTailProperties
  <2> QED
    BY <2>1, LenProperties
<1>6. n - 1 \in 0..MaxCosts
  BY <1>3
<1> QED
  BY <1>4, <1>5, <1>6 DEF CostLists, SeqOf

LEMMA NoCosts == <<>> \in CostLists
<1>1. <<>> \in [1..0 -> Costs] /\ 0 \in 0..MaxCosts
  BY SchedulerConstants
<1> QED
  BY <1>1 DEF CostLists, SeqOf

IInv == TypeOK /\ NeverOverbooked

LEMMA InitIInv == Init => IInv
<1> SUFFICES ASSUME Init PROVE IInv
  OBVIOUS
<1>1. capacity \in Tables
  BY BookingConstants DEF Init, Tables
<1>2. allocated \in Tables
  BY DEF Init, Tables
<1>3. holds \in [Clients -> Bookings \cup {None}]
  BY DEF Init
<1>4. NeverOverbooked
  <2> SUFFICES ASSUME NEW m \in Machines, NEW k \in Kinds
               PROVE  allocated[m][k] <= capacity[m][k]
    BY DEF NeverOverbooked
  <2>1. allocated[m][k] = 0
    BY DEF Init
  <2>2. capacity[m][k] \in Nat
    BY <1>1 DEF Tables
  <2> QED
    BY <2>1, <2>2
<1> QED
  BY <1>1, <1>2, <1>3, <1>4 DEF Init, IInv, TypeOK

(* A call starts with the costs it is given and books nothing yet. *)
LEMMA BeginKeeps ==
    ASSUME IInv,
           NEW op \in {"allocate", "deallocate"}, NEW c \in Clients, NEW m \in Machines,
           NEW costs \in CostLists, NEW planned \in BOOLEAN,
           Begin(op, c, m, costs, planned)
    PROVE  IInv'
BY DEF Begin, IInv, TypeOK, NeverOverbooked, Calls, Tables, Bookings

(* One turn of either loop leaves a call of its kind behind. *)
LEMMA TurnKeepsCall ==
    ASSUME TypeOK, call # None, call.rest # <<>>,
           call' = [call EXCEPT !.rest = Tail(@)]
    PROVE  call' \in Calls
<1>1. call \in Calls
  BY DEF TypeOK
<1>2. Tail(call.rest) \in CostLists
  BY <1>1, RestOfCosts DEF Calls
<1> QED
  BY <1>1, <1>2 DEF Calls

LEMMA NextIInv == IInv /\ [Next]_vars => IInv'
<1> SUFFICES ASSUME IInv, [Next]_vars PROVE IInv'
  OBVIOUS
<1>1. CASE \E required \in SUBSET Machines, costs \in CostLists : Schedule(required, costs)
  <2> PICK required \in SUBSET Machines, costs \in CostLists : Schedule(required, costs)
    BY <1>1
  <2>1. plan' \in FeasiblePlans \cup {Infeasible, None}
    BY DEF Schedule, Schedules
  <2> QED
    BY <2>1 DEF Schedule, IInv, TypeOK, NeverOverbooked, Tables
<1>2. CASE \E c \in Clients, m \in Machines, costs \in CostLists : Book(c, m, costs)
  BY <1>2, BeginKeeps DEF Book
<1>3. ASSUME NEW c \in Clients, BookPlan(c) PROVE IInv'
  <2>1. plan \in FeasiblePlans
    BY <1>3 DEF BookPlan, IInv, TypeOK, Infeasible
  <2> QED
    BY <1>3, <2>1, BeginKeeps DEF BookPlan, FeasiblePlans
<1>4. ASSUME NEW c \in Clients, Release(c) PROVE IInv'
  <2>1. holds[c] \in Bookings
    BY <1>4 DEF Release, IInv, TypeOK
  <2> QED
    BY <1>4, <2>1, BeginKeeps DEF Release, Bookings
<1>5. CASE AllocateEntry
  <2> USE <1>5
  <2>1. call \in Calls /\ call.rest # <<>>
    BY DEF AllocateEntry, Running, IInv, TypeOK
  <2>2. Entry \in Costs
    BY <2>1, RestOfCosts DEF Entry, Calls
  <2> DEFINE m == call.machine
             k == Entry.kind
             n == Entry.value
  <2>3. m \in Machines /\ k \in Kinds /\ n \in Nat
    BY <2>1, <2>2, SchedulerConstants DEF Calls, Costs, AllocateEntry, Affordable
  <2>4. capacity \in Tables /\ allocated \in Tables /\ capacity' = capacity
    BY DEF AllocateEntry, IInv, TypeOK
  <2>5. n <= Remaining(capacity, allocated, m, k)
    BY DEF AllocateEntry, Affordable
  <2>6. allocated[m][k] + n <= capacity[m][k]
    BY <2>3, <2>4, <2>5 DEF Remaining, Tables, IInv, NeverOverbooked
  <2>7. allocated' = [allocated EXCEPT ![m][k] = @ + n]
    BY DEF AllocateEntry
  <2>8. allocated' \in Tables
    <3> HIDE DEF m, k, n
    <3> QED
      BY <2>3, <2>4, <2>7 DEF Tables
  <2>9. NeverOverbooked'
    <3> HIDE DEF m, k, n
    <3>1. ASSUME NEW x \in Machines, NEW y \in Kinds
          PROVE  allocated'[x][y] <= capacity[x][y]
      <4>1. CASE x = m /\ y = k
        BY <4>1, <2>3, <2>4, <2>6, <2>7 DEF Tables
      <4>2. CASE ~(x = m /\ y = k)
        <5>1. allocated'[x][y] = allocated[x][y]
          BY <4>2, <2>3, <2>4, <2>7 DEF Tables
        <5> QED
          BY <5>1 DEF IInv, NeverOverbooked
      <4> QED
        BY <4>1, <4>2
    <3> QED
      BY <3>1, <2>4 DEF NeverOverbooked
  <2>10. call' \in Calls
    BY <2>1, TurnKeepsCall DEF AllocateEntry, Running, IInv
  <2> QED
    BY <2>4, <2>8, <2>9, <2>10 DEF AllocateEntry, IInv, TypeOK
<1>6. CASE AllocateFails
  BY <1>6 DEF AllocateFails, IInv, TypeOK, NeverOverbooked
<1>7. CASE AllocateDone
  <2>1. call \in Calls
    BY <1>7 DEF AllocateDone, Running, IInv, TypeOK
  <2>2. [machine |-> call.machine, costs |-> call.costs] \in Bookings
    BY <2>1 DEF Calls, Bookings
  <2> QED
    BY <1>7, <2>2 DEF AllocateDone, IInv, TypeOK, NeverOverbooked
<1>8. CASE DeallocateEntry
  <2> USE <1>8
  <2>1. call \in Calls /\ call.rest # <<>>
    BY DEF DeallocateEntry, Running, IInv, TypeOK
  <2>2. Entry \in Costs
    BY <2>1, RestOfCosts DEF Entry, Calls
  <2> DEFINE m == call.machine
             k == Entry.kind
  <2>3. m \in Machines /\ k \in Kinds
    BY <2>1, <2>2 DEF Calls, Costs
  <2>4. capacity \in Tables /\ allocated \in Tables /\ capacity' = capacity
    BY DEF DeallocateEntry, IInv, TypeOK
  <2>5. allocated' = [allocated EXCEPT ![m][k] = IF @ > 0 THEN @ - 1 ELSE 0]
    BY DEF DeallocateEntry
  <2>6. allocated' \in Tables
    <3> HIDE DEF m, k
    <3> QED
      BY <2>3, <2>4, <2>5 DEF Tables
  <2>7. \A x \in Machines, y \in Kinds : allocated'[x][y] <= allocated[x][y]
    <3> HIDE DEF m, k
    <3> QED
      BY <2>3, <2>4, <2>5 DEF Tables
  <2>8. NeverOverbooked'
    BY <2>4, <2>6, <2>7 DEF NeverOverbooked, IInv, Tables
  <2>9. call' \in Calls
    BY <2>1, TurnKeepsCall DEF DeallocateEntry, Running, IInv
  <2> QED
    BY <2>4, <2>6, <2>8, <2>9 DEF DeallocateEntry, IInv, TypeOK
<1>9. CASE DeallocateDone
  BY <1>9 DEF DeallocateDone, IInv, TypeOK, NeverOverbooked
<1>10. CASE UNCHANGED vars
  BY <1>10 DEF vars, IInv, TypeOK, NeverOverbooked
<1> QED
  BY <1>1, <1>2, <1>3, <1>4, <1>5, <1>6, <1>7, <1>8, <1>9, <1>10 DEF Next

THEOREM Inductive == Spec => []IInv
BY InitIInv, NextIInv, PTL DEF Spec

(* MachineInfo's table, the plan and the running call have the right types. *)
THEOREM TypeCorrect == Spec => []TypeOK
<1>1. IInv => TypeOK
  BY DEF IInv
<1> QED
  BY <1>1, Inductive, PTL

(* allocate never books beyond the capacity, whatever the cost lists. *)
THEOREM NoOverbooking == Spec => []NeverOverbooked
<1>1. IInv => NeverOverbooked
  BY DEF IInv
<1> QED
  BY <1>1, Inductive, PTL

-----------------------------------------------------------------------------
(***************************************************************************)
(* Recursion over the subsets of a finite set, as the folds of the library *)
(* are defined: what holds of every such recursion is proved from a least  *)
(* counterexample.                                                         *)
(***************************************************************************)
LEMMA SmallestSet ==
    ASSUME NEW F, IsFiniteSet(F), NEW T, T \subseteq SUBSET F, T # {}
    PROVE  \E s \in T : \A t \in T : t \subseteq s => t = s
<1>1. IsWellFoundedOn(StrictSubsetOrdering(F), SUBSET F)
  BY FS_FiniteSubsetsOfFinite, FS_StrictSubsetOrderingWellFounded
<1>2. PICK s \in T : \A t \in T : ~ (<<t, s>> \in StrictSubsetOrdering(F))
  BY <1>1, WFMin
<1>. QED  BY <1>2 DEF StrictSubsetOrdering

(* g is the recursion over S that takes away pick[s] from each set s. *)
Recursion(g, S, V, base, pick, step) ==
    /\ g \in [SUBSET S -> V]
    /\ g[{}] = base
    /\ \A s \in SUBSET S : s # {} => g[s] = step[pick[s]][g[s \ {pick[s]}]]

Picks(pick, S) == \A s \in SUBSET S : s # {} => pick[s] \in s

Steps(step, S, V) == \A x \in S, v \in V : step[x][v] \in V

LEMMA RecursionsAgree ==
    ASSUME NEW V, NEW base, NEW pick, NEW step,
           NEW S, NEW U, NEW g, NEW h, IsFiniteSet(U), U \subseteq S,
           Picks(pick, U),
           Recursion(g, S, V, base, pick, step), Recursion(h, U, V, base, pick, step)
    PROVE  \A s \in SUBSET U : g[s] = h[s]
<1>. DEFINE T == {s \in SUBSET U : g[s] # h[s]}
<1>. SUFFICES ASSUME T # {} PROVE FALSE
  OBVIOUS
<1>1. PICK s \in T : \A t \in T : t \subseteq s => t = s
  <2>1. T \subseteq SUBSET U
    OBVIOUS
  <2>. HIDE DEF T
  <2>. QED  BY <2>1, SmallestSet
<1>2. s # {} /\ s \in SUBSET U /\ s \in SUBSET S
  BY <1>1 DEF Recursion
<1>3. s \ {pick[s]} \notin T /\ s \ {pick[s]} \in SUBSET U
  BY <1>1, <1>2 DEF Picks
<1>. QED  BY <1>1, <1>2, <1>3 DEF Recursion, Picks

LEMMA RecursionExists ==
    ASSUME NEW V, NEW base \in V, NEW S, IsFiniteSet(S),
           NEW pick, Picks(pick, S), NEW step, Steps(step, S, V)
    PROVE  \E g : Recursion(g, S, V, base, pick, step)
<1>. DEFINE Rec(g, U) == Recursion(g, U, V, base, pick, step)
            T == {U \in SUBSET S : ~ \E g : Rec(g, U)}
<1>. SUFFICES ASSUME T # {} PROVE FALSE
  OBVIOUS
<1>1. PICK U \in T : \A t \in T : t \subseteq U => t = U
  <2>1. T \subseteq SUBSET S
    OBVIOUS
  <2>. HIDE DEF T
  <2>. QED  BY <2>1, SmallestSet
<1>2. U # {}
  <2>. SUFFICES ASSUME U = {} PROVE FALSE
    OBVIOUS
  <2>1. Rec([s \in SUBSET {} |-> base], {})
    BY DEF Recursion
  <2>. QED  BY <1>1, <2>1
<1>. DEFINE x == pick[U]
            H(s) == CHOOSE h : Rec(h, s)
            g == [s \in SUBSET U |-> IF s = U THEN step[x][H(U \ {x})[U \ {x}]] ELSE H(s)[s]]
<1>3. \A s \in SUBSET U : s # U => Rec(H(s), s)
  BY <1>1
<1>4. x \in U /\ U \in SUBSET S
  BY <1>1, <1>2 DEF Picks
<1>5. \A s \in SUBSET U : s # U => H(s)[s] \in V
  BY <1>3 DEF Recursion
<1>6. g \in [SUBSET U -> V]
  <2>1. U \ {x} \in SUBSET U /\ U \ {x} # U
    BY <1>4
  <2>. HIDE DEF x, H, T, Rec
  <2>. QED  BY <1>4, <1>5, <2>1 DEF Steps
<1>7. g[{}] = base
  BY <1>2, <1>3 DEF Recursion
<1>8. ASSUME NEW s \in SUBSET U, s # {}
      PROVE  g[s] = step[pick[s]][g[s \ {pick[s]}]]
  <2>1. CASE s = U
    <3>1. U \ {x} # U /\ U \ {x} \in SUBSET U
      BY <1>4
    <3>2. g[U] = step[x][H(U \ {x})[U \ {x}]] /\ g[U \ {x}] = H(U \ {x})[U \ {x}]
      BY <3>1
    <3>. QED  BY <2>1, <3>2
  <2>2. CASE s # U
    <3>. DEFINE t == s \ {pick[s]}
    <3>1. pick[s] \in s /\ t \in SUBSET s /\ t # U /\ t \in SUBSET U
      BY <1>4, <1>8, <2>2 DEF Picks
    <3>2. Rec(H(s), s) /\ Rec(H(t), t)
      BY <1>3, <2>2, <3>1
    <3>3. H(s)[s] = step[pick[s]][H(s)[t]]
      BY <1>8, <3>2 DEF Recursion
    <3>4. H(s)[t] = H(t)[t]
      <4>1. IsFiniteSet(t)
        BY <1>4, <3>1, FS_Subset
      <4>2. Picks(pick, t)
        BY <1>4, <3>1 DEF Picks
      <4>. HIDE DEF t, H
      <4>. QED  BY <3>1, <3>2, <4>1, <4>2, RecursionsAgree
    <3>5. g[s] = H(s)[s] /\ g[t] = H(t)[t]
      BY <2>2, <3>1
    <3>. QED  BY <3>3, <3>4, <3>5
  <2>. QED  BY <2>1, <2>2
<1>9. Rec(g, U)
  <2>. HIDE DEF g, H, x, T
  <2>. QED  BY <1>6, <1>7, <1>8 DEF Recursion
<1>. QED  BY <1>1, <1>9

-----------------------------------------------------------------------------
(***************************************************************************)
(* Sums over finite sets.  SumRule is the recursion SumFunctionOnSet is    *)
(* defined by.                                                             *)
(***************************************************************************)
AnyOf(s) == CHOOSE x \in s : TRUE

SumRule(f, S, g) ==
    g = [s \in SUBSET S |->
            IF s = {} THEN 0 ELSE LET x == CHOOSE x \in s : TRUE IN f[x] + g[s \ {x}]]

Natural(f, S) == \A x \in S : f[x] \in Nat

LEMMA SumRuleHolds ==
    ASSUME NEW S, IsFiniteSet(S), NEW f, Natural(f, S)
    PROVE  \E g : SumRule(f, S, g) /\ SumFunctionOnSet(f, S) = g[S]
<1>. DEFINE pick == [s \in SUBSET S |-> AnyOf(s)]
            step == [x \in S |-> [v \in Nat |-> f[x] + v]]
<1>1. Picks(pick, S)
  BY DEF Picks, AnyOf
<1>2. Steps(step, S, Nat)
  BY DEF Steps, Natural
<1>3. PICK h : Recursion(h, S, Nat, 0, pick, step)
  <2>. HIDE DEF pick, step
  <2>. QED  BY <1>1, <1>2, RecursionExists
<1>4. ASSUME NEW s \in SUBSET S
      PROVE  h[s] = IF s = {} THEN 0 ELSE f[AnyOf(s)] + h[s \ {AnyOf(s)}]
  <2>. SUFFICES ASSUME s # {} PROVE h[s] = f[AnyOf(s)] + h[s \ {AnyOf(s)}]
    BY <1>3 DEF Recursion
  <2>1. pick[s] = AnyOf(s) /\ AnyOf(s) \in S
    BY <1>1 DEF Picks
  <2>2. h[s] = step[pick[s]][h[s \ {pick[s]}]]
    <3>. HIDE DEF pick, step
    <3>. QED  BY <1>3 DEF Recursion
  <2>3. h[s \ {AnyOf(s)}] \in Nat
    BY <1>3 DEF Recursion
  <2>. QED  BY <2>1, <2>2, <2>3
<1>5. h = [s \in SUBSET S |-> h[s]]
  BY <1>3 DEF Recursion
<1>6. SumRule(f, S, h)
  BY <1>4, <1>5 DEF SumRule, AnyOf
<1>. DEFINE g == CHOOSE g : SumRule(f, S, g)
<1>7. SumRule(f, S, g)
  BY <1>6
<1>8. SumFunctionOnSet(f, S) = g[S]
  BY DEF SumFunctionOnSet, FoldFunctionOnSet, MapThenFoldSet, SumRule
<1>. QED  BY <1>7, <1>8

LEMMA SumRuleStep ==
    ASSUME NEW S, NEW f, NEW g, SumRule(f, S, g)
    PROVE  /\ g[{}] = 0
           /\ \A s \in SUBSET S : s # {} =>
                  AnyOf(s) \in s /\ g[s] = f[AnyOf(s)] + g[s \ {AnyOf(s)}]
<1>1. ASSUME NEW s \in SUBSET S
      PROVE  g[s] = IF s = {} THEN 0 ELSE f[AnyOf(s)] + g[s \ {AnyOf(s)}]
  BY DEF SumRule, AnyOf
<1>2. \A s : s # {} => AnyOf(s) \in s
  BY DEF AnyOf
<1>. QED  BY <1>1, <1>2

(* A sum depends on the values it adds only. *)
LEMMA SumRulesAgree ==
    ASSUME NEW S, NEW f, NEW g, SumRule(f, S, g),
           NEW U, NEW e, NEW h, SumRule(e, U, h),
           NEW T, IsFiniteSet(T), T \subseteq S, T \subseteq U, \A x \in T : f[x] = e[x]
    PROVE  g[T] = h[T]
<1>a. \A s \in SUBSET S : s # {} =>
          AnyOf(s) \in s /\ g[s] = f[AnyOf(s)] + g[s \ {AnyOf(s)}]
  BY SumRuleStep
<1>b. \A s \in SUBSET U : s # {} =>
          AnyOf(s) \in s /\ h[s] = e[AnyOf(s)] + h[s \ {AnyOf(s)}]
  BY SumRuleStep
<1>. DEFINE B == {s \in SUBSET T : g[s] # h[s]}
<1>. SUFFICES ASSUME B # {} PROVE FALSE
  OBVIOUS
<1>1. PICK s \in B : \A t \in B : t \subseteq s => t = s
  <2>1. B \subseteq SUBSET T
    OBVIOUS
  <2>. HIDE DEF B
  <2>. QED  BY <2>1, SmallestSet
<1>2. s # {}
  BY <1>1, SumRuleStep
<1>. DEFINE x == AnyOf(s)
<1>3. x \in s /\ g[s] = f[x] + g[s \ {x}] /\ h[s] = e[x] + h[s \ {x}]
  <2>1. s \in SUBSET S /\ s \in SUBSET U
    BY <1>1
  <2>2. x \in s /\ g[s] = f[x] + g[s \ {x}]
    BY <1>a, <1>2, <2>1
  <2>3. h[s] = e[x] + h[s \ {x}]
    BY <1>b, <1>2, <2>1
  <2>. QED  BY <2>2, <2>3
<1>. HIDE DEF x
<1>4. s \ {x} \notin B /\ s \ {x} \in SUBSET T
  BY <1>1, <1>3
<1>. QED  BY <1>1, <1>3, <1>4

(* Sums are numbers, and any value may be added first. *)
LEMMA SumRuleSplits ==
    ASSUME NEW S, IsFiniteSet(S), NEW f, Natural(f, S), NEW g, SumRule(f, S, g)
    PROVE  \A s \in SUBSET S : g[s] \in Nat /\ \A y \in s : g[s] = f[y] + g[s \ {y}]
<1>a. \A s \in SUBSET S : s # {} =>
          AnyOf(s) \in s /\ g[s] = f[AnyOf(s)] + g[s \ {AnyOf(s)}]
  BY SumRuleStep
<1>. DEFINE B == {s \in SUBSET S :
                    ~(g[s] \in Nat /\ \A y \in s : g[s] = f[y] + g[s \ {y}])}
<1>. SUFFICES ASSUME B # {} PROVE FALSE
  OBVIOUS
<1>1. PICK s \in B : \A t \in B : t \subseteq s => t = s
  <2>1. B \subseteq SUBSET S
    OBVIOUS
  <2>. HIDE DEF B
  <2>. QED  BY <2>1, SmallestSet
<1>0. s \in SUBSET S /\ g[{}] = 0
  <2>1. g[{}] = 0
    BY SumRuleStep
  <2>. QED  BY <1>1, <2>1
<1>2. s # {}
  <2>. SUFFICES ASSUME s = {} PROVE s \notin B
    BY <1>1
  <2>1. g[s] \in Nat
    BY <1>0
  <2>. QED  BY <2>1
<1>. DEFINE x == AnyOf(s)
<1>3. x \in s /\ g[s] = f[x] + g[s \ {x}]
  BY <1>a, <1>0, <1>2
<1>. HIDE DEF x
<1>4. \A y \in s : /\ f[y] \in Nat /\ g[s \ {y}] \in Nat
                   /\ \A z \in s \ {y} : g[s \ {y}] = f[z] + g[(s \ {y}) \ {z}]
  <2>. SUFFICES ASSUME NEW y \in s
                PROVE  s \ {y} \notin B /\ s \ {y} \in SUBSET S /\ f[y] \in Nat
    OBVIOUS
  <2>. QED  BY <1>1 DEF Natural
<1>5. g[s] \in Nat
  <2>1. f[x] \in Nat /\ g[s \ {x}] \in Nat
    BY <1>3, <1>4
  <2>. HIDE DEF B
  <2>. QED  BY <1>3, <2>1
<1>6. ASSUME NEW y \in s, y # x PROVE g[s] = f[y] + g[s \ {y}]
  <2>1. g[s \ {x}] = f[y] + g[(s \ {x}) \ {y}]
    BY <1>3, <1>4, <1>6
  <2>2. g[s \ {y}] = f[x] + g[(s \ {y}) \ {x}]
    BY <1>3, <1>4, <1>6
  <2>3. (s \ {x}) \ {y} = (s \ {y}) \ {x} /\ (s \ {x}) \ {y} \in SUBSET S
    BY <1>1
  <2>4. g[(s \ {x}) \ {y}] \in Nat
    <3>1. (s \ {x}) \ {y} \notin B
      BY <1>1, <1>3
    <3>. QED  BY <2>3, <3>1
  <2>5. f[x] \in Nat /\ f[y] \in Nat
    BY <1>3, <1>4, <1>6
  <2>. DEFINE r == g[(s \ {x}) \ {y}]
  <2>6. r \in Nat /\ g[s] = f[x] + (f[y] + r) /\ g[s \ {y}] = f[x] + r
    BY <1>3, <2>1, <2>2, <2>3, <2>4
  <2>7. f[x] + (f[y] + r) = f[y] + (f[x] + r)
    <3>. HIDE DEF r
    <3>. QED  BY <2>5, <2>6
  <2>. QED  BY <2>6, <2>7
<1>. QED  BY <1>1, <1>3, <1>5, <1>6

LEMMA SumOfNone ==
    ASSUME NEW f
    PROVE  SumFunctionOnSet(f, {}) = 0
<1>1. IsFiniteSet({}) /\ Natural(f, {})
  BY FS_EmptySet DEF Natural
<1>2. PICK g : SumRule(f, {}, g) /\ SumFunctionOnSet(f, {}) = g[{}]
  BY <1>1, SumRuleHolds
<1>. QED  BY <1>2, SumRuleStep

LEMMA SumOfSame ==
    ASSUME NEW S, IsFiniteSet(S), NEW f, NEW e, Natural(f, S), \A x \in S : f[x] = e[x]
    PROVE  SumFunctionOnSet(f, S) = SumFunctionOnSet(e, S)
<1>1. Natural(e, S)
  BY DEF Natural
<1>2. PICK g : SumRule(f, S, g) /\ SumFunctionOnSet(f, S) = g[S]
  BY SumRuleHolds
<1>3. PICK h : SumRule(e, S, h) /\ SumFunctionOnSet(e, S) = h[S]
  BY <1>1, SumRuleHolds
<1>. QED  BY <1>2, <1>3, SumRulesAgree

LEMMA SumSplits ==
    ASSUME NEW S, IsFiniteSet(S), NEW f, Natural(f, S), NEW y \in S
    PROVE  SumFunctionOnSet(f, S) = f[y] + SumFunctionOnSet(f, S \ {y})
<1>1. IsFiniteSet(S \ {y}) /\ Natural(f, S \ {y})
  BY FS_RemoveElement DEF Natural
<1>2. PICK g : SumRule(f, S, g) /\ SumFunctionOnSet(f, S) = g[S]
  BY SumRuleHolds
<1>3. PICK h : SumRule(f, S \ {y}, h) /\ SumFunctionOnSet(f, S \ {y}) = h[S \ {y}]
  BY <1>1, SumRuleHolds
<1>4. g[S] = f[y] + g[S \ {y}]
  BY <1>2, SumRuleSplits
<1>5. g[S \ {y}] = h[S \ {y}]
  BY <1>1, <1>2, <1>3, SumRulesAgree
<1>. QED  BY <1>2, <1>3, <1>4, <1>5

LEMMA SumIsNatural ==
    ASSUME NEW S, IsFiniteSet(S), NEW f, Natural(f, S)
    PROVE  SumFunctionOnSet(f, S) \in Nat
<1>1. PICK g : SumRule(f, S, g) /\ SumFunctionOnSet(f, S) = g[S]
  BY SumRuleHolds
<1>. QED  BY <1>1, SumRuleSplits

-----------------------------------------------------------------------------
(* Cost lists are sequences of costs. *)
LEMMA CostListShape ==
    ASSUME NEW s \in CostLists
    PROVE  /\ s \in Seq(Costs) /\ Len(s) \in Nat /\ DOMAIN s = 1 .. Len(s)
           /\ IsFiniteSet(DOMAIN s)
           /\ \A i \in DOMAIN s : s[i].kind \in Kinds /\ s[i].value \in Nat \cup {Bad}
<1>1. PICK n \in 0..MaxCosts : s \in [1..n -> Costs]
  BY DEF CostLists, SeqOf
<1>2. n \in Nat /\ s \in Seq(Costs) /\ Len(s) = n /\ DOMAIN s = 1 .. n
  BY <1>1, SchedulerConstants
<1>3. IsFiniteSet(1 .. n)
  BY <1>2, FS_Interval
<1>4. \A i \in DOMAIN s : s[i] \in Costs
  BY <1>1
<1>. QED  BY <1>2, <1>3, <1>4, SchedulerConstants DEF Costs

(***************************************************************************)
(* get_allocatable_costs leaves entries out and changes none: the costs of *)
(* a plan are among the costs it was made for.                             *)
(***************************************************************************)
KeepRule(costs, S, g) ==
    g = [s \in SUBSET S |->
            IF s = {} THEN <<>>
            ELSE LET x == Max(s) IN
                 IF costs[x].value # 0 THEN Append(g[s \ {x}], costs[x]) ELSE g[s \ {x}]]

LEMMA GreatestPosition ==
    ASSUME NEW n \in Nat, NEW S, S \subseteq 1 .. n, S # {}
    PROVE  Max(S) \in S /\ \A i \in S : i <= Max(S)
<1>. DEFINE T == {m \in Nat : n - m \in S}
<1>1. T # {}
  <2>1. PICK i \in S : TRUE
    OBVIOUS
  <2>2. n - i \in Nat /\ n - (n - i) = i
    BY <2>1
  <2>. QED  BY <2>2
<1>2. PICK m \in T : \A k \in T : ~ (k < m)
  <2>. DEFINE R == OpToRel(<, Nat)
  <2>1. IsWellFoundedOn(R, Nat)
    BY NatLessThanWellFounded
  <2>2. \A k \in T, j \in T : k < j => <<k, j>> \in R
    BY Zenon DEF OpToRel
  <2>3. T \subseteq Nat
    OBVIOUS
  <2>. HIDE DEF R, T
  <2>. QED  BY <1>1, <2>1, <2>2, <2>3, WFMin
<1>3. \A i \in S : i <= n - m
  <2>. SUFFICES ASSUME NEW i \in S PROVE i <= n - m
    OBVIOUS
  <2>1. n - i \in T
    BY n - (n - i) = i
  <2>. QED  BY <1>2, <2>1
<1>4. \E i \in S : \A j \in S : i >= j
  <2>1. n - m \in S
    BY <1>2
  <2>. QED  BY <1>3, <2>1
<1>5. Max(S) \in S /\ \A j \in S : Max(S) >= j
  BY <1>4 DEF Max
<1>. QED  BY <1>5

LEMMA PlannedAreGiven ==
    ASSUME NEW costs \in CostLists
    PROVE  \A i \in DOMAIN PlannedCosts(costs) :
               \E j \in DOMAIN costs : PlannedCosts(costs)[i] = costs[j]
<1>. DEFINE S == DOMAIN costs
            Keep(v, x) == IF costs[x].value # 0 THEN Append(v, costs[x]) ELSE v
            pick == [s \in SUBSET S |-> Max(s)]
            step == [x \in S |-> [v \in Seq(Costs) |-> Keep(v, x)]]
<1>1. /\ S = 1 .. Len(costs) /\ Len(costs) \in Nat /\ IsFiniteSet(S)
      /\ \A x \in S : costs[x] \in Costs
  BY CostListShape
<1>2. \A s \in SUBSET S : s # {} => Max(s) \in s
  BY <1>1, GreatestPosition
<1>3. Picks(pick, S)
  BY <1>2 DEF Picks
<1>4. Steps(step, S, Seq(Costs))
  BY <1>1 DEF Steps
<1>5. PICK h : Recursion(h, S, Seq(Costs), <<>>, pick, step)
  <2>1. <<>> \in Seq(Costs)
    OBVIOUS
  <2>. HIDE DEF pick, step, S
  <2>. QED  BY <1>1, <1>3, <1>4, <2>1, RecursionExists
<1>6. ASSUME NEW s \in SUBSET S
      PROVE  h[s] = IF s = {} THEN <<>> ELSE Keep(h[s \ {Max(s)}], Max(s))
  <2>. SUFFICES ASSUME s # {} PROVE h[s] = Keep(h[s \ {Max(s)}], Max(s))
    BY <1>5 DEF Recursion
  <2>1. pick[s] = Max(s) /\ Max(s) \in S
    BY <1>2
  <2>2. h[s] = step[pick[s]][h[s \ {pick[s]}]]
    <3>. HIDE DEF pick, step
    <3>. QED  BY <1>5 DEF Recursion
  <2>3. h[s \ {Max(s)}] \in Seq(Costs)
    BY <1>5 DEF Recursion
  <2>. HIDE DEF S, Keep
  <2>. QED  BY <2>1, <2>2, <2>3
<1>7. h = [s \in SUBSET S |-> h[s]]
  BY <1>5 DEF Recursion
<1>8. KeepRule(costs, S, h)
  BY <1>6, <1>7 DEF KeepRule
<1>. DEFINE g == CHOOSE g : KeepRule(costs, S, g)
<1>9. KeepRule(costs, S, g)
  BY <1>8
<1>10. PlannedCosts(costs) = g[S]
  BY DEF PlannedCosts, FoldLeft, MapThenFoldSet, KeepRule
<1>. HIDE DEF g
<1>11. \A s \in SUBSET S : g[s] = IF s = {} THEN <<>> ELSE Keep(g[s \ {Max(s)}], Max(s))
  BY <1>9 DEF KeepRule
<1>. DEFINE Given(s) == g[s] \in Seq(Costs) /\ \A i \in DOMAIN g[s] : \E j \in S : g[s][i] = costs[j]
            B == {s \in SUBSET S : ~Given(s)}
<1>12. B = {}
  <2>. SUFFICES ASSUME B # {} PROVE FALSE
    OBVIOUS
  <2>1. PICK s \in B : \A t \in B : t \subseteq s => t = s
    <3>1. B \subseteq SUBSET S
      OBVIOUS
    <3>2. IsFiniteSet(S) /\ B # {}
      BY <1>1
    <3>. HIDE DEF B, S, Given, g
    <3>. QED  BY ONLY <3>1, <3>2, SmallestSet
  <2>2. s # {}
    <3>. SUFFICES ASSUME s = {} PROVE Given(s)
      BY <2>1
    <3>1. g[s] = <<>>
      BY <1>11
    <3>. QED  BY <3>1
  <2>. DEFINE x == Max(s)
              t == s \ {x}
  <2>3. x \in s /\ x \in S /\ t \in SUBSET S /\ t # s
    BY <1>2, <2>1, <2>2
  <2>4. g[s] = Keep(g[t], x)
    BY <1>11, <2>1, <2>2
  <2>5. Given(t)
    BY <2>1, <2>3
  <2>6. costs[x] \in Costs
    BY <1>1, <2>3
  <2>7. Given(s)
    <3>. HIDE DEF t, x, S, B
    <3>1. CASE g[s] = g[t]
      BY <2>5, <3>1
    <3>2. CASE g[s] = Append(g[t], costs[x])
      <4>1. /\ g[s] \in Seq(Costs)
            /\ \A i \in DOMAIN g[s] : (i \in DOMAIN g[t] /\ g[s][i] = g[t][i]) \/ g[s][i] = costs[x]
        BY <2>5, <2>6, <3>2
      <4>. QED  BY <2>3, <2>5, <4>1
    <3>. QED  BY <2>4, <3>1, <3>2
  <2>. QED  BY <2>1, <2>7
<1>13. Given(S)
  BY <1>12
<1>. QED  BY <1>10, <1>13

-----------------------------------------------------------------------------
(***************************************************************************)
(* Plans.  A plan stays bookable while nothing is booked, and once its     *)
(* booking has begun every entry leaves the others as they were, provided  *)
(* no two name the same extent.                                            *)
(***************************************************************************)
(* How many entries the running loop has passed. *)
Passed == Len(call.costs) - Len(call.rest)

(* Where a loop stands in its list; no plan outlives the start of a call. *)
InLoop ==
    call # None =>
        /\ plan = None
        /\ Len(call.rest) <= Len(call.costs)
        /\ \A i \in DOMAIN call.rest : call.rest[i] = call.costs[Passed + i]

(* A fresh plan can be booked, and what is left of one that is being booked. *)
PlanFits ==
    /\ plan # None /\ plan.feasible =>
           Allocatable(capacity, allocated, plan.machine, plan.costs)
    /\ Running("allocate") /\ call.planned /\ Distinct(call.costs) =>
           Allocatable(capacity, allocated, call.machine, call.rest)

PlanInv == IInv /\ InLoop /\ PlanFits

(* One turn of a loop: the entry it deals with is the next of the list. *)
LEMMA TurnTakesNext ==
    ASSUME TypeOK, InLoop, call # None, call.rest # <<>>,
           call' = [call EXCEPT !.rest = Tail(@)]
    PROVE  /\ call' \in Calls /\ call \in Calls
           /\ call'.op = call.op /\ call'.client = call.client
           /\ call'.machine = call.machine /\ call'.costs = call.costs
           /\ call'.planned = call.planned /\ call'.rest = Tail(call.rest)
           /\ Passed \in Nat /\ Passed' = Passed + 1 /\ Len(call.costs) \in Nat
           /\ Passed + 1 \in DOMAIN call.costs /\ call.costs[Passed + 1] = Entry
           /\ Len(call'.rest) <= Len(call'.costs)
           /\ \A i \in DOMAIN call'.rest :
                 /\ i + 1 \in DOMAIN call.rest /\ i + 1 # 1 /\ i \in Nat
                 /\ call'.rest[i] = call.rest[i + 1]
                 /\ call'.rest[i] = call'.costs[Passed' + i]
<1>1. call \in Calls /\ call' \in Calls
  BY TurnKeepsCall DEF TypeOK
<1>2. /\ call'.op = call.op /\ call'.client = call.client
      /\ call'.machine = call.machine /\ call'.costs = call.costs
      /\ call'.planned = call.planned /\ call'.rest = Tail(call.rest)
  BY <1>1 DEF Calls
<1>. DEFINE r == call.rest
            c == call.costs
            n == Len(c)
            k == Len(r)
<1>3. /\ r \in Seq(Costs) /\ k \in Nat /\ DOMAIN r = 1 .. k
      /\ c \in Seq(Costs) /\ n \in Nat /\ DOMAIN c = 1 .. n
  BY <1>1, CostListShape DEF Calls
<1>4. k # 0 /\ k <= n /\ \A i \in DOMAIN r : r[i] = c[n - k + i]
  BY <1>3 DEF InLoop, Passed
<1>5. /\ Len(Tail(r)) = k - 1 /\ DOMAIN Tail(r) = 1 .. k - 1 /\ Head(r) = r[1]
      /\ \A i \in DOMAIN Tail(r) : Tail(r)[i] = r[i + 1]
  BY <1>3, <1>4
<1>6. Passed = n - k /\ Passed' = n - (k - 1)
  BY <1>2, <1>5 DEF Passed
<1>. HIDE DEF r, c, n, k
<1>7. n - k \in Nat /\ n - (k - 1) = n - k + 1 /\ n - k + 1 \in 1 .. n /\ 1 \in 1 .. k
  BY <1>3, <1>4
<1>8. c[n - k + 1] = r[1]
  BY <1>3, <1>4, <1>7
<1>9. ASSUME NEW i \in 1 .. k - 1
      PROVE  /\ i + 1 \in 1 .. k /\ i + 1 # 1 /\ i \in Nat
             /\ r[i + 1] = c[n - (k - 1) + i]
  <2>1. i + 1 \in 1 .. k /\ i \in Nat /\ i + 1 # 1 /\ n - k + (i + 1) = n - (k - 1) + i
    BY <1>3
  <2>. QED  BY <1>3, <1>4, <2>1
<1>10. k - 1 <= n
  BY <1>3, <1>4
<1>11. Passed \in Nat /\ Passed' = Passed + 1
  BY <1>6, <1>7
<1>12. /\ n \in Nat /\ Passed + 1 \in DOMAIN c /\ c[Passed + 1] = r[1] /\ Entry = r[1]
  BY <1>3, <1>5, <1>6, <1>7, <1>8 DEF Entry, r
<1>. QED
  BY <1>1, <1>2, <1>3, <1>5, <1>6, <1>9, <1>10, <1>11, <1>12 DEF r, c, n, k

(* A call begins before its first entry. *)
LEMMA BeginTakesAll ==
    ASSUME NEW op \in {"allocate", "deallocate"}, NEW c \in Clients, NEW m \in Machines,
           NEW costs \in CostLists, NEW planned \in BOOLEAN,
           Begin(op, c, m, costs, planned)
    PROVE  /\ call' = [op |-> op, client |-> c, machine |-> m, costs |-> costs,
                       rest |-> costs, planned |-> planned]
           /\ call'.op = op /\ call'.client = c /\ call'.machine = m /\ call'.costs = costs
           /\ call'.rest = costs /\ call'.planned = planned
           /\ UNCHANGED <<capacity, allocated, holds>>
           /\ Passed' = 0
           /\ InLoop'
<1>1. /\ call' = [op |-> op, client |-> c, machine |-> m, costs |-> costs,
                  rest |-> costs, planned |-> planned]
      /\ plan' = None /\ UNCHANGED <<capacity, allocated, holds>>
  BY DEF Begin
<1>2. /\ call'.op = op /\ call'.client = c /\ call'.machine = m /\ call'.costs = costs
      /\ call'.rest = costs /\ call'.planned = planned
  BY <1>1
<1>3. Len(costs) \in Nat /\ DOMAIN costs = 1 .. Len(costs)
  BY CostListShape
<1>4. Len(costs) - Len(costs) = 0 /\ Len(costs) <= Len(costs)
  BY <1>3
<1>5. Passed' = 0
  BY <1>2, <1>4 DEF Passed
<1>6. \A i \in DOMAIN costs : costs[i] = costs[0 + i]
  BY <1>3
<1>7. InLoop'
  BY <1>1, <1>2, <1>4, <1>5, <1>6 DEF InLoop
<1>. QED  BY <1>1, <1>2, <1>5, <1>7

LEMMA BeginPlanInv ==
    ASSUME PlanInv,
           NEW op \in {"allocate", "deallocate"}, NEW c \in Clients, NEW m \in Machines,
           NEW costs \in CostLists, NEW planned \in BOOLEAN,
           Begin(op, c, m, costs, planned),
           op = "allocate" /\ planned => Allocatable(capacity, allocated, m, costs)
    PROVE  PlanInv'
<1>1. InLoop'
  BY BeginTakesAll
<1>2. plan' = None
  BY DEF Begin
<1>3. PlanFits'
  BY <1>2, BeginTakesAll DEF PlanFits, Running
<1>. QED  BY <1>1, <1>3, BeginKeeps DEF PlanInv

LEMMA NextPlanInv == PlanInv /\ [Next]_vars => PlanInv'
<1>. SUFFICES ASSUME PlanInv, [Next]_vars PROVE PlanInv'
  OBVIOUS
<1>. USE DEF PlanInv
<1>0. IInv'
  BY NextIInv
<1>1. ASSUME NEW required \in SUBSET Machines, NEW costs \in CostLists,
             Schedule(required, costs)
      PROVE  PlanInv'
  <2>1. call = None /\ UNCHANGED <<capacity, allocated, holds, call>>
    BY <1>1 DEF Schedule
  <2>2. plan' \in Schedules(capacity, allocated, required, costs)
    BY <1>1 DEF Schedule
  <2>3. CASE plan' = Infeasible
    <3>1. plan'.feasible = FALSE
      BY <2>3 DEF Infeasible
    <3>. QED  BY <1>0, <2>1, <3>1 DEF InLoop, PlanFits, Running
  <2>4. CASE plan' # Infeasible
    <3>1. /\ plan'.machine \in Candidates(capacity, allocated, required, costs)
          /\ plan'.costs = PlannedCosts(costs)
      BY <2>2, <2>4 DEF Schedules
    <3>2. Allocatable(capacity, allocated, plan'.machine, costs)
      BY <3>1 DEF Candidates
    <3>3. Allocatable(capacity, allocated, plan'.machine, plan'.costs)
      BY <3>1, <3>2, PlannedAreGiven DEF Allocatable
    <3>. QED  BY <1>0, <2>1, <3>3 DEF InLoop, PlanFits, Running
  <2>. QED  BY <2>3, <2>4
<1>2. ASSUME NEW c \in Clients, NEW m \in Machines, NEW costs \in CostLists,
             Book(c, m, costs)
      PROVE  PlanInv'
  BY <1>2, BeginPlanInv DEF Book
<1>3. ASSUME NEW c \in Clients, BookPlan(c) PROVE PlanInv'
  <2>1. plan \in FeasiblePlans
    BY <1>3 DEF BookPlan, IInv, TypeOK, Infeasible
  <2>2. plan.machine \in Machines /\ plan.costs \in CostLists
    BY <2>1 DEF FeasiblePlans
  <2>3. Allocatable(capacity, allocated, plan.machine, plan.costs)
    BY <1>3 DEF BookPlan, PlanFits
  <2>. QED  BY <1>3, <2>2, <2>3, BeginPlanInv DEF BookPlan
<1>4. ASSUME NEW c \in Clients, Release(c) PROVE PlanInv'
  <2>1. holds[c] \in Bookings
    BY <1>4 DEF Release, IInv, TypeOK
  <2>2. holds[c].machine \in Machines /\ holds[c].costs \in CostLists
    BY <2>1 DEF Bookings
  <2>. QED  BY <1>4, <2>2, BeginPlanInv DEF Release
<1>5. CASE AllocateEntry
  <2>1. /\ call # None /\ call.op = "allocate" /\ call.rest # <<>> /\ Affordable
        /\ allocated' = [allocated EXCEPT ![call.machine][Entry.kind] = @ + Entry.value]
        /\ call' = [call EXCEPT !.rest = Tail(@)]
        /\ capacity' = capacity /\ plan' = plan /\ plan = None
    BY <1>5 DEF AllocateEntry, Running, InLoop
  <2>2. InLoop'
    BY <2>1, TurnTakesNext DEF InLoop, IInv
  <2>3. PlanFits'
    <3>. SUFFICES ASSUME call'.planned, Distinct(call'.costs)
                  PROVE  Allocatable(capacity, allocated', call.machine, call'.rest)
      BY <2>1, TurnTakesNext DEF PlanFits, Running, IInv
    <3>1. Allocatable(capacity, allocated, call.machine, call.rest)
      BY <2>1, TurnTakesNext DEF PlanFits, Running, IInv
    <3>2. ASSUME NEW i \in DOMAIN call'.rest
          PROVE  /\ call'.rest[i].value # Bad
                 /\ call'.rest[i].value
                      <= Remaining(capacity, allocated', call.machine, call'.rest[i].kind)
      <4>. DEFINE e == call'.rest[i]
      <4>1. /\ i + 1 \in DOMAIN call.rest /\ i + 1 # 1 /\ e = call.rest[i + 1]
            /\ call \in Calls
        BY <2>1, <3>2, TurnTakesNext DEF IInv
      <4>2. call.rest[1] = Entry /\ 1 \in DOMAIN call.rest /\ call.rest \in CostLists
        <5>1. call.rest \in CostLists /\ call.rest \in Seq(Costs)
          BY <4>1, CostListShape DEF Calls
        <5>. QED  BY <2>1, <5>1 DEF Entry
      <4>3. e.kind # Entry.kind
        <5>. DEFINE p == Passed
        <5>1. call.rest[1] = call.costs[p + 1] /\ e = call.costs[p + (i + 1)]
          BY <2>1, <4>1, <4>2 DEF InLoop
        <5>2. p + 1 \in DOMAIN call.costs /\ p \in Nat
          BY <2>1, TurnTakesNext DEF IInv
        <5>3. /\ DOMAIN call.costs = 1 .. Len(call.costs) /\ Len(call.costs) \in Nat
              /\ DOMAIN call.rest = 1 .. Len(call.rest) /\ Len(call.rest) \in Nat
          BY <4>1, CostListShape DEF Calls
        <5>4. p = Len(call.costs) - Len(call.rest)
          BY DEF Passed
        <5>. HIDE DEF p
        <5>5. p + (i + 1) \in DOMAIN call.costs /\ p + (i + 1) # p + 1
          <6>. DEFINE j == i + 1
                      n == Len(call.costs)
                      r == Len(call.rest)
          <6>1. j \in 1 .. r /\ j # 1 /\ p = n - r /\ p \in Nat /\ n \in Nat /\ r \in Nat
            BY <4>1, <5>2, <5>3, <5>4
          <6>. HIDE DEF j, n, r
          <6>2. p + j \in 1 .. n /\ p + j # p + 1
            BY <6>1
          <6>. QED  BY <5>3, <6>2 DEF j, n
        <5>6. Distinct(call.costs)
          BY <2>1, TurnTakesNext DEF IInv
        <5>. QED  BY <4>2, <5>1, <5>2, <5>5, <5>6 DEF Distinct
      <4>4. e.value # Bad /\ e.value <= Remaining(capacity, allocated, call.machine, e.kind)
        BY <3>1, <4>1 DEF Allocatable
      <4>5. e.kind \in Kinds /\ Entry.kind \in Kinds /\ call.machine \in Machines
        BY <4>1, <4>2, CostListShape DEF Calls
      <4>. HIDE DEF e
      <4>6. allocated'[call.machine][e.kind] = allocated[call.machine][e.kind]
        BY <2>1, <4>3, <4>5 DEF IInv, TypeOK, Tables
      <4>. QED  BY <4>4, <4>6 DEF Remaining, e
    <3>. QED  BY <3>2 DEF Allocatable
  <2>. QED  BY <1>0, <2>2, <2>3
<1>6. CASE AllocateFails
  BY <1>0, <1>6 DEF AllocateFails, Running, InLoop, PlanFits
<1>7. CASE AllocateDone
  BY <1>0, <1>7 DEF AllocateDone, Running, InLoop, PlanFits
<1>8. CASE DeallocateEntry
  <2>1. /\ call # None /\ call.op = "deallocate" /\ call.rest # <<>>
        /\ call' = [call EXCEPT !.rest = Tail(@)]
        /\ plan' = plan /\ plan = None
    BY <1>8 DEF DeallocateEntry, Running, InLoop
  <2>2. InLoop'
    BY <2>1, TurnTakesNext DEF InLoop, IInv
  <2>3. PlanFits'
    BY <2>1, TurnTakesNext DEF PlanFits, Running, IInv
  <2>. QED  BY <1>0, <2>2, <2>3
<1>9. CASE DeallocateDone
  BY <1>0, <1>9 DEF DeallocateDone, Running, InLoop, PlanFits
<1>10. CASE UNCHANGED vars
  BY <1>0, <1>10 DEF vars, InLoop, Passed, PlanFits, Running
<1>. QED
  BY <1>1, <1>2, <1>3, <1>4, <1>5, <1>6, <1>7, <1>8, <1>9, <1>10 DEF Next

LEMMA InitPlanInv == Init => PlanInv
BY InitIInv DEF Init, PlanInv, InLoop, PlanFits, Running

(* What is left of a plan can be booked, so its next entry can. *)
LEMMA HonouredStep ==
    PlanInv => (AllocateFails => ~(call.planned /\ Distinct(call.costs)))
<1>. SUFFICES ASSUME PlanInv, AllocateFails, call.planned, Distinct(call.costs) PROVE FALSE
  OBVIOUS
<1>1. Running("allocate") /\ call.rest # <<>> /\ ~Affordable
  BY DEF AllocateFails
<1>2. Allocatable(capacity, allocated, call.machine, call.rest)
  BY <1>1 DEF PlanInv, PlanFits
<1>3. call.rest \in Seq(Costs)
  BY <1>1, CostListShape DEF PlanInv, IInv, TypeOK, Calls, Running
<1>4. 1 \in DOMAIN call.rest /\ Entry = call.rest[1]
  BY <1>1, <1>3 DEF Entry
<1>. QED  BY <1>1, <1>2, <1>4 DEF Allocatable, Affordable

(***************************************************************************)
(* schedule and allocate agree: the booking of a plan that was made for    *)
(* the present table does not fail, unless it names one extent twice.      *)
(***************************************************************************)
THEOREM PlansCanBeBooked == Spec => PlansAreHonoured
<1>1. PlanInv /\ [Next]_vars => [AllocateFails => ~(call.planned /\ Distinct(call.costs))]_vars
  BY HonouredStep
<1>. QED  BY <1>1, InitPlanInv, NextPlanInv, PTL DEF Spec, PlansAreHonoured

-----------------------------------------------------------------------------
(***************************************************************************)
(* What clients hold stays booked.                                         *)
(***************************************************************************)
(* What is booked, held or not yet, has a value; who is served holds what is released. *)
BookedHasValue ==
    /\ \A c \in Clients : holds[c] # None =>
           \A i \in DOMAIN holds[c].costs : holds[c].costs[i].value # Bad
    /\ Running("allocate") =>
           /\ holds[call.client] = None
           /\ \A i \in 1 .. Passed : call.costs[i].value # Bad
    /\ Running("deallocate") =>
           holds[call.client] = [machine |-> call.machine, costs |-> call.costs]

Part(costs, k, positions) == SumFunctionOnSet(Amounts(costs, k), positions)

(***************************************************************************)
(* The table covers what is held, and in the middle of a loop what has     *)
(* been taken so far, or what has not been given back.                     *)
(***************************************************************************)
Covered ==
    \A m \in Machines, k \in Kinds :
        /\ call = None => HeldOn(m, k) <= allocated[m][k]
        /\ Running("allocate") =>
              HeldOn(m, k) + (IF m = call.machine THEN Part(call.costs, k, 1 .. Passed) ELSE 0)
                  <= allocated[m][k]
        /\ Running("deallocate") =>
              SumFunctionOnSet(HeldBy(m, k), Clients \ {call.client})
                  + (IF m = call.machine
                     THEN Part(call.costs, k, Passed + 1 .. Len(call.costs)) ELSE 0)
                  <= allocated[m][k]

Books == IInv /\ InLoop /\ BookedHasValue /\ Covered

(* Amounts of a cost list whose entries have values. *)
LEMMA AmountsAreNatural ==
    ASSUME NEW costs \in CostLists, NEW k, NEW positions, positions \subseteq DOMAIN costs,
           \A i \in positions : costs[i].value # Bad
    PROVE  /\ IsFiniteSet(positions)
           /\ Natural(Amounts(costs, k), positions)
           /\ Part(costs, k, positions) \in Nat
<1>1. IsFiniteSet(positions)
  BY CostListShape, FS_Subset
<1>2. Natural(Amounts(costs, k), positions)
  <2>. SUFFICES ASSUME NEW i \in positions PROVE Amounts(costs, k)[i] \in Nat
    BY DEF Natural
  <2>1. i \in DOMAIN costs /\ costs[i].value \in Nat
    BY CostListShape
  <2>. QED  BY <2>1 DEF Amounts
<1>. QED  BY <1>1, <1>2, SumIsNatural DEF Part

(* What clients hold of an extent of a machine, by a record h of what they hold. *)
HeldIn(h, m, k) ==
    [c \in Clients |->
        IF h[c] # None /\ h[c].machine = m THEN SumFunction(Amounts(h[c].costs, k)) ELSE 0]

HaveValues(h) ==
    \A c \in Clients : h[c] # None =>
        \A i \in DOMAIN h[c].costs : h[c].costs[i].value # Bad

LEMMA HoldingsAreNatural ==
    ASSUME NEW h \in [Clients -> Bookings \cup {None}], HaveValues(h),
           NEW m \in Machines, NEW k \in Kinds
    PROVE  /\ Natural(HeldIn(h, m, k), Clients)
           /\ SumFunction(HeldIn(h, m, k)) = SumFunctionOnSet(HeldIn(h, m, k), Clients)
           /\ \A c \in Clients : HeldIn(h, m, k)[c] =
                 IF h[c] # None /\ h[c].machine = m
                 THEN Part(h[c].costs, k, DOMAIN h[c].costs) ELSE 0
<1>1. DOMAIN HeldIn(h, m, k) = Clients
  BY DEF HeldIn
<1>2. SumFunction(HeldIn(h, m, k)) = SumFunctionOnSet(HeldIn(h, m, k), Clients)
  BY <1>1 DEF SumFunction
<1>3. ASSUME NEW c \in Clients
      PROVE  /\ HeldIn(h, m, k)[c] =
                    IF h[c] # None /\ h[c].machine = m
                    THEN Part(h[c].costs, k, DOMAIN h[c].costs) ELSE 0
             /\ HeldIn(h, m, k)[c] \in Nat
  <2>. DEFINE costs == h[c].costs
  <2>1. SumFunction(Amounts(costs, k)) = Part(costs, k, DOMAIN costs)
    BY DEF SumFunction, Part, Amounts
  <2>2. HeldIn(h, m, k)[c] =
            IF h[c] # None /\ h[c].machine = m THEN Part(costs, k, DOMAIN costs) ELSE 0
    BY <2>1 DEF HeldIn
  <2>3. CASE h[c] # None
    <3>1. costs \in CostLists
      BY <2>3 DEF Bookings
    <3>2. Part(costs, k, DOMAIN costs) \in Nat
      BY <2>3, <3>1, AmountsAreNatural DEF HaveValues
    <3>. QED  BY <2>2, <3>2
  <2>4. CASE h[c] = None
    BY <2>2, <2>4
  <2>. QED  BY <2>3, <2>4
<1>. QED  BY <1>2, <1>3 DEF Natural

LEMMA HoldingsSplit ==
    ASSUME NEW h \in [Clients -> Bookings \cup {None}], HaveValues(h),
           NEW m \in Machines, NEW k \in Kinds, NEW c \in Clients
    PROVE  LET held   == HeldIn(h, m, k)
               others == SumFunctionOnSet(HeldIn(h, m, k), Clients \ {c})
           IN  /\ SumFunction(held) = held[c] + others
               /\ held[c] \in Nat /\ others \in Nat /\ SumFunction(held) \in Nat
<1>. DEFINE held == HeldIn(h, m, k)
<1>1. IsFiniteSet(Clients) /\ IsFiniteSet(Clients \ {c})
  BY BookingConstants, FS_RemoveElement
<1>2. Natural(held, Clients) /\ Natural(held, Clients \ {c})
  BY HoldingsAreNatural DEF Natural
<1>3. /\ SumFunctionOnSet(held, Clients) = held[c] + SumFunctionOnSet(held, Clients \ {c})
      /\ SumFunctionOnSet(held, Clients \ {c}) \in Nat
      /\ SumFunctionOnSet(held, Clients) \in Nat
  BY <1>1, <1>2, SumSplits, SumIsNatural
<1>. QED  BY <1>2, <1>3, HoldingsAreNatural DEF Natural

(* The others are not affected when one client books or releases. *)
LEMMA OthersHoldTheSame ==
    ASSUME NEW g \in [Clients -> Bookings \cup {None}], HaveValues(g),
           NEW h \in [Clients -> Bookings \cup {None}], HaveValues(h),
           NEW c \in Clients, \A d \in Clients \ {c} : g[d] = h[d],
           NEW m \in Machines, NEW k \in Kinds
    PROVE  SumFunctionOnSet(HeldIn(g, m, k), Clients \ {c}) =
               SumFunctionOnSet(HeldIn(h, m, k), Clients \ {c})
<1>1. IsFiniteSet(Clients \ {c})
  BY BookingConstants, FS_RemoveElement
<1>2. Natural(HeldIn(h, m, k), Clients \ {c})
  BY HoldingsAreNatural DEF Natural
<1>3. \A d \in Clients \ {c} : HeldIn(h, m, k)[d] = HeldIn(g, m, k)[d]
  BY DEF HeldIn
<1>. QED  BY <1>1, <1>2, <1>3, SumOfSame

(* The same, said of the present state and of the next. *)
LEMMA HeldIsNatural ==
    ASSUME TypeOK, BookedHasValue, NEW m \in Machines, NEW k \in Kinds
    PROVE  /\ Natural(HeldBy(m, k), Clients)
           /\ HeldOn(m, k) = SumFunctionOnSet(HeldBy(m, k), Clients)
           /\ \A c \in Clients : HeldBy(m, k)[c] =
                 IF holds[c] # None /\ holds[c].machine = m
                 THEN Part(holds[c].costs, k, DOMAIN holds[c].costs) ELSE 0
<1>1. HaveValues(holds) /\ holds \in [Clients -> Bookings \cup {None}]
  BY DEF TypeOK, BookedHasValue, HaveValues
<1>2. HeldBy(m, k) = HeldIn(holds, m, k) /\ HeldOn(m, k) = SumFunction(HeldIn(holds, m, k))
  BY DEF HeldBy, HeldOn, HeldIn
<1>. QED  BY <1>1, <1>2, HoldingsAreNatural

(* What one client holds, apart from what the others hold. *)
Others(m, k, c) == SumFunctionOnSet(HeldBy(m, k), Clients \ {c})

LEMMA HeldSplits ==
    ASSUME TypeOK, BookedHasValue, NEW m \in Machines, NEW k \in Kinds, NEW c \in Clients
    PROVE  /\ HeldOn(m, k) = HeldBy(m, k)[c] + Others(m, k, c)
           /\ HeldBy(m, k)[c] \in Nat /\ Others(m, k, c) \in Nat /\ HeldOn(m, k) \in Nat
<1>1. HaveValues(holds) /\ holds \in [Clients -> Bookings \cup {None}]
  BY DEF TypeOK, BookedHasValue, HaveValues
<1>2. HeldBy(m, k) = HeldIn(holds, m, k) /\ HeldOn(m, k) = SumFunction(HeldIn(holds, m, k))
  BY DEF HeldBy, HeldOn, HeldIn
<1>. DEFINE held == HeldIn(holds, m, k)
<1>3. LET others == SumFunctionOnSet(held, Clients \ {c})
      IN  /\ SumFunction(held) = held[c] + others
          /\ held[c] \in Nat /\ others \in Nat /\ SumFunction(held) \in Nat
  BY <1>1, HoldingsSplit
<1>. QED  BY <1>2, <1>3 DEF Others

LEMMA HeldNext ==
    ASSUME TypeOK, BookedHasValue, TypeOK', BookedHasValue', NEW c \in Clients,
           \A d \in Clients \ {c} : holds'[d] = holds[d],
           NEW m \in Machines, NEW k \in Kinds
    PROVE  /\ HeldOn(m, k)' =
                  (IF holds'[c] # None /\ holds'[c].machine = m
                   THEN Part(holds'[c].costs, k, DOMAIN holds'[c].costs) ELSE 0)
                  + Others(m, k, c)
<1>1. /\ HaveValues(holds) /\ holds \in [Clients -> Bookings \cup {None}]
      /\ HaveValues(holds') /\ holds' \in [Clients -> Bookings \cup {None}]
  BY DEF TypeOK, BookedHasValue, HaveValues
<1>2. HeldBy(m, k) = HeldIn(holds, m, k)
  BY DEF HeldBy, HeldIn
<1>3. HeldOn(m, k)' = SumFunction(HeldIn(holds', m, k))
  BY DEF HeldBy, HeldOn, HeldIn
<1>4. SumFunction(HeldIn(holds', m, k)) =
          HeldIn(holds', m, k)[c] + SumFunctionOnSet(HeldIn(holds', m, k), Clients \ {c})
  BY <1>1, HoldingsSplit
<1>5. SumFunctionOnSet(HeldIn(holds', m, k), Clients \ {c}) = Others(m, k, c)
  BY <1>1, <1>2, OthersHoldTheSame DEF Others
<1>6. HeldIn(holds', m, k)[c] =
          IF holds'[c] # None /\ holds'[c].machine = m
          THEN Part(holds'[c].costs, k, DOMAIN holds'[c].costs) ELSE 0
  BY <1>1, HoldingsAreNatural
<1>. QED  BY <1>3, <1>4, <1>5, <1>6

(* One more entry at the end of those passed, one less of those ahead. *)
LEMMA PartGrows ==
    ASSUME NEW costs \in CostLists, NEW k, NEW n \in Nat, n + 1 \in DOMAIN costs,
           \A i \in 1 .. n + 1 : costs[i].value # Bad
    PROVE  /\ Part(costs, k, 1 .. n + 1) = Amounts(costs, k)[n + 1] + Part(costs, k, 1 .. n)
           /\ Part(costs, k, 1 .. n) \in Nat
<1>. DEFINE P == 1 .. n + 1
<1>1. P \subseteq DOMAIN costs /\ n + 1 \in P /\ P \ {n + 1} = 1 .. n /\ 1 .. n \subseteq P
  BY CostListShape
<1>2. IsFiniteSet(P) /\ Natural(Amounts(costs, k), P)
  BY <1>1, AmountsAreNatural
<1>3. Part(costs, k, 1 .. n) \in Nat
  BY <1>1, AmountsAreNatural
<1>. HIDE DEF P
<1>4. Part(costs, k, P) = Amounts(costs, k)[n + 1] + Part(costs, k, P \ {n + 1})
  BY <1>1, <1>2, SumSplits DEF Part
<1>. QED  BY <1>1, <1>3, <1>4 DEF P

LEMMA PartShrinks ==
    ASSUME NEW costs \in CostLists, NEW k, NEW n \in Nat, n + 1 \in DOMAIN costs,
           \A i \in DOMAIN costs : costs[i].value # Bad
    PROVE  /\ Part(costs, k, n + 1 .. Len(costs)) =
                  Amounts(costs, k)[n + 1] + Part(costs, k, n + 2 .. Len(costs))
           /\ Part(costs, k, n + 2 .. Len(costs)) \in Nat
<1>. DEFINE P == n + 1 .. Len(costs)
            Q == n + 2 .. Len(costs)
<1>1. P \subseteq DOMAIN costs /\ n + 1 \in P /\ P \ {n + 1} = Q /\ Q \subseteq P
  BY CostListShape
<1>2. IsFiniteSet(P) /\ Natural(Amounts(costs, k), P)
  BY <1>1, AmountsAreNatural
<1>3. Part(costs, k, Q) \in Nat
  BY <1>1, AmountsAreNatural
<1>. HIDE DEF P, Q
<1>4. Part(costs, k, P) = Amounts(costs, k)[n + 1] + Part(costs, k, P \ {n + 1})
  BY <1>1, <1>2, SumSplits DEF Part
<1>. QED  BY <1>1, <1>3, <1>4 DEF P, Q

LEMMA InitBooks == Init => Books
<1>. SUFFICES ASSUME Init PROVE Books
  OBVIOUS
<1>1. IInv /\ InLoop
  BY InitIInv DEF Init, InLoop
<1>2. BookedHasValue
  BY DEF Init, BookedHasValue, Running
<1>3. ASSUME NEW m \in Machines, NEW k \in Kinds PROVE HeldOn(m, k) <= allocated[m][k]
  <2>1. \A c \in Clients : HeldBy(m, k)[c] = 0
    BY DEF HeldBy, Init
  <2>. DEFINE zero == [c \in Clients |-> 0]
              T == {S \in SUBSET Clients : SumFunctionOnSet(HeldBy(m, k), S) # 0}
  <2>2. T = {}
    <3>. SUFFICES ASSUME T # {} PROVE FALSE
      OBVIOUS
    <3>1. PICK S \in T : \A R \in T : R \subseteq S => R = S
      <4>1. T \subseteq SUBSET Clients
        OBVIOUS
      <4>. HIDE DEF T
      <4>. QED  BY <4>1, BookingConstants, SmallestSet
    <3>2. S # {}
      BY <3>1, SumOfNone
    <3>3. PICK c \in S : TRUE
      BY <3>2
    <3>4. IsFiniteSet(S) /\ Natural(HeldBy(m, k), S)
      BY <2>1, <3>1, BookingConstants, FS_Subset DEF Natural
    <3>5. SumFunctionOnSet(HeldBy(m, k), S) =
              HeldBy(m, k)[c] + SumFunctionOnSet(HeldBy(m, k), S \ {c})
      BY <3>3, <3>4, SumSplits
    <3>6. SumFunctionOnSet(HeldBy(m, k), S \ {c}) = 0
      BY <3>1, <3>3
    <3>. QED  BY <2>1, <3>1, <3>3, <3>5, <3>6
  <2>3. HeldOn(m, k) = 0
    BY <1>1, <1>2, <2>2, HeldIsNatural DEF IInv
  <2>. QED  BY <2>3 DEF Init
<1>4. Covered
  BY <1>3 DEF Init, Covered, Running
<1>. QED  BY <1>1, <1>2, <1>4 DEF Books

(* Nothing has been taken when a booking begins, and all is still held when a release does. *)
LEMMA BeginBooks ==
    ASSUME Books, NEW op \in {"allocate", "deallocate"}, NEW c \in Clients, NEW m \in Machines,
           NEW costs \in CostLists, NEW planned \in BOOLEAN,
           Begin(op, c, m, costs, planned),
           op = "allocate" => holds[c] = None,
           op = "deallocate" => holds[c] # None /\ holds[c] = [machine |-> m, costs |-> costs]
    PROVE  Books'
<1>. USE DEF Books
<1>1. /\ call'.op = op /\ call'.client = c /\ call'.machine = m /\ call'.costs = costs
      /\ UNCHANGED <<capacity, allocated, holds>>
      /\ Passed' = 0 /\ InLoop' /\ call = None
  BY BeginTakesAll DEF Begin
<1>2. IInv'
  BY BeginKeeps
<1>3. BookedHasValue'
  <2>1. 1 .. 0 = {}
    OBVIOUS
  <2>. QED  BY <1>1, <2>1 DEF BookedHasValue, Running
<1>4. ASSUME NEW x \in Machines, NEW k \in Kinds
      PROVE  /\ HeldOn(x, k)' = HeldOn(x, k) /\ HeldBy(x, k)' = HeldBy(x, k)
             /\ HeldOn(x, k) <= allocated[x][k]
  BY <1>1 DEF Covered, HeldOn, HeldBy
<1>5. ASSUME op = "allocate", NEW x \in Machines, NEW k \in Kinds
      PROVE  HeldOn(x, k) + (IF x = m THEN Part(costs, k, 1 .. 0) ELSE 0) <= allocated[x][k]
  <2>1. Part(costs, k, 1 .. 0) = 0
    BY SumOfNone DEF Part
  <2>2. HeldOn(x, k) \in Nat
    BY HeldSplits DEF IInv
  <2>. QED  BY <1>4, <2>1, <2>2
<1>6. ASSUME op = "deallocate", NEW x \in Machines, NEW k \in Kinds
      PROVE  SumFunctionOnSet(HeldBy(x, k), Clients \ {c})
                 + (IF x = m THEN Part(costs, k, 0 + 1 .. Len(costs)) ELSE 0) <= allocated[x][k]
  <2>1. HeldOn(x, k) = HeldBy(x, k)[c] + Others(x, k, c) /\ Others(x, k, c) \in Nat
    BY HeldSplits DEF IInv
  <2>2. DOMAIN costs = 0 + 1 .. Len(costs)
    BY CostListShape
  <2>3. HeldBy(x, k)[c] = IF m = x THEN Part(costs, k, 0 + 1 .. Len(costs)) ELSE 0
    BY <1>6, <2>2, HeldIsNatural DEF IInv
  <2>4. HeldBy(x, k)[c] \in Nat
    BY HeldSplits DEF IInv
  <2>5. HeldBy(x, k)[c] + Others(x, k, c) <= allocated[x][k]
    BY <1>4, <2>1
  <2>6. HeldBy(x, k)[c] + Others(x, k, c) = Others(x, k, c) + HeldBy(x, k)[c]
    BY <2>1, <2>4
  <2>. QED  BY <2>3, <2>5, <2>6 DEF Others
<1>7. Covered'
  <2>. SUFFICES ASSUME NEW x \in Machines, NEW k \in Kinds
                PROVE  /\ call' = None => HeldOn(x, k)' <= allocated'[x][k]
                       /\ Running("allocate")' =>
                              HeldOn(x, k)' + (IF x = m THEN Part(costs, k, 1 .. 0) ELSE 0)
                                  <= allocated'[x][k]
                       /\ Running("deallocate")' =>
                              SumFunctionOnSet(HeldBy(x, k)', Clients \ {c})
                                  + (IF x = m THEN Part(costs, k, 0 + 1 .. Len(costs)) ELSE 0)
                                  <= allocated'[x][k]
    BY <1>1 DEF Covered, Part
  <2>. QED  BY <1>1, <1>4, <1>5, <1>6 DEF Running
<1>. QED  BY <1>1, <1>2, <1>3, <1>7

(* What is taken for a client is not held by it yet. *)
LEMMA AllocateEntryBooks == Books /\ AllocateEntry => Books'
<1>. SUFFICES ASSUME Books, AllocateEntry PROVE Books'
  OBVIOUS
<1>. USE DEF Books
<1>1. /\ call # None /\ call.op = "allocate" /\ call.rest # <<>> /\ Affordable
      /\ Running("allocate")
      /\ allocated' = [allocated EXCEPT ![call.machine][Entry.kind] = @ + Entry.value]
      /\ call' = [call EXCEPT !.rest = Tail(@)]
      /\ UNCHANGED <<capacity, holds, plan>>
  BY DEF AllocateEntry, Running
<1>2. IInv'
  BY NextIInv DEF Next
<1>3. /\ call' \in Calls /\ call \in Calls
      /\ call'.op = call.op /\ call'.client = call.client
      /\ call'.machine = call.machine /\ call'.costs = call.costs
      /\ Passed \in Nat /\ Passed' = Passed + 1
      /\ Passed + 1 \in DOMAIN call.costs /\ call.costs[Passed + 1] = Entry
  BY <1>1, TurnTakesNext DEF IInv
<1>. DEFINE p == Passed
            costs == call.costs
            m == call.machine
            n == Entry.value
            e == Entry.kind
<1>4. /\ m \in Machines /\ costs \in CostLists /\ e \in Kinds /\ n \in Nat
      /\ n # Bad
  BY <1>1, <1>3, CostListShape DEF Calls, Affordable
<1>5. \A i \in 1 .. p + 1 : costs[i].value # Bad
  <2>1. \A i \in 1 .. p + 1 : i \in 1 .. p \/ i = p + 1
    <3>. HIDE DEF p
    <3>. QED  BY <1>3 DEF p
  <2>. QED  BY <1>1, <1>3, <1>4, <2>1 DEF BookedHasValue
<1>6. InLoop'
  BY <1>1, TurnTakesNext DEF InLoop, IInv
<1>7. BookedHasValue'
  BY <1>1, <1>3, <1>5 DEF BookedHasValue, Running
<1>8. ASSUME NEW x \in Machines, NEW k \in Kinds
      PROVE  HeldOn(x, k) + (IF x = m THEN Part(costs, k, 1 .. p + 1) ELSE 0)
                 <= allocated'[x][k]
  <2>1. HeldOn(x, k) + (IF x = m THEN Part(costs, k, 1 .. p) ELSE 0) <= allocated[x][k]
    BY <1>1 DEF Covered
  <2>2. HeldOn(x, k) \in Nat /\ allocated[x][k] \in Nat
    <3>1. PICK c \in Clients : TRUE
      BY <1>3 DEF Calls
    <3>2. HeldOn(x, k) \in Nat
      BY <3>1, HeldSplits DEF IInv
    <3>. QED  BY <3>2 DEF IInv, TypeOK, Tables
  <2>3. /\ Part(costs, k, 1 .. p + 1) = Amounts(costs, k)[p + 1] + Part(costs, k, 1 .. p)
        /\ Part(costs, k, 1 .. p) \in Nat
    <3>1. p \in Nat /\ p + 1 \in DOMAIN costs
      BY <1>3
    <3>. HIDE DEF p, costs
    <3>. QED  BY <1>4, <1>5, <3>1, PartGrows
  <2>4. Amounts(costs, k)[p + 1] = IF e = k THEN n ELSE 0
    BY <1>3 DEF Amounts
  <2>5. allocated'[x][k] = IF x = m /\ e = k THEN allocated[x][k] + n ELSE allocated[x][k]
    <3>1. allocated \in Tables
      BY DEF IInv, TypeOK
    <3>2. allocated' = [allocated EXCEPT ![m][e] = @ + n]
      BY <1>1
    <3>. HIDE DEF m, e, n
    <3>. QED  BY <1>4, <3>1, <3>2 DEF Tables
  <2>. DEFINE h == HeldOn(x, k)
              a == allocated[x][k]
              b == Part(costs, k, 1 .. p)
              z == Part(costs, k, 1 .. p + 1)
  <2>6. z = (IF e = k THEN n ELSE 0) + b
    BY <2>3, <2>4
  <2>. HIDE DEF h, a, b, z, m, n, e, p, costs
  <2>7. h + (IF x = m THEN z ELSE 0) <= IF x = m /\ e = k THEN a + n ELSE a
    BY <1>4, <2>1, <2>2, <2>3, <2>6 DEF h, a, b
  <2>. QED  BY <2>5, <2>7 DEF h, a, z
<1>9. Covered'
  <2>1. /\ Passed' = p + 1 /\ call'.machine = m /\ call'.costs = costs
        /\ ~Running("deallocate")' /\ call' # None
        /\ \A x \in Machines, k \in Kinds : HeldOn(x, k)' = HeldOn(x, k)
    BY <1>1, <1>2, <1>3, NoneIsNothing DEF HeldOn, HeldBy, Running
  <2>. QED  BY <1>8, <2>1 DEF Covered, Part
<1>. QED  BY <1>2, <1>6, <1>7, <1>9

(* A booking that is complete is held; one that fails leaves more booked than is held. *)
LEMMA AllocateEndBooks == Books /\ (AllocateFails \/ AllocateDone) => Books'
<1>. SUFFICES ASSUME Books, AllocateFails \/ AllocateDone PROVE Books'
  OBVIOUS
<1>. USE DEF Books
<1>. DEFINE c == call.client
            m == call.machine
            costs == call.costs
<1>1. /\ Running("allocate") /\ call' = None /\ UNCHANGED <<capacity, allocated, plan>>
  BY DEF AllocateFails, AllocateDone
<1>2. IInv'
  BY NextIInv DEF Next
<1>3. call \in Calls /\ c \in Clients /\ m \in Machines /\ costs \in CostLists /\ holds[c] = None
  BY <1>1 DEF IInv, TypeOK, Running, Calls, BookedHasValue
<1>4. InLoop' /\ ~Running("allocate")' /\ ~Running("deallocate")'
  BY <1>1 DEF InLoop, Running
<1>5. \A i \in 1 .. Passed : costs[i].value # Bad
  BY <1>1 DEF BookedHasValue
<1>6. 1 .. Passed \subseteq DOMAIN costs
  <2>. DEFINE n == Len(costs)
              r == Len(call.rest)
  <2>1. r \in Nat /\ n \in Nat /\ DOMAIN costs = 1 .. n /\ Passed = n - r
    BY <1>1, <1>3, CostListShape DEF Calls, Passed
  <2>. HIDE DEF n, r
  <2>. QED  BY <2>1
<1>7. ASSUME NEW x \in Machines, NEW k \in Kinds
      PROVE  /\ HeldOn(x, k) + (IF x = m THEN Part(costs, k, 1 .. Passed) ELSE 0)
                    <= allocated[x][k]
             /\ HeldOn(x, k) \in Nat /\ Part(costs, k, 1 .. Passed) \in Nat
             /\ allocated[x][k] \in Nat
  <2>1. HeldOn(x, k) + (IF x = m THEN Part(costs, k, 1 .. Passed) ELSE 0) <= allocated[x][k]
    BY <1>1 DEF Covered
  <2>2. HeldOn(x, k) \in Nat
    BY <1>3, HeldSplits DEF IInv
  <2>3. Part(costs, k, 1 .. Passed) \in Nat
    BY <1>3, <1>5, <1>6, AmountsAreNatural
  <2>4. allocated[x][k] \in Nat
    BY DEF IInv, TypeOK, Tables
  <2>. QED  BY <2>1, <2>2, <2>3, <2>4
<1>8. CASE AllocateFails
  <2>1. holds' = holds
    BY <1>8 DEF AllocateFails
  <2>2. BookedHasValue'
    BY <1>4, <2>1 DEF BookedHasValue
  <2>3. ASSUME NEW x \in Machines, NEW k \in Kinds PROVE HeldOn(x, k) <= allocated[x][k]
    <3>. DEFINE h == HeldOn(x, k)
                a == allocated[x][k]
                b == Part(costs, k, 1 .. Passed)
    <3>1. h + (IF x = m THEN b ELSE 0) <= a /\ h \in Nat /\ b \in Nat /\ a \in Nat
      BY <1>7
    <3>. HIDE DEF h, a, b, m
    <3>2. h <= a
      BY <3>1
    <3>. QED  BY <3>2 DEF h, a
  <2>4. Covered'
    BY <1>1, <1>4, <2>1, <2>3 DEF Covered, HeldOn, HeldBy
  <2>. QED  BY <1>2, <1>4, <2>2, <2>4
<1>9. CASE AllocateDone
  <2>. DEFINE new == [machine |-> m, costs |-> costs]
  <2>1. call.rest = <<>> /\ holds' = [holds EXCEPT ![c] = new]
    BY <1>9 DEF AllocateDone
  <2>2. Passed = Len(costs) /\ 1 .. Passed = DOMAIN costs
    <3>1. Len(costs) \in Nat /\ DOMAIN costs = 1 .. Len(costs)
      BY <1>3, CostListShape
    <3>2. Passed = Len(costs)
      BY <2>1, <3>1 DEF Passed
    <3>. QED  BY <3>1, <3>2
  <2>3. /\ holds'[c] = new /\ new # None /\ new.machine = m /\ new.costs = costs
        /\ \A d \in Clients \ {c} : holds'[d] = holds[d]
    <3>1. holds'[c] = new /\ \A d \in Clients \ {c} : holds'[d] = holds[d]
      BY <1>3, <2>1 DEF IInv, TypeOK
    <3>2. new \in Bookings
      BY <1>3 DEF Bookings
    <3>. QED  BY <3>1, <3>2, NoneIsNothing
  <2>4. BookedHasValue'
    <3>1. \A d \in Clients : holds'[d] # None =>
              \A i \in DOMAIN holds'[d].costs : holds'[d].costs[i].value # Bad
      BY <1>5, <2>2, <2>3 DEF BookedHasValue
    <3>. QED  BY <1>4, <3>1 DEF BookedHasValue
  <2>5. ASSUME NEW x \in Machines, NEW k \in Kinds PROVE HeldOn(x, k)' <= allocated[x][k]
    <3>. DEFINE o == Others(x, k, c)
                b == IF x = m THEN Part(costs, k, DOMAIN costs) ELSE 0
    <3>1. HeldOn(x, k)' = b + o
      BY <1>2, <1>3, <2>3, <2>4, HeldNext DEF IInv
    <3>2. HeldOn(x, k) = o /\ o \in Nat
      <4>1. HeldBy(x, k)[c] = 0
        BY <1>3, HeldIsNatural DEF IInv
      <4>2. HeldOn(x, k) = HeldBy(x, k)[c] + o /\ o \in Nat
        BY <1>3, HeldSplits DEF IInv
      <4>. HIDE DEF o
      <4>. QED  BY <4>1, <4>2
    <3>3. b \in Nat /\ HeldOn(x, k) + b <= allocated[x][k] /\ allocated[x][k] \in Nat
      BY <1>7, <2>2
    <3>. HIDE DEF o, b
    <3>4. HeldOn(x, k) + b = b + o
      BY <3>2, <3>3
    <3>. QED  BY <3>1, <3>3, <3>4
  <2>6. Covered'
    BY <1>1, <1>4, <2>5 DEF Covered
  <2>. QED  BY <1>2, <1>4, <2>4, <2>6
<1>. QED  BY <1>8, <1>9

(* One unit is given back for an entry of at least one unit. *)
LEMMA DeallocateEntryBooks == 0 \notin Values /\ Books /\ DeallocateEntry => Books'
<1>. SUFFICES ASSUME 0 \notin Values, Books, DeallocateEntry PROVE Books'
  OBVIOUS
<1>. USE DEF Books
<1>1. /\ call # None /\ call.op = "deallocate" /\ call.rest # <<>> /\ Running("deallocate")
      /\ allocated' = [allocated EXCEPT ![call.machine][Entry.kind] =
                          IF @ > 0 THEN @ - 1 ELSE 0]
      /\ call' = [call EXCEPT !.rest = Tail(@)]
      /\ UNCHANGED <<capacity, holds, plan>>
  BY DEF DeallocateEntry, Running
<1>2. IInv'
  BY NextIInv DEF Next
<1>3. /\ call' \in Calls /\ call \in Calls
      /\ call'.op = call.op /\ call'.client = call.client
      /\ call'.machine = call.machine /\ call'.costs = call.costs
      /\ Passed \in Nat /\ Passed' = Passed + 1
      /\ Passed + 1 \in DOMAIN call.costs /\ call.costs[Passed + 1] = Entry
  BY <1>1, TurnTakesNext DEF IInv
<1>. DEFINE p == Passed
            c == call.client
            costs == call.costs
            m == call.machine
            n == Entry.value
            e == Entry.kind
<1>4. /\ m \in Machines /\ c \in Clients /\ costs \in CostLists /\ e \in Kinds
      /\ holds[c] = [machine |-> m, costs |-> costs]
      /\ holds[c] # None
  <2>1. /\ m \in Machines /\ c \in Clients /\ costs \in CostLists
        /\ holds[c] = [machine |-> m, costs |-> costs]
    BY <1>1, <1>3 DEF Calls, BookedHasValue
  <2>2. Entry \in Costs
    BY <1>3, <2>1, CostListShape
  <2>3. [machine |-> m, costs |-> costs] \in Bookings
    BY <2>1 DEF Bookings
  <2>. QED  BY <2>1, <2>2, <2>3, NoneIsNothing DEF Costs
<1>5. \A i \in DOMAIN costs : costs[i].value # Bad
  BY <1>4 DEF BookedHasValue
<1>6. n \in Nat /\ n > 0
  <2>1. Entry \in Costs /\ n # Bad
    BY <1>3, <1>4, <1>5, CostListShape
  <2>2. n \in Values /\ Values \subseteq Nat
    BY <2>1, SchedulerConstants DEF Costs
  <2>. HIDE DEF n
  <2>. QED  BY <2>2
<1>7. InLoop'
  BY <1>1, TurnTakesNext DEF InLoop, IInv
<1>8. BookedHasValue'
  BY <1>1, <1>3 DEF BookedHasValue, Running
<1>9. ASSUME NEW x \in Machines, NEW k \in Kinds
      PROVE  Others(x, k, c) + (IF x = m THEN Part(costs, k, p + 2 .. Len(costs)) ELSE 0)
                 <= allocated'[x][k]
  <2>1. Others(x, k, c) + (IF x = m THEN Part(costs, k, p + 1 .. Len(costs)) ELSE 0)
            <= allocated[x][k]
    BY <1>1 DEF Covered, Others
  <2>2. Others(x, k, c) \in Nat /\ allocated[x][k] \in Nat
    BY <1>4, HeldSplits DEF IInv, TypeOK, Tables
  <2>3. /\ Part(costs, k, p + 1 .. Len(costs)) =
              Amounts(costs, k)[p + 1] + Part(costs, k, p + 2 .. Len(costs))
        /\ Part(costs, k, p + 2 .. Len(costs)) \in Nat
    <3>1. p \in Nat /\ p + 1 \in DOMAIN costs
      BY <1>3
    <3>. HIDE DEF p, costs
    <3>. QED  BY <1>4, <1>5, <3>1, PartShrinks
  <2>4. Amounts(costs, k)[p + 1] = IF e = k THEN n ELSE 0
    BY <1>3 DEF Amounts
  <2>5. allocated'[x][k] =
            IF x = m /\ e = k
            THEN IF allocated[x][k] > 0 THEN allocated[x][k] - 1 ELSE 0
            ELSE allocated[x][k]
    <3>1. allocated \in Tables
      BY DEF IInv, TypeOK
    <3>2. allocated' = [allocated EXCEPT ![m][e] = IF @ > 0 THEN @ - 1 ELSE 0]
      BY <1>1
    <3>. HIDE DEF m, e
    <3>. QED  BY <1>4, <3>1, <3>2 DEF Tables
  <2>. DEFINE o == Others(x, k, c)
              a == allocated[x][k]
              b == Part(costs, k, p + 2 .. Len(costs))
              z == Part(costs, k, p + 1 .. Len(costs))
  <2>6. z = (IF e = k THEN n ELSE 0) + b
    BY <2>3, <2>4
  <2>. HIDE DEF o, a, b, z, m, n, e
  <2>7. o + (IF x = m THEN b ELSE 0)
            <= IF x = m /\ e = k THEN IF a > 0 THEN a - 1 ELSE 0 ELSE a
    BY <1>6, <2>1, <2>2, <2>3, <2>6 DEF o, a, b, z
  <2>. QED  BY <2>5, <2>7 DEF o, a, b
<1>10. Covered'
  <2>1. /\ Passed' + 1 = p + 2 /\ call'.machine = m /\ call'.costs = costs
        /\ call'.client = c /\ ~Running("allocate")' /\ call' # None
        /\ \A x \in Machines, k \in Kinds : HeldBy(x, k)' = HeldBy(x, k)
    <3>1. Passed' + 1 = p + 2
      <4>1. p \in Nat /\ Passed' = p + 1
        BY <1>3
      <4>. HIDE DEF p
      <4>. QED  BY <4>1
    <3>. QED  BY <1>1, <1>3, <3>1, NoneIsNothing DEF HeldBy, Running
  <2>. HIDE DEF p
  <2>2. ASSUME NEW x \in Machines, NEW k \in Kinds
        PROVE  SumFunctionOnSet(HeldBy(x, k)', Clients \ {c})
                   + (IF x = m THEN Part(costs, k, Passed' + 1 .. Len(costs)) ELSE 0)
                   <= allocated'[x][k]
    BY <1>9, <2>1 DEF Others
  <2>. QED  BY <2>1, <2>2 DEF Covered, Part
<1>. QED  BY <1>2, <1>7, <1>8, <1>10

(* What is released is no longer held. *)
LEMMA DeallocateDoneBooks == Books /\ DeallocateDone => Books'
<1>. SUFFICES ASSUME Books, DeallocateDone PROVE Books'
  OBVIOUS
<1>. USE DEF Books
<1>. DEFINE c == call.client
<1>1. /\ Running("deallocate") /\ call' = None /\ UNCHANGED <<capacity, allocated, plan>>
      /\ holds' = [holds EXCEPT ![c] = None]
  BY DEF DeallocateDone
<1>2. IInv'
  BY NextIInv DEF Next
<1>3. call \in Calls /\ c \in Clients
  BY <1>1 DEF IInv, TypeOK, Running, Calls
<1>4. InLoop' /\ ~Running("allocate")' /\ ~Running("deallocate")'
  BY <1>1 DEF InLoop, Running
<1>5. holds'[c] = None /\ \A d \in Clients \ {c} : holds'[d] = holds[d]
  BY <1>1, <1>3 DEF IInv, TypeOK
<1>6. BookedHasValue'
  BY <1>4, <1>5 DEF BookedHasValue
<1>7. ASSUME NEW x \in Machines, NEW k \in Kinds PROVE HeldOn(x, k)' <= allocated[x][k]
  <2>. DEFINE o == Others(x, k, c)
              a == allocated[x][k]
              b == IF x = call.machine
                   THEN Part(call.costs, k, Passed + 1 .. Len(call.costs)) ELSE 0
  <2>1. HeldOn(x, k)' = 0 + o
    BY <1>2, <1>3, <1>5, <1>6, HeldNext DEF IInv
  <2>2. o + b <= a
    BY <1>1 DEF Covered, Others
  <2>3. o \in Nat /\ a \in Nat
    BY <1>3, HeldSplits DEF IInv, TypeOK, Tables
  <2>4. b \in Nat
    <3>1. call.costs \in CostLists /\ holds[c] = [machine |-> call.machine, costs |-> call.costs]
      BY <1>1, <1>3 DEF Calls, BookedHasValue
    <3>2. holds[c] # None
      BY <3>1, <1>3, NoneIsNothing DEF Calls, Bookings
    <3>3. \A i \in DOMAIN call.costs : call.costs[i].value # Bad
      BY <1>3, <3>1, <3>2 DEF BookedHasValue
    <3>4. Passed + 1 .. Len(call.costs) \subseteq DOMAIN call.costs
      <4>. DEFINE n == Len(call.costs)
                  r == Len(call.rest)
      <4>1. r \in Nat /\ n \in Nat /\ DOMAIN call.costs = 1 .. n /\ Passed = n - r /\ r <= n
        BY <1>1, <1>3, CostListShape DEF Calls, Passed, InLoop, Running, DeallocateDone
      <4>. HIDE DEF n, r
      <4>2. Passed + 1 .. n \subseteq 1 .. n
        BY <4>1
      <4>. QED  BY <4>1, <4>2 DEF n
    <3>. QED  BY <3>1, <3>3, <3>4, AmountsAreNatural
  <2>. HIDE DEF o, a, b
  <2>5. HeldOn(x, k)' <= a
    BY <2>1, <2>2, <2>3, <2>4
  <2>. QED  BY <2>5 DEF a
<1>8. Covered'
  BY <1>1, <1>4, <1>7 DEF Covered
<1>. QED  BY <1>2, <1>4, <1>6, <1>8

LEMMA NextBooks == 0 \notin Values /\ Books /\ [Next]_vars => Books'
<1>. SUFFICES ASSUME 0 \notin Values, Books, [Next]_vars PROVE Books'
  OBVIOUS
<1>0. IInv'
  BY NextIInv DEF Books
<1>1. ASSUME NEW required \in SUBSET Machines, NEW costs \in CostLists,
             Schedule(required, costs)
      PROVE  Books'
  <2>1. call = None /\ UNCHANGED <<capacity, allocated, holds, call>>
    BY <1>1 DEF Schedule
  <2>. QED  BY <1>0, <2>1 DEF Books, InLoop, BookedHasValue, Covered, Running, HeldOn, HeldBy
<1>2. ASSUME NEW c \in Clients, NEW m \in Machines, NEW costs \in CostLists, Book(c, m, costs)
      PROVE  Books'
  BY <1>2, BeginBooks DEF Book
<1>3. ASSUME NEW c \in Clients, BookPlan(c) PROVE Books'
  <2>1. plan \in FeasiblePlans
    BY <1>3 DEF BookPlan, Books, IInv, TypeOK, Infeasible
  <2>2. plan.machine \in Machines /\ plan.costs \in CostLists
    BY <2>1 DEF FeasiblePlans
  <2>. QED  BY <1>3, <2>2, BeginBooks DEF BookPlan
<1>4. ASSUME NEW c \in Clients, Release(c) PROVE Books'
  <2>1. holds[c] # None /\ holds[c] \in Bookings
    BY <1>4 DEF Release, Books, IInv, TypeOK
  <2>2. /\ holds[c].machine \in Machines /\ holds[c].costs \in CostLists
        /\ holds[c] = [machine |-> holds[c].machine, costs |-> holds[c].costs]
    BY <2>1 DEF Bookings
  <2>3. Begin("deallocate", c, holds[c].machine, holds[c].costs, FALSE)
    BY <1>4 DEF Release
  <2>. QED  BY <2>1, <2>2, <2>3, BeginBooks
<1>5. CASE UNCHANGED vars
  BY <1>0, <1>5
     DEF vars, Books, InLoop, Passed, BookedHasValue, Covered, Running, HeldOn, HeldBy
<1>. QED
  BY <1>1, <1>2, <1>3, <1>4, <1>5, AllocateEntryBooks, AllocateEndBooks, DeallocateEntryBooks,
     DeallocateDoneBooks DEF Next

(***************************************************************************)
(* What clients hold stays booked, whoever else books, fails to book or    *)
(* releases.  deallocate gives back one unit per entry whatever the entry  *)
(* took: an entry of no units would give back what is not its own, so the  *)
(* theorem, like the run, is about costs of at least one unit.             *)
(***************************************************************************)
THEOREM HeldStaysBooked ==
    ASSUME 0 \notin Values
    PROVE  Spec => []HeldIsBooked
<1>1. Init => Books
  BY InitBooks
<1>2. Books /\ [Next]_vars => Books'
  BY NextBooks
<1>3. Books => HeldIsBooked
  BY DEF Books, Covered, HeldIsBooked
<1>. QED  BY <1>1, <1>2, <1>3, PTL DEF Spec

-----------------------------------------------------------------------------
(***************************************************************************)
(* MachineInfo implements Reservations.  Only the ends of the two loops    *)
(* are steps there: before them nothing that is held has changed.          *)
(***************************************************************************)
LEMMA SharesAreHoldings ==
    ASSUME NEW m \in Machines, NEW k \in Kinds
    PROVE  Res!SharesOf(m, k) = HeldBy(m, k)
BY DEF Res!SharesOf, HeldBy, SharesNow

(* Both modules take their sums from the same library. *)
LEMMA SameSums == \A f : Res!SumFunction(f) = SumFunction(f)
BY DEF Res!SumFunction, Res!SumFunctionOnSet, Res!FoldFunctionOnSet, Res!MapThenFoldSet,
       SumFunction, SumFunctionOnSet, FoldFunctionOnSet, MapThenFoldSet

(* Between calls what is held is booked, and what is booked fits. *)
LEMMA SharesFit == Books /\ call = None => Res!Fits
<1>. SUFFICES ASSUME Books, call = None, NEW m \in Machines, NEW k \in Kinds
              PROVE  Res!SumFunction(Res!SharesOf(m, k)) <= capacity[m][k]
  BY DEF Res!Fits
<1>1. Res!SumFunction(Res!SharesOf(m, k)) = HeldOn(m, k)
  BY SameSums, SharesAreHoldings DEF HeldOn
<1>2. HeldOn(m, k) <= allocated[m][k] /\ allocated[m][k] <= capacity[m][k]
  BY DEF Books, Covered, IInv, NeverOverbooked
<1>3. HeldOn(m, k) \in Nat /\ allocated[m][k] \in Nat /\ capacity[m][k] \in Nat
  <2>1. HeldOn(m, k) \in Nat
    BY HeldIsNatural, SumIsNatural, BookingConstants DEF Books, IInv
  <2>. QED  BY <2>1 DEF Books, IInv, TypeOK, Tables
<1>. QED  BY <1>1, <1>2, <1>3

LEMMA BookingStep ==
    ASSUME Books, Books', AllocateDone
    PROVE  Res!Book(call.client)
<1>. DEFINE c == call.client
            new == [machine |-> call.machine, costs |-> call.costs]
<1>1. /\ Running("allocate") /\ call' = None /\ capacity' = capacity
      /\ holds' = [holds EXCEPT ![c] = new]
  BY DEF AllocateDone
<1>2. /\ call \in Calls /\ c \in Clients /\ new \in Bookings
      /\ holds \in [Clients -> Bookings \cup {None}]
  BY <1>1 DEF Books, IInv, TypeOK, Running, Calls, Bookings
<1>3. holds[c] = None /\ holds'[c] = new /\ new # None
  BY <1>1, <1>2, NoneIsNothing DEF Books, BookedHasValue
<1>4. \A d \in Clients \ {c} : holds'[d] = holds[d]
  BY <1>1, <1>2
<1>5. SharesNow'[c] \in Res!Shares
  <2>1. \A i \in DOMAIN new.costs : new.costs[i].value # Bad
    BY <1>2, <1>3 DEF Books, BookedHasValue
  <2>2. \A k \in Kinds : SumFunction(Amounts(new.costs, k)) \in Nat
    <3>1. new.costs \in CostLists
      BY <1>2 DEF Bookings
    <3>2. \A k : DOMAIN Amounts(new.costs, k) = DOMAIN new.costs
      BY DEF Amounts
    <3>. HIDE DEF new
    <3>. QED  BY <2>1, <3>1, <3>2, AmountsAreNatural DEF SumFunction, Part
  <2>3. SharesNow'[c] = [machine |-> new.machine,
                         amounts |-> [k \in Kinds |-> SumFunction(Amounts(new.costs, k))]]
    BY <1>2, <1>3 DEF SharesNow
  <2>4. new.machine \in Machines
    BY <1>2 DEF Bookings
  <2>. HIDE DEF new
  <2>. QED  BY <2>2, <2>3, <2>4 DEF Res!Shares
<1>6. /\ c \notin DOMAIN SharesNow
      /\ DOMAIN SharesNow' = DOMAIN SharesNow \cup {c}
  BY <1>2, <1>3, <1>4 DEF SharesNow
<1>7. Res!OthersKeep(c)
  BY <1>4 DEF Res!OthersKeep, SharesNow
<1>8. Res!Fits'
  <2>1. (call = None)'
    BY <1>1
  <2>. QED  BY <2>1, SharesFit, PTL
<1>. QED  BY <1>1, <1>5, <1>6, <1>7, <1>8 DEF Res!Book

LEMMA GivingUpStep ==
    ASSUME Books, DeallocateDone
    PROVE  Res!GiveUp(call.client)
<1>. DEFINE c == call.client
<1>1. /\ Running("deallocate") /\ capacity' = capacity
      /\ holds' = [holds EXCEPT ![c] = None]
  BY DEF DeallocateDone
<1>2. /\ call \in Calls /\ c \in Clients
      /\ holds \in [Clients -> Bookings \cup {None}]
  BY <1>1 DEF Books, IInv, TypeOK, Running, Calls
<1>3. holds[c] # None /\ holds'[c] = None
  <2>1. holds[c] = [machine |-> call.machine, costs |-> call.costs]
    BY <1>1 DEF Books, BookedHasValue
  <2>2. holds[c] \in Bookings
    BY <1>2, <2>1 DEF Calls, Bookings
  <2>. QED  BY <1>1, <1>2, <2>2, NoneIsNothing
<1>4. \A d \in Clients \ {c} : holds'[d] = holds[d]
  BY <1>1, <1>2
<1>5. c \in DOMAIN SharesNow /\ DOMAIN SharesNow' = DOMAIN SharesNow \ {c}
  BY <1>2, <1>3, <1>4 DEF SharesNow
<1>6. Res!OthersKeep(c)
  BY <1>4 DEF Res!OthersKeep, SharesNow
<1>. QED  BY <1>1, <1>5, <1>6 DEF Res!GiveUp

LEMMA ReservationStep ==
    ASSUME Books, Books', [Next]_vars
    PROVE  [Res!Next]_(Res!rvars)
<1>1. CASE AllocateDone
  <2>1. call.client \in Clients
    BY <1>1 DEF AllocateDone, Books, IInv, TypeOK, Running, Calls
  <2>. QED  BY <1>1, <2>1, BookingStep DEF Res!Next
<1>2. CASE DeallocateDone
  <2>1. call.client \in Clients
    BY <1>2 DEF DeallocateDone, Books, IInv, TypeOK, Running, Calls
  <2>. QED  BY <1>2, <2>1, GivingUpStep DEF Res!Next
<1>3. CASE UNCHANGED <<capacity, holds>>
  BY <1>3 DEF Res!rvars, SharesNow
<1>. QED
  BY <1>1, <1>2, <1>3
     DEF Next, vars, Schedule, Book, BookPlan, Release, Begin, AllocateEntry, AllocateFails,
         DeallocateEntry

(***************************************************************************)
(* MachineInfo implements Reservations: whatever the loops of allocate and *)
(* deallocate do on their way, also when they stop half-way, a booking has *)
(* all of its costs or none, next to all that others hold.  As for         *)
(* HeldStaysBooked, an entry takes at least one unit.                      *)
(***************************************************************************)
THEOREM Refinement ==
    ASSUME 0 \notin Values
    PROVE  Spec => ImplementsReservations
<1>1. Init => Res!Init
  <2>. SUFFICES ASSUME Init PROVE capacity \in Tables /\ DOMAIN SharesNow = {}
    BY DEF Res!Init, Tables
  <2>. QED  BY InitIInv DEF IInv, TypeOK, Init, SharesNow
<1>2. Init => Books
  BY InitBooks
<1>3. Books /\ [Next]_vars => Books'
  BY NextBooks
<1>4. Books /\ Books' /\ [Next]_vars => [Res!Next]_(Res!rvars)
  BY ReservationStep
<1>. QED  BY <1>1, <1>2, <1>3, <1>4, PTL DEF Spec, ImplementsReservations, Res!Spec
=============================================================================
