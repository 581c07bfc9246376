--------------------------- MODULE CostScheduler ---------------------------
(***************************************************************************)
(* Scheduling one operation against a set of machines (scheduler.rs), as   *)
(* pure operators over the machines' capacities and present allocations,   *)
(* both of type [Machines -> [Kinds -> Nat]].                              *)
(*                                                                         *)
(* A cost is a record of an extent kind and a value; a value is Bad when   *)
(* eval_cost_expr refuses the expression (negative, unresolved or          *)
(* unsupported).  Of the score only its use is kept: the plan names one    *)
(* machine among the candidates, here any of them.                         *)
(***************************************************************************)
EXTENDS Integers, Sequences, SequencesExt

CONSTANTS Machines,     \* machine names
          Kinds,        \* extent names
          Values,       \* bound: values of cost entries
          MaxCosts,     \* bound: entries of a cost list
          Bad           \* a cost expression without a value

ASSUME SchedulerConstants == Values \subseteq Nat /\ Bad \notin Nat /\ MaxCosts \in Nat

Costs == [kind : Kinds, value : Values \cup {Bad}]

CostLists == SeqOf(Costs, MaxCosts)

(* MachineInfo::remaining *)
Remaining(capacity, allocated, m, k) ==
    IF capacity[m][k] > allocated[m][k] THEN capacity[m][k] - allocated[m][k] ELSE 0

(* Mutant: costs are compared with the capacity, not with what remains. *)
AllocatableIdle(capacity, allocated, m, costs) ==
    \A i \in DOMAIN costs :
        /\ costs[i].value # Bad
        /\ costs[i].value <= capacity[m][costs[i].kind]

(* get_allocatable_costs is Ok: it looks at each entry on its own. *)
Allocatable(capacity, allocated, m, costs) ==
    \A i \in DOMAIN costs :
        /\ costs[i].value # Bad
        /\ costs[i].value <= Remaining(capacity, allocated, m, costs[i].kind)

(* The costs of a plan: entries of no cost are left out. *)
PlannedCosts(costs) ==
    FoldLeft(LAMBDA kept, c : IF c.value # 0 THEN Append(kept, c) ELSE kept, <<>>, costs)

(* Mutant: required machines are a preference. *)
CandidatesPreferred(capacity, allocated, required, costs) ==
    {m \in Machines : Allocatable(capacity, allocated, m, costs)}

(* evaluate_candidates; check_constraints is always true. *)
Candidates(capacity, allocated, required, costs) ==
    {m \in Machines : /\ required = {} \/ m \in required
                      /\ Allocatable(capacity, allocated, m, costs)}

FeasiblePlans == [feasible : {TRUE}, machine : Machines, costs : CostLists]

Infeasible == [feasible |-> FALSE]

(* The plans schedule may return: infeasible only when there is no candidate. *)
Schedules(capacity, allocated, required, costs) ==
    LET C == Candidates(capacity, allocated, required, costs) IN
    IF C = {} THEN {Infeasible}
    ELSE {p \in FeasiblePlans : p.machine \in C /\ p.costs = PlannedCosts(costs)}
=============================================================================
