------------------------------ MODULE Pipeline ------------------------------
(***************************************************************************)
(* Pipeline::run (pipeline.rs): parse, type-check the declarations,        *)
(* schedule the operations, execute the statements.                        *)
(*                                                                         *)
(* A program is what the phases tell apart: whether it parses, its         *)
(* declarations in order with whether each is well typed, and its          *)
(* statements in order with whether each will succeed.  Executing a        *)
(* statement has an effect outside (a command, a transfer), so `ran`, the  *)
(* number of statements begun, is what a failed run leaves behind.  The    *)
(* loop counters of the phases are one variable, `at`.                     *)
(***************************************************************************)
EXTENDS CostScheduler

CONSTANTS Stranger,       \* a required name that is no machine: a resource type
          Capacities,     \* bound: capacities of an extent
          MaxItems,       \* bound: declarations of a program
          MaxStatements   \* bound: statements of a program

ASSUME PipelineConstants ==
    /\ Stranger \notin Machines
    /\ Capacities \subseteq Nat
    /\ MaxItems \in Nat /\ MaxStatements \in Nat

VARIABLES capacity,     \* the machine registry
          program,      \* the source text
          phase,        \* the phase that is running, "done" or "failed"
          at,           \* items or statements the phase has dealt with
          schedules,    \* PipelineResult.schedules
          ran           \* statements begun

vars == <<capacity, program, phase, at, schedules, ran>>

Operations == [operation : {TRUE}, typed : BOOLEAN,
               required : SUBSET (Machines \cup {Stranger}), costs : CostLists]

(* Aliases, resources, services and functions: checked, never scheduled. *)
Declarations == [operation : {FALSE}, typed : BOOLEAN]

Items == Operations \cup Declarations

Programs == [parses : BOOLEAN, items : SeqOf(Items, MaxItems),
             statements : SeqOf({"succeeds", "fails"}, MaxStatements)]

NumItems == Len(program.items)

NumStatements == Len(program.statements)

Init ==
    /\ capacity \in [Machines -> [Kinds -> Capacities]]
    /\ program \in Programs
    /\ phase = "parse"
    /\ at = 0 /\ schedules = <<>> /\ ran = 0

-----------------------------------------------------------------------------
Enter(next) == phase' = next /\ at' = 0

Parse ==
    /\ phase = "parse"
    /\ IF program.parses THEN Enter("check") ELSE Enter("failed")
    /\ UNCHANGED <<capacity, program, schedules, ran>>

(* Mutant: an ill-typed declaration does not stop the loop. *)
CheckItemGoesOn ==
    /\ phase = "check" /\ at < NumItems
    /\ at' = at + 1
    /\ UNCHANGED <<capacity, program, phase, schedules, ran>>

(* type_check: one turn of the loop over the items; the first error is returned. *)
CheckItem ==
    /\ phase = "check" /\ at < NumItems
    /\ IF program.items[at + 1].typed
         THEN at' = at + 1 /\ UNCHANGED phase
         ELSE Enter("failed")
    /\ UNCHANGED <<capacity, program, schedules, ran>>

CheckDone ==
    /\ phase = "check" /\ at = NumItems
    /\ Enter("schedule")
    /\ UNCHANGED <<capacity, program, schedules, ran>>

(* build_scheduler_input: a cost without a value (unwrap_or(0)) costs nothing. *)
Concrete(costs) ==
    [i \in DOMAIN costs |->
        [kind |-> costs[i].kind, value |-> IF costs[i].value = Bad THEN 0 ELSE costs[i].value]]

(* from_registry: every operation is scheduled on machines nobody has booked. *)
Idle == [m \in Machines |-> [k \in Kinds |-> 0]]

PlansOf(item) == Schedules(capacity, Idle, item.required, Concrete(item.costs))

(***************************************************************************)
(* schedule_operations: one turn of its loop.  An infeasible plan is a     *)
(* result like any other.  An operation's name is its place in the program.*)
(***************************************************************************)
ScheduleItem ==
    /\ phase = "schedule" /\ at < NumItems
    /\ LET item == program.items[at + 1] IN
       IF item.operation
         THEN \E p \in PlansOf(item) :
                 schedules' = Append(schedules, [operation |-> at + 1, plan |-> p])
         ELSE UNCHANGED schedules
    /\ at' = at + 1
    /\ UNCHANGED <<capacity, program, phase, ran>>

ScheduleDone ==
    /\ phase = "schedule" /\ at = NumItems
    /\ Enter("execute")
    /\ UNCHANGED <<capacity, program, schedules, ran>>

(* Mutant: a failing statement does not stop the loop. *)
ExecuteStatementGoesOn ==
    /\ phase = "execute" /\ at < NumStatements
    /\ ran' = ran + 1
    /\ at' = at + 1
    /\ UNCHANGED <<capacity, program, phase, schedules>>

(* execute_program_with_transport: one turn of its loop; the first error is returned. *)
ExecuteStatement ==
    /\ phase = "execute" /\ at < NumStatements
    /\ ran' = ran + 1
    /\ IF program.statements[at + 1] = "succeeds"
         THEN at' = at + 1 /\ UNCHANGED phase
         ELSE Enter("failed")
    /\ UNCHANGED <<capacity, program, schedules>>

ExecuteDone ==
    /\ phase = "execute" /\ at = NumStatements
    /\ Enter("done")
    /\ UNCHANGED <<capacity, program, schedules, ran>>

Next ==
    \/ Parse
    \/ CheckItem \/ CheckDone
    \/ ScheduleItem \/ ScheduleDone
    \/ ExecuteStatement \/ ExecuteDone

Spec == Init /\ [][Next]_vars

-----------------------------------------------------------------------------
(* Every variable holds a value of its kind. *)
TypeOK ==
    /\ capacity \in [Machines -> [Kinds -> Nat]]
    /\ program \in Programs
    /\ phase \in {"parse", "check", "schedule", "execute", "done", "failed"}
    /\ at \in Nat /\ ran \in Nat
    /\ schedules \in Seq([operation : 1..NumItems,
                          plan : FeasiblePlans \cup {Infeasible}])

WellTyped == \A i \in 1..NumItems : program.items[i].typed

(* The operations that have a plan, in the order of the plans. *)
InOrder == \A i, j \in DOMAIN schedules : i < j => schedules[i].operation < schedules[j].operation

Planned(i) == \E j \in DOMAIN schedules : schedules[j].operation = i

(***************************************************************************)
(* No statement has an effect before every declaration is type-checked and *)
(* every operation has its one plan, in program order.                     *)
(***************************************************************************)
NothingRunsUnchecked ==
    ran > 0 =>
        /\ program.parses /\ WellTyped
        /\ InOrder
        /\ \A i \in 1..NumItems : program.items[i].operation <=> Planned(i)

(***************************************************************************)
(* What run returns tells what it did: Ok after all statements, each a     *)
(* success; an error after the first failing statement, and none behind    *)
(* it, or before any.                                                      *)
(***************************************************************************)
ReportIsExact ==
    /\ phase = "done" => ran = NumStatements
    /\ \A i \in 1..ran : i <= NumStatements
                         /\ (program.statements[i] = "fails" <=> i = ran /\ phase = "failed")

(***************************************************************************)
(* A plan is feasible only on a machine that has room for each single cost *)
(* of its operation, and that the operation named if it named any.         *)
(***************************************************************************)
PlansFitAlone ==
    \A j \in DOMAIN schedules :
        LET item == program.items[schedules[j].operation]
            plan == schedules[j].plan
        IN  plan.feasible =>
              /\ item.required = {} \/ plan.machine \in item.required
              /\ \A i \in DOMAIN item.costs :
                    item.costs[i].value # Bad =>
                        item.costs[i].value <= capacity[plan.machine][item.costs[i].kind]

-----------------------------------------------------------------------------
(* What the README says, and the code does not do. *)

(* "limits are enforced before anything runs": an infeasible operation stops the run. *)
LimitsBeforeEffects == ran > 0 => \A j \in DOMAIN schedules : schedules[j].plan.feasible
=============================================================================
