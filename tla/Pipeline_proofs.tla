-------------------------- MODULE Pipeline_proofs --------------------------
(***************************************************************************)
(* A run executes nothing before it has checked every declaration and      *)
(* planned every operation, and reports exactly what it did, for programs  *)
(* of any size.                                                            *)
(*                                                                         *)
(* The inductive invariant says of each phase what its loop has dealt with *)
(* so far; the state left by a phase is what the next one starts from.     *)
(***************************************************************************)
EXTENDS Pipeline, TLAPS

Settled ==
    /\ program.parses /\ WellTyped
    /\ InOrder
    /\ \A i \in 1..NumItems : program.items[i].operation <=> Planned(i)

AllSucceeded == \A i \in 1..ran : program.statements[i] = "succeeds"

Parsing == schedules = <<>> /\ ran = 0

Checking ==
    /\ schedules = <<>> /\ ran = 0
    /\ program.parses
    /\ at <= NumItems
    /\ \A i \in 1..at : program.items[i].typed

Scheduling ==
    /\ ran = 0
    /\ program.parses /\ WellTyped
    /\ at <= NumItems
    /\ InOrder
    /\ \A j \in DOMAIN schedules : schedules[j].operation \in 1..at
    /\ \A i \in 1..at : program.items[i].operation <=> Planned(i)

Executing == Settled /\ at = ran /\ ran <= NumStatements /\ AllSucceeded

Done == Settled /\ ran = NumStatements /\ AllSucceeded

Failed ==
    ran > 0 =>
        /\ Settled
        /\ ran <= NumStatements
        /\ \A i \in 1..ran : program.statements[i] = "fails" <=> i = ran

PhaseInv ==
    /\ phase = "parse" => Parsing
    /\ phase = "check" => Checking
    /\ phase = "schedule" => Scheduling
    /\ phase = "execute" => Executing
    /\ phase = "done" => Done
    /\ phase = "failed" => Failed

IInv == TypeOK /\ PhaseInv

(* Programs are finite sequences of declarations and statements. *)
LEMMA ProgramShape ==
    ASSUME program \in Programs
    PROVE  /\ program.items \in Seq(Items) /\ NumItems \in Nat
           /\ program.statements \in Seq({"succeeds", "fails"}) /\ NumStatements \in Nat
<1>1. \A S, n : \A s \in SeqOf(S, n) : s \in Seq(S)
  BY DEF SeqOf
<1> QED
  BY <1>1 DEF Programs, NumItems, NumStatements

LEMMA InitIInv == Init => IInv
<1> SUFFICES ASSUME Init PROVE IInv
  OBVIOUS
<1>1. capacity \in [Machines -> [Kinds -> Nat]]
  BY PipelineConstants DEF Init
<1> QED
  BY <1>1 DEF Init, IInv, TypeOK, PhaseInv, Parsing

(* A step that changes neither program nor plans nor effects keeps what they say. *)
LEMMA Frame ==
    ASSUME UNCHANGED <<program, schedules, ran>>
    PROVE  /\ Settled' <=> Settled
           /\ AllSucceeded' <=> AllSucceeded
           /\ WellTyped' <=> WellTyped
           /\ InOrder' <=> InOrder
           /\ \A i : Planned(i)' <=> Planned(i)
           /\ NumItems' = NumItems /\ NumStatements' = NumStatements
BY DEF Settled, AllSucceeded, WellTyped, InOrder, Planned, NumItems, NumStatements

LEMMA ParseKeeps == IInv /\ Parse => IInv'
<1> SUFFICES ASSUME IInv, Parse PROVE IInv'
  OBVIOUS
<1>1. TypeOK'
  BY Frame DEF Parse, Enter, IInv, TypeOK
<1>2. PhaseInv'
  BY Frame, ProgramShape DEF Parse, Enter, IInv, TypeOK, PhaseInv, Parsing, Checking, Failed
<1> QED
  BY <1>1, <1>2 DEF IInv

LEMMA CheckItemKeeps == IInv /\ CheckItem => IInv'
<1> SUFFICES ASSUME IInv, CheckItem PROVE IInv'
  OBVIOUS
<1>1. NumItems \in Nat
  BY ProgramShape DEF IInv, TypeOK
<1>2. TypeOK'
  BY Frame DEF CheckItem, Enter, IInv, TypeOK
<1>3. CASE program.items[at + 1].typed
  <2>1. phase' = "check" /\ at' = at + 1 /\ at \in Nat
    BY <1>3 DEF CheckItem, IInv, TypeOK
  <2>2. Checking'
    BY <1>1, <1>3, <2>1 DEF CheckItem, IInv, PhaseInv, Checking, NumItems
  <2> QED
    BY <1>2, <2>1, <2>2 DEF IInv, PhaseInv
<1>4. CASE ~program.items[at + 1].typed
  <2>1. phase' = "failed" /\ ran' = 0
    BY <1>4 DEF CheckItem, Enter, IInv, PhaseInv, Checking
  <2> QED
    BY <1>2, <2>1 DEF IInv, PhaseInv, Failed
<1> QED
  BY <1>3, <1>4

LEMMA CheckDoneKeeps == IInv /\ CheckDone => IInv'
<1> SUFFICES ASSUME IInv, CheckDone PROVE IInv'
  OBVIOUS
<1>1. NumItems \in Nat
  BY ProgramShape DEF IInv, TypeOK
<1>2. TypeOK'
  BY Frame DEF CheckDone, Enter, IInv, TypeOK
<1>3. WellTyped /\ InOrder
  BY DEF CheckDone, IInv, PhaseInv, Checking, WellTyped, InOrder
<1>4. PhaseInv'
  BY <1>1, <1>3, Frame DEF CheckDone, Enter, IInv, PhaseInv, Checking, Scheduling
<1> QED
  BY <1>2, <1>4 DEF IInv

(* An operation's plan goes behind the plans of the operations before it. *)
LEMMA ScheduleItemKeeps == IInv /\ ScheduleItem => IInv'
<1> SUFFICES ASSUME IInv, ScheduleItem PROVE IInv'
  OBVIOUS
<1>1. NumItems \in Nat /\ at \in Nat /\ at + 1 \in 1..NumItems
  BY ProgramShape DEF IInv, TypeOK, ScheduleItem
<1>2. Scheduling
  BY DEF ScheduleItem, IInv, PhaseInv
<1>3. NumItems' = NumItems /\ program' = program /\ phase' = phase /\ ran' = ran
  BY DEF ScheduleItem, NumItems
<1>4. at' = at + 1
  BY DEF ScheduleItem
<1>5. CASE ~program.items[at + 1].operation
  <2>1. schedules' = schedules
    BY <1>5 DEF ScheduleItem
  <2>2. TypeOK'
    BY <1>3, <1>4, <2>1 DEF ScheduleItem, IInv, TypeOK
  <2>3. ~Planned(at + 1)
    BY <1>1, <1>2 DEF Scheduling, Planned
  <2>4. Scheduling'
    BY <1>1, <1>2, <1>3, <1>4, <1>5, <2>1, <2>3, Frame DEF Scheduling
  <2> QED
    BY <1>3, <2>2, <2>4 DEF IInv, PhaseInv, ScheduleItem
<1>6. CASE program.items[at + 1].operation
  <2>1. PICK p : /\ p \in FeasiblePlans \cup {Infeasible}
                 /\ schedules' = Append(schedules, [operation |-> at + 1, plan |-> p])
    BY <1>6 DEF ScheduleItem, PlansOf, Schedules
  <2> DEFINE Step == [operation |-> at + 1, plan |-> p]
             Steps == [operation : 1..NumItems, plan : FeasiblePlans \cup {Infeasible}]
             n == Len(schedules)
  <2>2. Step \in Steps
    BY <1>1, <2>1
  <2>3. schedules \in Seq(Steps) /\ n \in Nat /\ DOMAIN schedules = 1..n
    BY DEF IInv, TypeOK
  <2>4. schedules' = Append(schedules, Step)
    BY <2>1
  <2> HIDE DEF Step, Steps
  <2>5. /\ schedules' \in Seq(Steps) /\ DOMAIN schedules' = 1..n + 1
        /\ \A j \in 1..n : schedules'[j] = schedules[j]
        /\ schedules'[n + 1] = Step
    BY <2>2, <2>3, <2>4
  <2>6. Step.operation = at + 1
    BY DEF Step
  <2>7. TypeOK'
    <3>1. Steps' = Steps
      BY <1>3 DEF Steps
    <3> QED
      BY <1>3, <1>4, <2>5, <3>1 DEF ScheduleItem, IInv, TypeOK, Steps
  <2>8. InOrder'
    BY <1>1, <1>2, <2>3, <2>5, <2>6 DEF InOrder, Scheduling
  <2>9. \A j \in DOMAIN schedules' : schedules'[j].operation \in 1..at'
    BY <1>1, <1>2, <1>4, <2>3, <2>5, <2>6 DEF Scheduling
  <2>10. \A i \in 1..at : Planned(i)' <=> Planned(i)
    BY <1>1, <2>3, <2>5, <2>6 DEF Planned
  <2>11. ASSUME NEW i, i = at + 1
         PROVE  Planned(i)'
    BY <2>3, <2>5, <2>6, <2>11 DEF Planned
  <2>12. \A i \in 1..at' : program'.items[i].operation <=> Planned(i)'
    <3> SUFFICES ASSUME NEW i \in 1..at' PROVE program'.items[i].operation <=> Planned(i)'
      OBVIOUS
    <3>1. CASE i \in 1..at
      BY <1>2, <1>3, <2>10, <3>1 DEF Scheduling
    <3>2. CASE i = at + 1
      BY <1>3, <1>6, <2>11, <3>2
    <3> QED
      BY <1>1, <1>4, <3>1, <3>2
  <2>13. Scheduling'
    BY <1>1, <1>2, <1>3, <1>4, <2>8, <2>9, <2>12 DEF Scheduling, WellTyped
  <2> QED
    BY <1>3, <2>7, <2>13 DEF IInv, PhaseInv, ScheduleItem
<1> QED
  BY <1>5, <1>6

LEMMA ScheduleDoneKeeps == IInv /\ ScheduleDone => IInv'
<1> SUFFICES ASSUME IInv, ScheduleDone PROVE IInv'
  OBVIOUS
<1>1. NumStatements \in Nat
  BY ProgramShape DEF IInv, TypeOK
<1>2. TypeOK'
  BY Frame DEF ScheduleDone, Enter, IInv, TypeOK
<1>3. Settled /\ AllSucceeded /\ ran = 0
  BY DEF ScheduleDone, IInv, PhaseInv, Scheduling, Settled, AllSucceeded
<1>4. PhaseInv'
  BY <1>1, <1>3, Frame DEF ScheduleDone, Enter, PhaseInv, Executing
<1> QED
  BY <1>2, <1>4 DEF IInv

LEMMA ExecuteStatementKeeps == IInv /\ ExecuteStatement => IInv'
<1> SUFFICES ASSUME IInv, ExecuteStatement PROVE IInv'
  OBVIOUS
<1>1. NumStatements \in Nat /\ ran \in Nat /\ ran' = ran + 1 /\ ran + 1 \in 1..NumStatements
  BY ProgramShape DEF IInv, TypeOK, PhaseInv, Executing, ExecuteStatement
<1>2. Settled /\ AllSucceeded /\ at = ran
  BY DEF ExecuteStatement, IInv, PhaseInv, Executing
<1>3. Settled'
  BY <1>2 DEF ExecuteStatement, Settled, WellTyped, InOrder, Planned, NumItems
<1>4. NumStatements' = NumStatements /\ program' = program
  BY DEF ExecuteStatement, NumStatements
<1>5. TypeOK'
  BY <1>1 DEF ExecuteStatement, Enter, IInv, TypeOK, NumItems
<1>6. CASE program.statements[at + 1] = "succeeds"
  <2>1. Executing'
    BY <1>1, <1>2, <1>3, <1>4, <1>6 DEF ExecuteStatement, Executing, AllSucceeded
  <2> QED
    BY <1>5, <1>6, <2>1 DEF ExecuteStatement, IInv, PhaseInv
<1>7. CASE program.statements[at + 1] # "succeeds"
  <2>1. program.statements[at + 1] = "fails"
    BY <1>1, <1>2, <1>7, ProgramShape DEF IInv, TypeOK, NumStatements
  <2>2. Failed'
    BY <1>1, <1>2, <1>3, <1>4, <2>1 DEF Failed, AllSucceeded
  <2> QED
    BY <1>5, <1>7, <2>2 DEF ExecuteStatement, Enter, IInv, PhaseInv
<1> QED
  BY <1>6, <1>7

LEMMA ExecuteDoneKeeps == IInv /\ ExecuteDone => IInv'
<1> SUFFICES ASSUME IInv, ExecuteDone PROVE IInv'
  OBVIOUS
<1>1. TypeOK'
  BY Frame DEF ExecuteDone, Enter, IInv, TypeOK
<1>2. PhaseInv'
  BY Frame DEF ExecuteDone, Enter, IInv, PhaseInv, Executing, Done
<1> QED
  BY <1>1, <1>2 DEF IInv

LEMMA NextIInv == IInv /\ [Next]_vars => IInv'
<1>1. IInv /\ UNCHANGED vars => IInv'
  BY Frame DEF vars, IInv, TypeOK, PhaseInv, Parsing, Checking, Scheduling, Executing,
              Done, Failed
<1> QED
  BY <1>1, ParseKeeps, CheckItemKeeps, CheckDoneKeeps, ScheduleItemKeeps, ScheduleDoneKeeps,
     ExecuteStatementKeeps, ExecuteDoneKeeps DEF Next

THEOREM Inductive == Spec => []IInv
BY InitIInv, NextIInv, PTL DEF Spec

(* run's state, plans and effects have the right types in every phase. *)
THEOREM TypeCorrect == Spec => []TypeOK
<1>1. IInv => TypeOK
  BY DEF IInv
<1> QED
  BY <1>1, Inductive, PTL

(* No effect before every declaration is checked and every operation planned once. *)
THEOREM ChecksComeFirst == Spec => []NothingRunsUnchecked
<1>1. IInv => NothingRunsUnchecked
  <2> SUFFICES ASSUME IInv, ran > 0 PROVE Settled
    BY DEF NothingRunsUnchecked, Settled
  <2> QED
    BY DEF IInv, TypeOK, PhaseInv, Parsing, Checking, Scheduling, Executing, Done, Failed
<1> QED
  BY <1>1, Inductive, PTL

(* run returns Ok exactly when every statement was executed and succeeded. *)
THEOREM ReportTellsEffects == Spec => []ReportIsExact
<1>1. IInv => ReportIsExact
  <2> SUFFICES ASSUME IInv PROVE ReportIsExact
    OBVIOUS
  <2>1. ran \in Nat /\ NumStatements \in Nat
    BY ProgramShape DEF IInv, TypeOK
  <2> QED
    BY <2>1 DEF IInv, TypeOK, PhaseInv, Parsing, Checking, Scheduling, Executing, Done, Failed,
               AllSucceeded, ReportIsExact
<1> QED
  BY <1>1, Inductive, PTL
-----------------------------------------------------------------------------
(***************************************************************************)
(* Where plans come from: each is one that the scheduler may return for    *)
(* its operation, on the machines of this run.                             *)
(***************************************************************************)
PlansAreAnswers ==
    \A j \in DOMAIN schedules :
        LET item == program.items[schedules[j].operation] IN
        item.operation /\ schedules[j].plan \in PlansOf(item)

LEMMA AnswersStep == IInv /\ PlansAreAnswers /\ [Next]_vars => PlansAreAnswers'
<1> SUFFICES ASSUME IInv, PlansAreAnswers, [Next]_vars PROVE PlansAreAnswers'
  OBVIOUS
<1>1. UNCHANGED <<capacity, program>>
  BY DEF Next, vars, Parse, CheckItem, CheckDone, ScheduleItem, ScheduleDone,
         ExecuteStatement, ExecuteDone
<1>2. CASE schedules' = schedules
  BY <1>1, <1>2 DEF PlansAreAnswers, PlansOf
<1>3. CASE ScheduleItem /\ program.items[at + 1].operation
  <2>1. PICK p \in PlansOf(program.items[at + 1]) :
           schedules' = Append(schedules, [operation |-> at + 1, plan |-> p])
    BY <1>3 DEF ScheduleItem
  <2> DEFINE Step == [operation |-> at + 1, plan |-> p]
             n == Len(schedules)
  <2>2. /\ n \in Nat /\ DOMAIN schedules = 1..n /\ DOMAIN schedules' = 1..n + 1
        /\ \A j \in 1..n : schedules'[j] = schedules[j]
        /\ schedules'[n + 1] = Step
    <3>1. \E S : schedules \in Seq(S)
      BY DEF IInv, TypeOK
    <3>2. schedules' = Append(schedules, Step)
      BY <2>1
    <3> HIDE DEF Step
    <3> QED
      BY <3>1, <3>2
  <2>3. Step.operation = at + 1 /\ Step.plan = p
    OBVIOUS
  <2> HIDE DEF n, Step
  <2>4. ASSUME NEW j \in DOMAIN schedules'
        PROVE  /\ program.items[schedules'[j].operation].operation
               /\ schedules'[j].plan \in PlansOf(program.items[schedules'[j].operation])
    <3>1. CASE j \in 1..n
      BY <2>2, <3>1 DEF PlansAreAnswers
    <3>2. CASE j = n + 1
      BY <1>3, <2>1, <2>2, <2>3, <3>2
    <3> QED
      BY <2>2, <2>4, <3>1, <3>2
  <2> QED
    BY <1>1, <2>4 DEF PlansAreAnswers, PlansOf
<1> QED
  BY <1>2, <1>3 DEF Next, vars, Parse, CheckItem, CheckDone, ScheduleItem, ScheduleDone,
                    ExecuteStatement, ExecuteDone

(* A plan the scheduler may return for an operation has room for each of its costs. *)
LEMMA AnswersFit ==
    ASSUME capacity \in [Machines -> [Kinds -> Nat]],
           NEW item \in Operations, NEW plan \in PlansOf(item), plan.feasible
    PROVE  /\ item.required = {} \/ plan.machine \in item.required
           /\ \A i \in DOMAIN item.costs :
                 item.costs[i].value # Bad =>
                     item.costs[i].value <= capacity[plan.machine][item.costs[i].kind]
<1> DEFINE C == Candidates(capacity, Idle, item.required, Concrete(item.costs))
<1>1. plan.machine \in C
  BY DEF PlansOf, Schedules, Infeasible
<1>2. /\ plan.machine \in Machines
      /\ item.required = {} \/ plan.machine \in item.required
      /\ Allocatable(capacity, Idle, plan.machine, Concrete(item.costs))
  BY <1>1 DEF Candidates
<1>3. ASSUME NEW i \in DOMAIN item.costs, item.costs[i].value # Bad
      PROVE  item.costs[i].value <= capacity[plan.machine][item.costs[i].kind]
  <2>1. item.costs[i] \in Costs
    BY DEF Operations, CostLists, SeqOf
  <2>2. item.costs[i].kind \in Kinds /\ item.costs[i].value \in Nat
    BY <1>3, <2>1, SchedulerConstants DEF Costs
  <2>3. /\ Concrete(item.costs)[i].kind = item.costs[i].kind
        /\ Concrete(item.costs)[i].value = item.costs[i].value
        /\ i \in DOMAIN Concrete(item.costs)
    BY <1>3 DEF Concrete
  <2>4. item.costs[i].value <= Remaining(capacity, Idle, plan.machine, item.costs[i].kind)
    BY <1>2, <2>3 DEF Allocatable
  <2>5. Idle[plan.machine][item.costs[i].kind] = 0
    BY <1>2, <2>2 DEF Idle
  <2> QED
    BY <1>2, <2>2, <2>4, <2>5 DEF Remaining
<1> QED
  BY <1>2, <1>3

(***************************************************************************)
(* Whatever the declarations and the machines, a feasible plan names a     *)
(* machine that can afford every single cost of its operation and that the *)
(* operation asked for, if it asked for any.                               *)
(***************************************************************************)
THEOREM FeasiblePlansFit == Spec => []PlansFitAlone
<1>1. Init => PlansAreAnswers
  BY DEF Init, PlansAreAnswers
<1>2. IInv /\ PlansAreAnswers => PlansFitAlone
  <2> SUFFICES ASSUME IInv, PlansAreAnswers, NEW j \in DOMAIN schedules,
                      schedules[j].plan.feasible
               PROVE  LET item == program.items[schedules[j].operation]
                          plan == schedules[j].plan
                      IN  /\ item.required = {} \/ plan.machine \in item.required
                          /\ \A i \in DOMAIN item.costs :
                                item.costs[i].value # Bad =>
                                    item.costs[i].value <= capacity[plan.machine][item.costs[i].kind]
    BY DEF PlansFitAlone
  <2> DEFINE item == program.items[schedules[j].operation]
  <2>1. item.operation /\ schedules[j].plan \in PlansOf(item)
    BY DEF PlansAreAnswers
  <2>2. item \in Items
    <3> DEFINE Steps == [operation : 1..NumItems, plan : FeasiblePlans \cup {Infeasible}]
    <3>1. schedules[j] \in Steps
      <4>1. schedules \in Seq(Steps)
        BY DEF IInv, TypeOK
      <4> HIDE DEF Steps
      <4> QED
        BY <4>1
    <3>2. schedules[j].operation \in 1..NumItems
      BY <3>1
    <3> QED
      BY <3>2, ProgramShape DEF IInv, TypeOK, NumItems
  <2>3. item \in Operations
    BY <2>1, <2>2 DEF Items, Declarations
  <2>4. capacity \in [Machines -> [Kinds -> Nat]]
    BY DEF IInv, TypeOK
  <2> QED
    BY <2>1, <2>3, <2>4, AnswersFit
<1> QED
  BY <1>1, <1>2, Inductive, AnswersStep, PTL DEF Spec
=============================================================================
