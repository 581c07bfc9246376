# limited-shell in TLA+

A model of the Rust core of limited-shell (`src/limited-core`): who may grant
what, how extents and machines are booked, and in which order a program is
checked, planned and run, what its statements and bodies do with scopes, errors and
machines, how sources are read and printed, and how expressions and conditions are
typed and evaluated.  TLC checks small instances; TLAPS proves the safety properties of
everything but the reading and printing of sources for every value of the constants.

## 1. Inventory

limited-shell is a library without threads of its own.  Its structures are used
through `&mut self`, so two calls on one structure never overlap.  What is hard
is what *sequences* of legal calls reach, what a loop leaves behind when it stops
half-way, and what an answer is worth after the state it was computed from has
changed.

| Component | Code | State | Operations | Made correct by |
|---|---|---|---|---|
| Role hierarchy | `ty.rs` 834-1095, `RoleEnv` | name table, directed graph | add_role, set_parent, is_descendant, resolve_down, get_parent, get_ancestors, detect_cycles, would_create_cycle | searches that end and answer descent on every graph; no cycle through add_role |
| Policy engine | `ty.rs` 1098-1322 | rules, grants, permission cache | add_rule, add_role, add_grant, build_cache, can_check, has_permission | a cannot rule is final; no permission leaks between families |
| Grant system | `ty.rs` 1370-1485 | issued keys, a policy engine | process_grant, check_authority | grants only downwards in the hierarchy, one per key |
| Extent engine | `resource.rs` 240-565 | devices with direct and inherited pools, device parents | add_device, set_device_parent, resolve_inheritance, allocate, deallocate, cost rules | no overcommitment, nothing handed out twice |
| Scheduler | `scheduler.rs` 300-503 | machines (not booked by schedule) | schedule | a plan can be booked |
| Machine table | `scheduler.rs` 66-135 | capacity and bookings per extent | allocate, deallocate | no overbooking, releases return what was taken |
| Pipeline | `pipeline.rs` | none between runs | parse, type_check, schedule_operations, execute_program | phases in order over the whole program, a report that tells what was done |
| Execution engine | `execute.rs` | scopes, current machine, the transport | execute_stmt, execute_op_body, execute_func_body, eval_expr | no way out takes scopes from around a statement, no error is lost, finally always runs; calls in order and on the right machine |
| Type registry, checker | `ty.rs` 20-453 | aliases, resources, environments | register, resolve, check_expr, check_let | resolution ends, what is checked does not fail for its types |
| Condition evaluator | `ty.rs` 455-830, `execute.rs` 1154-1240 | none | evaluate_pred, eval_condition_pred | two evaluators, one meaning |
| Registries, cost tracker | `resource.rs` 20-240, 585-790 | maps, counters | insert, look up, record | - |
| Parser, syntax tree, printer | `parser.rs`, `ast.rs`, `pretty.rs` | token position | tokenize, parse, pretty_print | printing and parsing are inverse, operators group, no clause is lost |
| Remote transport | `remote.rs` | a recorder's log | exec, shell, transfer, remote_read, ... | - |
| Lean models | `lean/` | - | - | another formal model, not code that runs |

How they interact: `Pipeline::run` calls the parser, the type registry, the
scheduler (a fresh one for every operation, built from the machine registry) and
the execution engine, which reads the registries and calls the transport.
`GrantSystem` owns a `PolicyEngine`, which owns a `RoleEnv`; `can_check` calls the
condition evaluator.  The extent engine and `MachineInfo` are tables that their
callers book on.  The pipeline consults neither the policy engine nor the grant
system.

`PROJECT.json` lists the hazards of this code line by line, each with the
properties that would catch it.

## 2. Modules

| Module | Models | Built on |
|---|---|---|
| `RoleEnv` | the graph operators: children, descent, acyclicity, `would_create_cycle` | - |
| `RoleGraph` | the graph and the visited set of a search | `RoleEnv` |
| `RoleSearch` | `is_descendant` and `resolve_down`, one step of a loop at a time | `RoleGraph` |
| `CycleSearch` | `detect_cycles` with its recursion as a stack | `RoleGraph` |
| `GrantSystem` | `GrantSystem` with its `PolicyEngine` and role table | `RoleEnv`, implements `Delegation` |
| `Delegation` | abstract: a growing strict order, authorised first issues | - |
| `ExtentEngine` | devices, pools, inheritance, cost rules | - |
| `CostScheduler` | `schedule` as operators | - |
| `MachineInfo` | `allocate` and `deallocate`, one cost entry at a time | `CostScheduler`, implements `Reservations` |
| `Reservations` | abstract: a booking of all its amounts or none, at one instant | - |
| `Pipeline` | `Pipeline::run`, one turn of a phase's loop at a time | `CostScheduler` |
| `Executor` | the execution of statements, one call's progress at a time | - |
| `Values` | runtime values, operators and built-in functions | - |
| `Ast` | the trees of expressions, predicates and types | `Values` |
| `Displays` | the texts of values and types | `Ast` |
| `Expressions` | expressions, scopes and `eval_expr` | `Ast` |
| `TypeChecker` | types, environments, aliases, `check_expr`, `check_let` | `Expressions` |
| `Conditions` | predicates and both evaluators | `Expressions` |
| `Typing` | a body, checked and executed side by side | `TypeChecker`, `Conditions` |
| `Bodies` | operation, function and task bodies and the calls they make | - |
| `Tokens` | the lexer | `Ast` |
| `Parser` | every parse function, from tokens to trees | `Tokens` |
| `Printer` | every print function, from trees to words and symbols | `Parser` |
| `Syntax` | sources, written a piece at a time, parsed, printed, parsed again | `Printer` |
| `MC...` | what an instance needs for TLC (symmetry) | the module of that name |
| `..._proofs` | the theorems about a module (`RoleSearches_proofs` about both searches) | the module of that name |

Operators marked *Mutant* in a module are plausible mistakes in the definition
that follows them.  No specification uses them: they are there to show that each
property fails when the code is wrong in that way.

### Correspondence

**RoleEnv.**  The petgraph graph is a set of edges `<<parent, child>>`; equal edges
change no answer.  `Descends` is stated without recursion ("in every set that
holds the children of a and is closed under children"), and `RoleSearch` shows
that the code's searches compute it.  Order of neighbours is petgraph's in the
code and any order in the model.

**RoleSearch, CycleSearch.**  `set_parent` is public and checks nothing, so the
initial graph is any set of edges.  An action is one turn of a loop: `Hit`, `Visit`,
`Skip` are the three things done with a neighbour, `Dequeue` the outer loop.  In
`CycleSearch` a frame of the stack is one active call of `dfs_detect_cycle` with
the neighbours it has not looked at.

**GrantSystem.**  One action for each public call; `process_grant` is split by its
outcome (`RefuseDuplicate`, `RefuseAuthority`, `AcceptGrant`).  The key of a grant
is (target, operation, variable, resource type), recorded *before* authority is
checked, as in the code.  Queries (`CanCheck`, `GetAncestors`) are operators.
Conditions are members of a set and a context is the set of conditions that hold.
`by`, the grantor, is history; the code does not store it.  `add_grant`, which
checks nothing, has no action of its own: a `GrantSystem` keeps its engine private
and calls it from `process_grant` only.  A `PolicyEngine` used on its own is left
out.

**ExtentEngine.**  A pool has a capacity of -1 when there is none.  Amounts are words
of `WordSize` values and sums wrap as in a release build; `saturating_*` saturates.
Devices arrive with direct pools, the way `Device::new` and `add_extent` make them.
`held` and `granted` are history.  `resolve_inheritance` loops until nothing
changes, but copies direct pools only, so its first pass is already the fixpoint:
one action.

**CostScheduler, MachineInfo.**  `schedule` filters machines by required names and
by each cost entry *on its own*.  The score only picks one of the candidates: any
candidate is allowed.  `allocate` and `deallocate` change the table entry by entry
and `allocate` may stop in the middle; `call` is the call that is running.  The
models of clients (one booking each, at a machine of their choice or from the last
plan) are the environment.

**Pipeline.**  A program is what the phases tell apart: whether it parses, whether
each declaration is well typed, whether each statement succeeds.  `ran` counts
statements begun, which is what a failed run leaves behind.  A cost without a
constant value is 0 (`unwrap_or(0)`); a resource type in `choose` ends up among the
required machine names (`Stranger`).

**Executor.**  The program is open: whenever a body goes on, any statement may come
next, and any expression, condition, collection or remote call may fail.  Each
behaviour is an execution of some program, and every program's executions are among
them; the turns of one loop may differ, as they may in a program with conditions.
`stack` holds the active calls: the body each one executes (`kind`), what is left of
a loop (`turns`), the clauses of a try, and the error a finally body is to be
followed by (`stash`, the local `catch_result` or `e`).  `error` is the `Err` on its
way through the `?` of the callers.  `scopes` is the length of the scope stack; what
names are bound to is left out, and so is `current_machine`: statements set it and
never read it.  Both are in `Bodies`.  A body that is empty counts as no clause, which is what the code
asks (`is_empty`).  `begun` bounds a behaviour; `raised`, `caught`, `replaced`,
`finals` and `base` are history.

**Values, Expressions.**  A runtime value is a tuple that begins with its type name.
`i64` and `u64` keep their relation but are scaled down to `Top`; sums and products
wrap as in a release build, and what panics in every build is `Panic`.  A result is
`Ok`, `Err` with the name of the error, or `Panic`; `Then` is the `?` operator.  A
template is a sequence of texts and references, the outcome of the scanner's work in
`eval_expr`.  `Eval` follows `eval_expr` case by case, with its order of evaluation:
the first operand that fails is the one reported.  The expressions of a program are a
finite set of trees (`AllExprs`, with `Nesting` as the depth of a tree), and `Eval` is a
recursive function on it that gives an expression its outcome from those of its operands.

**TypeChecker, Conditions, Typing.**  `resolve_type` and `resolve_type_deep` recurse on
aliases until the stack overflows when they meet a cycle: the functions count down
from the number of aliases (`Fuel`) and give `Endless`.  `check_expr` and the judgements
of a condition (`PolicyJudgement`, `RunJudgement`) are recursive functions on the trees of
the program, like `Eval`; how a value or a type is shown is a constant, to which the
instance gives the operators of `Displays`.  `Conditions` has the evaluator of the
policy side (`ty.rs`, in which nothing fails and what does not fit is Null) next to that of the
execution side (`execute.rs`).  In `Typing` a statement is one action that checks it,
as the pipeline does, and executes it, as the engine does; `loose` remembers the
names of which the checker has not seen a value (parameters, annotated lets, `read
json`, `choose`).

**Bodies.**  One execution context runs bodies one after the other, as a caller of
`execute_op_body`, `execute_func_body` and `on machine` blocks does.  Statements are
their kind, the name they bind or read and the machine they name; an expression has any
value or fails.  `NextMachine` is the end of one turn of the loop over machines and the
beginning of the next; an error leaves `scopes` and `machine` as they are.  The
transport is one of those in `remote.rs`, or one that may fail, with or without an
interactive mode of its own.  `calls` and `entry` are history.

**Tokens, Parser, Printer.**  A text is a sequence of lexemes; white space only matters
where the lexer's treatment of a number reaches into the next word.  A parse function
is a rule: a sequence of parts (an expected token, an optional one, a node, a
repetition with its stop symbols), read in order, with a node or a failure as the
outcome.  Optional nodes are sequences of at most one.  Printed text is a sequence of
lexemes again: layout is left out, quotes and escapes are not.

## 3. Runs

Each ends within two minutes on a small machine.

| Run | Shows |
|---|---|
| `Grants` | The hierarchy stays acyclic; every grant in force keeps an authorised grantor; one grant per key; `get_ancestors` lists ancestors only; the cache leaks nothing between unconnected families; the calls refine `Delegation`; once a cannot rule covers a request it is never granted again. |
| `RoleSearch` | Both breadth-first searches are right, list nothing twice and end, on all graphs of three roles. |
| `CycleSearch` | `detect_cycles` names only roles on cycles and at least one of each cycle, and ends. |
| `Extents` | Pools never exceed capacity, a device has one pool per extent, what is held stays booked, and `can_satisfy` before `allocate` keeps a cost rule. |
| `Booking` | No overbooking, also within a loop; what is held stays booked; a fresh plan can be booked; the loops refine `Reservations`. |
| `Programs` | Nothing runs before all is checked and planned; the result tells exactly what was done; plans fit. |
| `Statements` | No statement takes a scope from those around it, with errors or without; without errors every scope is popped; no error is lost; a finally body begins exactly once. |
| `Bodies` | Calls of a body are made once, in order, and none after a failure or a return; a call without a machine of its own goes to the machine named last, by the body or before it; a body changes no variable around its scope but those it binds. |
| `Typing` | An expression the checker accepts and is right about evaluates to a value of its type or meets a fault no type shows; alias resolution ends exactly for types that reach no cycle; the two evaluators agree where they share a meaning. |
| `Syntax` | Programs the printer has a text for survive printing and parsing; operators group by precedence from left to right; a `cannot` in a role is a denial. |

Two runs show where the code does not do what its documentation says
(`findings` in `PROJECT.json` quotes the lines):

| Run | What it shows |
|---|---|
| `GrantScope` | `can_check` ignores its role, so a grant to one role lets every role pass. |
| `ReleaseLeak` | `deallocate` gives back one unit per entry, whatever was booked. |

Three more configurations are meant to be violated when run by hand, with
`tlc -config X.cfg M`:

| Configuration | Module | What it shows |
|---|---|---|
| `RefusedKeys.cfg` | `MCGrantSystem` | A grant refused for lack of authority is recorded as existing (`ty.rs:1423`): the same grant by someone entitled is then refused as a duplicate, although `ty.rs:1393` speaks of "existing grants". |
| `InfeasibleRuns.cfg` | `MCPipeline` | An operation without a feasible plan does not stop the program (`pipeline.rs:385`), although the repository's README promises limits that are enforced before anything runs. |
| `RoundTrips.cfg` | `MCSyntax` | Printing does not always round-trip, although `pretty.rs:1` says so: a command of one name is printed as `shell`, and section 6 lists other trees. |

### Bounds, and why they are enough

- *Three roles* are the fewest with a chain, a diamond's two parents, a cycle that
  is no self-loop next to a bystander, and a family that is not connected.  All
  512 graphs, self-loops too, are initial states of the searches.
- `Grants` has no resource types (only part of the key) and no conditions: a denial
  disregards them, and `DenialsAreFinal` covers them.  Two accepted grants
  (`MaxGrants`) are what `OneGrantPerKey` needs, one rule (`MaxRules`) next to a grant
  is what `DenyIsFinal` needs.
- `Extents`: two devices can inherit from each other and be registered again;
  capacities 0 and 2 and amounts 1 and 2 give empty, exact and partial fits; two
  extents give rules that combine sums.  `MaxGranted`, what is ever allocated of an
  extent, is 3: more than a capacity, so that a pool could be overdrawn.  `WordSize` 16 keeps all sums within a word: wrapping needs amounts
  near 2^64 in the code and is left to the definitions.
- `Booking`: costs of one or two units (`Values`), lists of up to two entries
  (`MaxCosts`) that may name one extent twice or hold an expression without a value,
  capacity 2: the second entry, or the second client, meets the limit.  A cost of
  zero is excluded: releasing it would take a unit from someone else (section 6).
- `Programs`: two declarations (before, after and next to an operation) and two
  statements (a success before or after a failure).
- `Statements`: seven statements (`MaxStatements`), three of them nested
  (`MaxDepth` counts the program too), three errors (`MaxErrors`): enough for a try
  inside each part of another try with an error in the body, in the catch and in the
  finally body.  Two turns (`MaxTurns`) make a loop with a turn after a turn.
- `Bodies`: two bodies (`MaxCalls`), so that one inherits the machine, the scopes and
  the failure of another; up to three statements, so that calls stand on both sides of
  an `on`; two machines in both orders, one of which may be hidden by a variable.
- `Typing`: three aliases and statements together (`MaxSteps`), so that two aliases may form a
  cycle and two variables may change their types one after the other; `Top` = 3 puts
  overflow, the quotient that does not fit and a byte count above `i64` within reach of
  two operations on 3 and 5.
- `Syntax`: four to six pieces per frame (`MaxChunks`), 1.8 million sources.  Each
  construct of the language is a frame or a piece of one; five pieces give two operators
  with three operands, a clause after a clause, a block in a block.  For each frame it was
  checked that sources within these bounds parse and reach the round trip.
- Permutations of role, machine, device, extent and client names are symmetries
  where a run uses them; no run with a liveness property does.

### Fairness

Weak fairness of the next step in `RoleSearch` and `CycleSearch` only: each is one call
of the program, a sequential search without waiting, which keeps taking steps while
it can.  Fairness of single actions is not assumed.  No run of a program is claimed to
end: without an error a parsed `while` never returns (`EndWhile`), a transport may hang,
and an alias cycle makes the type checker recurse until its stack overflows
(`AliasesResolve` says when).  So `Pipeline`, where each step is given to end, and
`Executor` have no liveness property.  Neither have the other modules: nothing obliges a
caller to make another call.

Deadlock is checked except where the modelled call returns (the two searches and
the pipeline), the program is over (`Statements`, `Bodies`, `Typing`) or a source is
written to its end (`Syntax`).

## 4. Theorems

Checked by tlapm; none depends on the bounds of the runs.  Every safety invariant and
every action property that the runs of the modules below check is a theorem, for all
values of the constants that satisfy the assumptions named further down.

| Module | Theorems, with the property each states |
|---|---|
| `GrantSystem_proofs` | `TypeCorrect`, `NoCycles` (`HierarchyAcyclic`), `AuthorityLasts` (`GrantsAuthorised`), `KeysUnique` (`OneGrantPerKey`), `DenialsAreFinal` (`DenyIsFinal`), `CacheDoesNotLeak` (`CacheConfined`), `AncestorsAreAbove` (`ParentChainAscends`), `Refinement` (`ImplementsDelegation`) |
| `RoleSearches_proofs` | `IsDescendantCorrect` (`AnswersDescent`), `ResolveDownCorrect` (`ResolvesDown`), `CyclesAreFound` (`CyclesFound`): partial correctness |
| `ExtentEngine_proofs` | `TypeCorrect`, `NoOvercommit` (`PoolsFit`), `DeallocationUnambiguous` (`OnePoolPerExtent`), `HeldStaysBooked` (`HeldIsBooked`), `CheckedAllocationsKeepRules` (`CheckedAllocationKeepsRule`) |
| `MachineInfo_proofs` | `TypeCorrect`, `NoOverbooking` (`NeverOverbooked`), `PlansCanBeBooked` (`PlansAreHonoured`), `HeldStaysBooked` (`HeldIsBooked`), `Refinement` (`ImplementsReservations`) |
| `Executor_proofs` | `TypeCorrect`, `ScopesAroundStay` (`EnclosingScopesStay`), `NoErrorLost` (`ErrorsAccounted`), `ScopesAreBalanced` (`ScopesBalance`), `FinallyBodiesRun` (`FinallyRuns`) |
| `Bodies_proofs` | `TypeCorrect`, `CallsAreInOrder` (`CallsInOrder`), `CallsGoWhereNamed` (`CallsFollowMachine`), `BindingsStayInside` (`BindingsConfined`) |
| `Pipeline_proofs` | `TypeCorrect`, `ChecksComeFirst` (`NothingRunsUnchecked`), `ReportTellsEffects` (`ReportIsExact`), `FeasiblePlansFit` (`PlansFitAlone`) |
| `Typing_proofs` | `ChecksHold` (`ChecksSuffice`), `AliasesAlwaysResolve` (`AliasesResolve`), `EvaluatorsAlwaysAgree` (`EvaluatorsAgree`) |

Assumptions on constants are named in the modules (`GrantConstants`, `NoneIsNoRole`,
`ExtentConstants`, `SchedulerConstants`, `BookingConstants`, `NoneIsNothing`,
`PipelineConstants`, `ExecutorConstants`, `BodiesConstants`, `ValueConstants`,
`ExpressionsAreTrees`, `PredicatesAreTrees`, `TypesAreTrees`, `TypingConstants`): special
values differ from ordinary ones, amounts are natural numbers, those who book are finitely
many, the expressions, conditions and types of a program are trees of the constructors of
`ast.rs` whose nesting has a bound (any bound, `MaxNesting`), and an execution context has
at least one scope.  Three theorems have hypotheses of their own, the ones their runs have
too:

- `HeldStaysBooked` and `Refinement` of `MachineInfo_proofs`: no cost is zero.  `deallocate` gives back
  one unit for each entry, so an entry of none would give back someone else's.
- `CheckedAllocationsKeepRules`: there are finitely many devices, and what the pools of
  two extents can hold together, with one more amount, is a word.  `can_satisfy` adds
  without a check, and above 2^64 it would say yes to anything.

The arguments:

- *Grants.*  The invariant adds `KeysRecorded` (every grant in force has its key in
  `existing`) to the four properties: without it nothing says that a fresh key is
  new among the grants.  Authority lasts because edges are only added and descent is
  monotone; acyclicity because a new cycle would go through the new edge and so
  close a path from child to parent, which the test excludes.  `DenyIsFinal` follows
  from rules being only added.  The refinement maps the edges to the order "above"
  and a grant to (grantor, target, slot, term); the step that extends the hierarchy
  keeps a strict order by transitivity and acyclicity.
- *Cache and ancestors.*  A cache that is older than the rules and grants still says
  what some rule or grant says, because both only grow, and roles that are connected
  stay so.  `get_ancestors` follows recorded parents; that each is an edge is invariant
  (`ParentIsEdge`), and a chain of edges is descent, shown from the first position of
  the chain at which it would not be.
- *Searches.*  What is visited or looked at descends from the root (`Sound`); the
  children of every node that has been expanded are visited, queued or still to be
  looked at (`Frontier`).  When nothing is left, the visited set is closed, and
  whatever descends lies in every closed set.  `Listed` ties the list of
  `resolve_down` to the visited set.
- *Cycles.*  The stack is a path of the graph (`ActivePath`), so an edge back into it
  closes a cycle: what is reported is on one.  That none is missed needs what a call has
  done with the neighbours it has looked at (`LookedAtEach`) and that the nodes it has
  left have no edges, other than through reported nodes, to those still active or not
  visited (`LeftIsSettled`).
- *Extents.*  `HeldIsBooked` needs `OnePoolPerExtent`: allocation draws on one pool,
  deallocation frees both.  A cost rule is kept because an allocation adds its amount to
  one sum, and sums that stay in the room there is do not wrap.
- *Machines.*  `NeverOverbooked` is inductive over the turns of the loop with the
  type of the running call.  A plan can be booked because what is left of it could be
  booked now (`PlanFits`), and an entry of another extent does not change that.
  `HeldIsBooked` speaks between calls only; its invariant (`Books`) says of a
  running `allocate` that the table covers the holdings and the entries passed, and
  of a running `deallocate` that it covers what others hold and the entries ahead.
- *Reservations.*  Only the ends of the two loops are steps of the abstract
  specification; a failed `allocate` keeps what it took in the table, but nobody holds it,
  so it is no step there.  That a booking fits next to all others is `Books` and
  `NeverOverbooked` together: what is held is covered by the table, and the table by the
  capacity.
- *Pipeline.*  `PhaseInv` says of each phase what its loop has dealt with so far;
  what holds when a loop is over is what the next phase starts from.
- *Executor.*  `Nested` says that each call began with at least the scopes of its
  caller and the one the caller opened, and that there are now at least the scopes of
  the innermost call: so what a call pops is its own.  Every action leaves the stack
  as it is, pushes a frame, pops one or swaps the innermost; the invariants are shown
  once for each of these, from what they do to the number of scopes and to the number
  of frames of a kind.  `NoErrorLost` needs `Carried`: only finally bodies hold an error
  back, and no error is held back twice or held back and on its way out; otherwise
  catching it, or dropping it, could take away one that is still carried elsewhere.
- *Bodies.*  The three properties are inductive together, with the machine that is
  current where a body stands (`OnMachines`) and the number of scopes around it
  (`ScopesNest`): a call is filed where the body stands, under the machine of that
  moment.
- *Typing.*  Values, types and judgements are recursive functions; that each exists is
  shown once, for a rank that falls with every call (`Recursion`, `BodyLocal`).
  `ChecksSuffice` goes by induction on the nesting of an expression, from the invariant
  `ScopesAgree`: a name whose value the checker has seen is bound to a value of the type
  it noted, in the scope where it noted it.  `EvaluatorsAgree` needs no invariant: two
  inductions, over expressions and then over conditions.  For `AliasesResolve` a type that
  reaches a cycle is `Endless` at every count; and one that is `Endless` with n steps left
  reaches n aliases and one more, if it reaches no cycle (`EndlessReachesMuch`), while
  `Fuel` is the number of all aliases.  That no alias is left in a result
  (`ResultsHaveNoAlias`) is an induction of its own.

Induction theorems of the library take operators as parameters and cannot be used.
Where a proof is by induction (over chains of parents, over the sets a sum is taken
over, over positions of a list) it goes by a least counterexample instead, from the
well-foundedness of `<` on numbers (`NatLessThanWellFounded`) and of strict inclusion of
finite sets (`FS_StrictSubsetOrderingWellFounded`).  The sums of the community modules
are recursive functions: each proof that reasons about one shows first that the
recursion has a solution, then that it is the sum.  `ExtentEngine_proofs` and
`MachineInfo_proofs` need different facts about sums and each has its own.

Only model-checked:

- the liveness properties (`SearchEnds`, `DetectionEnds`) and everything else
  about fairness and ENABLED, which are out of reach of the prover;
- `Syntax` (`RoundTrip`, `OperatorsGroup`, `DenialsKept`).  The modules below it
  (`Tokens`, `Parser`, `Printer`) declare RECURSIVE operators, of which the prover knows
  nothing, because a parser's recursion is over the tokens that are left and not over a
  set given beforehand.  No module with a theorem reaches one; `Displays` has one too and
  is used by instances only.

## 5. Plan

Done: the modules above, in the order GrantSystem and RoleEnv, the searches,
ExtentEngine, CostScheduler and MachineInfo, Pipeline, Executor (statements), then
values, expressions, types and conditions with Typing, Bodies, and last the lexer, the
parser and the printer with Syntax; and the theorems of section 4.

Next, in this order:

1. Registries and the cost tracker, if something is to be said about them.
2. A part of the grammar (operators and their grouping) as recursive functions on
   bounded sequences of tokens, so that `OperatorsGroup` can be proved for any length.

## 6. Seen in the code and not kept as runs

- The permission cache counts the operations of *cannot* rules as permissions:
  `collect_permissions` (`ty.rs:1191`) does not look at the rule's kind.
- `get_ancestors` (`ty.rs:1006`) follows the newest parent only and misses the others'
  ancestors; what it lists is right (`ParentChainAscends`).
- `detect_cycles` (`ty.rs:1059`) names the two ends of a back edge, not the roles in the
  middle of the cycle.
- `resolve_inheritance` (`resource.rs:442`) speaks of several passes, but grandchildren
  inherit nothing: only direct pools are copied.
- An inherited pool is a copy with the parent's usage in it, and `total_usage` adds up
  direct and inherited pools: usage of the parent counts once more for each child
  (`resource.rs:464`, `resource.rs:552`).
- A caught error of a `for` or `on machine` body leaves the scope of the loop behind
  (`execute.rs:689`): names bound in it are seen by what follows the try statement.
- `catch { }` catches nothing: an empty catch body counts as no catch clause
  (`execute.rs:624`).
- Every `while` loop runs on the condition `true` (`parser.rs:1904`) and its
  `tellmore` function is not kept.
- A plain sum rule whose `usage + limit` exceeds a word counts as satisfied in a
  release build (`resource.rs:512`).
- A plan whose costs name one extent twice may not be bookable: each entry is compared
  with all that remains (`scheduler.rs:418`).  `PlansAreHonoured` leaves such plans out.
- Releasing an entry of zero units takes one from another client (`scheduler.rs:131`).
- Plans of several operations may together exceed a machine: each is made on idle
  machines (`pipeline.rs:381`), and `check_constraints` accepts everything.
- The pipeline asks neither the policy engine nor the grant system, and type-checks
  declarations only.
- A cost that is no constant counts as zero (`pipeline.rs:416`).
- Denials disregard their conditions (`ty.rs:1223`): `cannot o if c` denies always.

Execution:

- A call before any `on` goes to `"local"` (`unwrap_or`, `execute.rs:932`), where
  `DESIGN_REMOTE.md` has an error `NoMachineContext`; and an `on machine` block leaves
  its last machine behind, although the field is documented as "none = global scope"
  (`execute.rs:28`).
- Bodies bind in the innermost scope of their caller, where `LIMITED.md:600` calls
  variables of a function lexically scoped.  A `requires` statement of a body comes when
  its turn comes, and the `requires` clauses of a declaration are printed and never
  evaluated (`LIMITED.md:602`: "evaluated before the function body begins").
- `can` holds in every condition that is executed (`execute.rs:1168`); `is` compares
  with resource types there and with names on the policy side, where every known role
  passes (`ty.rs:587`); `matches` is a glob there and a substring here.
- Values of `let` with a type are not compared with it, parameters have no value, and
  `choose` binds a text named after the type: the checker's answer about them says
  nothing (`loose` in `Typing`).  A call has type JSON whatever it returns.
- The index of an empty list and `i64::MIN / -1` panic in every build
  (`execute.rs:318`, `execute.rs:378`).

Parser and printer (`ProgramKept` in `Syntax` lists what does not survive printing):

- `+ - * /` share one precedence (`parser.rs:2381`): `a + b * c` is `(a + b) * c`.
- The role list of `can define operation for` takes what follows, `cannot` included,
  for a role (`parser.rs:704`).
- A number takes a suffix, `s` or one of bytes, from the beginning of the next word
  (`parser.rs:259`).
- `to`, `location`, `json`, `output`, `input`, `rate`, `path`, `otherwise` are no keywords
  although rules ask for them as such: `transfer` in an operation never parses
  (`parser.rs:1403`), `read json output as x` reads into a variable `json`, `failure
  otherwise` adds an empty condition, rate and path aliases never parse.
- Parameters whose type is a declared resource come out with type and name swapped
  (`parser.rs:2317`).
- Sizes of a machine's extents become keys (`parser.rs:1081`), and keys and disks are
  not printed back.
- `let x = a; }` at the end of an option block does not parse: the stray semicolon is
  skipped and a statement expected (`parser.rs:1237`).
- A grant without a condition takes an `if` statement that follows it for one.
- An `on machine` body is printed with braces the parser does not accept
  (`pretty.rs:476`); expressions are printed without parentheses (`pretty.rs:814`);
  `true` and `false` come back as variables.

## 7. Not modelled

Characters: comments, escapes, white space and words with digits or underscores (a
source is a sequence of lexemes); layout, positions and error texts.  Rates; scores of
machines (any candidate may win); the resource and machine registries and the cost
tracker, which are maps with insert and lookup; `pull`, which nothing calls; the Lean
models (not part of the running program); the panics of a debug build on overflow.
`Executor` and `Bodies` are not composed: a statement of `Executor` has an outcome
instead of calls, and around a body of `Bodies` is any sequence of bodies.
`set_parent` is modelled by its results,
graphs of every shape, and not as a call interleaved with grants: the grant system
goes through `add_role`.
