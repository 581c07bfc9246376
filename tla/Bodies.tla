-------------------------------- MODULE Bodies --------------------------------
(***************************************************************************)
(* What runs on machines: bodies of operations and functions, and task     *)
(* items under `on machine` (execute.rs), calling a transport (remote.rs). *)
(* One execution context serves all of them, one after the other, with its *)
(* scopes and its current machine.                                         *)
(*                                                                         *)
(* A statement is a record of its kind, the name it binds or reads and the *)
(* machine it names, None where it has none.  A value stands for the text  *)
(* it is shown as, which may be the name of a machine; an expression has   *)
(* any value, or fails.                                                    *)
(***************************************************************************)
EXTENDS Integers, Sequences, FiniteSetsExt

CONSTANTS Names,        \* variable names
          Machines,     \* machine names
          Values,       \* runtime values
          Null, Empty,  \* RuntimeValue::Null, the empty struct
          Local,        \* "local"
          None,         \* no name, no machine
          OpBodies, FuncBodies, TaskBodies,     \* bodies that may be executed
          MachineLists,                         \* machines of an `on machine` statement
          MaxCalls      \* bound: bodies executed

Calling == {"exec", "interactive", "shell", "setenv", "write", "read", "transfer", "remote"}

(* Statements whose call goes to the current machine; the others name theirs. *)
Ambient == Calling \ {"transfer", "remote"}

OpKinds == {"require", "choose", "let", "declare", "on", "exec", "interactive", "transfer",
            "shell"}

FuncKinds == {"require", "let", "declare", "on", "setenv", "exec", "interactive", "read",
              "write", "transfer", "note", "return"}

TaskKinds == {"let", "expr", "args", "remote", "note"}

Statements(kinds) ==
    {s \in [kind : kinds, name : Names \cup {None}, on : Machines \cup {None}] :
        /\ s.kind \in {"let", "choose", "read", "args", "remote"} => s.name # None
        /\ s.kind \in {"on", "remote"} => s.on # None}

ASSUME BodiesConstants ==
    /\ {Null, Empty} \subseteq Values
    /\ None \notin Machines /\ None \notin Values /\ None \notin Names
    /\ Local \notin Machines
    /\ OpBodies \subseteq Seq(Statements(OpKinds))
    /\ FuncBodies \subseteq Seq(Statements(FuncKinds))
    /\ TaskBodies \subseteq Seq(Statements(TaskKinds))
    /\ MachineLists \subseteq Seq(Machines)
    /\ MaxCalls \in Nat

VARIABLES transport,    \* which RemoteTransport there is
          scopes,       \* ExecutionContext.scopes
          machine,      \* ExecutionContext.current_machine
          body,         \* the statements or items being executed
          on,           \* machines a task body is executed on; <<>> for other bodies
          turn, pc,     \* machine and statement that come next
          status,       \* "idle", "running", "over", "returned" or "failed"
          calls,        \* history: calls the body has made so far
          entry,        \* history: scopes and machine when the body began
          begun         \* bodies executed

vars == <<transport, scopes, machine, body, on, turn, pc, status, calls, entry, begun>>

Targets == Machines \cup {Local} \cup Values

Scope == UNION {[D -> Values] : D \in SUBSET Names}

NoScope == [name \in {} |-> Null]

Init ==
    /\ transport \in {"noop", "test", "batch", "full"}
    /\ scopes = <<NoScope>>
    /\ machine = None
    /\ body = <<>> /\ on = <<>>
    /\ turn = 1 /\ pc = 1
    /\ status = "idle"
    /\ calls = <<>>
    /\ entry = [scopes |-> scopes, machine |-> None]
    /\ begun = 0

-----------------------------------------------------------------------------
(* The transport: NoopTransport and TestTransport succeed; others may fail, and those *)
(* that do not override exec_interactive do not support it.                           *)
Answers(kind) ==
    CASE transport \in {"noop", "test"} -> {TRUE}
      [] transport = "batch" /\ kind = "interactive" -> {FALSE}
      [] OTHER -> BOOLEAN

Readings ==
    CASE transport = "noop" -> {Empty}
      [] transport = "test" -> {Null}
      [] OTHER -> Values

(* Mutant: the machine is looked up once, when the body begins. *)
TargetAtEntry == IF entry.machine = None THEN Local ELSE entry.machine

(* get_machine().unwrap_or("local") *)
Target == IF machine = None THEN Local ELSE machine

-----------------------------------------------------------------------------
(* Variables. *)
Visible(name) == {i \in DOMAIN scopes : name \in DOMAIN scopes[i]}

Lookup(name) == scopes[Max(Visible(name))][name]

With(scope, name, value) ==
    [n \in DOMAIN scope \cup {name} |-> IF n = name THEN value ELSE scope[n]]

(* Mutant: a variable that is visible is changed where it is. *)
BindOutward(name, value) ==
    LET i == IF Visible(name) = {} THEN Len(scopes) ELSE Max(Visible(name))
    IN  scopes' = [scopes EXCEPT ![i] = With(@, name, value)]

(* In the innermost scope. *)
Bind(name, value) ==
    scopes' = [scopes EXCEPT ![Len(scopes)] = With(@, name, value)]

-----------------------------------------------------------------------------
(* Bodies. *)
Ready == status # "running" /\ begun < MaxCalls

Begin(stmts, machines) ==
    /\ Ready
    /\ body' = stmts /\ on' = machines
    /\ turn' = 1 /\ pc' = 1
    /\ status' = "running"
    /\ calls' = <<>>
    /\ entry' = [scopes |-> scopes, machine |-> machine]
    /\ begun' = begun + 1
    /\ UNCHANGED transport

(* Operations and functions run in the scopes they find, on the machine they find. *)
BeginOp(stmts) == Begin(stmts, <<>>) /\ UNCHANGED <<scopes, machine>>

BeginFunc(stmts) == Begin(stmts, <<>>) /\ UNCHANGED <<scopes, machine>>

(* on machine { items }: each machine gets a scope of its own. *)
BeginBlock(machines, items) ==
    /\ machines # <<>>
    /\ Begin(items, machines)
    /\ scopes' = Append(scopes, NoScope)
    /\ machine' = machines[1]

(* on machine name; and on machine set name; which takes the first of the set. *)
SetMachine(machines) ==
    /\ Ready
    /\ machines # <<>>
    /\ machine' = machines[1]
    /\ begun' = begun + 1
    /\ status' = "idle"
    /\ body' = <<>> /\ on' = <<>> /\ turn' = 1 /\ pc' = 1 /\ calls' = <<>>
    /\ entry' = [scopes |-> scopes, machine |-> machines[1]]
    /\ UNCHANGED <<transport, scopes>>

-----------------------------------------------------------------------------
(* Statements. *)
Statement == body[pc]

At(kinds) == status = "running" /\ pc <= Len(body) /\ Statement.kind \in kinds

Unmoved == UNCHANGED <<transport, body, on, turn, entry, begun>>

GoOn == pc' = pc + 1 /\ UNCHANGED status

Stop(s) == status' = s /\ UNCHANGED pc

(* An expression or a condition fails, or a variable is not bound. *)
Fail ==
    /\ At({"require", "let", "exec", "interactive", "write", "transfer", "return", "expr",
           "remote"})
    /\ Stop("failed")
    /\ Unmoved /\ UNCHANGED <<scopes, machine, calls>>

(* A condition holds, a declaration has no initial value, a directive has no effect. *)
Skip ==
    /\ At({"require", "declare", "note", "expr"})
    /\ GoOn
    /\ Unmoved /\ UNCHANGED <<scopes, machine, calls>>

(* let and bindings of tasks; the placeholder of choose. *)
LetBind ==
    /\ At({"let", "choose"})
    /\ \E v \in Values : Bind(Statement.name, v)
    /\ GoOn
    /\ Unmoved /\ UNCHANGED <<machine, calls>>

(* Arguments of an operation in a task are variables. *)
Arguments ==
    /\ At({"args"})
    /\ IF Visible(Statement.name) = {} THEN Stop("failed") ELSE GoOn
    /\ Unmoved /\ UNCHANGED <<scopes, machine, calls>>

OnMachine ==
    /\ At({"on"})
    /\ machine' = Statement.on
    /\ GoOn
    /\ Unmoved /\ UNCHANGED <<scopes, calls>>

(* Mutant: the error of a call is dropped. *)
CallIgnored(target, ok) ==
    /\ calls' = Append(calls, [turn |-> turn, at |-> pc, on |-> target, ok |-> ok])
    /\ GoOn

(* A call of the transport, and its error. *)
Call(target, ok) ==
    /\ calls' = Append(calls, [turn |-> turn, at |-> pc, on |-> target, ok |-> ok])
    /\ IF ok THEN GoOn ELSE Stop("failed")

(* exec, exec interactive, a shell command, setenv and write json. *)
Effect ==
    /\ At({"exec", "interactive", "shell", "setenv", "write"})
    /\ \E ok \in Answers(Statement.kind) : Call(Target, ok)
    /\ Unmoved /\ UNCHANGED <<scopes, machine>>

ReadJson ==
    /\ At({"read"})
    /\ \E ok \in Answers("read") :
            /\ Call(Target, ok)
            /\ IF ok THEN \E v \in Readings : Bind(Statement.name, v) ELSE UNCHANGED scopes
    /\ Unmoved /\ UNCHANGED machine

(* The machine of a transfer is an expression. *)
Transfer ==
    /\ At({"transfer"})
    /\ \E v \in Values, ok \in Answers("transfer") : Call(v, ok)
    /\ Unmoved /\ UNCHANGED <<scopes, machine>>

(* A variable with the name of the machine takes its place. *)
RemoteTarget(name) == IF Visible(name) = {} THEN name ELSE Lookup(name)

RemoteWrite ==
    /\ At({"remote"})
    /\ Visible(Statement.name) # {}
    /\ \E ok \in Answers("remote") : Call(RemoteTarget(Statement.on), ok)
    /\ Unmoved /\ UNCHANGED <<scopes, machine>>

Return ==
    /\ At({"return"})
    /\ Stop("returned")
    /\ Unmoved /\ UNCHANGED <<scopes, machine, calls>>

-----------------------------------------------------------------------------
(* The end of a body, or of its turn on one machine. *)
AtEnd == status = "running" /\ pc > Len(body)

EndBody ==
    /\ AtEnd /\ on = <<>>
    /\ Stop("over")
    /\ Unmoved /\ UNCHANGED <<scopes, machine, calls>>

(* pop_scope, then push_scope for the next machine. *)
NextMachine ==
    /\ AtEnd /\ turn < Len(on)
    /\ turn' = turn + 1 /\ pc' = 1
    /\ machine' = on[turn + 1]
    /\ scopes' = [scopes EXCEPT ![Len(scopes)] = NoScope]
    /\ UNCHANGED <<transport, body, on, status, calls, entry, begun>>

EndBlock ==
    /\ AtEnd /\ on # <<>> /\ turn = Len(on)
    /\ scopes' = SubSeq(scopes, 1, Len(scopes) - 1)
    /\ Stop("over")
    /\ Unmoved /\ UNCHANGED <<machine, calls>>

Next ==
    \/ \E stmts \in OpBodies : BeginOp(stmts)
    \/ \E stmts \in FuncBodies : BeginFunc(stmts)
    \/ \E machines \in MachineLists, items \in TaskBodies : BeginBlock(machines, items)
    \/ \E machines \in MachineLists : SetMachine(machines)
    \/ Fail \/ Skip \/ LetBind \/ Arguments \/ OnMachine \/ Effect \/ ReadJson
    \/ Transfer \/ RemoteWrite \/ Return
    \/ EndBody \/ NextMachine \/ EndBlock

Spec == Init /\ [][Next]_vars

-----------------------------------------------------------------------------
(* Every variable holds a value of its kind. *)
TypeOK ==
    /\ transport \in {"noop", "test", "batch", "full"}
    /\ scopes \in Seq(Scope) /\ scopes # <<>>
    /\ machine \in Machines \cup {None}
    /\ body \in OpBodies \cup FuncBodies \cup TaskBodies \cup {<<>>}
    /\ on \in Seq(Machines)
    /\ turn \in Nat \ {0} /\ pc \in Nat \ {0} /\ begun \in Nat
    /\ status \in {"idle", "running", "over", "returned", "failed"}
    /\ calls \in Seq([turn : Nat, at : Nat, on : Targets \cup Machines, ok : BOOLEAN])
    /\ entry \in [scopes : Seq(Scope), machine : Machines \cup {None}]

(***************************************************************************)
(* Each statement that was executed has made its call, once for every      *)
(* machine of a task body and in order; nothing after the statement that   *)
(* failed or returned has made one, and only the last call may have failed.*)
(***************************************************************************)
Before(t, k) == t < turn \/ (t = turn /\ k < pc)

CallsInOrder ==
    /\ \A i, j \in DOMAIN calls : i < j =>
            \/ calls[i].turn < calls[j].turn
            \/ calls[i].turn = calls[j].turn /\ calls[i].at < calls[j].at
    /\ \A i \in DOMAIN calls :
            /\ body[calls[i].at].kind \in Calling
            /\ Before(calls[i].turn, calls[i].at) \/ (i = Len(calls) /\ status = "failed")
            /\ calls[i].ok \/ (i = Len(calls) /\ status = "failed")
    /\ \A t \in 1..turn, k \in DOMAIN body :
            Before(t, k) /\ body[k].kind \in Calling =>
                \E i \in DOMAIN calls : calls[i].turn = t /\ calls[i].at = k

(***************************************************************************)
(* get_machine: a call without a machine of its own goes to the machine    *)
(* the body named last before it; to the machine its caller was on, before *)
(* the body has named one; and to "local" only if nobody has ever named a  *)
(* machine.                                                                *)
(***************************************************************************)
NamedBefore(stmts, k) == {j \in 1..(k - 1) : stmts[j].kind = "on"}

AmbientAt(stmts, found, k) ==
    IF NamedBefore(stmts, k) # {} THEN stmts[Max(NamedBefore(stmts, k))].on
    ELSE IF found # None THEN found ELSE Local

CallsFollowMachine ==
    \A i \in DOMAIN calls :
        body[calls[i].at].kind \in Ambient =>
            calls[i].on = AmbientAt(body, entry.machine, calls[i].at)

(***************************************************************************)
(* bind: a body changes no variable of the scopes around the innermost, in *)
(* that one only the names its statements bind, and task items on machines *)
(* change no variable of their caller at all.                              *)
(***************************************************************************)
Bound == {body[k].name : k \in {k \in DOMAIN body : body[k].kind \in {"let", "choose", "read"}}}

BindingsConfined ==
    /\ Len(scopes) >= Len(entry.scopes)
    /\ \A i \in DOMAIN entry.scopes :
            scopes[i] # entry.scopes[i] =>
                /\ on = <<>> /\ i = Len(entry.scopes)
                /\ \A name \in DOMAIN entry.scopes[i] \ Bound :
                        name \in DOMAIN scopes[i] /\ scopes[i][name] = entry.scopes[i][name]
                /\ DOMAIN scopes[i] \subseteq DOMAIN entry.scopes[i] \cup Bound
=============================================================================
