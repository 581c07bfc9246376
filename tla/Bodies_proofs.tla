----------------------------- MODULE Bodies_proofs -----------------------------
(***************************************************************************)
(* The order, the machines and the bindings of what runs on machines: for  *)
(* every set of bodies of any length, of machines, names and values.       *)
(***************************************************************************)
EXTENDS Bodies, SequenceTheorems, NaturalsInduction, WellFoundedInduction, TLAPS

AllKinds == OpKinds \cup FuncKinds \cup TaskKinds

AnyStatement == Statements(AllKinds)

(* What kinds of statement a body holds depends on whether it runs on given machines. *)
BodyShape ==
    /\ body \in Seq(AnyStatement)
    /\ on # <<>> => \A k \in DOMAIN body : body[k].kind \notin Ambient

(* The current machine is what the body makes of the machine it found. *)
OnMachines ==
    status = "running" /\ on = <<>> => Target = AmbientAt(body, entry.machine, pc)

(* The scopes of the caller, and around a task body one more. *)
ScopesNest ==
    /\ entry.scopes # <<>>
    /\ on = <<>> => Len(scopes) = Len(entry.scopes)
    /\ on # <<>> /\ status = "running" => Len(scopes) = Len(entry.scopes) + 1

IInv ==
    /\ TypeOK /\ BodyShape
    /\ CallsInOrder
    /\ OnMachines /\ CallsFollowMachine
    /\ ScopesNest /\ BindingsConfined

-----------------------------------------------------------------------------
(* The greatest of some numbers up to n: what Max means on a set of positions. *)
LEMMA GreatestPosition ==
    ASSUME NEW n \in Nat, NEW S, S \subseteq 1 .. n, S # {}
    PROVE  Max(S) \in S /\ \A i \in S : i <= Max(S)
<1>. DEFINE T == {m \in Nat : n - m \in S}
<1>1. T # {}
  <2>1. PICK i \in S : TRUE
    OBVIOUS
  <2>2. n - i \in Nat /\ n - (n - i) = i
    BY <2>1
  <2>. QED  BY <2>2
<1>2. PICK m \in T : \A k \in T : ~ (k < m)
  <2>. DEFINE R == OpToRel(<, Nat)
  <2>1. IsWellFoundedOn(R, Nat)
    BY NatLessThanWellFounded
  <2>2. \A k \in T, j \in T : k < j => <<k, j>> \in R
    BY Zenon DEF OpToRel
  <2>3. T \subseteq Nat
    OBVIOUS
  <2>. HIDE DEF R, T
  <2>. QED  BY <1>1, <2>1, <2>2, <2>3, WFMin
<1>3. \A i \in S : i <= n - m
  <2>. SUFFICES ASSUME NEW i \in S PROVE i <= n - m
    OBVIOUS
  <2>1. n - i \in T
    BY n - (n - i) = i
  <2>. QED  BY <1>2, <2>1
<1>4. \E i \in S : \A j \in S : i >= j
  <2>1. n - m \in S
    BY <1>2
  <2>. QED  BY <1>3, <2>1
<1>5. Max(S) \in S /\ \A j \in S : Max(S) >= j
  BY <1>4 DEF Max
<1>. QED  BY <1>5

(***************************************************************************)
(* The machine a statement finds: what the statement before it found,      *)
(* unless that one names a machine.                                        *)
(***************************************************************************)
LEMMA FoundFirst ==
    ASSUME NEW stmts, NEW found
    PROVE  AmbientAt(stmts, found, 1) = IF found # None THEN found ELSE Local
<1>1. NamedBefore(stmts, 1) = {}
  BY DEF NamedBefore
<1>. QED  BY <1>1 DEF AmbientAt

LEMMA FoundNext ==
    ASSUME NEW stmts, NEW found, NEW k \in Nat \ {0}
    PROVE  AmbientAt(stmts, found, k + 1) =
               IF stmts[k].kind = "on" THEN stmts[k].on ELSE AmbientAt(stmts, found, k)
<1>1. NamedBefore(stmts, k + 1) =
          IF stmts[k].kind = "on" THEN NamedBefore(stmts, k) \cup {k} ELSE NamedBefore(stmts, k)
  <2>1. 1 .. (k + 1) - 1 = (1 .. k - 1) \cup {k}
    OBVIOUS
  <2>. QED  BY <2>1 DEF NamedBefore
<1>2. CASE stmts[k].kind = "on"
  <2>. DEFINE S == NamedBefore(stmts, k + 1)
  <2>1. k \in S /\ S # {}
    BY <1>1, <1>2
  <2>2. S \subseteq 1 .. k
    BY DEF NamedBefore
  <2>3. Max(S) \in S /\ k <= Max(S)
    <3>. HIDE DEF S
    <3>. QED  BY <2>1, <2>2, GreatestPosition
  <2>4. Max(S) = k
    <3>. DEFINE j == Max(S)
    <3>1. j \in 1 .. k /\ k <= j
      BY <2>2, <2>3
    <3>. HIDE DEF j
    <3>2. j = k
      BY <3>1
    <3>. QED  BY <3>2 DEF j
  <2>. QED  BY <1>2, <2>1, <2>4 DEF AmbientAt
<1>3. CASE stmts[k].kind # "on"
  <2>1. NamedBefore(stmts, k + 1) = NamedBefore(stmts, k)
    BY <1>1, <1>3
  <2>. QED  BY <1>3, <2>1 DEF AmbientAt
<1>. QED  BY <1>2, <1>3

-----------------------------------------------------------------------------
(* A scope with one more binding. *)
LEMMA ScopeWith ==
    ASSUME NEW s \in Scope, NEW name \in Names, NEW v \in Values
    PROVE  /\ With(s, name, v) \in Scope
           /\ DOMAIN With(s, name, v) = DOMAIN s \cup {name}
           /\ \A n \in DOMAIN s \ {name} : With(s, name, v)[n] = s[n]
<1>1. PICK D \in SUBSET Names : s \in [D -> Values]
  BY DEF Scope
<1>2. With(s, name, v) \in [D \cup {name} -> Values]
  BY <1>1 DEF With
<1>3. D \cup {name} \in SUBSET Names
  BY <1>1
<1>4. With(s, name, v) \in Scope
  BY <1>2, <1>3 DEF Scope
<1>. QED  BY <1>1, <1>4 DEF With

LEMMA EmptyScope == NoScope \in Scope
<1>1. NoScope \in [{} -> Values] /\ {} \in SUBSET Names
  BY DEF NoScope
<1>. QED  BY <1>1 DEF Scope

(* lookup finds a value where it finds a variable. *)
LEMMA LookupValue ==
    ASSUME TypeOK, NEW name, Visible(name) # {}
    PROVE  Lookup(name) \in Values
<1>1. scopes \in Seq(Scope) /\ Len(scopes) \in Nat
  BY DEF TypeOK
<1>2. Visible(name) \subseteq 1 .. Len(scopes)
  BY <1>1 DEF Visible
<1>. DEFINE i == Max(Visible(name))
<1>3. i \in Visible(name)
  BY <1>1, <1>2, GreatestPosition
<1>. HIDE DEF i
<1>4. scopes[i] \in Scope /\ name \in DOMAIN scopes[i]
  BY <1>1, <1>3 DEF Visible
<1>5. scopes[i][name] \in Values
  BY <1>4 DEF Scope
<1>. QED  BY <1>5 DEF Lookup, i

(* bind changes the innermost scope only. *)
LEMMA BindScopes ==
    ASSUME TypeOK, NEW name \in Names, NEW v \in Values, Bind(name, v)
    PROVE  /\ scopes' \in Seq(Scope) /\ scopes' # <<>>
           /\ Len(scopes') = Len(scopes)
           /\ \A i \in DOMAIN scopes : i # Len(scopes) => scopes'[i] = scopes[i]
           /\ LET s == scopes[Len(scopes)] t == scopes'[Len(scopes)] IN
              /\ DOMAIN t = DOMAIN s \cup {name}
              /\ \A n \in DOMAIN s \ {name} : t[n] = s[n]
<1>1. scopes \in Seq(Scope) /\ Len(scopes) \in Nat \ {0} /\ DOMAIN scopes = 1 .. Len(scopes)
  BY DEF TypeOK
<1>. DEFINE s == scopes[Len(scopes)]
            t == With(s, name, v)
<1>2. s \in Scope
  BY <1>1
<1>3. t \in Scope /\ DOMAIN t = DOMAIN s \cup {name} /\ \A n \in DOMAIN s \ {name} : t[n] = s[n]
  BY <1>2, ScopeWith
<1>4. scopes' = [scopes EXCEPT ![Len(scopes)] = t]
  BY DEF Bind
<1>. HIDE DEF t
<1>5. /\ scopes' \in Seq(Scope) /\ Len(scopes') = Len(scopes) /\ scopes'[Len(scopes)] = t
      /\ \A i \in DOMAIN scopes : i # Len(scopes) => scopes'[i] = scopes[i]
  BY <1>1, <1>3, <1>4
<1>6. scopes' # <<>>
  BY <1>1, <1>5
<1>. QED  BY <1>3, <1>5, <1>6

-----------------------------------------------------------------------------
(* The statement that runs. *)
LEMMA CurrentStatement ==
    ASSUME IInv, NEW kinds, At(kinds)
    PROVE  /\ status = "running" /\ pc \in DOMAIN body /\ pc \in Nat \ {0}
           /\ Statement = body[pc] /\ Statement.kind \in kinds
           /\ Statement.name \in Names \cup {None} /\ Statement.on \in Machines \cup {None}
           /\ Statement.kind \in {"let", "choose", "read", "args", "remote"} =>
                  Statement.name \in Names
           /\ Statement.kind \in {"on", "remote"} => Statement.on \in Machines
           /\ on # <<>> => Statement.kind \notin Ambient
<1>1. pc \in DOMAIN body /\ pc \in Nat \ {0}
  BY DEF IInv, TypeOK, BodyShape, At
<1>2. body[pc] \in AnyStatement
  BY <1>1 DEF IInv, BodyShape
<1>. QED  BY <1>1, <1>2 DEF IInv, BodyShape, At, Statement, AnyStatement, Statements

CallRecords == [turn : Nat, at : Nat, on : Targets \cup Machines, ok : BOOLEAN]

LEMMA CallsMade ==
    ASSUME TypeOK
    PROVE  /\ calls \in Seq(CallRecords) /\ Len(calls) \in Nat
           /\ DOMAIN calls = 1 .. Len(calls)
           /\ \A i \in DOMAIN calls : calls[i].turn \in Nat /\ calls[i].at \in Nat
<1>1. calls \in Seq(CallRecords)
  BY DEF TypeOK, CallRecords
<1>2. \A i \in DOMAIN calls : calls[i] \in CallRecords
  BY <1>1
<1>. QED  BY <1>1, <1>2 DEF CallRecords

(* Every statement keeps the body and what was found at its beginning. *)
LEMMA TypesKept ==
    ASSUME TypeOK, BodyShape, Unmoved,
           scopes' \in Seq(Scope), scopes' # <<>>, machine' \in Machines \cup {None},
           calls' \in Seq(CallRecords),
           GoOn \/ Stop("failed") \/ Stop("returned") \/ Stop("over")
    PROVE  TypeOK' /\ BodyShape'
BY DEF TypeOK, BodyShape, Unmoved, GoOn, Stop, CallRecords

(* A step without a call: the statement has none to make, or does not run to its end. *)
LEMMA NoCall ==
    ASSUME IInv, status = "running", UNCHANGED <<body, turn, calls, entry>>,
           \/ pc' = pc
           \/ pc' = pc + 1 /\ body[pc].kind \notin Calling
    PROVE  CallsInOrder' /\ CallsFollowMachine'
<1>. USE DEF IInv
<1>1. pc \in Nat \ {0} /\ turn \in Nat \ {0} /\ calls \in Seq(CallRecords)
  BY CallsMade DEF TypeOK
<1>2. \A i \in DOMAIN calls : calls[i].turn \in Nat /\ calls[i].at \in Nat
  BY CallsMade
<1>3. \A i \in DOMAIN calls : Before(calls[i].turn, calls[i].at) /\ calls[i].ok
  BY DEF CallsInOrder
<1>4. \A t \in Nat, k \in Nat : Before(t, k) => Before(t, k)'
  BY <1>1 DEF Before
<1>5. \A t \in Nat, k \in Nat :
          Before(t, k)' => Before(t, k) \/ (k = pc /\ body[pc].kind \notin Calling)
  BY <1>1 DEF Before
<1>6. DOMAIN body \subseteq Nat
  BY DEF BodyShape
<1>7. \A t \in 1 .. turn, k \in DOMAIN body :
          Before(t, k)' /\ body[k].kind \in Calling =>
              \E i \in DOMAIN calls : calls[i].turn = t /\ calls[i].at = k
  BY <1>1, <1>5, <1>6 DEF CallsInOrder
<1>8. \A i \in DOMAIN calls : Before(calls[i].turn, calls[i].at)'
  BY <1>2, <1>3, <1>4
<1>9. CallsInOrder'
  BY <1>3, <1>7, <1>8 DEF CallsInOrder
<1>10. CallsFollowMachine'
  BY DEF CallsFollowMachine
<1>. QED  BY <1>9, <1>10

(* A statement makes its call, which fails or not. *)
LEMMA OneCall ==
    ASSUME IInv, NEW target, NEW ok \in BOOLEAN, Call(target, ok), At(Calling),
           UNCHANGED <<body, turn, entry>>,
           Statement.kind \in Ambient => target = Target
    PROVE  CallsInOrder' /\ CallsFollowMachine'
<1>. USE DEF IInv
<1>. DEFINE new == [turn |-> turn, at |-> pc, on |-> target, ok |-> ok]
            n == Len(calls)
<1>1. pc \in Nat \ {0} /\ turn \in Nat \ {0} /\ calls \in Seq(CallRecords)
  BY CallsMade DEF TypeOK
<1>2. \A i \in DOMAIN calls : calls[i].turn \in Nat /\ calls[i].at \in Nat
  BY CallsMade
<1>3. /\ status = "running" /\ pc \in DOMAIN body /\ body[pc] = Statement
      /\ Statement.kind \in Calling
      /\ on # <<>> => Statement.kind \notin Ambient
  BY CurrentStatement
<1>4. \A i \in DOMAIN calls : Before(calls[i].turn, calls[i].at) /\ calls[i].ok
  BY <1>3 DEF CallsInOrder
<1>5. n \in Nat /\ DOMAIN calls = 1 .. n
  BY <1>1
<1>6. calls' = Append(calls, new) /\ (IF ok THEN GoOn ELSE Stop("failed"))
  BY DEF Call
<1>7. /\ Len(calls') = n + 1 /\ DOMAIN calls' = DOMAIN calls \cup {n + 1}
      /\ \A i \in DOMAIN calls : calls'[i] = calls[i]
      /\ calls'[n + 1] = new
  <2>. HIDE DEF new
  <2>. QED  BY <1>1, <1>5, <1>6
<1>8. \A i \in DOMAIN calls : i < n + 1 /\ ~(n + 1 < i) /\ i # n + 1
  BY <1>5
<1>9. new.turn = turn /\ new.at = pc /\ new.on = target /\ new.ok = ok
  OBVIOUS
<1>. HIDE DEF new, n
<1>10. /\ \A t \in Nat, k \in Nat : Before(t, k) => t < turn' \/ (t = turn' /\ k < pc')
       /\ ok => turn = turn' /\ pc < pc'
       /\ \A t \in Nat, k \in Nat :
              t < turn' \/ (t = turn' /\ k < pc') => Before(t, k) \/ (t = turn /\ k = pc)
  <2>1. turn' = turn /\ pc' \in {pc, pc + 1} /\ (ok => pc' = pc + 1)
    BY <1>6 DEF GoOn, Stop
  <2>. QED  BY <1>1, <2>1 DEF Before
<1>11. ~ok => status' = "failed"
  BY <1>6 DEF Stop
<1>12. \A i, j \in DOMAIN calls' : i < j =>
            \/ calls'[i].turn < calls'[j].turn
            \/ calls'[i].turn = calls'[j].turn /\ calls'[i].at < calls'[j].at
  <2>. SUFFICES ASSUME NEW i \in DOMAIN calls', NEW j \in DOMAIN calls', i < j
                PROVE  \/ calls'[i].turn < calls'[j].turn
                       \/ calls'[i].turn = calls'[j].turn /\ calls'[i].at < calls'[j].at
    OBVIOUS
  <2>1. i \in DOMAIN calls
    BY <1>5, <1>7, <1>8
  <2>2. CASE j \in DOMAIN calls
    BY <1>7, <2>1, <2>2 DEF CallsInOrder
  <2>3. CASE j = n + 1
    BY <1>4, <1>7, <1>9, <2>1, <2>3 DEF Before
  <2>. QED  BY <1>7, <2>2, <2>3
<1>13. \A i \in DOMAIN calls' :
            /\ body'[calls'[i].at].kind \in Calling
            /\ \/ calls'[i].turn < turn' \/ (calls'[i].turn = turn' /\ calls'[i].at < pc')
               \/ i = Len(calls') /\ status' = "failed"
            /\ calls'[i].ok \/ (i = Len(calls') /\ status' = "failed")
  <2>1. ASSUME NEW i \in DOMAIN calls
        PROVE  /\ body[calls[i].at].kind \in Calling /\ calls[i].ok
               /\ calls[i].turn < turn' \/ (calls[i].turn = turn' /\ calls[i].at < pc')
    <3>1. body[calls[i].at].kind \in Calling
      BY DEF CallsInOrder
    <3>2. calls[i].turn < turn' \/ (calls[i].turn = turn' /\ calls[i].at < pc')
      BY <1>2, <1>4, <1>10
    <3>. QED  BY <1>4, <3>1, <3>2
  <2>2. ok \/ (n + 1 = Len(calls') /\ status' = "failed")
    BY <1>7, <1>11
  <2>3. ok => turn < turn' \/ (turn = turn' /\ pc < pc')
    BY <1>10
  <2>. QED  BY <1>3, <1>7, <1>9, <2>1, <2>2, <2>3
<1>14. \A t \in 1 .. turn, k \in DOMAIN body :
            (t < turn' \/ (t = turn' /\ k < pc')) /\ body[k].kind \in Calling =>
                \E i \in DOMAIN calls' : calls'[i].turn = t /\ calls'[i].at = k
  <2>. SUFFICES ASSUME NEW t \in 1 .. turn, NEW k \in DOMAIN body,
                       t < turn' \/ (t = turn' /\ k < pc'), body[k].kind \in Calling
                PROVE  \E i \in DOMAIN calls' : calls'[i].turn = t /\ calls'[i].at = k
    OBVIOUS
  <2>1. t \in Nat /\ k \in Nat
    BY <1>1 DEF BodyShape
  <2>2. CASE Before(t, k)
    BY <1>7, <2>2 DEF CallsInOrder
  <2>3. CASE t = turn /\ k = pc
    BY <1>7, <1>9, <2>3
  <2>. QED  BY <1>10, <2>1, <2>2, <2>3
<1>15. CallsInOrder'
  BY <1>12, <1>13, <1>14 DEF CallsInOrder, Before
<1>16. Statement.kind \in Ambient => target = AmbientAt(body, entry.machine, pc)
  BY <1>3 DEF OnMachines
<1>17. CallsFollowMachine'
  BY <1>3, <1>7, <1>9, <1>16 DEF CallsFollowMachine
<1>. QED  BY <1>15, <1>17

(* A statement that names no machine leaves the current machine to the next. *)
LEMMA MachineKept ==
    ASSUME IInv, status = "running", UNCHANGED <<body, on, entry, machine>>,
           \/ status' # "running"
           \/ pc' = pc + 1 /\ body[pc].kind # "on"
    PROVE  OnMachines'
<1>1. pc \in Nat \ {0}
  BY DEF IInv, TypeOK
<1>2. Target' = Target
  BY DEF Target
<1>. QED  BY <1>1, <1>2, FoundNext DEF IInv, OnMachines

(* A statement that binds nothing. *)
LEMMA ScopesKept ==
    ASSUME IInv, UNCHANGED <<body, on, entry, scopes>>,
           status' = "running" => status = "running"
    PROVE  ScopesNest' /\ BindingsConfined'
BY DEF IInv, ScopesNest, BindingsConfined, Bound

(* A statement that binds its name. *)
LEMMA OneBinding ==
    ASSUME IInv, At({"let", "choose", "read"}), NEW v \in Values, Bind(Statement.name, v),
           UNCHANGED <<body, on, entry>>
    PROVE  ScopesNest' /\ BindingsConfined'
<1>. USE DEF IInv
<1>. DEFINE name == Statement.name
            n == Len(scopes)
            m == Len(entry.scopes)
<1>1. name \in Names /\ name \in Bound /\ status = "running" /\ Bound' = Bound
  BY CurrentStatement DEF Bound
<1>2. /\ scopes \in Seq(Scope) /\ n \in Nat \ {0} /\ DOMAIN scopes = 1 .. n
      /\ entry.scopes \in Seq(Scope) /\ m \in Nat /\ DOMAIN entry.scopes = 1 .. m
  BY DEF TypeOK
<1>3. /\ Len(scopes') = n
      /\ \A i \in DOMAIN scopes : i # n => scopes'[i] = scopes[i]
      /\ DOMAIN scopes'[n] = DOMAIN scopes[n] \cup {name}
      /\ \A x \in DOMAIN scopes[n] \ {name} : scopes'[n][x] = scopes[n][x]
  BY <1>1, BindScopes
<1>. HIDE DEF name, n, m
<1>4. ScopesNest'
  BY <1>1, <1>3 DEF ScopesNest, n
<1>5. CASE on # <<>>
  <2>1. n = m + 1
    BY <1>1, <1>5 DEF ScopesNest, n, m
  <2>2. \A i \in 1 .. m : i \in DOMAIN scopes /\ i # n
    BY <1>2, <2>1
  <2>3. \A i \in 1 .. m : scopes'[i] = entry.scopes[i]
    BY <1>2, <1>3, <1>5, <2>2 DEF BindingsConfined
  <2>4. n >= m
    BY <1>2, <2>1
  <2>. QED  BY <1>2, <1>3, <1>4, <2>3, <2>4 DEF BindingsConfined, m
<1>6. CASE on = <<>>
  <2>1. n = m
    BY <1>6 DEF ScopesNest, n, m
  <2>2. \A i \in 1 .. m : i # m => scopes'[i] = entry.scopes[i]
    BY <1>2, <1>3, <2>1 DEF BindingsConfined, m
  <2>3. \A x \in DOMAIN entry.scopes[m] \ Bound :
            x \in DOMAIN scopes[m] /\ scopes[m][x] = entry.scopes[m][x]
    BY <1>2, <2>1 DEF BindingsConfined, m
  <2>4. DOMAIN scopes[m] \subseteq DOMAIN entry.scopes[m] \cup Bound
    BY <1>2, <2>1 DEF BindingsConfined, m
  <2>5. DOMAIN scopes'[m] \subseteq DOMAIN entry.scopes[m] \cup Bound
    BY <1>1, <1>3, <2>1, <2>4
  <2>6. \A x \in DOMAIN entry.scopes[m] \ Bound :
            x \in DOMAIN scopes'[m] /\ scopes'[m][x] = entry.scopes[m][x]
    BY <1>1, <1>3, <2>1, <2>3
  <2>7. Len(scopes') >= m
    BY <1>2, <1>3, <2>1
  <2>. QED  BY <1>1, <1>2, <1>4, <1>6, <2>2, <2>5, <2>6, <2>7 DEF BindingsConfined, m
<1>. QED  BY <1>5, <1>6

-----------------------------------------------------------------------------
(***************************************************************************)
(* The proof, one step per action.                                         *)
(***************************************************************************)
LEMMA InitIInv == Init => IInv
<1>. SUFFICES ASSUME Init PROVE IInv
  OBVIOUS
<1>1. /\ scopes \in Seq(Scope) /\ scopes # <<>>
      /\ entry \in [scopes : Seq(Scope), machine : Machines \cup {None}]
      /\ entry.scopes = scopes
  BY EmptyScope DEF Init
<1>2. body = <<>> /\ on = <<>> /\ calls = <<>> /\ body \in Seq(AnyStatement) /\ on \in Seq(Machines)
  BY DEF Init
<1>3. TypeOK
  BY <1>1, <1>2 DEF Init, TypeOK
<1>4. BodyShape /\ CallsInOrder /\ CallsFollowMachine
  BY <1>2 DEF BodyShape, CallsInOrder, CallsFollowMachine
<1>5. OnMachines
  BY DEF Init, OnMachines
<1>6. ScopesNest /\ BindingsConfined
  BY <1>1, <1>2 DEF ScopesNest, BindingsConfined, TypeOK
<1>. QED  BY <1>3, <1>4, <1>5, <1>6 DEF IInv

(* A body begins with what it finds and has made no call. *)
LEMMA BeginStep ==
    ASSUME IInv, NEW stmts \in Seq(AnyStatement), NEW machines \in Seq(Machines),
           stmts \in OpBodies \cup FuncBodies \cup TaskBodies,
           Begin(stmts, machines),
           scopes' \in Seq(Scope), scopes' # <<>>, machine' \in Machines \cup {None},
           \/ machines = <<>> /\ UNCHANGED <<scopes, machine>>
           \/ /\ machines # <<>> /\ scopes' = Append(scopes, NoScope)
              /\ \A k \in DOMAIN stmts : stmts[k].kind \notin Ambient
    PROVE  IInv'
<1>. USE DEF IInv
<1>1. /\ body' = stmts /\ on' = machines /\ turn' = 1 /\ pc' = 1 /\ calls' = <<>>
      /\ entry' = [scopes |-> scopes, machine |-> machine] /\ begun' = begun + 1
      /\ status' = "running" /\ transport' = transport
  BY DEF Begin
<1>2. scopes \in Seq(Scope) /\ Len(scopes) \in Nat /\ machine \in Machines \cup {None}
  BY DEF TypeOK
<1>3. TypeOK'
  <2>1. calls' \in Seq(CallRecords)
    BY <1>1
  <2>2. entry' \in [scopes : Seq(Scope), machine : Machines \cup {None}]
    BY <1>1, <1>2
  <2>. QED  BY <1>1, <2>1, <2>2 DEF TypeOK, CallRecords
<1>4. BodyShape'
  BY <1>1 DEF BodyShape
<1>5. CallsInOrder' /\ CallsFollowMachine'
  <2>1. DOMAIN calls' = {} /\ turn' = 1 /\ pc' = 1 /\ DOMAIN body' \subseteq Nat \ {0}
    BY <1>1
  <2>. QED  BY <2>1 DEF CallsInOrder, CallsFollowMachine, Before
<1>6. OnMachines'
  <2>. SUFFICES ASSUME machines = <<>>
                PROVE  Target' = AmbientAt(stmts, machine, 1)
    BY <1>1 DEF OnMachines
  <2>1. machine' = machine
    OBVIOUS
  <2>. QED  BY <2>1, FoundFirst DEF Target
<1>7. ScopesNest' /\ BindingsConfined'
  <2>1. entry'.scopes = scopes /\ DOMAIN scopes = 1 .. Len(scopes)
    BY <1>1, <1>2
  <2>2. CASE machines = <<>> /\ UNCHANGED <<scopes, machine>>
    <3>1. on' = <<>> /\ scopes' = scopes /\ Len(scopes) >= Len(scopes)
      BY <1>1, <1>2, <2>2
    <3>. QED  BY <2>1, <3>1 DEF ScopesNest, BindingsConfined
  <2>3. CASE machines # <<>> /\ scopes' = Append(scopes, NoScope)
    <3>1. Len(scopes') = Len(scopes) + 1 /\ \A i \in DOMAIN scopes : scopes'[i] = scopes[i]
      BY <1>2, <2>3
    <3>2. Len(scopes') >= Len(scopes)
      BY <1>2, <3>1
    <3>3. on' # <<>> /\ scopes # <<>>
      BY <1>1, <2>3 DEF TypeOK
    <3>. QED  BY <2>1, <3>1, <3>2, <3>3 DEF ScopesNest, BindingsConfined
  <2>. QED  BY <2>2, <2>3
<1>. QED  BY <1>3, <1>4, <1>5, <1>6, <1>7

(* The bodies of operations, functions and tasks are statements. *)
LEMMA BodiesAreStatements ==
    /\ OpBodies \subseteq Seq(AnyStatement) /\ FuncBodies \subseteq Seq(AnyStatement)
    /\ TaskBodies \subseteq Seq(AnyStatement)
    /\ \A items \in TaskBodies : \A k \in DOMAIN items : items[k].kind \notin Ambient
<1>1. /\ Statements(OpKinds) \subseteq AnyStatement
      /\ Statements(FuncKinds) \subseteq AnyStatement
      /\ Statements(TaskKinds) \subseteq AnyStatement
  BY DEF Statements, AnyStatement, AllKinds
<1>2. \A s \in Statements(TaskKinds) : s.kind \notin Ambient
  BY DEF Statements, TaskKinds, Ambient, Calling
<1>3. ASSUME NEW items \in TaskBodies, NEW k \in DOMAIN items
      PROVE  items[k].kind \notin Ambient
  <2>1. items \in Seq(Statements(TaskKinds))
    BY BodiesConstants
  <2>. QED  BY <1>2, <2>1
<1>4. \A S, T : S \subseteq T => Seq(S) \subseteq Seq(T)
  OBVIOUS
<1>. QED  BY <1>1, <1>3, <1>4, BodiesConstants

LEMMA BlockStep ==
    ASSUME IInv, NEW machines \in MachineLists, NEW items \in TaskBodies,
           BeginBlock(machines, items)
    PROVE  IInv'
<1>1. machines \in Seq(Machines) /\ machines # <<>>
  BY BodiesConstants DEF BeginBlock
<1>2. machine' \in Machines
  BY <1>1 DEF BeginBlock
<1>3. scopes \in Seq(Scope) /\ scopes' = Append(scopes, NoScope)
  BY DEF IInv, TypeOK, BeginBlock
<1>4. scopes' \in Seq(Scope) /\ scopes' # <<>>
  BY <1>3, EmptyScope
<1>. QED
  BY <1>1, <1>2, <1>3, <1>4, BeginStep, BodiesAreStatements DEF BeginBlock

LEMMA SetMachineStep ==
    ASSUME IInv, NEW machines \in MachineLists, SetMachine(machines)
    PROVE  IInv'
<1>. USE DEF IInv
<1>1. machines \in Seq(Machines) /\ machines # <<>>
  BY BodiesConstants DEF SetMachine
<1>2. machines[1] \in Machines
  BY <1>1
<1>3. /\ body' = <<>> /\ on' = <<>> /\ turn' = 1 /\ pc' = 1 /\ calls' = <<>>
      /\ entry' = [scopes |-> scopes, machine |-> machines[1]]
      /\ begun' = begun + 1 /\ status' = "idle" /\ machine' = machines[1]
      /\ UNCHANGED <<transport, scopes>>
  BY DEF SetMachine
<1>4. scopes \in Seq(Scope) /\ Len(scopes) \in Nat
  BY DEF TypeOK
<1>5. TypeOK'
  <2>1. calls' \in Seq(CallRecords) /\ on' \in Seq(Machines)
    BY <1>3
  <2>2. entry' \in [scopes : Seq(Scope), machine : Machines \cup {None}]
    BY <1>2, <1>3, <1>4
  <2>. QED  BY <1>2, <1>3, <2>1, <2>2 DEF TypeOK, CallRecords
<1>6. BodyShape' /\ CallsInOrder' /\ CallsFollowMachine' /\ OnMachines'
  BY <1>3 DEF BodyShape, CallsInOrder, CallsFollowMachine, OnMachines
<1>7. ScopesNest' /\ BindingsConfined'
  <2>1. entry'.scopes = scopes /\ scopes' = scopes /\ on' = <<>>
    BY <1>3
  <2>. QED  BY <1>4, <2>1 DEF ScopesNest, BindingsConfined
<1>. QED  BY <1>5, <1>6, <1>7

-----------------------------------------------------------------------------
LEMMA FailStep == IInv /\ Fail => IInv'
<1>. SUFFICES ASSUME IInv, Fail PROVE IInv'
  OBVIOUS
<1>1. /\ status = "running" /\ status' = "failed" /\ pc' = pc /\ Unmoved /\ Stop("failed")
      /\ UNCHANGED <<body, on, turn, entry, scopes, machine, calls>>
  BY DEF Fail, At, Stop, Unmoved
<1>2. TypeOK' /\ BodyShape'
  BY <1>1, TypesKept, CallsMade DEF IInv, TypeOK
<1>. QED  BY <1>1, <1>2, NoCall, MachineKept, ScopesKept DEF IInv

LEMMA SkipStep == IInv /\ Skip => IInv'
<1>. SUFFICES ASSUME IInv, Skip PROVE IInv'
  OBVIOUS
<1>1. /\ status = "running" /\ status' = "running" /\ pc' = pc + 1 /\ Unmoved /\ GoOn
      /\ UNCHANGED <<body, on, turn, entry, scopes, machine, calls>>
      /\ body[pc].kind \in {"require", "declare", "note", "expr"}
  BY DEF Skip, At, GoOn, Unmoved, Statement
<1>2. TypeOK' /\ BodyShape'
  BY <1>1, TypesKept, CallsMade DEF IInv, TypeOK
<1>3. body[pc].kind \notin Calling /\ body[pc].kind # "on"
  BY <1>1 DEF Calling
<1>. QED  BY <1>1, <1>2, <1>3, NoCall, MachineKept, ScopesKept DEF IInv

LEMMA LetBindStep == IInv /\ LetBind => IInv'
<1>. SUFFICES ASSUME IInv, LetBind PROVE IInv'
  OBVIOUS
<1>0. PICK v \in Values : Bind(Statement.name, v)
  BY DEF LetBind
<1>1. /\ status = "running" /\ pc' = pc + 1 /\ Unmoved /\ GoOn
      /\ UNCHANGED <<body, on, turn, entry, machine, calls>>
      /\ body[pc].kind \in {"let", "choose"}
      /\ At({"let", "choose", "read"})
  BY DEF LetBind, At, GoOn, Unmoved, Statement
<1>2. Statement.name \in Names
  <2>1. Statement.kind \in {"let", "choose", "read", "args", "remote"}
    BY <1>1 DEF Statement
  <2>. QED  BY <1>1, <2>1, CurrentStatement
<1>3. TypeOK' /\ BodyShape'
  <2>1. scopes' \in Seq(Scope) /\ scopes' # <<>>
    BY <1>0, <1>2, BindScopes DEF IInv
  <2>. QED  BY <1>1, <2>1, TypesKept, CallsMade DEF IInv, TypeOK
<1>4. body[pc].kind \notin Calling /\ body[pc].kind # "on"
  BY <1>1 DEF Calling
<1>5. ScopesNest' /\ BindingsConfined'
  BY <1>0, <1>1, OneBinding
<1>. QED  BY <1>1, <1>3, <1>4, <1>5, NoCall, MachineKept DEF IInv

LEMMA ArgumentsStep == IInv /\ Arguments => IInv'
<1>. SUFFICES ASSUME IInv, Arguments PROVE IInv'
  OBVIOUS
<1>1. /\ status = "running" /\ Unmoved /\ (GoOn \/ Stop("failed"))
      /\ UNCHANGED <<body, on, turn, entry, scopes, machine, calls>>
      /\ body[pc].kind = "args"
  BY DEF Arguments, At, Unmoved, Statement
<1>2. TypeOK' /\ BodyShape'
  BY <1>1, TypesKept, CallsMade DEF IInv, TypeOK
<1>3. body[pc].kind \notin Calling /\ body[pc].kind # "on"
  BY <1>1 DEF Calling
<1>4. pc' = pc \/ pc' = pc + 1
  BY <1>1 DEF GoOn, Stop
<1>5. status' # "running" \/ pc' = pc + 1
  BY <1>1 DEF GoOn, Stop
<1>. QED  BY <1>1, <1>2, <1>3, <1>4, <1>5, NoCall, MachineKept, ScopesKept DEF IInv

(* A statement that names a machine: the next one finds it. *)
LEMMA OnMachineStep == IInv /\ OnMachine => IInv'
<1>. SUFFICES ASSUME IInv, OnMachine PROVE IInv'
  OBVIOUS
<1>1. /\ status = "running" /\ status' = "running" /\ pc' = pc + 1 /\ Unmoved /\ GoOn
      /\ UNCHANGED <<body, on, turn, entry, scopes, calls>>
      /\ body[pc].kind = "on" /\ machine' = body[pc].on
  BY DEF OnMachine, At, GoOn, Unmoved, Statement
<1>2. machine' \in Machines /\ pc \in Nat \ {0}
  <2>1. Statement.kind \in {"on", "remote"}
    BY <1>1 DEF Statement
  <2>. QED  BY <1>1, <2>1, CurrentStatement DEF OnMachine
<1>3. TypeOK' /\ BodyShape'
  BY <1>1, <1>2, TypesKept, CallsMade DEF IInv, TypeOK
<1>4. body[pc].kind \notin Calling
  BY <1>1 DEF Calling
<1>5. OnMachines'
  <2>1. Target' = body[pc].on
    BY <1>1, <1>2, BodiesConstants DEF Target
  <2>2. AmbientAt(body, entry.machine, pc + 1) = body[pc].on
    BY <1>1, <1>2, FoundNext
  <2>. QED  BY <1>1, <2>1, <2>2 DEF OnMachines
<1>. QED  BY <1>1, <1>3, <1>4, <1>5, NoCall, ScopesKept DEF IInv

(* A statement whose effect is one call of the transport. *)
LEMMA CallingStep ==
    ASSUME IInv, At(Calling), NEW target \in Targets \cup Machines, NEW ok \in BOOLEAN,
           Call(target, ok), Unmoved, machine' = machine,
           Statement.kind \in Ambient => target = Target,
           \/ UNCHANGED scopes
           \/ /\ Statement.kind = "read"
              /\ \E v \in Values : Bind(Statement.name, v)
    PROVE  IInv'
<1>1. /\ status = "running" /\ pc \in Nat \ {0} /\ body[pc] = Statement
      /\ Statement.kind \in Calling
  BY CurrentStatement
<1>2. GoOn \/ Stop("failed")
  BY DEF Call
<1>3. UNCHANGED <<body, on, turn, entry>>
  BY DEF Unmoved
<1>4. CallsInOrder' /\ CallsFollowMachine'
  BY <1>3, OneCall
<1>5. calls' \in Seq(CallRecords)
  <2>1. [turn |-> turn, at |-> pc, on |-> target, ok |-> ok] \in CallRecords
    BY DEF IInv, TypeOK, CallRecords
  <2>2. calls \in Seq(CallRecords)
    BY CallsMade DEF IInv
  <2>. QED  BY <2>1, <2>2 DEF Call
<1>6. OnMachines'
  <2>1. Statement.kind # "on"
    BY <1>1 DEF Calling
  <2>2. status' # "running" \/ pc' = pc + 1
    BY <1>2 DEF GoOn, Stop
  <2>. QED  BY <1>1, <1>3, <2>1, <2>2, MachineKept
<1>7. scopes' \in Seq(Scope) /\ scopes' # <<>> /\ ScopesNest' /\ BindingsConfined'
  <2>1. CASE UNCHANGED scopes
    <3>1. status' = "running" => status = "running"
      BY <1>1
    <3>. QED  BY <1>3, <2>1, <3>1, ScopesKept DEF IInv, TypeOK
  <2>2. ASSUME Statement.kind = "read", NEW v \in Values, Bind(Statement.name, v)
        PROVE  scopes' \in Seq(Scope) /\ scopes' # <<>> /\ ScopesNest' /\ BindingsConfined'
    <3>1. At({"let", "choose", "read"})
      BY <2>2 DEF At
    <3>2. Statement.name \in Names
      BY <2>2, <3>1, CurrentStatement
    <3>3. ScopesNest' /\ BindingsConfined'
      BY <1>3, <2>2, <3>1, OneBinding
    <3>. QED  BY <2>2, <3>2, <3>3, BindScopes DEF IInv
  <2>. QED  BY <2>1, <2>2
<1>8. TypeOK' /\ BodyShape'
  BY <1>2, <1>5, <1>7, TypesKept DEF IInv, TypeOK, CallRecords
<1>. QED  BY <1>4, <1>6, <1>7, <1>8 DEF IInv

(* The current machine, and a variable's value, are places a call may go to. *)
LEMMA TargetIsTarget == IInv => Target \in Targets
BY DEF IInv, TypeOK, Target, Targets

LEMMA EffectStep == IInv /\ Effect => IInv'
<1>. SUFFICES ASSUME IInv, Effect PROVE IInv'
  OBVIOUS
<1>1. PICK ok \in Answers(Statement.kind) : Call(Target, ok)
  BY DEF Effect
<1>2. ok \in BOOLEAN
  BY DEF Answers
<1>3. At(Calling)
  BY DEF Effect, At, Calling
<1>. QED  BY <1>1, <1>2, <1>3, TargetIsTarget, CallingStep DEF Effect

LEMMA ReadJsonStep == IInv /\ ReadJson => IInv'
<1>. SUFFICES ASSUME IInv, ReadJson PROVE IInv'
  OBVIOUS
<1>1. PICK ok \in Answers("read") :
          /\ Call(Target, ok)
          /\ IF ok THEN \E v \in Readings : Bind(Statement.name, v) ELSE UNCHANGED scopes
  BY DEF ReadJson
<1>2. ok \in BOOLEAN /\ Readings \subseteq Values
  BY BodiesConstants DEF Answers, Readings
<1>3. At(Calling) /\ Statement.kind = "read"
  BY DEF ReadJson, At, Calling
<1>. QED  BY <1>1, <1>2, <1>3, TargetIsTarget, CallingStep DEF ReadJson

LEMMA TransferStep == IInv /\ Transfer => IInv'
<1>. SUFFICES ASSUME IInv, Transfer PROVE IInv'
  OBVIOUS
<1>1. PICK v \in Values, ok \in Answers("transfer") : Call(v, ok)
  BY DEF Transfer
<1>2. ok \in BOOLEAN /\ v \in Targets
  BY DEF Answers, Targets
<1>3. At(Calling) /\ Statement.kind \notin Ambient
  BY DEF Transfer, At, Calling, Ambient
<1>. QED  BY <1>1, <1>2, <1>3, CallingStep DEF Transfer

LEMMA RemoteWriteStep == IInv /\ RemoteWrite => IInv'
<1>. SUFFICES ASSUME IInv, RemoteWrite PROVE IInv'
  OBVIOUS
<1>. DEFINE target == RemoteTarget(Statement.on)
<1>1. PICK ok \in Answers("remote") : Call(target, ok)
  BY DEF RemoteWrite
<1>2. ok \in BOOLEAN
  BY DEF Answers
<1>3. At(Calling) /\ Statement.kind \notin Ambient /\ Statement.kind = "remote"
  BY DEF RemoteWrite, At, Calling, Ambient
<1>4. target \in Targets
  <2>1. Statement.on \in Machines
    BY <1>3, CurrentStatement
  <2>. QED  BY <2>1, LookupValue DEF RemoteTarget, Targets, IInv
<1>. HIDE DEF target
<1>. QED  BY <1>1, <1>2, <1>3, <1>4, CallingStep DEF RemoteWrite

LEMMA ReturnStep == IInv /\ Return => IInv'
<1>. SUFFICES ASSUME IInv, Return PROVE IInv'
  OBVIOUS
<1>1. /\ status = "running" /\ status' = "returned" /\ pc' = pc /\ Unmoved /\ Stop("returned")
      /\ UNCHANGED <<body, on, turn, entry, scopes, machine, calls>>
  BY DEF Return, At, Stop, Unmoved
<1>2. TypeOK' /\ BodyShape'
  BY <1>1, TypesKept, CallsMade DEF IInv, TypeOK
<1>. QED  BY <1>1, <1>2, NoCall, MachineKept, ScopesKept DEF IInv

-----------------------------------------------------------------------------
LEMMA EndBodyStep == IInv /\ EndBody => IInv'
<1>. SUFFICES ASSUME IInv, EndBody PROVE IInv'
  OBVIOUS
<1>1. /\ status = "running" /\ status' = "over" /\ pc' = pc /\ Unmoved /\ Stop("over")
      /\ UNCHANGED <<body, on, turn, entry, scopes, machine, calls>>
  BY DEF EndBody, AtEnd, Stop, Unmoved
<1>2. TypeOK' /\ BodyShape'
  BY <1>1, TypesKept, CallsMade DEF IInv, TypeOK
<1>. QED  BY <1>1, <1>2, NoCall, MachineKept, ScopesKept DEF IInv

(* The items are over on one machine: all their calls are made there. *)
LEMMA NextMachineStep == IInv /\ NextMachine => IInv'
<1>. SUFFICES ASSUME IInv, NextMachine PROVE IInv'
  OBVIOUS
<1>. USE DEF IInv
<1>1. /\ status = "running" /\ pc > Len(body) /\ turn < Len(on)
      /\ turn' = turn + 1 /\ pc' = 1 /\ machine' = on[turn + 1]
      /\ scopes' = [scopes EXCEPT ![Len(scopes)] = NoScope]
      /\ UNCHANGED <<transport, body, on, status, calls, entry, begun>>
  BY DEF NextMachine, AtEnd
<1>2. /\ turn \in Nat \ {0} /\ pc \in Nat \ {0} /\ on \in Seq(Machines) /\ Len(on) \in Nat
      /\ on # <<>> /\ body \in Seq(AnyStatement) /\ Len(body) \in Nat
      /\ DOMAIN body = 1 .. Len(body)
  BY <1>1 DEF TypeOK, BodyShape
<1>3. scopes \in Seq(Scope) /\ Len(scopes) \in Nat \ {0} /\ DOMAIN scopes = 1 .. Len(scopes)
  BY DEF TypeOK
<1>4. /\ scopes' \in Seq(Scope) /\ scopes' # <<>> /\ Len(scopes') = Len(scopes)
      /\ \A i \in DOMAIN scopes : i # Len(scopes) => scopes'[i] = scopes[i]
  <2>1. scopes' \in Seq(Scope) /\ Len(scopes') = Len(scopes)
    BY <1>1, <1>3, EmptyScope
  <2>. QED  BY <1>1, <1>3, <2>1
<1>5. TypeOK' /\ BodyShape'
  <2>1. on[turn + 1] \in Machines
    BY <1>1, <1>2
  <2>2. turn' \in Nat \ {0} /\ pc' \in Nat \ {0}
    BY <1>1, <1>2
  <2>. QED  BY <1>1, <1>4, <2>1, <2>2 DEF TypeOK, BodyShape
<1>6. CallsInOrder'
  <2>1. \A i \in DOMAIN calls :
            Before(calls[i].turn, calls[i].at) /\ calls[i].ok /\ calls[i].turn \in Nat
    BY <1>1, CallsMade DEF CallsInOrder
  <2>2. \A i \in DOMAIN calls : calls[i].turn < turn'
    BY <1>1, <1>2, <2>1 DEF Before
  <2>3. \A t \in 1 .. turn', k \in DOMAIN body :
            t < turn' \/ (t = turn' /\ k < pc') => t \in 1 .. turn /\ Before(t, k)
    BY <1>1, <1>2 DEF Before
  <2>. QED  BY <1>1, <2>1, <2>2, <2>3 DEF CallsInOrder, Before
<1>7. CallsFollowMachine' /\ OnMachines'
  BY <1>1, <1>2 DEF CallsFollowMachine, OnMachines
<1>8. ScopesNest' /\ BindingsConfined'
  <2>. DEFINE m == Len(entry.scopes)
  <2>1. Len(scopes) = m + 1 /\ m \in Nat /\ DOMAIN entry.scopes = 1 .. m
    BY <1>1, <1>2 DEF ScopesNest, TypeOK
  <2>2. \A i \in 1 .. m : scopes[i] = entry.scopes[i]
    BY <1>2, <2>1 DEF BindingsConfined
  <2>. HIDE DEF m
  <2>3. \A i \in 1 .. m : i \in DOMAIN scopes /\ i # Len(scopes)
    BY <1>3, <2>1
  <2>4. \A i \in 1 .. m : scopes'[i] = entry.scopes[i]
    BY <1>4, <2>2, <2>3
  <2>5. Len(scopes') = m + 1 /\ m + 1 >= m
    BY <1>4, <2>1
  <2>. QED  BY <1>1, <1>2, <2>1, <2>4, <2>5 DEF ScopesNest, BindingsConfined, m
<1>. QED  BY <1>5, <1>6, <1>7, <1>8

(* The scope of the last machine goes: what is left is what the caller had. *)
LEMMA EndBlockStep == IInv /\ EndBlock => IInv'
<1>. SUFFICES ASSUME IInv, EndBlock PROVE IInv'
  OBVIOUS
<1>. USE DEF IInv
<1>1. /\ status = "running" /\ status' = "over" /\ pc' = pc /\ Unmoved /\ Stop("over")
      /\ on # <<>> /\ scopes' = SubSeq(scopes, 1, Len(scopes) - 1)
      /\ UNCHANGED <<body, on, turn, entry, machine, calls>>
  BY DEF EndBlock, AtEnd, Stop, Unmoved
<1>. DEFINE m == Len(entry.scopes)
<1>2. /\ Len(scopes) = m + 1 /\ m \in Nat /\ DOMAIN entry.scopes = 1 .. m
      /\ scopes \in Seq(Scope)
  BY <1>1 DEF ScopesNest, TypeOK
<1>3. Len(scopes) - 1 = m
  <2>. HIDE DEF m
  <2>. QED  BY <1>2
<1>4. \A i \in 1 .. m : scopes[i] = entry.scopes[i] /\ scopes[i] \in Scope
  <2>1. \A i \in 1 .. m : i \in 1 .. Len(scopes)
    <3>. HIDE DEF m
    <3>. QED  BY <1>2
  <2>. QED  BY <1>1, <1>2, <2>1 DEF BindingsConfined
<1>5. \A i \in 1 .. m : scopes'[i] = scopes[i]
  <2>1. \A i \in 1 .. m - 1 + 1 : SubSeq(scopes, 1, m)[i] = scopes[1 + i - 1]
    BY <1>2, <1>4, SubSeqProperties
  <2>. SUFFICES ASSUME NEW i \in 1 .. m PROVE scopes'[i] = scopes[i]
    OBVIOUS
  <2>. HIDE DEF m
  <2>2. i \in 1 .. m - 1 + 1 /\ 1 + i - 1 = i
    BY <1>2
  <2>. QED  BY <1>1, <1>3, <2>1, <2>2
<1>6. scopes' \in Seq(Scope) /\ Len(scopes') = m
  <2>1. /\ SubSeq(scopes, 1, m) \in Seq(Scope)
        /\ Len(SubSeq(scopes, 1, m)) = IF 1 <= m THEN m - 1 + 1 ELSE 0
    BY <1>2, <1>4, SubSeqProperties
  <2>. HIDE DEF m
  <2>2. (IF 1 <= m THEN m - 1 + 1 ELSE 0) = m
    BY <1>2
  <2>. QED  BY <1>1, <1>3, <2>1, <2>2
<1>7. m # 0
  BY <1>2 DEF ScopesNest, TypeOK
<1>8. scopes' # <<>>
  BY <1>6, <1>7
<1>9. TypeOK' /\ BodyShape'
  BY <1>1, <1>6, <1>8, TypesKept, CallsMade DEF TypeOK
<1>10. ScopesNest' /\ BindingsConfined'
  <2>1. Len(scopes') >= m
    BY <1>2, <1>6
  <2>2. \A i \in DOMAIN entry.scopes : scopes'[i] = entry.scopes[i]
    BY <1>2, <1>4, <1>5
  <2>. QED  BY <1>1, <2>1, <2>2 DEF ScopesNest, BindingsConfined
<1>. QED  BY <1>1, <1>9, <1>10, NoCall, MachineKept

LEMMA StepIInv == IInv /\ [Next]_vars => IInv'
<1>. SUFFICES ASSUME IInv, [Next]_vars PROVE IInv'
  OBVIOUS
<1>1. ASSUME NEW stmts \in OpBodies, BeginOp(stmts) PROVE IInv'
  <2>1. Begin(stmts, <<>>) /\ UNCHANGED <<scopes, machine>>
    BY <1>1 DEF BeginOp
  <2>2. stmts \in Seq(AnyStatement) /\ <<>> \in Seq(Machines)
    BY BodiesAreStatements
  <2>3. scopes' \in Seq(Scope) /\ scopes' # <<>> /\ machine' \in Machines \cup {None}
    BY <2>1 DEF IInv, TypeOK
  <2>. QED  BY <2>1, <2>2, <2>3, BeginStep
<1>2. ASSUME NEW stmts \in FuncBodies, BeginFunc(stmts) PROVE IInv'
  <2>1. Begin(stmts, <<>>) /\ UNCHANGED <<scopes, machine>>
    BY <1>2 DEF BeginFunc
  <2>2. stmts \in Seq(AnyStatement) /\ <<>> \in Seq(Machines)
    BY BodiesAreStatements
  <2>3. scopes' \in Seq(Scope) /\ scopes' # <<>> /\ machine' \in Machines \cup {None}
    BY <2>1 DEF IInv, TypeOK
  <2>. QED  BY <2>1, <2>2, <2>3, BeginStep
<1>3. CASE UNCHANGED vars
  BY <1>3 DEF vars, IInv, TypeOK, BodyShape, CallsInOrder, Before, OnMachines, Target,
              CallsFollowMachine, ScopesNest, BindingsConfined, Bound
<1>. QED
  BY <1>1, <1>2, <1>3, BlockStep, SetMachineStep, FailStep, SkipStep, LetBindStep,
     ArgumentsStep, OnMachineStep, EffectStep, ReadJsonStep, TransferStep,
     RemoteWriteStep, ReturnStep, EndBodyStep, NextMachineStep, EndBlockStep
     DEF Next

LEMMA InvariantHolds == Spec => []IInv
BY InitIInv, StepIInv, PTL DEF Spec

(* The context, the body that runs and its calls have the right types. *)
THEOREM TypeCorrect == Spec => []TypeOK
BY InvariantHolds, PTL DEF IInv

(***************************************************************************)
(* execute_op_body, execute_func_body, execute_on_machine: every call that *)
(* was due was made, in order, and none after a failure or a return.       *)
(***************************************************************************)
THEOREM CallsAreInOrder == Spec => []CallsInOrder
BY InvariantHolds, PTL DEF IInv

(* get_machine: a call goes to the machine that was named last before it. *)
THEOREM CallsGoWhereNamed == Spec => []CallsFollowMachine
BY InvariantHolds, PTL DEF IInv

(* bind, push_scope, pop_scope: a body changes what its statements bind, no more. *)
THEOREM BindingsStayInside == Spec => []BindingsConfined
BY InvariantHolds, PTL DEF IInv
=============================================================================
