------------------------------ MODULE Executor ------------------------------
(***************************************************************************)
(* The execution of statements (execute.rs): bodies, scopes, and errors on *)
(* their way out through if, for, while, try and on machine.               *)
(*                                                                         *)
(* The program is open: whenever a body goes on, any statement may come    *)
(* next and any expression may fail, so a behaviour is an execution of     *)
(* some program (the turns of a loop may do different things, as they may  *)
(* in a program with conditions).  A frame is one active call: the body it *)
(* executes, and what its function still has to do.  Of the scopes only    *)
(* their number matters here.  current_machine is left out: statements set *)
(* it and never read it, and what bodies make of it is in Bodies.          *)
(***************************************************************************)
EXTENDS Integers, Sequences, FiniteSets

CONSTANTS MaxStatements,  \* bound: statements begun
          MaxDepth,       \* bound: nested statements
          MaxErrors,      \* bound: errors raised
          MaxTurns        \* bound: elements of a collection, machines of a set

ASSUME ExecutorConstants ==
    /\ MaxStatements \in Nat /\ MaxDepth \in Nat
    /\ MaxErrors \in Nat /\ MaxTurns \in Nat

VARIABLES stack,      \* active calls, the innermost last; empty when the run is over
          scopes,     \* length of ExecutionContext.scopes
          error,      \* the Err on its way out, or None
          begun,      \* statements begun
          raised,     \* history: errors raised so far, numbered from 1
          caught,     \* history: errors a catch body was run for
          replaced,   \* history: errors dropped for an error of a finally body
          finals      \* history: finally bodies due and begun

vars == <<stack, scopes, error, begun, raised, caught, replaced, finals>>

history == <<begun, raised, caught, replaced, finals>>

None == 0

Errors == 1..raised

(* What a try statement has: a body that is empty counts as absent. *)
Trys == [catch : BOOLEAN, var : BOOLEAN, finally : BOOLEAN]

NoTry == [catch |-> FALSE, var |-> FALSE, finally |-> FALSE]

Kinds == {"program", "if", "for", "while", "on", "try", "catch", "finally"}

(* `stash` is the error a finally body is to be followed by; `base` is history. *)
Frames == [kind : Kinds, turns : Nat, try : Trys, stash : Nat, base : Nat]

Frame(kind, turns, try) ==
    [kind |-> kind, turns |-> turns, try |-> try, stash |-> None, base |-> scopes]

Top == stack[Len(stack)]

Outer == SubSeq(stack, 1, Len(stack) - 1)

Replace(frame) == Append(Outer, frame)

Init ==
    /\ scopes = 1
    /\ stack = <<Frame("program", 0, NoTry)>>
    /\ error = None
    /\ begun = 0 /\ raised = 0
    /\ caught = {} /\ replaced = {}
    /\ finals = [due |-> 0, begun |-> 0]

-----------------------------------------------------------------------------
(* Statements. *)
MoreToDo == stack # <<>> /\ error = None /\ begun < MaxStatements

Begin == MoreToDo /\ begun' = begun + 1

(* A statement with a body; the body of `on machine` holds simple items only. *)
BeginBlock == Begin /\ Top.kind # "on" /\ Len(stack) < MaxDepth

(* Items without a body, bodies that are not entered, collections without elements. *)
Simple ==
    /\ Begin
    /\ UNCHANGED <<stack, scopes, error, raised, caught, replaced, finals>>

(* An expression, a condition, a collection or the transport fails. *)
Raise ==
    /\ Begin
    /\ raised < MaxErrors
    /\ raised' = raised + 1
    /\ error' = raised + 1
    /\ UNCHANGED <<stack, scopes, caught, replaced, finals>>

(* if and while: their bodies have no scope. *)
StartPlain(kind) ==
    /\ BeginBlock
    /\ stack' = Append(stack, Frame(kind, 0, NoTry))
    /\ UNCHANGED <<scopes, error, raised, caught, replaced, finals>>

(* for and on machine: push_scope before each turn. *)
StartTurns(kind, n) ==
    /\ BeginBlock
    /\ stack' = Append(stack, Frame(kind, n, NoTry))
    /\ scopes' = scopes + 1
    /\ UNCHANGED <<error, raised, caught, replaced, finals>>

StartTry(try) ==
    /\ BeginBlock
    /\ stack' = Append(stack, Frame("try", 0, try))
    /\ finals' = IF try.finally THEN [finals EXCEPT !.due = @ + 1] ELSE finals
    /\ UNCHANGED <<scopes, error, raised, caught, replaced>>

-----------------------------------------------------------------------------
(* The end of a body, without an error. *)
Ends(kinds) == stack # <<>> /\ error = None /\ Top.kind \in kinds

(* The value of a call that is over is passed on: Ok(()) or Err(e). *)
Return(e) == stack' = Outer /\ error' = e

(* The finally body, if there is one, comes before the value is passed on. *)
FinallyThen(e) ==
    IF Top.try.finally
      THEN /\ stack' = Replace([Top EXCEPT !.kind = "finally", !.stash = e])
           /\ error' = None
           /\ finals' = [finals EXCEPT !.begun = @ + 1]
      ELSE Return(e) /\ UNCHANGED finals

EndPlain ==
    /\ Ends({"program", "if"})
    /\ Return(None)
    /\ UNCHANGED <<scopes, history>>

(* The parser gives every while loop the condition `true`. *)
EndWhile ==
    /\ Ends({"while"})
    /\ UNCHANGED vars

(* Mutant: the scope of a turn is popped only at the end of the loop. *)
EndTurnPushes ==
    /\ Ends({"for", "on"})
    /\ IF Top.turns > 1
         THEN /\ stack' = Replace([Top EXCEPT !.turns = @ - 1])
              /\ scopes' = scopes + 1
              /\ UNCHANGED error
         ELSE Return(None) /\ scopes' = scopes - 1
    /\ UNCHANGED history

(* pop_scope, then push_scope for the next element, or the end of the loop. *)
EndTurn ==
    /\ Ends({"for", "on"})
    /\ IF Top.turns > 1
         THEN /\ stack' = Replace([Top EXCEPT !.turns = @ - 1])
              /\ UNCHANGED <<scopes, error>>
         ELSE Return(None) /\ scopes' = scopes - 1
    /\ UNCHANGED history

EndTry ==
    /\ Ends({"try"})
    /\ FinallyThen(None)
    /\ UNCHANGED <<scopes, begun, raised, caught, replaced>>

(* Mutant: a scope is popped whether or not there is an error variable. *)
PopErrVarAlways == scopes' = scopes - 1

(* The scope of the error variable is popped however the catch body ended. *)
PopErrVar == scopes' = IF Top.try.var THEN scopes - 1 ELSE scopes

EndCatch ==
    /\ Ends({"catch"})
    /\ PopErrVar
    /\ FinallyThen(None)
    /\ UNCHANGED <<begun, raised, caught, replaced>>

(* Mutant: the error that waited for the finally body is forgotten. *)
EndFinallyOk ==
    /\ Ends({"finally"})
    /\ Return(None)
    /\ UNCHANGED <<scopes, history>>

EndFinally ==
    /\ Ends({"finally"})
    /\ Return(Top.stash)
    /\ UNCHANGED <<scopes, history>>

-----------------------------------------------------------------------------
(* An error leaves a body. *)
Fails(kinds) == stack # <<>> /\ error # None /\ Top.kind \in kinds

(* Mutant: every body pops a scope when it fails. *)
PropagatePops ==
    /\ Fails({"program", "if", "for", "while", "on"})
    /\ Return(error)
    /\ scopes' = scopes - 1
    /\ UNCHANGED history

(* `?` in a loop or a body: for and on machine return without pop_scope. *)
Propagate ==
    /\ Fails({"program", "if", "for", "while", "on"})
    /\ Return(error)
    /\ UNCHANGED <<scopes, history>>

Catch ==
    /\ Fails({"try"})
    /\ Top.try.catch
    /\ stack' = Replace([Top EXCEPT !.kind = "catch"])
    /\ scopes' = IF Top.try.var THEN scopes + 1 ELSE scopes
    /\ error' = None
    /\ caught' = caught \cup {error}
    /\ UNCHANGED <<begun, raised, replaced, finals>>

(* catch_body.is_empty(): also of a catch clause that is written, and empty. *)
NoCatch ==
    /\ Fails({"try"})
    /\ ~Top.try.catch
    /\ FinallyThen(error)
    /\ UNCHANGED <<scopes, begun, raised, caught, replaced>>

(* Mutant: `?` on the catch body, before the finally body. *)
CatchFailsEarly ==
    /\ Fails({"catch"})
    /\ PopErrVar
    /\ Return(error)
    /\ UNCHANGED <<begun, raised, caught, replaced, finals>>

CatchFails ==
    /\ Fails({"catch"})
    /\ PopErrVar
    /\ FinallyThen(error)
    /\ UNCHANGED <<begun, raised, caught, replaced>>

(* execute_body(&tc.finally_body, ctx)?: the stashed error is lost. *)
FinallyFails ==
    /\ Fails({"finally"})
    /\ Return(error)
    /\ replaced' = replaced \cup ({Top.stash} \ {None})
    /\ UNCHANGED <<scopes, begun, raised, caught, finals>>

Next ==
    \/ Simple \/ Raise
    \/ \E kind \in {"if", "while"} : StartPlain(kind)
    \/ \E kind \in {"for", "on"}, n \in 1..MaxTurns : StartTurns(kind, n)
    \/ \E try \in Trys : StartTry(try)
    \/ EndPlain \/ EndWhile \/ EndTurn \/ EndTry \/ EndCatch \/ EndFinally
    \/ Propagate \/ Catch \/ NoCatch \/ CatchFails \/ FinallyFails

Spec == Init /\ [][Next]_vars

-----------------------------------------------------------------------------
(* Every variable holds a value of its kind. *)
TypeOK ==
    /\ stack \in Seq(Frames)
    /\ scopes \in Nat /\ error \in Nat /\ begun \in Nat /\ raised \in Nat
    /\ caught \subseteq Errors /\ replaced \subseteq Errors
    /\ finals \in [due : Nat, begun : Nat]

(***************************************************************************)
(* No error and no early return makes a call pop a scope of those around   *)
(* it: the scopes that were there when a call began are there while it     *)
(* runs and after it, and the outermost scope for the result to be read    *)
(* from.                                                                   *)
(***************************************************************************)
EnclosingScopesStay ==
    /\ scopes >= 1
    /\ \A i \in DOMAIN stack : scopes >= stack[i].base

(***************************************************************************)
(* As long as no error has been raised, every scope is popped by the call  *)
(* that pushed it.                                                         *)
(***************************************************************************)
OpensScope(frame) == frame.kind \in {"for", "on"} \/ (frame.kind = "catch" /\ frame.try.var)

ScopesBalance ==
    raised = 0 => scopes = 1 + Cardinality({i \in DOMAIN stack : OpensScope(stack[i])})

(***************************************************************************)
(* No error gets lost: each was caught, gave way to an error of a finally  *)
(* body, is on its way out, or waits for a finally body to end.  A run     *)
(* returns Ok exactly when none is left, and else the last one left.       *)
(***************************************************************************)
ErrorsAccounted ==
    Errors \ (caught \cup replaced) =
        ({error} \cup {stack[i].stash : i \in DOMAIN stack}) \ {None}

(***************************************************************************)
(* "cleanup (always runs)": every try statement with a finally body begins *)
(* it once, whatever happens in its body and its catch body.               *)
(***************************************************************************)
FinallyRuns ==
    finals.due - finals.begun =
        Cardinality({i \in DOMAIN stack :
                        stack[i].kind \in {"try", "catch"} /\ stack[i].try.finally})
=============================================================================
