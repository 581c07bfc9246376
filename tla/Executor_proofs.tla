-------------------------- MODULE Executor_proofs --------------------------
(***************************************************************************)
(* Statements keep the scopes around them and lose no error, for programs  *)
(* of any size and depth.                                                  *)
(*                                                                         *)
(* An action does one of four things to the stack: nothing, push a frame,  *)
(* pop one, or swap the innermost for another.  The invariant is shown for *)
(* these four, from what each does to the scopes and to the errors.        *)
(***************************************************************************)
EXTENDS Executor, FiniteSetTheorems, TLAPS

Opened(frame) == IF OpensScope(frame) THEN 1 ELSE 0

LEMMA OpenedType == ASSUME NEW f PROVE Opened(f) \in {0, 1}
BY DEF Opened

(* A call has at least the scopes of its caller, and the ones it opened. *)
Nested ==
    /\ scopes >= 1
    /\ \A i \in DOMAIN stack : stack[i].base >= 1
    /\ \A i \in DOMAIN stack : stack[i].base + Opened(stack[i]) <= scopes
    /\ \A i, j \in DOMAIN stack : i < j => stack[i].base + Opened(stack[i]) <= stack[j].base

Numbered ==
    /\ error \in 0..raised
    /\ \A i \in DOMAIN stack : stack[i].stash \in 0..raised

IInv == TypeOK /\ Nested /\ Numbered

-----------------------------------------------------------------------------
(* The three changes of the stack. *)

LEMMA PushShape ==
    ASSUME stack \in Seq(Frames), NEW f \in Frames
    PROVE  /\ Append(stack, f) \in Seq(Frames)
           /\ Len(Append(stack, f)) = Len(stack) + 1
           /\ DOMAIN Append(stack, f) = 1..Len(stack) + 1
           /\ \A i \in 1..Len(stack) : Append(stack, f)[i] = stack[i]
           /\ Append(stack, f)[Len(stack) + 1] = f
OBVIOUS

LEMMA PopShape ==
    ASSUME stack \in Seq(Frames), stack # <<>>
    PROVE  /\ Len(stack) \in Nat \ {0}
           /\ DOMAIN stack = 1..Len(stack)
           /\ Top \in Frames
           /\ Outer \in Seq(Frames)
           /\ Len(Outer) = Len(stack) - 1
           /\ DOMAIN Outer = 1..Len(stack) - 1
           /\ \A i \in 1..Len(stack) - 1 : Outer[i] = stack[i]
<1>1. Len(stack) \in Nat \ {0} /\ DOMAIN stack = 1..Len(stack)
  OBVIOUS
<1>2. Top \in Frames
  BY <1>1 DEF Top
<1>3. Outer = [i \in 1..Len(stack) - 1 |-> stack[i]]
  BY <1>1 DEF Outer
<1>4. \A i \in 1..Len(stack) - 1 : stack[i] \in Frames
  BY <1>1
<1>5. Outer \in Seq(Frames) /\ Len(Outer) = Len(stack) - 1
  BY <1>1, <1>3, <1>4
<1>. QED  BY <1>1, <1>2, <1>3, <1>5

LEMMA SwapShape ==
    ASSUME stack \in Seq(Frames), stack # <<>>, NEW f \in Frames
    PROVE  /\ Replace(f) \in Seq(Frames)
           /\ DOMAIN Replace(f) = 1..Len(stack)
           /\ \A i \in 1..Len(stack) - 1 : Replace(f)[i] = stack[i]
           /\ Replace(f)[Len(stack)] = f
<1>1. /\ Outer \in Seq(Frames)
      /\ Len(stack) \in Nat \ {0}
      /\ Len(Outer) = Len(stack) - 1
      /\ \A i \in 1..Len(stack) - 1 : Outer[i] = stack[i]
  BY PopShape
<1>. HIDE DEF Outer
<1>. QED  BY <1>1 DEF Replace

LEMMA FrameTypes ==
    ASSUME TypeOK
    PROVE  /\ scopes \in Nat /\ raised \in Nat /\ error \in Nat
           /\ Len(stack) \in Nat /\ DOMAIN stack = 1..Len(stack)
           /\ \A i \in 1..Len(stack) : /\ stack[i] \in Frames
                                       /\ stack[i].base \in Nat
                                       /\ stack[i].stash \in Nat
                                       /\ Opened(stack[i]) \in {0, 1}
<1>1. \A f \in Frames : f.base \in Nat /\ f.stash \in Nat
  BY DEF Frames
<1>2. \A i \in 1..Len(stack) : stack[i] \in Frames
  BY DEF TypeOK
<1>. QED  BY <1>1, <1>2, OpenedType DEF TypeOK

(* Which changes keep scopes nested and errors numbered. *)
LEMMA PushKeeps ==
    ASSUME IInv, NEW f \in Frames, NEW n \in Nat,
           f.base = scopes, f.stash = None, n = Opened(f),
           stack' = Append(stack, f), scopes' = scopes + n
    PROVE  Nested' /\ (\A i \in DOMAIN stack' : stack'[i].stash \in 0..raised)
<1>1. /\ DOMAIN stack' = 1..Len(stack) + 1
      /\ \A i \in 1..Len(stack) : stack'[i] = stack[i]
      /\ stack'[Len(stack) + 1] = f
      /\ DOMAIN stack = 1..Len(stack) /\ Len(stack) \in Nat
  BY PushShape DEF IInv, TypeOK
<1>2. /\ scopes \in Nat /\ raised \in Nat
      /\ \A i \in 1..Len(stack) : stack[i].base \in Nat /\ Opened(stack[i]) \in {0, 1}
  BY FrameTypes DEF IInv
<1>3. /\ scopes >= 1
      /\ \A i \in 1..Len(stack) : stack[i].base >= 1
      /\ \A i \in 1..Len(stack) : stack[i].base + Opened(stack[i]) <= scopes
      /\ \A i, j \in 1..Len(stack) : i < j => stack[i].base + Opened(stack[i]) <= stack[j].base
  BY <1>1 DEF IInv, Nested
<1>4. \A i \in DOMAIN stack' : i \in 1..Len(stack) \/ i = Len(stack) + 1
  BY <1>1
<1>5. /\ scopes' >= 1
      /\ \A i \in DOMAIN stack' : stack'[i].base >= 1
      /\ \A i \in DOMAIN stack' : stack'[i].base + Opened(stack'[i]) <= scopes'
  BY <1>1, <1>2, <1>3, <1>4
<1>6. \A i, j \in DOMAIN stack' : i < j => stack'[i].base + Opened(stack'[i]) <= stack'[j].base
  BY <1>1, <1>2, <1>3, <1>4
<1>7. \A i \in DOMAIN stack' : stack'[i].stash \in 0..raised
  BY <1>1, <1>2, <1>4 DEF IInv, Numbered, None
<1>. QED  BY <1>5, <1>6, <1>7 DEF Nested

LEMMA PopKeeps ==
    ASSUME IInv, stack # <<>>, NEW n \in Nat,
           n <= Opened(Top), stack' = Outer, scopes' = scopes - n
    PROVE  Nested' /\ (\A i \in DOMAIN stack' : stack'[i].stash \in 0..raised)
<1>1. /\ DOMAIN stack' = 1..Len(stack) - 1
      /\ \A i \in 1..Len(stack) - 1 : stack'[i] = stack[i]
      /\ Len(stack) \in Nat \ {0}
      /\ stack[Len(stack)] = Top
  BY PopShape DEF IInv, TypeOK, Top
<1>2. /\ scopes \in Nat /\ DOMAIN stack = 1..Len(stack)
      /\ \A i \in 1..Len(stack) : stack[i].base \in Nat /\ Opened(stack[i]) \in {0, 1}
  BY FrameTypes DEF IInv
<1>3. scopes' >= stack[Len(stack)].base
  BY <1>1, <1>2 DEF IInv, Nested
<1>4. /\ \A i \in 1..Len(stack) : stack[i].base >= 1
      /\ \A i, j \in 1..Len(stack) : i < j => stack[i].base + Opened(stack[i]) <= stack[j].base
      /\ \A i \in 1..Len(stack) : stack[i].stash \in 0..raised
  BY <1>2 DEF IInv, Nested, Numbered
<1>5. \A i \in DOMAIN stack' : i \in 1..Len(stack) /\ i < Len(stack) /\ stack'[i] = stack[i]
  BY <1>1
<1>6. \A i \in DOMAIN stack' : stack'[i].base + Opened(stack'[i]) <= scopes'
  BY <1>1, <1>2, <1>3, <1>4, <1>5
<1>7. scopes' >= 1
  BY <1>1, <1>2, <1>3, <1>4
<1>. QED  BY <1>4, <1>5, <1>6, <1>7 DEF Nested

LEMMA SwapKeeps ==
    ASSUME IInv, stack # <<>>, NEW f \in Frames,
           f.base = Top.base, f.stash \in 0..raised,
           stack' = Replace(f), scopes' = scopes + Opened(f) - Opened(Top)
    PROVE  Nested' /\ (\A i \in DOMAIN stack' : stack'[i].stash \in 0..raised)
<1>1. /\ DOMAIN stack' = 1..Len(stack)
      /\ \A i \in 1..Len(stack) - 1 : stack'[i] = stack[i]
      /\ stack'[Len(stack)] = f
      /\ Len(stack) \in Nat \ {0}
      /\ stack[Len(stack)] = Top
  BY PopShape, SwapShape DEF IInv, TypeOK, Top
<1>2. /\ scopes \in Nat /\ DOMAIN stack = 1..Len(stack)
      /\ \A i \in 1..Len(stack) : stack[i].base \in Nat /\ Opened(stack[i]) \in {0, 1}
  BY FrameTypes DEF IInv
<1>3. Opened(f) \in {0, 1}
  BY OpenedType
<1>4. stack[Len(stack)].base + Opened(stack[Len(stack)]) <= scopes
  BY <1>1, <1>2 DEF IInv, Nested
<1>5. /\ \A i \in 1..Len(stack) : stack[i].base >= 1
      /\ \A i, j \in 1..Len(stack) : i < j => stack[i].base + Opened(stack[i]) <= stack[j].base
  BY <1>1, <1>2 DEF IInv, Nested
<1>6. scopes' = scopes + Opened(f) - Opened(stack[Len(stack)]) /\ f.base = stack[Len(stack)].base
  BY <1>1
<1>7. scopes' >= f.base + Opened(f)
  BY <1>1, <1>2, <1>3, <1>4, <1>6
<1>8. /\ scopes' >= 1
      /\ \A i \in 1..Len(stack) : stack'[i].base = stack[i].base
  BY <1>1, <1>2, <1>3, <1>5, <1>6, <1>7
<1>9. \A i \in 1..Len(stack) : stack'[i].base + Opened(stack'[i]) <= scopes'
  <2>1. ASSUME NEW i \in 1..Len(stack) - 1
        PROVE  stack'[i].base + Opened(stack'[i]) <= scopes'
    <3>1. i \in 1..Len(stack) /\ stack'[i] = stack[i] /\ i < Len(stack)
      BY <1>1
    <3>2. stack[i].base + Opened(stack[i]) <= f.base
      BY <1>1, <1>5, <1>6, <3>1
    <3>. QED  BY <1>2, <1>3, <1>6, <1>7, <3>1, <3>2
  <2>. QED  BY <1>1, <1>7, <2>1
<1>10. \A i, j \in 1..Len(stack) : i < j => stack'[i].base + Opened(stack'[i]) <= stack'[j].base
  BY <1>1, <1>5, <1>8
<1>11. \A i \in 1..Len(stack) : stack'[i].stash \in 0..raised
  BY <1>1, <1>2 DEF IInv, Numbered
<1>. QED  BY <1>1, <1>5, <1>8, <1>9, <1>10, <1>11 DEF Nested
-----------------------------------------------------------------------------
(* Frames that are made, and frames that are changed. *)

LEMMA NewFrame ==
    ASSUME TypeOK, NEW kind \in Kinds, NEW turns \in Nat, NEW try \in Trys
    PROVE  /\ Frame(kind, turns, try) \in Frames
           /\ Frame(kind, turns, try).base = scopes
           /\ Frame(kind, turns, try).stash = None
           /\ Frame(kind, turns, try).kind = kind
BY DEF TypeOK, Frame, Frames, None

LEMMA ChangedTop ==
    ASSUME TypeOK, stack # <<>>, NEW kind \in Kinds, NEW stash \in Nat
    PROVE  LET f == [Top EXCEPT !.kind = kind, !.stash = stash] IN
           f \in Frames /\ f.base = Top.base /\ f.stash = stash /\ f.kind = kind
<1>1. Top \in Frames
  BY PopShape DEF TypeOK
<1>. QED  BY <1>1 DEF Frames

(* The innermost frame, as the shape lemmas need it. *)
LEMMA TopFacts ==
    ASSUME IInv, stack # <<>>
    PROVE  /\ Top \in Frames /\ Top.stash \in 0..raised /\ Top.stash \in Nat
           /\ Outer \in Seq(Frames)
           /\ scopes >= 1 + Opened(Top)
<1>1. Top \in Frames /\ Outer \in Seq(Frames) /\ Len(stack) \in DOMAIN stack
  BY PopShape DEF IInv, TypeOK
<1>2. Top.stash \in 0..raised /\ Top.base >= 1 /\ Top.base + Opened(Top) <= scopes
  BY <1>1 DEF IInv, Nested, Numbered, Top
<1>3. Top.base \in Nat /\ scopes \in Nat /\ raised \in Nat /\ Opened(Top) \in {0, 1}
  BY <1>1, OpenedType DEF Frames, IInv, TypeOK
<1>. QED  BY <1>1, <1>2, <1>3

(* A call that returns, after its finally body if it has one. *)
LEMMA ReturnKeeps ==
    ASSUME IInv, stack # <<>>, NEW e \in 0..raised, NEW n \in Nat, n <= Opened(Top),
           Return(e), scopes' = scopes - n, raised' = raised
    PROVE  Nested' /\ Numbered' /\ stack' \in Seq(Frames) /\ scopes' \in Nat
<1>1. stack' = Outer /\ error' = e
  BY DEF Return
<1>2. Nested' /\ (\A i \in DOMAIN stack' : stack'[i].stash \in 0..raised)
  BY <1>1, PopKeeps
<1>3. scopes' \in Nat
  BY TopFacts, OpenedType DEF IInv, TypeOK
<1>. QED  BY <1>1, <1>2, <1>3, TopFacts DEF Numbered

LEMMA FinallyThenKeeps ==
    ASSUME IInv, stack # <<>>, NEW e \in 0..raised,
           FinallyThen(e), scopes' = scopes - Opened(Top), raised' = raised
    PROVE  /\ Nested' /\ Numbered'
           /\ stack' \in Seq(Frames) /\ scopes' \in Nat
           /\ finals' \in [due : Nat, begun : Nat]
<1>1. raised \in Nat /\ scopes \in Nat /\ e \in Nat /\ finals \in [due : Nat, begun : Nat]
  BY DEF IInv, TypeOK
<1>2. Opened(Top) \in Nat
  BY OpenedType
<1>3. CASE Top.try.finally
  <2>1. PICK f : f = [Top EXCEPT !.kind = "finally", !.stash = e]
    OBVIOUS
  <2>2. /\ stack' = Replace(f) /\ error' = None
        /\ finals' = [finals EXCEPT !.begun = @ + 1]
    BY <1>3, <2>1 DEF FinallyThen
  <2>3. f \in Frames /\ f.base = Top.base /\ f.stash = e /\ f.kind = "finally"
    BY <1>1, <2>1, ChangedTop DEF Kinds, IInv
  <2>4. Opened(f) = 0
    BY <2>3 DEF Opened, OpensScope
  <2>5. scopes' = scopes + Opened(f) - Opened(Top)
    BY <1>1, <1>2, <2>4
  <2>6. Nested' /\ (\A i \in DOMAIN stack' : stack'[i].stash \in 0..raised)
    BY <2>2, <2>3, <2>5, SwapKeeps
  <2>7. stack' \in Seq(Frames)
    BY <2>2, <2>3, SwapShape DEF IInv, TypeOK
  <2>8. scopes' \in Nat
    BY <1>1, <1>2, TopFacts
  <2>. QED  BY <1>1, <2>2, <2>6, <2>7, <2>8 DEF Numbered, None
<1>4. CASE ~Top.try.finally
  BY <1>1, <1>2, <1>4, ReturnKeeps DEF FinallyThen
<1>. QED  BY <1>3, <1>4

-----------------------------------------------------------------------------
(* One lemma for each kind of step. *)

LEMMA InitIInv == Init => IInv
<1>. SUFFICES ASSUME Init PROVE IInv
  OBVIOUS
<1>1. PICK f : f = Frame("program", 0, NoTry)
  OBVIOUS
<1>2. f \in Frames /\ f.base = 1 /\ f.stash = 0 /\ f.kind = "program"
  BY <1>1 DEF Init, Frame, Frames, Kinds, NoTry, Trys, None
<1>3. stack = <<f>> /\ DOMAIN stack = {1} /\ stack[1] = f
  BY <1>1 DEF Init
<1>4. Opened(f) = 0
  BY <1>2 DEF Opened, OpensScope
<1>5. TypeOK
  BY <1>2, <1>3 DEF Init, TypeOK, None
<1>6. Nested
  BY <1>2, <1>3, <1>4 DEF Init, Nested
<1>7. Numbered
  BY <1>2, <1>3 DEF Init, Numbered, None
<1>. QED  BY <1>5, <1>6, <1>7 DEF IInv

LEMMA SimpleKeeps == IInv /\ Simple => IInv'
BY DEF IInv, Simple, Begin, TypeOK, Errors, Nested, Numbered, Opened, OpensScope

LEMMA RaiseKeeps == IInv /\ Raise => IInv'
<1>. SUFFICES ASSUME IInv, Raise PROVE IInv'
  OBVIOUS
<1>1. /\ raised \in Nat /\ raised' = raised + 1 /\ error' = raised + 1 /\ begun' = begun + 1
      /\ UNCHANGED <<stack, scopes, caught, replaced, finals>>
  BY DEF Raise, Begin, IInv, TypeOK
<1>2. 1..raised \subseteq 1..raised' /\ 0..raised \subseteq 0..raised'
  BY <1>1
<1>3. TypeOK'
  BY <1>1, <1>2 DEF IInv, TypeOK, Errors
<1>4. Nested'
  BY <1>1 DEF IInv, Nested, Opened, OpensScope
<1>5. Numbered'
  BY <1>1, <1>2 DEF IInv, Numbered
<1>. QED  BY <1>3, <1>4, <1>5 DEF IInv

(* A statement with a body is begun: a frame, with as many scopes as it opens. *)
LEMMA BlockKeeps ==
    ASSUME IInv, NEW f \in Frames, f.base = scopes, f.stash = None,
           Begin, stack' = Append(stack, f), scopes' = scopes + Opened(f),
           finals' \in [due : Nat, begun : Nat],
           UNCHANGED <<error, raised, caught, replaced>>
    PROVE  IInv'
<1>1. Opened(f) \in Nat /\ scopes \in Nat
  BY OpenedType DEF IInv, TypeOK
<1>2. Nested' /\ (\A i \in DOMAIN stack' : stack'[i].stash \in 0..raised)
  BY <1>1, PushKeeps
<1>3. stack' \in Seq(Frames)
  BY PushShape DEF IInv, TypeOK
<1>4. TypeOK'
  BY <1>1, <1>3 DEF IInv, TypeOK, Begin, Errors
<1>5. Numbered'
  BY <1>2 DEF IInv, Numbered
<1>. QED  BY <1>2, <1>4, <1>5 DEF IInv

LEMMA StartPlainKeeps ==
    ASSUME IInv, NEW kind \in {"if", "while"}, StartPlain(kind)
    PROVE  IInv'
<1>1. PICK f : f = Frame(kind, 0, NoTry)
  OBVIOUS
<1>2. f \in Frames /\ f.base = scopes /\ f.stash = None /\ f.kind = kind
  <2>1. kind \in Kinds /\ 0 \in Nat /\ NoTry \in Trys /\ TypeOK
    BY DEF Kinds, Trys, NoTry, IInv
  <2>. QED  BY <1>1, <2>1, NewFrame
<1>3. Opened(f) = 0 /\ scopes \in Nat
  BY <1>2 DEF Opened, OpensScope, IInv, TypeOK
<1>4. /\ Begin /\ stack' = Append(stack, f) /\ scopes' = scopes + Opened(f)
      /\ finals' \in [due : Nat, begun : Nat]
      /\ UNCHANGED <<error, raised, caught, replaced>>
  BY <1>1, <1>3 DEF StartPlain, BeginBlock, IInv, TypeOK
<1>. QED  BY <1>2, <1>4, BlockKeeps

LEMMA StartTurnsKeeps ==
    ASSUME IInv, NEW kind \in {"for", "on"}, NEW n \in 1..MaxTurns, StartTurns(kind, n)
    PROVE  IInv'
<1>1. PICK f : f = Frame(kind, n, NoTry)
  OBVIOUS
<1>2. f \in Frames /\ f.base = scopes /\ f.stash = None /\ f.kind = kind
  <2>1. kind \in Kinds /\ n \in Nat /\ NoTry \in Trys /\ TypeOK
    BY ExecutorConstants DEF Kinds, Trys, NoTry, IInv
  <2>. QED  BY <1>1, <2>1, NewFrame
<1>3. Opened(f) = 1
  BY <1>2 DEF Opened, OpensScope
<1>4. /\ Begin /\ stack' = Append(stack, f) /\ scopes' = scopes + Opened(f)
      /\ finals' \in [due : Nat, begun : Nat]
      /\ UNCHANGED <<error, raised, caught, replaced>>
  BY <1>1, <1>3 DEF StartTurns, BeginBlock, IInv, TypeOK
<1>. QED  BY <1>2, <1>4, BlockKeeps

LEMMA StartTryKeeps ==
    ASSUME IInv, NEW try \in Trys, StartTry(try)
    PROVE  IInv'
<1>1. PICK f : f = Frame("try", 0, try)
  OBVIOUS
<1>2. f \in Frames /\ f.base = scopes /\ f.stash = None /\ f.kind = "try"
  BY <1>1, NewFrame DEF IInv, Kinds
<1>3. Opened(f) = 0 /\ scopes \in Nat
  BY <1>2 DEF Opened, OpensScope, IInv, TypeOK
<1>4. /\ Begin /\ stack' = Append(stack, f) /\ scopes' = scopes + Opened(f)
      /\ UNCHANGED <<error, raised, caught, replaced>>
  BY <1>1, <1>3 DEF StartTry, BeginBlock
<1>5. finals' \in [due : Nat, begun : Nat]
  BY DEF StartTry, IInv, TypeOK
<1>. QED  BY <1>2, <1>4, <1>5, BlockKeeps

(* A body ends, with or without an error, and its call returns. *)
LEMMA ReturnsKeep ==
    ASSUME IInv, stack # <<>>, NEW e \in 0..raised, NEW n \in Nat, n <= Opened(Top),
           Return(e), scopes' = scopes - n,
           UNCHANGED <<begun, raised, caught, finals>>,
           replaced' \subseteq Errors
    PROVE  IInv'
<1>1. Nested' /\ Numbered' /\ stack' \in Seq(Frames) /\ scopes' \in Nat
  BY ReturnKeeps
<1>2. error' \in Nat /\ Errors' = Errors
  BY DEF Return, IInv, TypeOK, Errors
<1>3. TypeOK'
  BY <1>1, <1>2 DEF IInv, TypeOK
<1>. QED  BY <1>1, <1>3 DEF IInv

LEMMA EndPlainKeeps == IInv /\ EndPlain => IInv'
<1>. SUFFICES ASSUME IInv, EndPlain PROVE IInv'
  OBVIOUS
<1>1. /\ stack # <<>> /\ Return(None) /\ scopes' = scopes
      /\ UNCHANGED <<begun, raised, caught, replaced, finals>>
  BY DEF EndPlain, Ends, history
<1>2. None \in 0..raised /\ 0 <= Opened(Top) /\ scopes' = scopes - 0 /\ replaced' \subseteq Errors
  BY <1>1, OpenedType DEF IInv, TypeOK, None
<1>. QED  BY <1>1, <1>2, ReturnsKeep

LEMMA EndTurnKeeps == IInv /\ EndTurn => IInv'
<1>. SUFFICES ASSUME IInv, EndTurn PROVE IInv'
  OBVIOUS
<1>1. /\ stack # <<>> /\ Top.kind \in {"for", "on"} /\ Top \in Frames
      /\ UNCHANGED <<begun, raised, caught, replaced, finals>>
  BY TopFacts DEF EndTurn, Ends, history
<1>2. Opened(Top) = 1 /\ scopes \in Nat /\ None \in 0..raised /\ replaced' \subseteq Errors
  BY <1>1 DEF Opened, OpensScope, IInv, TypeOK, None
<1>3. CASE Top.turns > 1
  <2>1. PICK f : f = [Top EXCEPT !.turns = @ - 1]
    OBVIOUS
  <2>2. stack' = Replace(f) /\ scopes' = scopes /\ error' = error
    BY <1>3, <2>1 DEF EndTurn
  <2>3. f \in Frames /\ f.base = Top.base /\ f.stash = Top.stash /\ f.kind = Top.kind
    BY <1>1, <1>3, <2>1 DEF Frames
  <2>4. Opened(f) = 1
    BY <1>1, <2>3 DEF Opened, OpensScope
  <2>5. scopes' = scopes + Opened(f) - Opened(Top)
    BY <1>2, <2>2, <2>4
  <2>6. f.stash \in 0..raised
    BY <1>1, <2>3, TopFacts
  <2>7. Nested' /\ (\A i \in DOMAIN stack' : stack'[i].stash \in 0..raised)
    BY <1>1, <2>2, <2>3, <2>5, <2>6, SwapKeeps
  <2>8. stack' \in Seq(Frames)
    BY <1>1, <2>2, <2>3, SwapShape DEF IInv, TypeOK
  <2>9. TypeOK'
    BY <1>1, <2>2, <2>8 DEF IInv, TypeOK, Errors
  <2>10. Numbered'
    BY <1>1, <2>2, <2>7 DEF IInv, Numbered
  <2>. QED  BY <2>7, <2>9, <2>10 DEF IInv
<1>4. CASE ~(Top.turns > 1)
  <2>1. Return(None) /\ scopes' = scopes - 1
    BY <1>4 DEF EndTurn
  <2>. QED  BY <1>1, <1>2, <2>1, ReturnsKeep
<1>. QED  BY <1>3, <1>4

(* A try or catch body is over, and a finally body may follow. *)
LEMMA FinallyNextKeeps ==
    ASSUME IInv, stack # <<>>, NEW e \in 0..raised,
           FinallyThen(e), scopes' = scopes - Opened(Top),
           UNCHANGED <<begun, raised, caught, replaced>>
    PROVE  IInv'
<1>1. /\ Nested' /\ Numbered'
      /\ stack' \in Seq(Frames) /\ scopes' \in Nat
      /\ finals' \in [due : Nat, begun : Nat]
  BY FinallyThenKeeps
<1>2. raised \in Nat /\ error' \in Nat
  BY <1>1 DEF IInv, TypeOK, Numbered
<1>3. TypeOK'
  BY <1>1, <1>2 DEF IInv, TypeOK, Errors
<1>. QED  BY <1>1, <1>3 DEF IInv

LEMMA TryOverKeeps ==
    ASSUME IInv, stack # <<>>, Top.kind = "try", NEW e \in 0..raised, FinallyThen(e),
           UNCHANGED <<scopes, begun, raised, caught, replaced>>
    PROVE  IInv'
<1>1. Opened(Top) = 0 /\ scopes \in Nat
  BY DEF Opened, OpensScope, IInv, TypeOK
<1>2. scopes' = scopes - Opened(Top)
  BY <1>1
<1>. QED  BY <1>2, FinallyNextKeeps

LEMMA CatchOverKeeps ==
    ASSUME IInv, stack # <<>>, Top.kind = "catch", NEW e \in 0..raised, FinallyThen(e),
           PopErrVar, UNCHANGED <<begun, raised, caught, replaced>>
    PROVE  IInv'
<1>1. scopes \in Nat /\ Opened(Top) = IF Top.try.var THEN 1 ELSE 0
  BY DEF Opened, OpensScope, IInv, TypeOK
<1>2. scopes' = scopes - Opened(Top)
  BY <1>1 DEF PopErrVar
<1>. QED  BY <1>2, FinallyNextKeeps

LEMMA EndsKeep == IInv /\ (EndTry \/ EndCatch \/ EndFinally) => IInv'
<1>. SUFFICES ASSUME IInv, EndTry \/ EndCatch \/ EndFinally PROVE IInv'
  OBVIOUS
<1>1. None \in 0..raised
  BY DEF IInv, TypeOK, None
<1>2. CASE EndTry
  <2>1. /\ stack # <<>> /\ Top.kind = "try" /\ FinallyThen(None)
        /\ UNCHANGED <<scopes, begun, raised, caught, replaced>>
    BY <1>2 DEF EndTry, Ends
  <2>. QED  BY <1>1, <2>1, TryOverKeeps
<1>3. CASE EndCatch
  <2>1. /\ stack # <<>> /\ Top.kind = "catch" /\ FinallyThen(None) /\ PopErrVar
        /\ UNCHANGED <<begun, raised, caught, replaced>>
    BY <1>3 DEF EndCatch, Ends
  <2>. QED  BY <1>1, <2>1, CatchOverKeeps
<1>4. CASE EndFinally
  <2>1. /\ stack # <<>> /\ Return(Top.stash) /\ scopes' = scopes
        /\ UNCHANGED <<begun, raised, caught, replaced, finals>>
    BY <1>4 DEF EndFinally, Ends, history
  <2>2. Top.stash \in 0..raised /\ 0 <= Opened(Top) /\ scopes' = scopes - 0
        /\ replaced' \subseteq Errors
    BY <2>1, TopFacts, OpenedType DEF IInv, TypeOK
  <2>. QED  BY <2>1, <2>2, ReturnsKeep
<1>. QED  BY <1>2, <1>3, <1>4

LEMMA PropagateKeeps == IInv /\ Propagate => IInv'
<1>. SUFFICES ASSUME IInv, Propagate PROVE IInv'
  OBVIOUS
<1>1. /\ stack # <<>> /\ Return(error) /\ scopes' = scopes
      /\ UNCHANGED <<begun, raised, caught, replaced, finals>>
  BY DEF Propagate, Fails, history
<1>2. error \in 0..raised /\ 0 <= Opened(Top) /\ scopes' = scopes - 0 /\ replaced' \subseteq Errors
  BY <1>1, OpenedType DEF IInv, TypeOK, Numbered
<1>. QED  BY <1>1, <1>2, ReturnsKeep

LEMMA CatchKeeps == IInv /\ Catch => IInv'
<1>. SUFFICES ASSUME IInv, Catch PROVE IInv'
  OBVIOUS
<1>1. PICK f : f = [Top EXCEPT !.kind = "catch"]
  OBVIOUS
<1>2. /\ stack # <<>> /\ error # None /\ Top.kind = "try"
      /\ stack' = Replace(f)
      /\ scopes' = IF Top.try.var THEN scopes + 1 ELSE scopes
      /\ error' = None /\ caught' = caught \cup {error}
      /\ UNCHANGED <<begun, raised, replaced, finals>>
  BY <1>1 DEF Catch, Fails
<1>3. Top \in Frames /\ Top.stash \in 0..raised
  BY <1>2, TopFacts
<1>4. /\ f \in Frames /\ f.base = Top.base /\ f.stash = Top.stash
      /\ f.kind = "catch" /\ f.try = Top.try
  BY <1>1, <1>3 DEF Frames, Kinds
<1>5. /\ scopes \in Nat /\ raised \in Nat /\ Opened(Top) = 0
      /\ Opened(f) = IF Top.try.var THEN 1 ELSE 0
  BY <1>2, <1>4 DEF Opened, OpensScope, IInv, TypeOK
<1>6. scopes' = scopes + Opened(f) - Opened(Top)
  BY <1>2, <1>5
<1>7. Nested' /\ (\A i \in DOMAIN stack' : stack'[i].stash \in 0..raised)
  BY <1>2, <1>3, <1>4, <1>6, SwapKeeps
<1>8. stack' \in Seq(Frames)
  BY <1>2, <1>4, SwapShape DEF IInv, TypeOK
<1>9. error \in Errors /\ scopes' \in Nat
  BY <1>2, <1>5 DEF IInv, Numbered, Errors, None
<1>10. TypeOK'
  BY <1>2, <1>8, <1>9 DEF IInv, TypeOK, Errors, None
<1>11. Numbered'
  BY <1>2, <1>5, <1>7 DEF Numbered, None
<1>. QED  BY <1>7, <1>10, <1>11 DEF IInv

LEMMA FailsKeep == IInv /\ (NoCatch \/ CatchFails \/ FinallyFails) => IInv'
<1>. SUFFICES ASSUME IInv, NoCatch \/ CatchFails \/ FinallyFails PROVE IInv'
  OBVIOUS
<1>1. error \in 0..raised
  BY DEF IInv, Numbered
<1>2. CASE NoCatch
  <2>1. /\ stack # <<>> /\ Top.kind = "try" /\ FinallyThen(error)
        /\ UNCHANGED <<scopes, begun, raised, caught, replaced>>
    BY <1>2 DEF NoCatch, Fails
  <2>. QED  BY <1>1, <2>1, TryOverKeeps
<1>3. CASE CatchFails
  <2>1. /\ stack # <<>> /\ Top.kind = "catch" /\ FinallyThen(error) /\ PopErrVar
        /\ UNCHANGED <<begun, raised, caught, replaced>>
    BY <1>3 DEF CatchFails, Fails
  <2>. QED  BY <1>1, <2>1, CatchOverKeeps
<1>4. CASE FinallyFails
  <2>1. /\ stack # <<>> /\ Return(error) /\ scopes' = scopes
        /\ replaced' = replaced \cup ({Top.stash} \ {None})
        /\ UNCHANGED <<begun, raised, caught, finals>>
    BY <1>4 DEF FinallyFails, Fails
  <2>2. 0 <= Opened(Top) /\ scopes' = scopes - 0
    BY <2>1, OpenedType DEF IInv, TypeOK
  <2>3. Top.stash \in 0..raised /\ raised \in Nat /\ replaced \subseteq Errors
    BY <2>1, TopFacts DEF IInv, TypeOK
  <2>4. replaced' \subseteq Errors
    <3>1. SUFFICES ASSUME NEW e \in {Top.stash} \ {None} PROVE e \in Errors
      BY <2>1, <2>3
    <3>2. e \in 0..raised /\ e # 0
      BY <2>3 DEF None
    <3>. QED  BY <3>2, <2>3 DEF Errors
  <2>. QED  BY <1>1, <2>1, <2>2, <2>4, ReturnsKeep
<1>. QED  BY <1>2, <1>3, <1>4

LEMMA NextIInv == IInv /\ [Next]_vars => IInv'
<1>. SUFFICES ASSUME IInv, [Next]_vars PROVE IInv'
  OBVIOUS
<1>1. CASE EndWhile \/ UNCHANGED vars
  BY <1>1 DEF EndWhile, vars, IInv, TypeOK, Errors, Nested, Numbered, Opened, OpensScope
<1>2. CASE Simple \/ Raise
  BY <1>2, SimpleKeeps, RaiseKeeps
<1>3. CASE \E kind \in {"if", "while"} : StartPlain(kind)
  BY <1>3, StartPlainKeeps
<1>4. CASE \E kind \in {"for", "on"}, n \in 1..MaxTurns : StartTurns(kind, n)
  BY <1>4, StartTurnsKeeps
<1>5. CASE \E try \in Trys : StartTry(try)
  BY <1>5, StartTryKeeps
<1>6. CASE EndPlain \/ EndTurn
  BY <1>6, EndPlainKeeps, EndTurnKeeps
<1>7. CASE EndTry \/ EndCatch \/ EndFinally
  BY <1>7, EndsKeep
<1>8. CASE Propagate \/ Catch \/ NoCatch \/ CatchFails \/ FinallyFails
  BY <1>8, PropagateKeeps, CatchKeeps, FailsKeep
<1>. QED  BY <1>1, <1>2, <1>3, <1>4, <1>5, <1>6, <1>7, <1>8 DEF Next

LEMMA Inductive == Spec => []IInv
BY InitIInv, NextIInv, PTL DEF Spec

(* The executor's variables keep their types: the scope stack is never popped empty. *)
THEOREM TypeCorrect == Spec => []TypeOK
BY Inductive, PTL DEF IInv

(***************************************************************************)
(* No way out of if, for, while, on machine or try, with an error or       *)
(* without, takes a scope from the statements around it: a call always has *)
(* at least the scopes it began with.                                      *)
(***************************************************************************)
THEOREM ScopesAroundStay == Spec => []EnclosingScopesStay
<1>1. IInv => EnclosingScopesStay
  <2>. SUFFICES ASSUME IInv PROVE EnclosingScopesStay
    OBVIOUS
  <2>1. /\ scopes \in Nat /\ DOMAIN stack = 1..Len(stack)
        /\ \A i \in 1..Len(stack) : stack[i].base \in Nat /\ Opened(stack[i]) \in {0, 1}
    BY FrameTypes DEF IInv
  <2>. QED  BY <2>1 DEF IInv, Nested, EnclosingScopesStay
<1>. QED  BY Inductive, <1>1, PTL
-----------------------------------------------------------------------------
(* What becomes of errors. *)
Accounted == caught \cup replaced

(* Only finally bodies hold an error back, and no error is carried twice. *)
Carried ==
    /\ \A i \in DOMAIN stack : stack[i].kind # "finally" => stack[i].stash = None
    /\ \A i \in DOMAIN stack : stack[i].stash # None => stack[i].stash # error
    /\ \A i, j \in DOMAIN stack :
          i < j /\ stack[i].stash # None => stack[i].stash # stack[j].stash
    /\ \A e \in Errors :
          e \notin Accounted <=> (e = error \/ \E i \in DOMAIN stack : stack[i].stash = e)

LEMMA CarriedAccounts == IInv /\ Carried => ErrorsAccounted
<1>. SUFFICES ASSUME IInv, Carried PROVE ErrorsAccounted
  OBVIOUS
<1>1. /\ raised \in Nat
      /\ \A e \in Errors : e # None
      /\ \A e \in 0..raised : e # None => e \in Errors
  BY DEF IInv, TypeOK, Errors, None
<1>2. \A e : e \in Errors \ Accounted
               <=> e # None /\ (e = error \/ \E i \in DOMAIN stack : stack[i].stash = e)
  BY <1>1 DEF IInv, Numbered, Carried
<1>. QED  BY <1>2 DEF ErrorsAccounted, Accounted

(* A new frame carries nothing. *)
LEMMA PushCarries ==
    ASSUME IInv, Carried, NEW f \in Frames, f.stash = None,
           stack' = Append(stack, f), UNCHANGED <<error, raised, caught, replaced>>
    PROVE  Carried'
<1>1. /\ DOMAIN stack' = 1..Len(stack) + 1
      /\ \A i \in 1..Len(stack) : stack'[i] = stack[i]
      /\ stack'[Len(stack) + 1] = f
      /\ DOMAIN stack = 1..Len(stack) /\ Len(stack) \in Nat
  BY PushShape DEF IInv, TypeOK
<1>2. \A i \in DOMAIN stack' : i \in DOMAIN stack \/ (i = Len(stack) + 1 /\ stack'[i].stash = None)
  BY <1>1
<1>3. \A i \in DOMAIN stack' : stack'[i].kind # "finally" => stack'[i].stash = None
  BY <1>1, <1>2 DEF Carried
<1>4. \A i \in DOMAIN stack' : stack'[i].stash # None => stack'[i].stash # error'
  BY <1>1, <1>2 DEF Carried
<1>5. \A i, j \in DOMAIN stack' :
        i < j /\ stack'[i].stash # None => stack'[i].stash # stack'[j].stash
  BY <1>1, <1>2 DEF Carried
<1>6. Errors' = Errors /\ Accounted' = Accounted /\ \A e \in Errors : e # None
  BY DEF Errors, Accounted, None, IInv, TypeOK
<1>7. \A e \in Errors : (\E i \in DOMAIN stack' : stack'[i].stash = e)
                          <=> (\E i \in DOMAIN stack : stack[i].stash = e)
  BY <1>1, <1>2, <1>6
<1>8. \A e \in Errors' :
        e \notin Accounted' <=> (e = error' \/ \E i \in DOMAIN stack' : stack'[i].stash = e)
  BY <1>6, <1>7 DEF Carried
<1>. QED  BY <1>3, <1>4, <1>5, <1>8 DEF Carried

(* A call that returns passes on one of the errors there were; the other, if any, is accounted for. *)
LEMMA PopCarries ==
    ASSUME IInv, Carried, stack # <<>>, NEW e \in {error, Top.stash},
           Return(e), raised' = raised,
           Accounted' = Accounted \cup ({error, Top.stash} \ {e, None})
    PROVE  Carried'
<1>1. /\ DOMAIN stack' = 1..Len(stack) - 1
      /\ \A i \in 1..Len(stack) - 1 : stack'[i] = stack[i]
      /\ Len(stack) \in Nat \ {0}
      /\ stack[Len(stack)] = Top
      /\ DOMAIN stack = 1..Len(stack)
      /\ error' = e
  BY PopShape DEF IInv, TypeOK, Top, Return
<1>2. \A i \in DOMAIN stack' : /\ i \in DOMAIN stack /\ i < Len(stack)
                               /\ stack'[i] = stack[i]
  BY <1>1
<1>3. \A i \in DOMAIN stack : i = Len(stack) \/ i \in DOMAIN stack'
  BY <1>1
<1>4. \A i \in DOMAIN stack' : stack'[i].stash # None => stack'[i].stash # error /\ stack'[i].stash # Top.stash
  BY <1>1, <1>2 DEF Carried
<1>5. /\ \A i \in DOMAIN stack' : stack'[i].kind # "finally" => stack'[i].stash = None
      /\ \A i \in DOMAIN stack' : stack'[i].stash # None => stack'[i].stash # error'
      /\ \A i, j \in DOMAIN stack' :
            i < j /\ stack'[i].stash # None => stack'[i].stash # stack'[j].stash
  BY <1>1, <1>2, <1>4 DEF Carried
<1>6. Errors' = Errors /\ \A x \in Errors : x # None
  BY DEF Errors, None, IInv, TypeOK
<1>7. ASSUME NEW x \in Errors
      PROVE  x \notin Accounted' <=> (x = error' \/ \E i \in DOMAIN stack' : stack'[i].stash = x)
  <2>1. x # None
    BY <1>6
  <2>2. x \notin Accounted
          <=> (x = error \/ x = Top.stash \/ \E i \in DOMAIN stack' : stack'[i].stash = x)
    BY <1>1, <1>2, <1>3 DEF Carried
  <2>3. \A i \in DOMAIN stack' : stack'[i].stash = x => x # error /\ x # Top.stash
    BY <1>4, <2>1
  <2>. QED  BY <1>1, <2>1, <2>2, <2>3
<1>. QED  BY <1>5, <1>6, <1>7 DEF Carried

(* The same for a call that goes on with another body. *)
LEMMA SwapCarries ==
    ASSUME IInv, Carried, stack # <<>>, NEW f \in Frames, NEW e,
           {e, f.stash} \subseteq {error, Top.stash, None},
           f.stash # None => f.stash # e,
           f.kind # "finally" => f.stash = None,
           stack' = Replace(f), error' = e, raised' = raised,
           Accounted' = Accounted \cup ({error, Top.stash} \ {e, f.stash, None})
    PROVE  Carried'
<1>1. /\ DOMAIN stack' = 1..Len(stack)
      /\ \A i \in 1..Len(stack) - 1 : stack'[i] = stack[i]
      /\ stack'[Len(stack)] = f
      /\ Len(stack) \in Nat \ {0}
      /\ stack[Len(stack)] = Top
      /\ DOMAIN stack = 1..Len(stack)
  BY PopShape, SwapShape DEF IInv, TypeOK, Top
<1>. DEFINE Rest == 1..Len(stack) - 1
<1>2. /\ \A i \in Rest : i \in DOMAIN stack /\ i < Len(stack) /\ stack'[i] = stack[i]
      /\ \A i \in DOMAIN stack : i \in Rest \/ i = Len(stack)
      /\ Len(stack) \in DOMAIN stack
  BY <1>1
<1>3. \A i \in Rest : stack[i].stash # None => stack[i].stash # error /\ stack[i].stash # Top.stash
  BY <1>1, <1>2 DEF Carried
<1>4. \A i \in Rest : stack[i].stash # None => stack[i].stash # e /\ stack[i].stash # f.stash
  BY <1>3
<1>. HIDE DEF Rest
<1>5. \A i \in DOMAIN stack' : stack'[i].kind # "finally" => stack'[i].stash = None
  BY <1>1, <1>2 DEF Carried
<1>6. \A i \in DOMAIN stack' : stack'[i].stash # None => stack'[i].stash # error'
  BY <1>1, <1>2, <1>4
<1>7. \A i, j \in DOMAIN stack' :
        i < j /\ stack'[i].stash # None => stack'[i].stash # stack'[j].stash
  <2>. SUFFICES ASSUME NEW i \in DOMAIN stack', NEW j \in DOMAIN stack', i < j, stack'[i].stash # None
                PROVE  stack'[i].stash # stack'[j].stash
    OBVIOUS
  <2>1. i \in Rest
    BY <1>1, <1>2
  <2>2. CASE j \in Rest
    BY <1>1, <1>2, <2>1, <2>2 DEF Carried
  <2>3. CASE j = Len(stack)
    BY <1>1, <1>2, <1>4, <2>1, <2>3
  <2>. QED  BY <1>1, <1>2, <2>2, <2>3
<1>8. Errors' = Errors /\ \A x \in Errors : x # None
  BY DEF Errors, None, IInv, TypeOK
<1>9. ASSUME NEW x \in Errors
      PROVE  x \notin Accounted' <=> (x = error' \/ \E i \in DOMAIN stack' : stack'[i].stash = x)
  <2>1. x # None
    BY <1>8
  <2>2. x \notin Accounted
          <=> (x = error \/ x = Top.stash \/ \E i \in Rest : stack[i].stash = x)
    BY <1>1, <1>2 DEF Carried
  <2>3. \A i \in Rest : stack[i].stash = x => x # error /\ x # Top.stash
    BY <1>3, <2>1
  <2>4. (\E i \in DOMAIN stack' : stack'[i].stash = x)
          <=> (x = f.stash \/ \E i \in Rest : stack[i].stash = x)
    BY <1>1, <1>2
  <2>. QED  BY <2>1, <2>2, <2>3, <2>4
<1>. QED  BY <1>5, <1>6, <1>7, <1>8, <1>9 DEF Carried

LEMMA FinallyThenCarries ==
    ASSUME IInv, Carried, stack # <<>>, Top.kind \in {"try", "catch"},
           FinallyThen(error), UNCHANGED <<raised, caught, replaced>>
    PROVE  Carried'
<1>1. Top.stash = None /\ error \in Nat /\ Accounted' = Accounted
  BY PopShape DEF IInv, TypeOK, Carried, Top, Accounted
<1>2. CASE Top.try.finally
  <2>1. PICK f : f = [Top EXCEPT !.kind = "finally", !.stash = error]
    OBVIOUS
  <2>2. stack' = Replace(f) /\ error' = None
    BY <1>2, <2>1 DEF FinallyThen
  <2>3. f \in Frames /\ f.stash = error /\ f.kind = "finally"
    BY <1>1, <2>1, ChangedTop DEF Kinds, IInv
  <2>4. Accounted' = Accounted \cup ({error, Top.stash} \ {None, f.stash, None})
    BY <1>1, <2>3
  <2>. QED  BY <1>1, <2>2, <2>3, <2>4, SwapCarries
<1>3. CASE ~Top.try.finally
  <2>1. Return(error)
    BY <1>3 DEF FinallyThen
  <2>2. Accounted' = Accounted \cup ({error, Top.stash} \ {error, None})
    BY <1>1
  <2>. QED  BY <2>1, <2>2, PopCarries
<1>. QED  BY <1>2, <1>3

LEMMA InitCarried == Init => Carried
<1>. SUFFICES ASSUME Init PROVE Carried
  OBVIOUS
<1>1. PICK f : f = Frame("program", 0, NoTry)
  OBVIOUS
<1>2. stack = <<f>> /\ DOMAIN stack = {1} /\ stack[1] = f /\ f.stash = None
  BY <1>1 DEF Init, Frame
<1>3. Errors = {}
  BY DEF Init, Errors
<1>. QED  BY <1>2, <1>3 DEF Carried

LEMMA NextCarried == IInv /\ Carried /\ [Next]_vars => Carried'
<1>. SUFFICES ASSUME IInv, Carried, [Next]_vars PROVE Carried'
  OBVIOUS
<1>1. CASE EndWhile \/ UNCHANGED vars
  BY <1>1 DEF EndWhile, vars, Carried, Accounted, Errors
<1>2. CASE Simple
  BY <1>2 DEF Simple, Carried, Accounted, Errors
<1>3. CASE Raise
  <2>1. /\ raised \in Nat /\ raised' = raised + 1 /\ error' = raised + 1 /\ error = None
        /\ UNCHANGED <<stack, caught, replaced>>
    BY <1>3 DEF Raise, Begin, MoreToDo, IInv, TypeOK
  <2>2. /\ \A x \in Errors : x \in 1..raised /\ x # raised + 1 /\ x # None
        /\ \A x \in Errors' : x \in Errors \/ x = raised + 1
        /\ raised + 1 \notin Accounted /\ Accounted' = Accounted
    BY <2>1 DEF Errors, None, IInv, TypeOK, Accounted
  <2>3. \A i \in DOMAIN stack : stack[i].stash # raised + 1
    BY <2>1 DEF IInv, Numbered
  <2>4. \A x \in Errors' :
          x \notin Accounted' <=> (x = error' \/ \E i \in DOMAIN stack' : stack'[i].stash = x)
    BY <2>1, <2>2, <2>3 DEF Carried
  <2>. QED  BY <2>1, <2>3, <2>4 DEF Carried
<1>4. CASE \/ \E kind \in {"if", "while"} : StartPlain(kind)
           \/ \E kind \in {"for", "on"}, n \in 1..MaxTurns : StartTurns(kind, n)
           \/ \E try \in Trys : StartTry(try)
  <2>1. PICK kind \in Kinds, n \in Nat, try \in Trys :
          /\ stack' = Append(stack, Frame(kind, n, try))
          /\ UNCHANGED <<error, raised, caught, replaced>>
    <3>1. NoTry \in Trys /\ 0 \in Nat /\ (\A n \in 1..MaxTurns : n \in Nat)
      BY ExecutorConstants DEF NoTry, Trys
    <3>. QED  BY <1>4, <3>1 DEF StartPlain, StartTurns, StartTry, Kinds
  <2>2. PICK f : f = Frame(kind, n, try)
    OBVIOUS
  <2>3. f \in Frames /\ f.stash = None
    BY <2>2, NewFrame DEF IInv
  <2>. QED  BY <2>1, <2>2, <2>3, PushCarries
<1>5. CASE EndPlain \/ Propagate \/ (EndTurn /\ ~(Top.turns > 1))
  <2>1. /\ stack # <<>> /\ Top.kind # "finally" /\ Return(error)
        /\ UNCHANGED <<raised, caught, replaced>>
    BY <1>5 DEF EndPlain, Propagate, EndTurn, Ends, Fails, history
  <2>2. Top.stash = None /\ Accounted' = Accounted
    BY <2>1, PopShape DEF IInv, TypeOK, Carried, Top, Accounted
  <2>3. Accounted' = Accounted \cup ({error, Top.stash} \ {error, None})
    BY <2>2
  <2>. QED  BY <2>1, <2>3, PopCarries
<1>6. CASE EndTurn /\ Top.turns > 1
  <2>1. PICK f : f = [Top EXCEPT !.turns = @ - 1]
    OBVIOUS
  <2>2. /\ stack # <<>> /\ Top.kind \in {"for", "on"}
        /\ stack' = Replace(f) /\ error' = error
        /\ UNCHANGED <<raised, caught, replaced>>
    BY <1>6, <2>1 DEF EndTurn, Ends, history
  <2>3. Top \in Frames /\ Top.stash = None /\ Accounted' = Accounted
    BY <2>2, PopShape DEF IInv, TypeOK, Carried, Top, Accounted
  <2>4. f \in Frames /\ f.stash = None
    BY <1>6, <2>1, <2>3 DEF Frames
  <2>5. Accounted' = Accounted \cup ({error, Top.stash} \ {error, f.stash, None})
    BY <2>3
  <2>. QED  BY <2>2, <2>4, <2>5, SwapCarries
<1>7. CASE EndTry \/ EndCatch \/ NoCatch \/ CatchFails
  <2>1. /\ stack # <<>> /\ Top.kind \in {"try", "catch"} /\ FinallyThen(error)
        /\ UNCHANGED <<raised, caught, replaced>>
    BY <1>7 DEF EndTry, EndCatch, NoCatch, CatchFails, Ends, Fails
  <2>. QED  BY <2>1, FinallyThenCarries
<1>8. CASE Catch
  <2>1. PICK f : f = [Top EXCEPT !.kind = "catch"]
    OBVIOUS
  <2>2. /\ stack # <<>> /\ Top.kind = "try" /\ stack' = Replace(f) /\ error' = None
        /\ caught' = caught \cup {error} /\ error # None
        /\ UNCHANGED <<raised, replaced>>
    BY <1>8, <2>1 DEF Catch, Fails
  <2>3. Top \in Frames /\ Top.stash = None
    BY <2>2, PopShape DEF IInv, TypeOK, Carried, Top
  <2>4. f \in Frames /\ f.stash = None
    BY <2>1, <2>3 DEF Frames, Kinds
  <2>5. Accounted' = Accounted \cup ({error, Top.stash} \ {None, f.stash, None})
    BY <2>2, <2>3, <2>4 DEF Accounted
  <2>. QED  BY <2>2, <2>4, <2>5, SwapCarries
<1>9. CASE EndFinally
  <2>1. /\ stack # <<>> /\ error = None /\ Return(Top.stash)
        /\ UNCHANGED <<raised, caught, replaced>>
    BY <1>9 DEF EndFinally, Ends, history
  <2>2. Accounted' = Accounted \cup ({error, Top.stash} \ {Top.stash, None})
    BY <2>1 DEF Accounted
  <2>. QED  BY <2>1, <2>2, PopCarries
<1>10. CASE FinallyFails
  <2>1. /\ stack # <<>> /\ Return(error)
        /\ replaced' = replaced \cup ({Top.stash} \ {None})
        /\ UNCHANGED <<raised, caught>>
    BY <1>10 DEF FinallyFails, Fails
  <2>2. Top.stash # None => Top.stash # error
    BY <2>1, PopShape DEF IInv, TypeOK, Carried, Top
  <2>3. Accounted' = Accounted \cup ({error, Top.stash} \ {error, None})
    BY <2>1, <2>2 DEF Accounted
  <2>. QED  BY <2>1, <2>3, PopCarries
<1>. QED  BY <1>1, <1>2, <1>3, <1>4, <1>5, <1>6, <1>7, <1>8, <1>9, <1>10 DEF Next

(***************************************************************************)
(* No error gets lost, through any nesting of try statements: each one was *)
(* caught, gave way to an error of a finally body, is on its way out, or   *)
(* waits for a finally body to end.                                        *)
(***************************************************************************)
THEOREM NoErrorLost == Spec => []ErrorsAccounted
BY Inductive, InitCarried, NextCarried, CarriedAccounts, PTL DEF Spec
-----------------------------------------------------------------------------
(* How many active calls are of a kind. *)
Places(s, M) == {i \in DOMAIN s : s[i] \in M}

Count(s, M) == Cardinality(Places(s, M))

One(f, M) == IF f \in M THEN 1 ELSE 0

LEMMA CountType ==
    ASSUME NEW s \in Seq(Frames), NEW M
    PROVE  IsFiniteSet(Places(s, M)) /\ Count(s, M) \in Nat
<1>1. IsFiniteSet(1..Len(s)) /\ DOMAIN s = 1..Len(s)
  BY FS_Interval
<1>2. Places(s, M) \in SUBSET (1..Len(s))
  BY <1>1 DEF Places
<1>. QED  BY <1>1, <1>2, FS_Subset, FS_CardinalityType DEF Count

LEMMA CountPush ==
    ASSUME stack \in Seq(Frames), NEW f \in Frames, NEW M
    PROVE  Count(Append(stack, f), M) = Count(stack, M) + One(f, M)
<1>. DEFINE n == Len(stack)
            P == Places(stack, M)
            Q == Places(Append(stack, f), M)
<1>1. /\ n \in Nat /\ DOMAIN stack = 1..n /\ DOMAIN Append(stack, f) = 1..n + 1
      /\ \A i \in 1..n : Append(stack, f)[i] = stack[i]
      /\ Append(stack, f)[n + 1] = f
  BY PushShape
<1>2. n + 1 \notin P
  BY <1>1 DEF Places
<1>3. Q = IF f \in M THEN P \cup {n + 1} ELSE P
  BY <1>1 DEF Places
<1>4. IsFiniteSet(P) /\ Cardinality(P) \in Nat
  BY CountType DEF Count
<1>. HIDE DEF n, P, Q
<1>5. Cardinality(Q) = Cardinality(P) + One(f, M)
  <2>1. CASE f \in M
    BY <2>1, <1>2, <1>3, <1>4, FS_AddElement DEF One
  <2>2. CASE f \notin M
    BY <2>2, <1>2, <1>3, <1>4 DEF One
  <2>. QED  BY <2>1, <2>2
<1>. QED  BY <1>5 DEF Count, P, Q

LEMMA CountPop ==
    ASSUME stack \in Seq(Frames), stack # <<>>, NEW M
    PROVE  Count(Outer, M) = Count(stack, M) - One(Top, M)
<1>. DEFINE n == Len(stack)
            P == Places(stack, M)
            Q == Places(Outer, M)
<1>1. /\ n \in Nat \ {0} /\ DOMAIN stack = 1..n /\ DOMAIN Outer = 1..n - 1
      /\ \A i \in 1..n - 1 : Outer[i] = stack[i]
      /\ stack[n] = Top
  BY PopShape DEF Top
<1>2. n \in P <=> Top \in M
  BY <1>1 DEF Places
<1>3. Q = IF Top \in M THEN P \ {n} ELSE P
  BY <1>1 DEF Places
<1>4. IsFiniteSet(P) /\ Cardinality(P) \in Nat
  BY CountType DEF Count
<1>. HIDE DEF n, P, Q
<1>5. Cardinality(Q) = Cardinality(P) - One(Top, M)
  <2>1. CASE Top \in M
    BY <2>1, <1>2, <1>3, <1>4, FS_RemoveElement DEF One
  <2>2. CASE Top \notin M
    BY <2>2, <1>2, <1>3, <1>4 DEF One
  <2>. QED  BY <2>1, <2>2
<1>. QED  BY <1>5 DEF Count, P, Q

LEMMA CountSwap ==
    ASSUME stack \in Seq(Frames), stack # <<>>, NEW f \in Frames, NEW M
    PROVE  Count(Replace(f), M) = Count(stack, M) - One(Top, M) + One(f, M)
<1>. DEFINE n == Len(stack)
            P == Places(Outer, M)
            Q == Places(Replace(f), M)
<1>1. /\ n \in Nat \ {0} /\ DOMAIN Outer = 1..n - 1 /\ DOMAIN Replace(f) = 1..n
      /\ \A i \in 1..n - 1 : Outer[i] = stack[i] /\ Replace(f)[i] = stack[i]
      /\ Replace(f)[n] = f
      /\ Outer \in Seq(Frames)
  BY PopShape, SwapShape
<1>2. n \notin P
  BY <1>1 DEF Places
<1>3. Q = IF f \in M THEN P \cup {n} ELSE P
  BY <1>1 DEF Places
<1>4. IsFiniteSet(P) /\ Cardinality(P) \in Nat
  BY <1>1, CountType DEF Count
<1>. HIDE DEF n, P, Q
<1>5. Cardinality(Q) = Cardinality(P) + One(f, M)
  <2>1. CASE f \in M
    BY <2>1, <1>2, <1>3, <1>4, FS_AddElement DEF One
  <2>2. CASE f \notin M
    BY <2>2, <1>2, <1>3, <1>4 DEF One
  <2>. QED  BY <2>1, <2>2
<1>6. Cardinality(P) = Count(stack, M) - One(Top, M)
  BY CountPop DEF Count, P
<1>. QED  BY <1>5, <1>6 DEF Count, Q
-----------------------------------------------------------------------------
(* Scopes that are open, and finally bodies that are due. *)
ScopeFrames == {f \in Frames : OpensScope(f)}

DueFrames == {f \in Frames : f.kind \in {"try", "catch"} /\ f.try.finally}

(***************************************************************************)
(* What a step does to the numbers.  Without an error a scope is open for  *)
(* each frame that opened one; the errors of a body that fails come from   *)
(* `raised`, so that no failing step matters while raised is 0.            *)
(***************************************************************************)
Balanced == raised = 0 => scopes = 1 + Count(stack, ScopeFrames)

Due == finals.due - finals.begun = Count(stack, DueFrames)

LEMMA CountsAreCardinalities ==
    ASSUME TypeOK
    PROVE  /\ Balanced <=> ScopesBalance
           /\ Due <=> FinallyRuns
<1>1. \A i \in DOMAIN stack : stack[i] \in Frames
  BY DEF TypeOK
<1>2. Places(stack, ScopeFrames) = {i \in DOMAIN stack : OpensScope(stack[i])}
  BY <1>1 DEF Places, ScopeFrames
<1>3. Places(stack, DueFrames) =
        {i \in DOMAIN stack : stack[i].kind \in {"try", "catch"} /\ stack[i].try.finally}
  BY <1>1 DEF Places, DueFrames
<1>. QED  BY <1>2, <1>3 DEF Balanced, ScopesBalance, Due, FinallyRuns, Count

LEMMA FrameCounts ==
    ASSUME NEW f \in Frames
    PROVE  /\ One(f, ScopeFrames) = Opened(f)
           /\ One(f, DueFrames) = IF f.kind \in {"try", "catch"} /\ f.try.finally THEN 1 ELSE 0
BY DEF One, ScopeFrames, DueFrames, Opened

LEMMA CountsKept ==
    ASSUME Balanced, Due, UNCHANGED <<stack, scopes, finals>>, raised' = 0 => raised = 0
    PROVE  Balanced' /\ Due'
BY DEF Balanced, Due, Count, Places

(* The three changes of the stack, and what scopes and finals make of them. *)
LEMMA PushCounts ==
    ASSUME IInv, Balanced, Due, NEW f \in Frames, stack' = Append(stack, f), raised' = raised,
           scopes' = scopes + Opened(f),
           finals'.due - finals'.begun = finals.due - finals.begun + One(f, DueFrames)
    PROVE  Balanced' /\ Due'
<1>1. \A M : Count(stack, M)' = Count(stack, M) + One(f, M)
  BY CountPush DEF IInv, TypeOK, Count, Places
<1>2. /\ Count(stack, ScopeFrames) \in Nat /\ Count(stack, DueFrames) \in Nat
      /\ Opened(f) \in {0, 1} /\ One(f, ScopeFrames) = Opened(f) /\ scopes \in Nat
  BY CountType, OpenedType, FrameCounts DEF IInv, TypeOK
<1>3. Count(stack, ScopeFrames)' = Count(stack, ScopeFrames) + Opened(f)
  BY <1>1, <1>2
<1>4. Count(stack, DueFrames)' = Count(stack, DueFrames) + One(f, DueFrames)
  BY <1>1
<1>. QED  BY <1>2, <1>3, <1>4 DEF Balanced, Due

LEMMA PopCounts ==
    ASSUME IInv, Balanced, Due, stack # <<>>, stack' = Outer, raised' = raised,
           raised = 0 => scopes' = scopes - Opened(Top),
           finals'.due - finals'.begun = finals.due - finals.begun - One(Top, DueFrames)
    PROVE  Balanced' /\ Due'
<1>1. \A M : Count(stack, M)' = Count(stack, M) - One(Top, M)
  BY CountPop DEF IInv, TypeOK, Count, Places
<1>2. /\ Count(stack, ScopeFrames) \in Nat /\ Count(stack, DueFrames) \in Nat
      /\ Opened(Top) \in {0, 1} /\ One(Top, ScopeFrames) = Opened(Top) /\ scopes \in Nat
  BY CountType, OpenedType, FrameCounts, TopFacts DEF IInv, TypeOK
<1>3. Count(stack, ScopeFrames)' = Count(stack, ScopeFrames) - Opened(Top)
  BY <1>1, <1>2
<1>4. Count(stack, DueFrames)' = Count(stack, DueFrames) - One(Top, DueFrames)
  BY <1>1
<1>. QED  BY <1>2, <1>3, <1>4 DEF Balanced, Due

LEMMA SwapCounts ==
    ASSUME IInv, Balanced, Due, stack # <<>>, NEW f \in Frames, stack' = Replace(f),
           raised' = raised,
           scopes' = scopes - Opened(Top) + Opened(f),
           finals'.due - finals'.begun =
              finals.due - finals.begun - One(Top, DueFrames) + One(f, DueFrames)
    PROVE  Balanced' /\ Due'
<1>1. \A M : Count(stack, M)' = Count(stack, M) - One(Top, M) + One(f, M)
  BY CountSwap DEF IInv, TypeOK, Count, Places
<1>2. /\ Count(stack, ScopeFrames) \in Nat /\ Count(stack, DueFrames) \in Nat
      /\ Opened(Top) \in {0, 1} /\ One(Top, ScopeFrames) = Opened(Top) /\ scopes \in Nat
      /\ Opened(f) \in {0, 1} /\ One(f, ScopeFrames) = Opened(f)
  BY CountType, OpenedType, FrameCounts, TopFacts DEF IInv, TypeOK
<1>3. Count(stack, ScopeFrames)' = Count(stack, ScopeFrames) - Opened(Top) + Opened(f)
  BY <1>1, <1>2
<1>4. Count(stack, DueFrames)' = Count(stack, DueFrames) - One(Top, DueFrames) + One(f, DueFrames)
  BY <1>1
<1>. QED  BY <1>2, <1>3, <1>4 DEF Balanced, Due

(* finals, with the arithmetic the counts need. *)
LEMMA FinalsType ==
    ASSUME TypeOK
    PROVE  /\ finals.due \in Nat /\ finals.begun \in Nat
           /\ [finals EXCEPT !.due = @ + 1].due = finals.due + 1
           /\ [finals EXCEPT !.due = @ + 1].begun = finals.begun
           /\ [finals EXCEPT !.begun = @ + 1].begun = finals.begun + 1
           /\ [finals EXCEPT !.begun = @ + 1].due = finals.due
BY DEF TypeOK

LEMMA FinallyThenCounts ==
    ASSUME IInv, Balanced, Due, stack # <<>>, Top.kind \in {"try", "catch"},
           NEW e \in 0..raised, FinallyThen(e),
           scopes' = scopes - Opened(Top), raised' = raised
    PROVE  Balanced' /\ Due'
<1>1. Top \in Frames /\ scopes \in Nat /\ e \in Nat /\ Opened(Top) \in {0, 1}
  BY TopFacts, OpenedType DEF IInv, TypeOK
<1>2. CASE Top.try.finally
  <2>1. PICK f : f = [Top EXCEPT !.kind = "finally", !.stash = e]
    OBVIOUS
  <2>2. stack' = Replace(f) /\ finals' = [finals EXCEPT !.begun = @ + 1]
    BY <1>2, <2>1 DEF FinallyThen
  <2>3. f \in Frames /\ f.kind = "finally"
    BY <1>1, <2>1, ChangedTop DEF Kinds, IInv
  <2>4. Opened(f) = 0 /\ One(f, DueFrames) = 0 /\ One(Top, DueFrames) = 1
    BY <1>1, <1>2, <2>3, FrameCounts DEF Opened, OpensScope
  <2>5. scopes' = scopes - Opened(Top) + Opened(f)
    BY <1>1, <2>4
  <2>6. finals'.due - finals'.begun =
          finals.due - finals.begun - One(Top, DueFrames) + One(f, DueFrames)
    BY <2>2, <2>4, FinalsType DEF IInv
  <2>. QED  BY <2>2, <2>3, <2>5, <2>6, SwapCounts
<1>3. CASE ~Top.try.finally
  <2>1. stack' = Outer /\ finals' = finals
    BY <1>3 DEF FinallyThen, Return
  <2>2. One(Top, DueFrames) = 0
    BY <1>1, <1>3, FrameCounts
  <2>3. finals'.due - finals'.begun = finals.due - finals.begun - One(Top, DueFrames)
    BY <2>1, <2>2, FinalsType DEF IInv
  <2>. QED  BY <2>1, <2>3, PopCounts
<1>. QED  BY <1>2, <1>3

(* A call that is over, without a finally body of its own to come. *)
LEMMA ReturnCounts ==
    ASSUME IInv, Balanced, Due, stack # <<>>, Top.kind \notin {"try", "catch"},
           NEW e, Return(e), raised' = raised, finals' = finals,
           raised = 0 => scopes' = scopes - Opened(Top)
    PROVE  Balanced' /\ Due'
<1>1. stack' = Outer
  BY DEF Return
<1>2. One(Top, DueFrames) = 0
  BY TopFacts, FrameCounts
<1>3. finals'.due - finals'.begun = finals.due - finals.begun - One(Top, DueFrames)
  BY <1>2, FinalsType DEF IInv
<1>. QED  BY <1>1, <1>3, PopCounts

LEMMA StartCounts ==
    ASSUME IInv, Balanced, Due,
           \/ \E kind \in {"if", "while"} : StartPlain(kind)
           \/ \E kind \in {"for", "on"}, n \in 1..MaxTurns : StartTurns(kind, n)
           \/ \E try \in Trys : StartTry(try)
    PROVE  Balanced' /\ Due'
<1>1. /\ NoTry \in Trys /\ 0 \in Nat /\ (\A n \in 1..MaxTurns : n \in Nat)
      /\ scopes \in Nat /\ finals.due \in Nat /\ finals.begun \in Nat
  BY ExecutorConstants, FinalsType DEF NoTry, Trys, IInv, TypeOK
<1>2. ASSUME NEW kind \in {"if", "while"}, StartPlain(kind)
      PROVE  Balanced' /\ Due'
  <2>1. PICK f : f = Frame(kind, 0, NoTry)
    OBVIOUS
  <2>2. f \in Frames /\ f.kind = kind
    BY <1>1, <2>1, NewFrame DEF Kinds, IInv
  <2>3. Opened(f) = 0 /\ One(f, DueFrames) = 0
    BY <2>2, FrameCounts DEF Opened, OpensScope
  <2>4. /\ stack' = Append(stack, f) /\ raised' = raised
        /\ scopes' = scopes + Opened(f)
        /\ finals'.due - finals'.begun = finals.due - finals.begun + One(f, DueFrames)
    BY <1>1, <1>2, <2>1, <2>3 DEF StartPlain
  <2>. QED  BY <2>2, <2>4, PushCounts
<1>3. ASSUME NEW kind \in {"for", "on"}, NEW n \in 1..MaxTurns, StartTurns(kind, n)
      PROVE  Balanced' /\ Due'
  <2>1. PICK f : f = Frame(kind, n, NoTry)
    OBVIOUS
  <2>2. f \in Frames /\ f.kind = kind
    BY <1>1, <2>1, NewFrame DEF Kinds, IInv
  <2>3. Opened(f) = 1 /\ One(f, DueFrames) = 0
    BY <2>2, FrameCounts DEF Opened, OpensScope
  <2>4. /\ stack' = Append(stack, f) /\ raised' = raised
        /\ scopes' = scopes + Opened(f)
        /\ finals'.due - finals'.begun = finals.due - finals.begun + One(f, DueFrames)
    BY <1>1, <1>3, <2>1, <2>3 DEF StartTurns
  <2>. QED  BY <2>2, <2>4, PushCounts
<1>4. ASSUME NEW try \in Trys, StartTry(try)
      PROVE  Balanced' /\ Due'
  <2>1. PICK f : f = Frame("try", 0, try)
    OBVIOUS
  <2>2. f \in Frames /\ f.kind = "try" /\ f.try = try
    BY <1>1, <2>1, NewFrame DEF Kinds, IInv, Frame
  <2>3. Opened(f) = 0 /\ One(f, DueFrames) = IF try.finally THEN 1 ELSE 0
    BY <2>2, FrameCounts DEF Opened, OpensScope
  <2>4. stack' = Append(stack, f) /\ raised' = raised /\ scopes' = scopes + Opened(f)
    BY <1>1, <1>4, <2>1, <2>3 DEF StartTry
  <2>5. finals'.due - finals'.begun = finals.due - finals.begun + One(f, DueFrames)
    BY <1>1, <1>4, <2>3, FinalsType DEF StartTry, IInv
  <2>. QED  BY <2>2, <2>4, <2>5, PushCounts
<1>. QED  BY <1>2, <1>3, <1>4

LEMMA NextCounts == IInv /\ Balanced /\ Due /\ [Next]_vars => Balanced' /\ Due'
<1>. SUFFICES ASSUME IInv, Balanced, Due, [Next]_vars PROVE Balanced' /\ Due'
  OBVIOUS
<1>. USE DEF None
<1>1. raised \in Nat /\ scopes \in Nat /\ error \in 0..raised
  BY DEF IInv, TypeOK, Numbered
<1>2. CASE Simple \/ Raise \/ EndWhile \/ UNCHANGED vars
  BY <1>1, <1>2, CountsKept DEF Simple, Raise, Begin, EndWhile, vars
<1>3. CASE \/ \E kind \in {"if", "while"} : StartPlain(kind)
           \/ \E kind \in {"for", "on"}, n \in 1..MaxTurns : StartTurns(kind, n)
           \/ \E try \in Trys : StartTry(try)
  BY <1>3, StartCounts
<1>4. CASE EndPlain \/ EndFinally
  <2>1. /\ stack # <<>> /\ Top.kind \in {"program", "if", "finally"}
        /\ (\E e : Return(e))
        /\ UNCHANGED <<scopes, raised, finals>>
    BY <1>4 DEF EndPlain, EndFinally, Ends, history
  <2>2. Opened(Top) = 0
    BY <2>1 DEF Opened, OpensScope
  <2>. QED  BY <1>1, <2>1, <2>2, ReturnCounts
<1>5. CASE EndTurn /\ ~(Top.turns > 1)
  <2>1. /\ stack # <<>> /\ Top.kind \in {"for", "on"} /\ Return(None)
        /\ scopes' = scopes - 1 /\ UNCHANGED <<raised, finals>>
    BY <1>5 DEF EndTurn, Ends, history
  <2>2. Opened(Top) = 1
    BY <2>1 DEF Opened, OpensScope
  <2>. QED  BY <2>1, <2>2, ReturnCounts
<1>6. CASE EndTurn /\ Top.turns > 1
  <2>1. PICK f : f = [Top EXCEPT !.turns = @ - 1]
    OBVIOUS
  <2>2. /\ stack # <<>> /\ Top.kind \in {"for", "on"} /\ stack' = Replace(f)
        /\ UNCHANGED <<scopes, raised, finals>>
    BY <1>6, <2>1 DEF EndTurn, Ends, history
  <2>3. f \in Frames /\ f.kind = Top.kind /\ Top \in Frames
    BY <1>6, <2>1, <2>2, TopFacts DEF Frames
  <2>4. /\ Opened(f) = 1 /\ Opened(Top) = 1
        /\ One(f, DueFrames) = 0 /\ One(Top, DueFrames) = 0
    BY <2>2, <2>3, FrameCounts DEF Opened, OpensScope
  <2>5. /\ scopes' = scopes - Opened(Top) + Opened(f)
        /\ finals'.due - finals'.begun =
              finals.due - finals.begun - One(Top, DueFrames) + One(f, DueFrames)
    BY <1>1, <2>2, <2>4, FinalsType DEF IInv
  <2>. QED  BY <2>2, <2>3, <2>5, SwapCounts
<1>7. CASE EndTry \/ EndCatch \/ NoCatch \/ CatchFails
  <2>1. /\ stack # <<>> /\ Top.kind \in {"try", "catch"}
        /\ FinallyThen(error) /\ raised' = raised
    BY <1>7 DEF EndTry, EndCatch, NoCatch, CatchFails, Ends, Fails
  <2>2. scopes' = scopes - Opened(Top)
    BY <1>1, <1>7 DEF EndTry, EndCatch, NoCatch, CatchFails, Ends, Fails, PopErrVar,
                      Opened, OpensScope
  <2>. QED  BY <1>1, <2>1, <2>2, FinallyThenCounts
<1>8. CASE Propagate \/ FinallyFails
  <2>1. /\ stack # <<>> /\ error # None /\ Top.kind \notin {"try", "catch"}
        /\ Return(error) /\ UNCHANGED <<raised, finals>>
    BY <1>8 DEF Propagate, FinallyFails, Fails, history
  <2>2. raised # 0
    BY <1>1, <2>1
  <2>. QED  BY <2>1, <2>2, ReturnCounts
<1>9. CASE Catch
  <2>1. PICK f : f = [Top EXCEPT !.kind = "catch"]
    OBVIOUS
  <2>2. /\ stack # <<>> /\ Top.kind = "try" /\ stack' = Replace(f)
        /\ scopes' = IF Top.try.var THEN scopes + 1 ELSE scopes
        /\ UNCHANGED <<raised, finals>>
    BY <1>9, <2>1 DEF Catch, Fails
  <2>3. f \in Frames /\ f.kind = "catch" /\ f.try = Top.try /\ Top \in Frames
    BY <2>1, <2>2, TopFacts DEF Frames, Kinds
  <2>4. Opened(Top) = 0 /\ Opened(f) = IF Top.try.var THEN 1 ELSE 0
    BY <2>2, <2>3 DEF Opened, OpensScope
  <2>5. One(f, DueFrames) = One(Top, DueFrames) /\ One(f, DueFrames) \in Nat
    BY <2>2, <2>3, FrameCounts
  <2>6. /\ scopes' = scopes - Opened(Top) + Opened(f)
        /\ finals'.due - finals'.begun =
              finals.due - finals.begun - One(Top, DueFrames) + One(f, DueFrames)
    BY <1>1, <2>2, <2>4, <2>5, FinalsType DEF IInv
  <2>. QED  BY <2>2, <2>3, <2>6, SwapCounts
<1>. QED  BY <1>2, <1>3, <1>4, <1>5, <1>6, <1>7, <1>8, <1>9 DEF Next

LEMMA InitCounts == Init => Balanced /\ Due
<1>. SUFFICES ASSUME Init PROVE Balanced /\ Due
  OBVIOUS
<1>1. PICK f : f = Frame("program", 0, NoTry)
  OBVIOUS
<1>2. stack = <<f>> /\ DOMAIN stack = {1} /\ stack[1] = f /\ f.kind = "program"
  BY <1>1 DEF Init, Frame
<1>3. Places(stack, ScopeFrames) = {} /\ Places(stack, DueFrames) = {}
  BY <1>2 DEF Places, ScopeFrames, DueFrames, OpensScope
<1>4. Count(stack, ScopeFrames) = 0 /\ Count(stack, DueFrames) = 0
  BY <1>3, FS_EmptySet DEF Count
<1>. QED  BY <1>4 DEF Init, Balanced, Due

LEMMA Counting == Spec => [](TypeOK /\ Balanced /\ Due)
<1>1. IInv => TypeOK
  BY DEF IInv
<1>. QED  BY Inductive, InitCounts, NextCounts, <1>1, PTL DEF Spec

(***************************************************************************)
(* Until an error is raised, each call pops the scopes it pushed: as many  *)
(* scopes are open as there are calls that opened one, and the outermost.  *)
(***************************************************************************)
THEOREM ScopesAreBalanced == Spec => []ScopesBalance
<1>1. TypeOK /\ Balanced => ScopesBalance
  BY CountsAreCardinalities
<1>. QED  BY <1>1, Counting, PTL

(***************************************************************************)
(* Every finally body that is due is begun once, when its try and catch    *)
(* bodies are over, whatever errors they end with.                         *)
(***************************************************************************)
THEOREM FinallyBodiesRun == Spec => []FinallyRuns
<1>1. TypeOK /\ Due => FinallyRuns
  BY CountsAreCardinalities
<1>. QED  BY <1>1, Counting, PTL
=============================================================================
