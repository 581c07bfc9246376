------------------------- MODULE RoleSearches_proofs -------------------------
(***************************************************************************)
(* The searches of RoleEnv, on every set of roles and every graph:         *)
(* detect_cycles (CycleSearch) names only roles on a cycle, and one of     *)
(* every cycle; is_descendant and resolve_down (RoleSearch) compute        *)
(* descent, whenever they end.                                             *)
(***************************************************************************)
EXTENDS RoleSearch, CycleSearch, SequenceTheorems, TLAPS

Frames == [node : Roles, todo : SUBSET Roles]

DetectTypeOK ==
    /\ graph \in EdgeSets
    /\ stack \in Seq(Frames)
    /\ visited \subseteq Roles
    /\ inStack \subseteq visited
    /\ cycle \subseteq Roles
    /\ done \in BOOLEAN

Depth == 1 .. Len(stack)

(* The active calls: one for each node of in_stack, along a path of the graph. *)
ActivePath ==
    /\ \A i \in Depth : stack[i].node \in inStack
    /\ \A n \in inStack : \E i \in Depth : stack[i].node = n
    /\ \A i, j \in Depth : i < j =>
           /\ stack[i].node # stack[j].node
           /\ Descends(graph, stack[j].node, stack[i].node)

Left == visited \ inStack

(* The edges that survive when the reported roles are taken out. *)
Safe == {e \in graph : e[1] \notin cycle /\ e[2] \notin cycle}

(***************************************************************************)
(* What a call has done with the neighbours it has looked at: the search   *)
(* of one is over, or the edge is reported, or the next call is about it.  *)
(***************************************************************************)
LookedAtEach ==
    \A i \in Depth :
        /\ stack[i].todo \subseteq Children(graph, stack[i].node)
        /\ \A c \in Children(graph, stack[i].node) \ stack[i].todo :
              \/ c \in Left
              \/ c \in cycle
              \/ i < Len(stack) /\ c = stack[i + 1].node

(* Nothing that has been left leads back to itself, or to an active call, unreported. *)
LeftIsSettled ==
    /\ \A n \in Left : Children(Safe, n) \subseteq Left
    /\ \A n \in Left : ~Descends(Safe, n, n)

DetectInv ==
    /\ DetectTypeOK /\ ActivePath /\ LookedAtEach /\ LeftIsSettled
    /\ cycle \subseteq OnCycle(graph)
    /\ done => stack = <<>> /\ visited = Roles

-----------------------------------------------------------------------------
(* A child descends, descent is transitive, and it shrinks with the graph. *)
LEMMA ChildDescends ==
    ASSUME NEW E, NEW a \in Roles, NEW d \in Children(E, a)
    PROVE  Descends(E, d, a)
BY DEF Descends

LEMMA DescendsTransitive ==
    ASSUME NEW E, NEW a \in Roles, NEW b \in Roles, NEW c \in Roles,
           Descends(E, b, a), Descends(E, c, b)
    PROVE  Descends(E, c, a)
BY DEF Descends, Closed

LEMMA FewerEdges ==
    ASSUME NEW E, NEW F, E \subseteq F, NEW a \in Roles, NEW d, Descends(E, d, a)
    PROVE  Descends(F, d, a)
BY DEF Descends, Closed, Children

(* A role that may only lead into a closed set it is not in is on no cycle. *)
LEMMA OffCycle ==
    ASSUME NEW E, NEW S \in SUBSET Roles, Closed(E, S),
           NEW n, n \notin S, Children(E, n) \subseteq S
    PROVE  ~Descends(E, n, n)
BY DEF Descends

-----------------------------------------------------------------------------
(* The three ways in which the stack changes. *)
LEMMA LookedAtStack ==
    ASSUME DetectTypeOK, stack # <<>>, NEW c
    PROVE  /\ LookedAt(c) \in Seq(Frames)
           /\ Len(LookedAt(c)) = Len(stack)
           /\ \A i \in Depth : LookedAt(c)[i].node = stack[i].node
           /\ \A i \in Depth : i # Len(stack) => LookedAt(c)[i] = stack[i]
           /\ LookedAt(c)[Len(stack)].todo = Top.todo \ {c}
<1>1. stack \in Seq(Frames) /\ Len(stack) \in Nat \ {0}
  BY DEF DetectTypeOK
<1>2. \A i \in Depth : stack[i] \in Frames
  BY <1>1 DEF Depth
<1>3. [Top EXCEPT !.todo = @ \ {c}] \in Frames
  BY <1>1, <1>2 DEF Top, Depth, Frames
<1>. QED  BY <1>1, <1>2, <1>3 DEF LookedAt, Top, Depth, Frames

LEMMA PushStack ==
    ASSUME NEW s \in Seq(Frames), NEW n \in Roles
    PROVE  LET t == Append(s, Frame(n)) IN
           /\ t \in Seq(Frames)
           /\ Len(t) = Len(s) + 1
           /\ \A i \in 1 .. Len(s) : t[i] = s[i]
           /\ t[Len(s) + 1].node = n
           /\ t[Len(s) + 1].todo = Children(graph, n)
<1>1. Frame(n) \in Frames
  BY DEF Frame, Frames, Children
<1>. QED  BY <1>1 DEF Frame

LEMMA PopStack ==
    ASSUME DetectTypeOK, stack # <<>>
    PROVE  /\ Pop \in Seq(Frames)
           /\ Len(Pop) = Len(stack) - 1
           /\ \A i \in 1 .. Len(stack) - 1 : Pop[i] = stack[i]
<1>1. stack \in Seq(Frames) /\ Len(stack) \in Nat \ {0}
  BY DEF DetectTypeOK
<1>. DEFINE m == Len(stack) - 1
<1>2. 1 \in Int /\ m \in Int /\ \A i \in 1 .. m : stack[i] \in Frames
  BY <1>1
<1>3. /\ Pop \in Seq(Frames)
      /\ Len(Pop) = IF 1 <= m THEN m - 1 + 1 ELSE 0
      /\ \A i \in 1 .. m - 1 + 1 : Pop[i] = stack[1 + i - 1]
  BY <1>2, SubSeqProperties DEF Pop
<1>4. m \in Nat /\ m - 1 + 1 = m /\ (1 <= m \/ m = 0)
  <2>. DEFINE n == Len(stack)
  <2>. HIDE DEF n
  <2>1. n \in Nat /\ n # 0
    BY <1>1 DEF n
  <2>2. n - 1 \in Nat /\ n - 1 - 1 + 1 = n - 1 /\ (1 <= n - 1 \/ n - 1 = 0)
    BY <2>1
  <2>. QED  BY <2>2 DEF n
<1>. HIDE DEF m
<1>5. Len(Pop) = m
  BY <1>3, <1>4
<1>6. ASSUME NEW i \in 1 .. m PROVE Pop[i] = stack[i]
  <2>1. 1 + i - 1 = i
    BY <1>4
  <2>. QED  BY <1>3, <1>4, <2>1
<1>. QED  BY <1>3, <1>5, <1>6 DEF m

LEMMA TopIsActive ==
    ASSUME DetectTypeOK, ActivePath, stack # <<>>
    PROVE  /\ Len(stack) \in Nat \ {0} /\ Len(stack) \in Depth
           /\ Top \in Frames /\ Top.node \in inStack
           /\ \A i \in Depth : i \in Nat /\ stack[i] \in Frames
<1>1. stack \in Seq(Frames) /\ Len(stack) \in Nat \ {0}
  BY DEF DetectTypeOK
<1>2. Len(stack) \in Depth
  BY <1>1 DEF Depth
<1>. QED  BY <1>1, <1>2 DEF ActivePath, Depth, Top

(* An active role leads to the innermost one, or is it. *)
LEMMA PathToTop ==
    ASSUME DetectTypeOK, ActivePath, stack # <<>>, NEW n \in inStack
    PROVE  n = Top.node \/ Descends(graph, Top.node, n)
<1>1. PICK i \in Depth : stack[i].node = n
  BY DEF ActivePath
<1>2. i = Len(stack) \/ i < Len(stack)
  BY TopIsActive DEF Depth
<1>. QED  BY <1>1, <1>2, TopIsActive DEF ActivePath, Top

-----------------------------------------------------------------------------
(***************************************************************************)
(* The proof, one lemma per action.                                        *)
(***************************************************************************)
LEMMA InitDetectInv == DetectInit => DetectInv
<1>. SUFFICES ASSUME DetectInit PROVE DetectInv
  OBVIOUS
<1>0. stack \in Seq(Frames)
  BY DEF DetectInit
<1>1. DetectTypeOK
  BY <1>0 DEF DetectInit, DetectTypeOK
<1>2. Depth = {}
  BY DEF DetectInit, Depth
<1>3. Left = {}
  BY DEF DetectInit, Left
<1>. QED
  BY <1>1, <1>2, <1>3 DEF DetectInit, DetectInv, ActivePath, LookedAtEach, LeftIsSettled

(* A call is entered: from the outer loop, or for a neighbour of the top. *)
LEMMA EnterStep ==
    ASSUME DetectInv, NEW n \in Roles \ visited, NEW below \in Seq(Frames),
           Enter(n, below), ~done,
           Len(below) = Len(stack),
           \A i \in Depth : below[i].node = stack[i].node,
           \A i \in Depth : i # Len(stack) => below[i] = stack[i],
           \/ stack = <<>>
           \/ /\ stack # <<>> /\ n \in Top.todo
              /\ below[Len(stack)].todo = Top.todo \ {n}
    PROVE  DetectInv'
<1>. USE DEF DetectInv
<1>0. /\ graph' = graph /\ cycle' = cycle /\ done' = done
      /\ visited' = visited \cup {n} /\ inStack' = inStack \cup {n}
      /\ stack' = Append(below, Frame(n))
  BY DEF Enter
<1>1. /\ stack' \in Seq(Frames) /\ Len(stack) \in Nat /\ Len(stack') = Len(stack) + 1
      /\ \A i \in Depth : stack'[i] = below[i]
      /\ stack'[Len(stack) + 1].node = n
      /\ stack'[Len(stack) + 1].todo = Children(graph, n)
  BY <1>0, PushStack DEF Depth, DetectTypeOK
<1>2. Depth' = Depth \cup {Len(stack) + 1} /\ Len(stack) + 1 \notin Depth
  BY <1>1 DEF Depth
<1>3. Left' = Left /\ Safe' = Safe
  BY <1>0 DEF Left, DetectTypeOK, Safe
<1>4. DetectTypeOK'
  BY <1>0, <1>1 DEF DetectTypeOK
<1>5. \A m \in inStack : Descends(graph, n, m)
  <2>. SUFFICES ASSUME NEW m \in inStack PROVE Descends(graph, n, m)
    OBVIOUS
  <2>1. stack # <<>>
    BY DEF ActivePath, Depth
  <2>2. n \in Children(graph, Top.node)
    BY <2>1, TopIsActive DEF LookedAtEach, Top
  <2>3. Top.node \in Roles /\ m \in Roles
    BY <2>1, TopIsActive DEF DetectTypeOK
  <2>4. Descends(graph, n, Top.node)
    BY <2>2, <2>3, ChildDescends
  <2>. QED  BY <2>1, <2>3, <2>4, PathToTop, DescendsTransitive
<1>6. ActivePath'
  <2>1. \A i \in Depth : stack'[i].node = stack[i].node
    BY <1>1
  <2>2. \A i \in Depth : stack[i].node \in inStack /\ stack[i].node # n
    BY DEF ActivePath, DetectTypeOK
  <2>3. \A i, j \in Depth' : i < j => i \in Depth
    BY <1>1 DEF Depth
  <2>4. /\ \A i \in Depth' : stack'[i].node \in inStack'
        /\ \A m \in inStack' : \E i \in Depth' : stack'[i].node = m
    <3>1. \A m \in inStack : \E i \in Depth : stack'[i].node = m
      BY <2>1 DEF ActivePath
    <3>. QED  BY <1>0, <1>1, <1>2, <2>1, <2>2, <3>1
  <2>5. ASSUME NEW i \in Depth', NEW j \in Depth', i < j
        PROVE  /\ stack'[i].node # stack'[j].node
               /\ Descends(graph, stack'[j].node, stack'[i].node)
    <3>1. CASE j \in Depth
      BY <2>1, <2>3, <2>5, <3>1 DEF ActivePath
    <3>2. CASE j = Len(stack) + 1
      BY <1>1, <1>5, <2>1, <2>2, <2>3, <2>5, <3>2
    <3>. QED  BY <1>2, <3>1, <3>2
  <2>. QED  BY <1>0, <2>4, <2>5 DEF ActivePath
<1>7. LookedAtEach'
  <2>. SUFFICES ASSUME NEW i \in Depth'
                PROVE  /\ stack'[i].todo \subseteq Children(graph, stack'[i].node)
                       /\ \A c \in Children(graph, stack'[i].node) \ stack'[i].todo :
                             \/ c \in Left
                             \/ c \in cycle
                             \/ i < Len(stack') /\ c = stack'[i + 1].node
    BY <1>0, <1>3 DEF LookedAtEach
  <2>1. CASE i = Len(stack) + 1
    BY <1>1, <2>1
  <2>2. CASE i \in Depth /\ i # Len(stack)
    <3>1. i < Len(stack) /\ i + 1 \in Depth
      BY <1>1, <2>2 DEF Depth
    <3>2. stack'[i] = stack[i] /\ stack'[i + 1].node = stack[i + 1].node /\ i < Len(stack')
      <4>1. stack'[i] = below[i] /\ below[i] = stack[i]
        BY <1>1, <2>2
      <4>2. stack'[i + 1] = below[i + 1] /\ below[i + 1].node = stack[i + 1].node
        BY <1>1, <3>1
      <4>3. i < Len(stack')
        BY <1>1, <2>2, <3>1 DEF Depth
      <4>. QED  BY <4>1, <4>2, <4>3
    <3>. QED  BY <2>2, <3>1, <3>2 DEF LookedAtEach
  <2>3. CASE i = Len(stack) /\ i \in Depth
    <3>1. stack # <<>>
      BY <2>3 DEF Depth
    <3>2. /\ stack'[i].node = Top.node /\ stack'[i].todo = Top.todo \ {n}
          /\ i < Len(stack') /\ stack'[i + 1].node = n
      BY <1>1, <2>3, <3>1 DEF Top
    <3>3. /\ Top.todo \subseteq Children(graph, Top.node)
          /\ \A c \in Children(graph, Top.node) \ Top.todo : c \in Left \/ c \in cycle
      BY <1>1, <2>3 DEF LookedAtEach, Top
    <3>. QED  BY <3>2, <3>3
  <2>. QED  BY <1>2, <2>1, <2>2, <2>3
<1>8. LeftIsSettled'
  BY <1>3 DEF LeftIsSettled
<1>. QED  BY <1>0, <1>4, <1>6, <1>7, <1>8

LEMMA StartStep ==
    ASSUME DetectInv, NEW n \in Roles, Start(n)
    PROVE  DetectInv'
<1>1. stack \in Seq(Frames) /\ stack = <<>> /\ Depth = {} /\ n \notin visited
  BY DEF Start, DetectInv, DetectTypeOK, Depth
<1>. QED  BY <1>1, EnterStep DEF Start

LEMMA RecurseStep ==
    ASSUME DetectInv, NEW c \in Roles, Recurse(c)
    PROVE  DetectInv'
<1>1. ~done
  BY DEF Recurse, DetectInv
<1>. QED  BY <1>1, LookedAtStack, EnterStep DEF Recurse, DetectInv

(* A neighbour is looked at and no call follows. *)
LEMMA LookStep ==
    ASSUME DetectInv, NEW c \in Roles, stack # <<>>, c \in Top.todo,
           stack' = LookedAt(c), cycle \subseteq cycle', cycle' \subseteq Roles,
           UNCHANGED <<graph, visited, inStack, done>>,
           c \in Left \/ c \in cycle'
    PROVE  DetectTypeOK' /\ ActivePath' /\ LookedAtEach' /\ LeftIsSettled'
<1>. USE DEF DetectInv
<1>1. /\ stack' \in Seq(Frames) /\ Len(stack') = Len(stack)
      /\ \A i \in Depth : stack'[i].node = stack[i].node
      /\ \A i \in Depth : i # Len(stack) => stack'[i] = stack[i]
      /\ stack'[Len(stack)].todo = Top.todo \ {c}
      /\ Depth' = Depth
  BY LookedAtStack DEF Depth
<1>2. Left' = Left /\ Safe' \subseteq Safe
  BY DEF Left, Safe
<1>3. DetectTypeOK'
  BY <1>1 DEF DetectTypeOK
<1>4. ActivePath'
  BY <1>1 DEF ActivePath
<1>5. LookedAtEach'
  <2>1. \A i \in Depth : i # Len(stack) => i + 1 \in Depth
    BY TopIsActive DEF Depth
  <2>2. \A i \in Depth : i < Len(stack) <=> i # Len(stack)
    BY TopIsActive DEF Depth
  <2>. QED  BY <1>1, <1>2, <2>1, <2>2 DEF LookedAtEach, Top
<1>6. LeftIsSettled'
  <2>1. Left \subseteq Roles
    BY DEF Left, DetectTypeOK
  <2>2. \A n \in Left : Children(Safe', n) \subseteq Children(Safe, n)
    BY <1>2 DEF Children
  <2>3. \A n \in Left : ~Descends(Safe', n, n)
    BY <1>2, <2>1, FewerEdges DEF LeftIsSettled
  <2>. QED  BY <1>2, <2>2, <2>3 DEF LeftIsSettled
<1>. QED  BY <1>3, <1>4, <1>5, <1>6

LEMMA BackEdgeStep ==
    ASSUME DetectInv, NEW c \in Roles, BackEdge(c)
    PROVE  DetectInv'
<1>. USE DEF DetectInv
<1>1. /\ stack # <<>> /\ c \in Top.todo /\ c \in inStack
      /\ cycle' = cycle \cup {c, Top.node} /\ stack' = LookedAt(c)
      /\ UNCHANGED <<graph, visited, inStack, done>>
  BY DEF BackEdge
<1>2. Top.node \in Roles /\ c \in Children(graph, Top.node)
  BY <1>1, TopIsActive DEF LookedAtEach, Top, Frames
<1>3. Descends(graph, c, Top.node)
  BY <1>2, ChildDescends
<1>4. Descends(graph, c, c) /\ Descends(graph, Top.node, Top.node)
  BY <1>1, <1>2, <1>3, PathToTop, DescendsTransitive
<1>5. cycle' \subseteq OnCycle(graph)
  BY <1>1, <1>2, <1>4 DEF OnCycle
<1>6. cycle' \subseteq Roles
  BY <1>1, <1>2 DEF DetectTypeOK
<1>7. DetectTypeOK' /\ ActivePath' /\ LookedAtEach' /\ LeftIsSettled'
  BY <1>1, <1>6, LookStep
<1>. QED  BY <1>1, <1>5, <1>7

LEMMA OtherEdgeStep ==
    ASSUME DetectInv, NEW c \in Roles, OtherEdge(c)
    PROVE  DetectInv'
<1>. USE DEF DetectInv
<1>1. /\ stack # <<>> /\ c \in Top.todo /\ c \in Left
      /\ cycle' = cycle /\ stack' = LookedAt(c)
      /\ UNCHANGED <<graph, visited, inStack, done>>
  BY DEF OtherEdge, Left
<1>2. DetectTypeOK' /\ ActivePath' /\ LookedAtEach' /\ LeftIsSettled'
  BY <1>1, LookStep DEF DetectTypeOK
<1>. QED  BY <1>1, <1>2

(***************************************************************************)
(* A call ends: its node joins the closed set of those left, and leads     *)
(* into that set alone, so no cycle runs through it unreported.            *)
(***************************************************************************)
LEMMA LeaveStep == DetectInv /\ Leave => DetectInv'
<1>. SUFFICES ASSUME DetectInv, Leave PROVE DetectInv'
  OBVIOUS
<1>. USE DEF DetectInv
<1>. DEFINE n == Top.node
<1>1. /\ stack # <<>> /\ Top.todo = {}
      /\ inStack' = inStack \ {n} /\ stack' = Pop
      /\ UNCHANGED <<graph, visited, cycle, done>>
  BY DEF Leave
<1>2. /\ Len(stack) \in Nat \ {0} /\ Len(stack) \in Depth
      /\ n \in inStack /\ n \in Roles
      /\ \A i \in Depth : i \in Nat
  BY <1>1, TopIsActive DEF Frames
<1>3. /\ stack' \in Seq(Frames) /\ Len(stack') = Len(stack) - 1
      /\ Depth' = Depth \ {Len(stack)}
      /\ \A i \in Depth' : stack'[i] = stack[i]
  BY <1>1, <1>2, PopStack DEF Depth
<1>4. Left' = Left \cup {n} /\ n \notin Left /\ Safe' = Safe
  BY <1>1, <1>2 DEF Left, Safe, DetectTypeOK
<1>5. DetectTypeOK'
  BY <1>1, <1>3 DEF DetectTypeOK
<1>6. ActivePath'
  <2>1. \A i \in Depth' : stack[i].node # n
    BY <1>2, <1>3 DEF ActivePath, Top, Depth
  <2>. QED  BY <1>1, <1>2, <1>3, <2>1 DEF ActivePath, Top
<1>7. LookedAtEach'
  <2>. SUFFICES ASSUME NEW i \in Depth'
                PROVE  /\ stack[i].todo \subseteq Children(graph, stack[i].node)
                       /\ \A c \in Children(graph, stack[i].node) \ stack[i].todo :
                             \/ c \in Left'
                             \/ c \in cycle
                             \/ i < Len(stack') /\ c = stack'[i + 1].node
    BY <1>1, <1>3 DEF LookedAtEach
  <2>1. i \in Depth /\ i < Len(stack)
    BY <1>2, <1>3 DEF Depth
  <2>2. CASE i + 1 = Len(stack)
    BY <1>4, <2>1, <2>2 DEF LookedAtEach, Top
  <2>3. CASE i + 1 # Len(stack)
    <3>1. i < Len(stack') /\ i + 1 \in Depth'
      BY <1>2, <1>3, <2>1, <2>3 DEF Depth
    <3>. QED  BY <1>3, <1>4, <2>1, <3>1 DEF LookedAtEach
  <2>. QED  BY <2>2, <2>3
<1>8. LeftIsSettled'
  <2>1. \A c \in Children(graph, n) : c \in Left \/ c \in cycle
    BY <1>1, <1>2 DEF LookedAtEach, Top
  <2>2. Children(Safe, n) \subseteq Left
    BY <2>1 DEF Children, Safe
  <2>3. Left \in SUBSET Roles /\ Closed(Safe, Left)
    BY DEF Left, DetectTypeOK, LeftIsSettled, Closed
  <2>4. ~Descends(Safe, n, n)
    BY <1>4, <2>2, <2>3, OffCycle
  <2>. QED  BY <1>4, <2>2, <2>4 DEF LeftIsSettled
<1>9. ~done
  BY <1>1
<1>. QED  BY <1>1, <1>5, <1>6, <1>7, <1>8, <1>9

LEMMA FinishStep == DetectInv /\ Finish => DetectInv'
BY DEF DetectInv, Finish, DetectTypeOK, ActivePath, LookedAtEach, LeftIsSettled, Depth, Left, Safe

LEMMA StepDetectInv == DetectInv /\ [DetectNext]_detectVars => DetectInv'
<1>. SUFFICES ASSUME DetectInv, [DetectNext]_detectVars PROVE DetectInv'
  OBVIOUS
<1>1. CASE UNCHANGED detectVars
  BY <1>1 DEF detectVars, DetectInv, DetectTypeOK, ActivePath, LookedAtEach, LeftIsSettled, Depth, Left, Safe
<1>. QED
  BY <1>1, StartStep, RecurseStep, BackEdgeStep, OtherEdgeStep, LeaveStep, FinishStep
     DEF DetectNext

LEMMA DetectInductive == Detection => []DetectInv
BY InitDetectInv, StepDetectInv, PTL DEF Detection

(* When the outer loop is over every role has been left. *)
LEMMA DetectInvCyclesFound == DetectInv => CyclesFound
<1>. SUFFICES ASSUME DetectInv, done PROVE Acyclic(Safe)
  BY DEF DetectInv, CyclesFound, Safe
<1>1. Depth = {} /\ visited = Roles
  BY DEF DetectInv, Depth
<1>2. inStack = {}
  BY <1>1 DEF DetectInv, ActivePath
<1>3. Left = Roles
  BY <1>1, <1>2 DEF Left
<1>. QED  BY <1>3 DEF DetectInv, LeftIsSettled, Acyclic

(***************************************************************************)
(* RoleEnv::detect_cycles: every role it names lies on a cycle, and when   *)
(* its loops are over the graph without the roles it names has no cycle.   *)
(***************************************************************************)
THEOREM CyclesAreFound == Detection => []CyclesFound
BY DetectInductive, DetectInvCyclesFound, PTL

-----------------------------------------------------------------------------
(***************************************************************************)
(* The breadth-first searches.                                             *)
(***************************************************************************)
Queued == Range(queue)

Collected == Range(result)

(* Nothing is queued, visited or looked at that is not below the root. *)
Sound ==
    /\ \A v \in visited : (v = root /\ target = None) \/ Descends(graph, v, root)
    /\ \A t \in todo : Descends(graph, t, root)
    /\ pc = "found" => target \in Roles /\ Descends(graph, target, root)

(***************************************************************************)
(* The frontier: a node that has been reached is still queued, or all its  *)
(* children have been reached or are about to be.  When queue and todo are *)
(* empty the visited set is therefore closed.                              *)
(***************************************************************************)
Frontier ==
    /\ Queued \subseteq visited
    /\ target = None => root \in visited
    /\ pc # "found" =>
          \A v \in visited \cup {root} :
              v \in Queued \/ Children(graph, v) \subseteq visited \cup todo
    /\ pc = "exhausted" => todo = {} /\ queue = <<>>
    /\ target \notin visited

(* resolve_down collects what it visits, once. *)
Listed ==
    target = None =>
        /\ pc # "found"
        /\ Collected = visited
        /\ \A i, j \in DOMAIN result : result[i] = result[j] => i = j

SearchInv == TypeOK /\ Sound /\ Frontier /\ Listed

(* What Append and Tail do to the elements of a sequence. *)
LEMMA AppendRange ==
    ASSUME NEW T, NEW s \in Seq(T), NEW x \in T
    PROVE  Append(s, x) \in Seq(T) /\ Range(Append(s, x)) = Range(s) \cup {x}
<1>. DEFINE a == Append(s, x)
<1>1. a \in Seq(T) /\ DOMAIN a = 1..Len(s) + 1 /\ DOMAIN s = 1..Len(s) /\ Len(s) \in Nat
  OBVIOUS
<1>2. \A i \in DOMAIN s : i \in DOMAIN a /\ a[i] = s[i]
  OBVIOUS
<1>3. Len(s) + 1 \in DOMAIN a /\ a[Len(s) + 1] = x
  OBVIOUS
<1>4. \A i \in DOMAIN a : i \in DOMAIN s \/ i = Len(s) + 1
  BY <1>1
<1>. QED  BY <1>1, <1>2, <1>3, <1>4 DEF Range

LEMMA TailRange ==
    ASSUME NEW T, NEW s \in Seq(T), s # <<>>
    PROVE  /\ Head(s) \in Range(s)
           /\ Tail(s) \in Seq(T)
           /\ Range(Tail(s)) \subseteq Range(s)
           /\ Range(s) \subseteq Range(Tail(s)) \cup {Head(s)}
<1>. DEFINE t == Tail(s)
            h == Head(s)
<1>1. Len(s) \in Nat \ {0} /\ DOMAIN s = 1..Len(s) /\ DOMAIN t = 1..Len(s) - 1
  OBVIOUS
<1>2. \A i \in DOMAIN t : i + 1 \in DOMAIN s /\ t[i] = s[i + 1]
  OBVIOUS
<1>3. 1 \in DOMAIN s /\ h = s[1]
  BY <1>1
<1>4. \A i \in DOMAIN s : i = 1 \/ (i - 1 \in DOMAIN t /\ t[i - 1] = s[i])
  BY <1>1
<1>5. t \in Seq(T)
  OBVIOUS
<1>6. t \in Seq(T) /\ h \in Range(s)
  BY <1>3, <1>5 DEF Range
<1>. HIDE DEF t, h
<1>7. Range(t) \subseteq Range(s)
  BY <1>2 DEF Range
<1>8. Range(s) \subseteq Range(t) \cup {h}
  BY <1>3, <1>4 DEF Range
<1>. QED  BY <1>6, <1>7, <1>8 DEF t, h

LEMMA InitSearchInv == Init => SearchInv
<1>. SUFFICES ASSUME Init PROVE SearchInv
  OBVIOUS
<1>1. TypeOK
  BY DEF Init, TypeOK, Children
<1>2. Sound
  BY ChildDescends DEF Init, Sound
<1>3. Frontier
  <2>1. Queued = {}
    BY DEF Init, Queued, Range
  <2>2. \A v \in visited \cup {root} : Children(graph, v) \subseteq visited \cup todo
    BY DEF Init
  <2>. QED  BY <2>1, <2>2, NoneIsNoRole DEF Init, Frontier
<1>4. Listed
  BY DEF Init, Listed, Collected, Range
<1>. QED  BY <1>1, <1>2, <1>3, <1>4 DEF SearchInv

LEMMA HitStep == SearchInv /\ Hit => SearchInv'
BY NoneIsNoRole DEF SearchInv, Hit, TypeOK, Sound, Frontier, Listed, Queued, Collected

LEMMA VisitStep ==
    ASSUME SearchInv, NEW child \in Roles, Visit(child)
    PROVE  SearchInv'
<1>. USE DEF SearchInv, Visit
<1>0. queue \in Seq(Roles) /\ result \in Seq(Roles)
  BY DEF TypeOK
<1>1. queue' \in Seq(Roles) /\ Queued' = Queued \cup {child}
  BY <1>0, AppendRange DEF Queued
<1>2. CASE target = None
  <2>1. result' \in Seq(Roles) /\ Collected' = Collected \cup {child}
    BY <1>0, <1>2, AppendRange DEF Collected
  <2>2. \A i \in DOMAIN result : result[i] # child
    BY <1>2 DEF Listed, Collected, Range
  <2>3. \A i, j \in DOMAIN result' : result'[i] = result'[j] => i = j
    BY <1>0, <1>2, <2>2 DEF Listed
  <2>. QED  BY <1>1, <1>2, <2>1, <2>3 DEF TypeOK, Sound, Frontier, Listed
<1>3. CASE target # None
  BY <1>1, <1>3 DEF TypeOK, Sound, Frontier, Listed, Collected
<1>. QED  BY <1>2, <1>3

LEMMA SkipStep ==
    ASSUME SearchInv, NEW child \in Roles, Skip(child)
    PROVE  SearchInv'
BY DEF SearchInv, Skip, TypeOK, Sound, Frontier, Listed, Queued, Collected

LEMMA DequeueStep == SearchInv /\ Dequeue => SearchInv'
<1>. SUFFICES ASSUME SearchInv, Dequeue PROVE SearchInv'
  OBVIOUS
<1>. USE DEF SearchInv, Dequeue
<1>0. queue \in Seq(Roles)
  BY DEF TypeOK
<1>1. /\ Head(queue) \in Queued
      /\ queue' \in Seq(Roles)
      /\ Queued' \subseteq Queued
      /\ \A y \in Queued : y = Head(queue) \/ y \in Queued'
  BY <1>0, TailRange DEF Queued
<1>2. Head(queue) \in visited /\ Head(queue) \in Roles
  BY <1>1 DEF Frontier, TypeOK
<1>3. TypeOK'
  BY <1>1 DEF TypeOK, Children
<1>4. \A t \in todo' : Descends(graph, t, root)
  <2>1. \A t \in todo' : t \in Roles /\ Descends(graph, t, Head(queue))
    BY <1>2, ChildDescends DEF Children
  <2>2. root \in Roles
    BY DEF TypeOK
  <2>. QED  BY <1>2, <2>1, <2>2, DescendsTransitive DEF Sound
<1>5. Sound'
  BY <1>4 DEF Sound
<1>6. Frontier'
  BY <1>1 DEF Frontier
<1>7. Listed'
  BY DEF Listed, Collected
<1>. QED  BY <1>3, <1>5, <1>6, <1>7

LEMMA ExhaustStep == SearchInv /\ Exhaust => SearchInv'
BY DEF SearchInv, Exhaust, TypeOK, Sound, Frontier, Listed, Queued, Collected

LEMMA SearchInductive == Spec => []SearchInv
<1>0. Init => SearchInv
  BY InitSearchInv
<1>1. SearchInv /\ [Next]_vars => SearchInv'
  <2>1. SearchInv /\ UNCHANGED vars => SearchInv'
    BY DEF vars, SearchInv, TypeOK, Sound, Frontier, Listed, Queued, Collected
  <2>. QED  BY <2>1, HitStep, VisitStep, SkipStep, DequeueStep, ExhaustStep DEF Next
<1>. QED  BY <1>0, <1>1, PTL DEF Spec

(* An exhausted search has visited everything below the root. *)
LEMMA ExhaustedClosed ==
    ASSUME SearchInv, pc = "exhausted", NEW d \in Roles, Descends(graph, d, root)
    PROVE  d \in visited
<1>1. Closed(graph, visited) /\ Children(graph, root) \subseteq visited
  BY DEF SearchInv, Frontier, Queued, Closed, Range
<1>2. visited \in SUBSET Roles
  BY DEF SearchInv, TypeOK
<1>. QED  BY <1>1, <1>2 DEF Descends

(***************************************************************************)
(* is_descendant's answer is the descent relation of module RoleEnv, which *)
(* is what GrantSystem builds on, for every role graph.                    *)
(***************************************************************************)
THEOREM IsDescendantCorrect == Spec => []AnswersDescent
<1>1. SearchInv => AnswersDescent
  BY ExhaustedClosed DEF SearchInv, Sound, Frontier, TypeOK, AnswersDescent
<1>. QED  BY <1>1, SearchInductive, PTL

(***************************************************************************)
(* resolve_down's list is the role and its descendants, each once, for     *)
(* every role graph.                                                       *)
(***************************************************************************)
THEOREM ResolveDownCorrect == Spec => []ResolvesDown
<1>1. SearchInv => ResolvesDown
  <2>. SUFFICES ASSUME SearchInv, target = None, pc = "exhausted"
                PROVE  Collected = Down(graph, root)
    BY DEF SearchInv, Listed, ResolvesDown, Collected, Range
  <2>1. \A v \in visited : v \in Down(graph, root)
    BY DEF SearchInv, Sound, TypeOK, Down, Descendants
  <2>2. \A v \in Down(graph, root) : v \in visited
    BY ExhaustedClosed DEF SearchInv, Frontier, Down, Descendants
  <2>. QED  BY <2>1, <2>2 DEF SearchInv, Listed
<1>. QED  BY <1>1, SearchInductive, PTL
==============================================================================
