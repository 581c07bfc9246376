---------------------------- MODULE CycleSearch ----------------------------
(***************************************************************************)
(* RoleEnv::detect_cycles (ty.rs), the recursive depth-first search over   *)
(* an arbitrary role graph, with the recursion as an explicit stack.  A    *)
(* frame holds the node of one call of dfs_detect_cycle and the neighbours *)
(* its loop has not looked at yet.                                         *)
(***************************************************************************)
EXTENDS RoleGraph, Sequences, Naturals

VARIABLES stack,     \* the calls that are active, the innermost last
          inStack,   \* in_stack: nodes entered and not yet left
          cycle,     \* cycle_roles
          done       \* the loop over node_indices is over

detectVars == <<graph, stack, visited, inStack, cycle, done>>

Frame(n) == [node |-> n, todo |-> Children(graph, n)]

Top == stack[Len(stack)]

DetectInit ==
    /\ graph \in EdgeSets
    /\ stack = <<>> /\ visited = {} /\ inStack = {} /\ cycle = {}
    /\ done = FALSE

Enter(n, below) ==
    /\ visited' = visited \cup {n}
    /\ inStack' = inStack \cup {n}
    /\ stack' = Append(below, Frame(n))
    /\ UNCHANGED <<graph, cycle, done>>

(* The outer loop: a search from every node not visited before. *)
Start(n) ==
    /\ ~done
    /\ stack = <<>> /\ n \notin visited
    /\ Enter(n, stack)

(* The stack, with c no longer ahead of the innermost call. *)
LookedAt(c) == [stack EXCEPT ![Len(stack)].todo = @ \ {c}]

Recurse(c) ==
    /\ stack # <<>> /\ c \in Top.todo
    /\ c \notin visited
    /\ Enter(c, LookedAt(c))

(* An edge to a node that is still being searched: both its ends are noted. *)
BackEdge(c) ==
    /\ stack # <<>> /\ c \in Top.todo
    /\ c \in visited /\ c \in inStack
    /\ cycle' = cycle \cup {c, Top.node}
    /\ stack' = LookedAt(c)
    /\ UNCHANGED <<graph, visited, inStack, done>>

OtherEdge(c) ==
    /\ stack # <<>> /\ c \in Top.todo
    /\ c \in visited /\ c \notin inStack
    /\ stack' = LookedAt(c)
    /\ UNCHANGED <<graph, visited, inStack, cycle, done>>

Pop == SubSeq(stack, 1, Len(stack) - 1)

(* Mutant: in_stack.remove is forgotten. *)
LeaveMarked ==
    /\ stack # <<>> /\ Top.todo = {}
    /\ stack' = Pop
    /\ UNCHANGED <<graph, visited, inStack, cycle, done>>

(* Mutant: a node that is left may be entered again. *)
LeaveForgets ==
    /\ stack # <<>> /\ Top.todo = {}
    /\ visited' = visited \ {Top.node}
    /\ inStack' = inStack \ {Top.node}
    /\ stack' = Pop
    /\ UNCHANGED <<graph, cycle, done>>

Leave ==
    /\ stack # <<>> /\ Top.todo = {}
    /\ inStack' = inStack \ {Top.node}
    /\ stack' = Pop
    /\ UNCHANGED <<graph, visited, cycle, done>>

Finish ==
    /\ ~done
    /\ stack = <<>> /\ visited = Roles
    /\ done' = TRUE
    /\ UNCHANGED <<graph, stack, visited, inStack, cycle>>

DetectNext ==
    \/ \E n \in Roles : Start(n) \/ Recurse(n) \/ BackEdge(n) \/ OtherEdge(n)
    \/ Leave
    \/ Finish

Detection == DetectInit /\ [][DetectNext]_detectVars

(* detect_cycles is one call: its loops run on. *)
FairDetection == Detection /\ WF_detectVars(DetectNext)

-----------------------------------------------------------------------------
(***************************************************************************)
(* detect_cycles names only roles that lie on a cycle, at every moment of  *)
(* the search, and in the end at least one role of each cycle: shared      *)
(* descendants (diamonds) raise no alarm, and no cycle hides behind a node *)
(* that an earlier search has finished.                                    *)
(***************************************************************************)
CyclesFound ==
    /\ cycle \subseteq OnCycle(graph)
    /\ done => Acyclic({e \in graph : e[1] \notin cycle /\ e[2] \notin cycle})

(* The search leaves every node it enters, and ends. *)
DetectionEnds == <>done
=============================================================================
