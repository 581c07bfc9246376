----------------------------- MODULE RoleSearch -----------------------------
(***************************************************************************)
(* The two breadth-first searches of RoleEnv (ty.rs), step by step, over   *)
(* an arbitrary role graph: RoleEnv::set_parent is public and checks       *)
(* nothing, so the graph may have cycles, self-loops and several parents.  *)
(*                                                                         *)
(*   is_descendant(target, root)   looks for target below root             *)
(*   resolve_down(root)            collects root and all that is below it  *)
(*                                                                         *)
(* Both have the same loops; they differ in what starts as visited and in  *)
(* what is done with a child.  `todo` is the rest of the neighbours the    *)
(* inner for loop still has to look at (petgraph's order is newest edge    *)
(* first; any order is allowed here).                                      *)
(***************************************************************************)
EXTENDS RoleGraph, Sequences, Naturals, Functions

CONSTANT None       \* no target: the search is a resolve_down

ASSUME NoneIsNoRole == None \notin Roles

VARIABLES root,     \* where the search starts
          target,   \* the role is_descendant looks for, or None
          queue,    \* VecDeque of nodes still to expand
          todo,     \* neighbours left in the loop that is running
          result,   \* resolve_down's answer, in order
          pc        \* "search", or how the search ended

vars == <<graph, root, target, visited, queue, todo, result, pc>>

(* Mutant: resolve_down does not mark its root. *)
InitUnmarked ==
    /\ graph \in EdgeSets
    /\ root \in Roles
    /\ target \in Roles \cup {None}
    /\ visited = {}
    /\ queue = <<>>
    /\ todo = Children(graph, root)
    /\ result = IF target = None THEN <<root>> ELSE <<>>
    /\ pc = "search"

(* The root is a registered role; for another name both return at once, empty-handed. *)
Init ==
    /\ graph \in EdgeSets
    /\ root \in Roles
    /\ target \in Roles \cup {None}
    /\ visited = IF target = None THEN {root} ELSE {}
    /\ queue = <<>>
    /\ todo = Children(graph, root)
    /\ result = IF target = None THEN <<root>> ELSE <<>>
    /\ pc = "search"

(* is_descendant returns as soon as a neighbour is the one it looks for. *)
Hit ==
    /\ pc = "search"
    /\ target \in todo
    /\ pc' = "found"
    /\ todo' = {}
    /\ UNCHANGED <<graph, root, target, visited, queue, result>>

(* Mutant: a new child is noted but not queued. *)
VisitShallow(child) ==
    /\ pc = "search"
    /\ child \in todo /\ child # target
    /\ child \notin visited
    /\ visited' = visited \cup {child}
    /\ result' = IF target = None THEN Append(result, child) ELSE result
    /\ todo' = todo \ {child}
    /\ UNCHANGED <<graph, root, target, queue, pc>>

(* visited.insert(child) is true: the child is queued, and collected. *)
Visit(child) ==
    /\ pc = "search"
    /\ child \in todo /\ child # target
    /\ child \notin visited
    /\ visited' = visited \cup {child}
    /\ queue' = Append(queue, child)
    /\ result' = IF target = None THEN Append(result, child) ELSE result
    /\ todo' = todo \ {child}
    /\ UNCHANGED <<graph, root, target, pc>>

Skip(child) ==
    /\ pc = "search"
    /\ child \in todo /\ child # target
    /\ child \in visited
    /\ todo' = todo \ {child}
    /\ UNCHANGED <<graph, root, target, visited, queue, result, pc>>

(* Mutant: the front of the queue is read and not taken out. *)
DequeuePeeks ==
    /\ pc = "search"
    /\ todo = {} /\ queue # <<>>
    /\ todo' = Children(graph, Head(queue))
    /\ UNCHANGED <<graph, root, target, visited, queue, result, pc>>

(* while let Some(current) = queue.pop_front() *)
Dequeue ==
    /\ pc = "search"
    /\ todo = {} /\ queue # <<>>
    /\ todo' = Children(graph, Head(queue))
    /\ queue' = Tail(queue)
    /\ UNCHANGED <<graph, root, target, visited, result, pc>>

Exhaust ==
    /\ pc = "search"
    /\ todo = {} /\ queue = <<>>
    /\ pc' = "exhausted"
    /\ UNCHANGED <<graph, root, target, visited, queue, todo, result>>

Next ==
    \/ Hit
    \/ \E child \in Roles : Visit(child) \/ Skip(child)
    \/ Dequeue
    \/ Exhaust

Spec == Init /\ [][Next]_vars

(* The search is a loop of its caller: it runs on. *)
FairSpec == Spec /\ WF_vars(Next)

-----------------------------------------------------------------------------
(* Every variable holds a value of its kind. *)
TypeOK ==
    /\ graph \in EdgeSets
    /\ root \in Roles
    /\ target \in Roles \cup {None}
    /\ visited \subseteq Roles
    /\ queue \in Seq(Roles)
    /\ todo \subseteq Roles
    /\ result \in Seq(Roles)
    /\ pc \in {"search", "found", "exhausted"}

(***************************************************************************)
(* is_descendant answers exactly whether the target is below the root, on  *)
(* graphs with cycles too, where root may be its own descendant.           *)
(***************************************************************************)
AnswersDescent ==
    target # None =>
        /\ pc = "found" => Descends(graph, target, root)
        /\ pc = "exhausted" => ~Descends(graph, target, root)

(***************************************************************************)
(* resolve_down ends with the root and all its descendants, each listed    *)
(* once.                                                                   *)
(***************************************************************************)
ResolvesDown ==
    target = None =>
        /\ pc # "found"
        /\ pc = "exhausted" => Range(result) = Down(graph, root)
        /\ \A i, j \in DOMAIN result : result[i] = result[j] => i = j

(* The visited sets make both searches end, on every finite graph. *)
SearchEnds == <>(pc # "search")
=============================================================================
