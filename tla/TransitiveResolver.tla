------------------------- MODULE TransitiveResolver -------------------------
(***************************************************************************)
(* resolve_transitive (daemon/utils/transitive.py): coroutines that walk   *)
(* the dependency graph of a package together, over one shared set of      *)
(* visited packages.                                                       *)
(*                                                                         *)
(* A call is named by its path, the packages from the root to its own: one *)
(* parent calls itself at most once for each of its dependencies.  The     *)
(* event loop runs tasks in the order in which they became ready; a call   *)
(* gives way only while it awaits get_direct_dependencies -- not at all    *)
(* when the registry client has the document already -- and while it       *)
(* awaits its children, after which it only joins their lists, kept here   *)
(* as one set.                                                             *)
(***************************************************************************)
EXTENDS Integers, Sequences, Functions

CONSTANTS
  Packages,   \* keys name@version
  Root,       \* the package POST /scan asks about
  Graphs,     \* what the registry may list as dependencies, in their order
  MaxDepths   \* what max_depth may be

ASSUME GraphsAssumption ==
  Root \in Packages /\ Graphs \subseteq [Packages -> Seq(Packages)] /\ MaxDepths \subseteq Nat

VARIABLES
  max_depth, \* how deep to go, the same for all calls
  graph,     \* the registry's answers
  failed,    \* packages whose lookup failed, which yields no dependencies
  ready,     \* tasks the event loop will run, first come first served
  waiting,   \* calls that await the registry
  visited,   \* packages, shared by all calls
  emitted,   \* paths to the dependencies reported so far
  expanded   \* history: calls that asked for dependencies

vars == <<max_depth, graph, failed, ready, waiting, visited, emitted, expanded>>

Own(path) == path[Len(path)]
Depth(path) == Len(path) - 1

Init ==
  /\ max_depth \in MaxDepths /\ graph \in Graphs
  /\ failed = {}
  /\ ready = <<[path |-> <<Root>>, step |-> "start"]>>
  /\ waiting = {} /\ visited = {} /\ emitted = {} /\ expanded = {}

Scheduled_Eager(rest, tasks) == tasks \o rest

(* gather makes a task of each child, after those that are ready already. *)
Scheduled(rest, tasks) == rest \o tasks

(* Those of a list that are not among seen, in its order.                  *)
Unvisited(list, seen) ==
  LET Loop[i \in 0 .. Len(list)] ==
        IF i = 0 THEN <<>>
        ELSE IF list[i] \in seen THEN Loop[i - 1] ELSE Append(Loop[i - 1], list[i])
  IN  Loop[Len(list)]

(* The answer of get_direct_dependencies, up to the await of the children. *)
(* The visited set is only read: a child visits its package when it runs.  *)
Expand(path, rest) ==
  \/ LET deps == Unvisited(graph[Own(path)], visited')
         child == [i \in DOMAIN deps |-> Append(path, deps[i])]
     IN  /\ emitted' = emitted \cup Range(child)
         /\ ready' = Scheduled(rest, [i \in DOMAIN child |->
                                        [path |-> child[i], step |-> "start"]])
         /\ UNCHANGED failed
  \/ /\ failed' = failed \cup {Own(path)}
     /\ ready' = rest
     /\ UNCHANGED emitted

Marked_AfterAnswer(path) ==
  IF Depth(path) < max_depth THEN visited ELSE visited \cup {Own(path)}

Marked(path) == visited \cup {Own(path)}

TooDeep_OffByOne(path) == Depth(path) > max_depth

TooDeep(path) == Depth(path) >= max_depth

(* A call begins: the cycle guard, the mark, the depth guard, the request. *)
Start ==
  /\ ready # <<>> /\ Head(ready).step = "start"
  /\ LET path == Head(ready).path
         rest == Tail(ready)
     IN  \/ /\ Own(path) \in visited
            /\ ready' = rest
            /\ UNCHANGED <<failed, waiting, visited, emitted, expanded>>
         \/ /\ Own(path) \notin visited
            /\ visited' = Marked(path)
            /\ \/ /\ TooDeep(path)
                  /\ ready' = rest
                  /\ UNCHANGED <<failed, waiting, emitted, expanded>>
               \/ /\ ~TooDeep(path)
                  /\ expanded' = expanded \cup {path}
                  /\ \/ /\ waiting' = waiting \cup {path}
                        /\ ready' = rest
                        /\ UNCHANGED <<failed, emitted>>
                     \/ Expand(path, rest) /\ UNCHANGED waiting
  /\ UNCHANGED <<max_depth, graph>>

(* The registry answers one of the requests, in any order. *)
Answer(path) ==
  /\ path \in waiting
  /\ waiting' = waiting \ {path}
  /\ ready' = Append(ready, [path |-> path, step |-> "resume"])
  /\ UNCHANGED <<max_depth, graph, failed, visited, emitted, expanded>>

Resume ==
  /\ ready # <<>> /\ Head(ready).step = "resume"
  /\ UNCHANGED <<max_depth, graph, waiting, visited, expanded>>
  /\ Expand(Head(ready).path, Tail(ready))

Next == Start \/ Resume \/ \E path \in waiting : Answer(path)

Spec == Init /\ [][Next]_vars

Finished == ready = <<>> /\ waiting = {}

(* The packages within n dependencies of the root, by the answers given.   *)
Within[n \in Nat] ==
  IF n = 0 THEN {Root}
  ELSE Within[n - 1] \cup
         UNION {Range(graph[p]) : p \in Within[n - 1] \ failed}

-----------------------------------------------------------------------------
(* The state is well formed, and nothing below max_depth is reported. *)
TypeOK ==
  /\ max_depth \in MaxDepths /\ graph \in Graphs
  /\ failed \subseteq visited /\ visited \subseteq Packages
  /\ expanded \cup waiting \cup emitted \subseteq Seq(Packages)
  /\ \A path \in emitted : Depth(path) \in 1..max_depth
  /\ \A i \in DOMAIN ready : /\ ready[i].path \in Seq(Packages)
                             /\ ready[i].step \in {"start", "resume"}

(* The check of visited and the mark are one step: whatever the order of   *)
(* the registry's answers, no package's dependencies are asked for twice.  *)
ExpandedOnce ==
  \A p, q \in expanded : Own(p) = Own(q) => p = q

(* When the resolution is over, everything within max_depth of the root    *)
(* has been reported at its distance from it, the depth the router sorts   *)
(* and caps by.  A package met at the last level is marked there and never *)
(* expanded, so this rests on the order in which the tasks run, and on the *)
(* max_depth of 2 that the router leaves as it is: with 3, a shorter way   *)
(* may lose the race against a longer one.                                 *)
NothingLost ==
  Finished /\ max_depth <= 2 =>
    \A n \in 1..max_depth : \A k \in Within[n] \ Within[n - 1] :
      \E path \in emitted : Own(path) = k /\ Depth(path) = n
=============================================================================
