---------------------- MODULE TransitiveResolverProofs ----------------------
(***************************************************************************)
(* Theorems about TransitiveResolver, for any graph.  No package is        *)
(* expanded twice, because the check and the mark of visited are one step  *)
(* of the event loop; the state is well formed; and up to the depth the    *)
(* router uses nothing within reach of the root is lost.                   *)
(***************************************************************************)
EXTENDS TransitiveResolver, SequenceTheorems, WellFoundedInduction, TLAPS

(* Whatever was expanded is marked, and was marked before anything else of *)
(* the same package could be expanded.                                     *)
ExpandedVisited == \A path \in expanded : Own(path) \in visited

IInv == ExpandedVisited /\ ExpandedOnce

(* Beginning calls are the only ones that mark, or ask for dependencies.   *)
LEMMA StartKeeps ==
  ASSUME IInv, Start PROVE IInv'
<1>1. CASE visited' = visited /\ expanded' = expanded
  BY <1>1 DEF IInv, ExpandedVisited, ExpandedOnce, Own
<1>2. ASSUME NEW path,
             Own(path) \notin visited, visited' = visited \cup {Own(path)},
             expanded' \in {expanded, expanded \cup {path}}
      PROVE  IInv'
  BY <1>2 DEF IInv, ExpandedVisited, ExpandedOnce, Own
<1> DEFINE path == Head(ready).path
<1>3. \/ UNCHANGED <<visited, expanded>>
      \/ /\ Own(path) \notin visited /\ visited' = visited \cup {Own(path)}
         /\ expanded' \in {expanded, expanded \cup {path}}
  BY DEF Start, Marked
<1> QED BY <1>1, <1>2, <1>3

(* The dependencies of a package are asked for once, whatever the order of *)
(* the registry's answers.                                                 *)
THEOREM OnceSafe == Spec => []ExpandedOnce
<1>1. Init => IInv
  BY DEF Init, IInv, ExpandedVisited, ExpandedOnce
<1>2. IInv /\ [Next]_vars => IInv'
  <2> SUFFICES ASSUME IInv, [Next]_vars PROVE IInv'
    OBVIOUS
  <2>1. CASE Start
    BY <2>1, StartKeeps
  <2>2. CASE UNCHANGED <<visited, expanded>>
    BY <2>2 DEF IInv, ExpandedVisited, ExpandedOnce, Own
  <2>3. Resume => UNCHANGED <<visited, expanded>>
    BY DEF Resume
  <2>4. (\E path \in waiting : Answer(path)) => UNCHANGED <<visited, expanded>>
    BY DEF Answer
  <2> QED BY <2>1, <2>2, <2>3, <2>4 DEF Next, vars
<1>3. IInv => ExpandedOnce
  BY DEF IInv
<1> QED BY <1>1, <1>2, <1>3, PTL DEF Spec

-----------------------------------------------------------------------------
(***************************************************************************)
(* Two facts about natural numbers, for the recursive functions of the     *)
(* model: induction by a smallest counterexample, and the existence of a   *)
(* function given by its first value and a step.                           *)
(***************************************************************************)
LEMMA Least ==
  ASSUME NEW S, S \subseteq Nat, S # {}
  PROVE  \E m \in S : \A n \in S : m <= n
<1>1. PICK m \in S : \A n \in S : ~(<<n, m>> \in OpToRel(<, Nat))
  BY NatLessThanWellFounded, WFMin
<1>2. \A n \in S : ~(n < m) BY <1>1 DEF OpToRel
<1>3. \A n \in S : m <= n BY <1>2
<1> QED BY <1>3

(* What holds of 0, and of a number whenever it holds of the one before it, *)
(* holds of all numbers.                                                    *)
LEMMA Inductive ==
  ASSUME NEW S, 0 \in S, \A n \in Nat : n \in S => n + 1 \in S
  PROVE  Nat \subseteq S
<1> SUFFICES ASSUME Nat \ S # {}
             PROVE  FALSE
  OBVIOUS
<1>1. PICK m \in Nat \ S : \A n \in Nat \ S : m <= n
  <2>1. Nat \ S \subseteq Nat OBVIOUS
  <2> QED BY <2>1, Least
<1>2. m # 0 /\ m - 1 \in Nat BY <1>1
<1>3. m - 1 \in S BY <1>1, <1>2
<1>4. m - 1 + 1 = m BY <1>1
<1> QED BY <1>2, <1>3, <1>4

(* The first n + 1 values of the function that starts with f0 and goes on   *)
(* by G.                                                                   *)
Stage(S, f0, G, n, f) ==
  /\ f \in [0 .. n -> S] /\ f[0] = f0
  /\ \A i \in 0 .. n - 1 : f[i + 1] = G[<<i, f[i]>>]

(* The function as a whole.                                                *)
Recursive(f, S, f0, G) ==
  f \in [Nat -> S] /\ f[0] = f0 /\ \A n \in Nat : f[n + 1] = G[<<n, f[n]>>]

LEMMA Recursion ==
  ASSUME NEW S, NEW f0 \in S, NEW G \in [Nat \X S -> S]
  PROVE  \E f : Recursive(f, S, f0, G)
<1> DEFINE St(n, f) == Stage(S, f0, G, n, f)
<1>1. \A n \in Nat : \E f : St(n, f)
  <2> DEFINE T == {n \in Nat : \E f : St(n, f)}
  <2>1. 0 \in T
    <3>1. St(0, [i \in 0 .. 0 |-> f0]) BY DEF Stage
    <3> QED BY <3>1
  <2>2. ASSUME NEW n \in Nat, n \in T
        PROVE  n + 1 \in T
    <3>1. PICK f : St(n, f) BY <2>2
    <3> DEFINE g == [i \in 0 .. n + 1 |-> IF i = n + 1 THEN G[<<n, f[n]>>] ELSE f[i]]
    <3>2. f[n] \in S /\ G[<<n, f[n]>>] \in S BY <3>1 DEF Stage
    <3>3. g \in [0 .. n + 1 -> S]
      <4> SUFFICES ASSUME NEW i \in 0 .. n + 1
                   PROVE  g[i] \in S
        OBVIOUS
      <4>1. i # n + 1 => i \in 0 .. n OBVIOUS
      <4> QED BY <3>1, <3>2, <4>1 DEF Stage
    <3>4. g[0] = f0 /\ g[n + 1] = G[<<n, f[n]>>] /\ \A i \in 0 .. n : g[i] = f[i]
      BY <3>1 DEF Stage
    <3> HIDE DEF g
    <3>5. ASSUME NEW i \in 0 .. n
          PROVE  g[i + 1] = G[<<i, g[i]>>]
      <4>1. CASE i = n
        <5>1. g[n] = f[n] BY <3>4
        <5> QED BY <3>4, <4>1, <5>1
      <4>2. CASE i # n
        <5>1. i \in 0 .. n - 1 /\ i \in 0 .. n /\ i + 1 \in 0 .. n BY <4>2
        <5>2. f[i + 1] = G[<<i, f[i]>>] BY <3>1, <5>1 DEF Stage
        <5> QED BY <3>4, <5>1, <5>2
      <4> QED BY <4>1, <4>2
    <3>6. n + 1 - 1 = n OBVIOUS
    <3>7. St(n + 1, g) BY <3>3, <3>4, <3>5, <3>6 DEF Stage
    <3> QED BY <3>7
  <2> HIDE DEF T
  <2>3. Nat \subseteq T BY <2>1, <2>2, Inductive
  <2> QED BY <2>3 DEF T
<1>2. ASSUME NEW n \in Nat, NEW m \in Nat, n <= m, NEW f, NEW g, St(n, f), St(m, g)
      PROVE  f[n] = g[n]
  <2> DEFINE T == {i \in Nat : i <= n => f[i] = g[i]}
  <2>1. 0 \in T BY <1>2 DEF Stage
  <2>2. ASSUME NEW i \in Nat, i \in T
        PROVE  i + 1 \in T
    <3> SUFFICES ASSUME i + 1 <= n
                 PROVE  f[i + 1] = g[i + 1]
      OBVIOUS
    <3>1. i \in 0 .. n - 1 /\ i \in 0 .. m - 1 /\ f[i] = g[i] BY <1>2, <2>2
    <3> QED BY <1>2, <3>1 DEF Stage
  <2> HIDE DEF T
  <2>3. Nat \subseteq T BY <2>1, <2>2, Inductive
  <2> QED BY <2>3 DEF T
<1> DEFINE F(n) == CHOOSE f : St(n, f)
           h == [n \in Nat |-> F(n)[n]]
<1>3. \A n \in Nat : St(n, F(n)) BY <1>1
<1> HIDE DEF F
<1>4. \A n \in Nat : F(n)[n] \in S BY <1>3 DEF Stage
<1>5. h \in [Nat -> S] /\ h[0] = f0 BY <1>3, <1>4 DEF Stage
<1>6. ASSUME NEW n \in Nat
      PROVE  h[n + 1] = G[<<n, h[n]>>]
  <2>1. St(n, F(n)) /\ St(n + 1, F(n + 1)) /\ n + 1 \in Nat /\ n <= n + 1 BY <1>3
  <2>2. F(n)[n] = F(n + 1)[n] BY <1>2, <2>1
  <2>3. n \in 0 .. (n + 1) - 1 OBVIOUS
  <2>4. F(n + 1)[n + 1] = G[<<n, F(n + 1)[n]>>] BY <2>1, <2>3 DEF Stage
  <2> QED BY <2>2, <2>4
<1> HIDE DEF h
<1> QED BY <1>5, <1>6 DEF Recursive

(***************************************************************************)
(* Sequences, and the loop over the dependencies.                          *)
(***************************************************************************)
LEMMA RangeOfAppend ==
  ASSUME NEW S, NEW s \in Seq(S), NEW e \in S
  PROVE  Range(Append(s, e)) = Range(s) \cup {e}
<1>1. <<e>> \in Seq(S) /\ Append(s, e) = s \o <<e>>
  BY AppendIsConcat
<1>2. Range(<<e>>) = {e}
  BY DEF Range
<1>3. Range(s \o <<e>>) = Range(s) \cup Range(<<e>>)
  BY <1>1, RangeConcatenation
<1> QED BY <1>1, <1>2, <1>3

LEMMA RangeOfTail ==
  ASSUME NEW S, NEW s \in Seq(S), s # <<>>
  PROVE  Range(s) = {Head(s)} \cup Range(Tail(s))
<1>1. <<Head(s)>> \in Seq(S) /\ Tail(s) \in Seq(S)
  OBVIOUS
<1>2. s = <<Head(s)>> \o Tail(s)
  <2>1. Len(<<Head(s)>> \o Tail(s)) = Len(s) BY <1>1
  <2>2. \A i \in 1 .. Len(s) : s[i] = (<<Head(s)>> \o Tail(s))[i] BY <1>1
  <2> QED BY <1>1, <2>1, <2>2, SeqEqual
<1>3. Range(<<Head(s)>>) = {Head(s)}
  BY DEF Range
<1>4. Range(<<Head(s)>> \o Tail(s)) = Range(<<Head(s)>>) \cup Range(Tail(s))
  BY <1>1, RangeConcatenation
<1> QED BY <1>2, <1>3, <1>4

(* One pass of the loop over the list: what is left of its first i + 1     *)
(* members, given what is left of the first i.                             *)
Passed(list, seen, i, so_far) ==
  IF list[i + 1] \in seen THEN so_far ELSE Append(so_far, list[i + 1])

LEMMA UnvisitedLoop ==
  ASSUME NEW S, NEW list \in Seq(S), NEW seen
  PROVE  \E loop : /\ loop[0] = <<>> /\ Unvisited(list, seen) = loop[Len(list)]
                   /\ \A i \in Nat : i + 1 <= Len(list) =>
                        loop[i + 1] = Passed(list, seen, i, loop[i])
<1> DEFINE D == 0 .. Len(list)
           Step(L) == [i \in D |-> IF i = 0 THEN <<>>
                                   ELSE IF list[i] \in seen THEN L[i - 1]
                                        ELSE Append(L[i - 1], list[i])]
           G == [x \in Nat \X Seq(S) |->
                   IF x[1] >= Len(list) THEN x[2] ELSE Passed(list, seen, x[1], x[2])]
<1>1. Len(list) \in Nat /\ \A i \in 1 .. Len(list) : list[i] \in S
  OBVIOUS
<1>2. G \in [Nat \X Seq(S) -> Seq(S)]
  <2> SUFFICES ASSUME NEW n \in Nat, NEW s \in Seq(S)
               PROVE  G[<<n, s>>] \in Seq(S)
    OBVIOUS
  <2>1. CASE n >= Len(list)
    BY <2>1
  <2>2. CASE n < Len(list)
    <3>1. n + 1 \in 1 .. Len(list) BY <1>1, <2>2
    <3> QED BY <1>1, <3>1 DEF Passed
  <2> QED BY <1>1, <2>1, <2>2
<1>3. PICK f : Recursive(f, Seq(S), <<>>, G)
  <2>1. <<>> \in Seq(S) OBVIOUS
  <2> HIDE DEF G
  <2> QED BY <1>2, <2>1, Recursion
<1>4. ASSUME NEW n \in Nat, ~(n >= Len(list))
      PROVE  f[n + 1] = Passed(list, seen, n, f[n])
  <2>1. f[n] \in Seq(S) /\ f[n + 1] = G[<<n, f[n]>>] BY <1>3 DEF Recursive
  <2> QED BY <1>4, <2>1
<1>5. \E L : L = Step(L)
  <2> DEFINE L == [i \in D |-> f[i]]
  <2> SUFFICES ASSUME NEW i \in D
               PROVE  L[i] = Step(L)[i]
    OBVIOUS
  <2>1. CASE i = 0
    BY <1>1, <1>3, <2>1 DEF Recursive
  <2>2. CASE i # 0
    <3>1. i - 1 \in Nat /\ i - 1 \in D /\ i - 1 + 1 = i /\ ~(i - 1 >= Len(list)) BY <1>1, <2>2
    <3>2. f[i] = Passed(list, seen, i - 1, f[i - 1]) BY <1>4, <3>1
    <3> QED BY <2>2, <3>1, <3>2 DEF Passed
  <2> QED BY <2>1, <2>2
<1> DEFINE Loop == CHOOSE L : L = Step(L)
<1>6. Loop = Step(Loop)
  BY <1>5
<1>7. Unvisited(list, seen) = Loop[Len(list)]
  BY DEF Unvisited
<1> HIDE DEF Loop
<1>8. Loop[0] = <<>>
  BY <1>1, <1>6
<1>9. ASSUME NEW i \in Nat, i + 1 <= Len(list)
      PROVE  Loop[i + 1] = Passed(list, seen, i, Loop[i])
  <2>1. i + 1 \in D /\ i + 1 # 0 /\ i + 1 - 1 = i BY <1>1, <1>9
  <2>2. Loop[i + 1] = Step(Loop)[i + 1] BY <1>6
  <2>3. Loop[i + 1] = IF list[i + 1] \in seen THEN Loop[i + 1 - 1]
                      ELSE Append(Loop[i + 1 - 1], list[i + 1])
    <3> HIDE DEF D
    <3> QED BY <2>1, <2>2
  <2> QED BY <2>1, <2>3 DEF Passed
<1> QED BY <1>7, <1>8, <1>9

(* What of the first n members of a list was not seen.                     *)
Left(list, seen, n) == {list[i] : i \in 1 .. n} \ seen

LEMMA LeftNext ==
  ASSUME NEW list, NEW seen, NEW n \in Nat
  PROVE  Left(list, seen, n + 1) = Left(list, seen, n) \cup ({list[n + 1]} \ seen)
<1>1. 1 .. n + 1 = (1 .. n) \cup {n + 1}
  OBVIOUS
<1> QED BY <1>1 DEF Left

(* The loop leaves what was not seen, and nothing else.                    *)
LEMMA UnvisitedIs ==
  ASSUME NEW S, NEW list \in Seq(S), NEW seen
  PROVE  /\ Unvisited(list, seen) \in Seq(S)
         /\ Range(Unvisited(list, seen)) = Range(list) \ seen
<1>1. PICK loop : /\ loop[0] = <<>> /\ Unvisited(list, seen) = loop[Len(list)]
                  /\ \A i \in Nat : i + 1 <= Len(list) =>
                       loop[i + 1] = Passed(list, seen, i, loop[i])
  BY UnvisitedLoop
<1>2. Len(list) \in Nat /\ \A i \in 1 .. Len(list) : list[i] \in S
  OBVIOUS
<1> DEFINE T == {n \in Nat : n <= Len(list) =>
                   loop[n] \in Seq(S) /\ Range(loop[n]) = Left(list, seen, n)}
<1>3. 0 \in T
  <2>1. Range(<<>>) = {} /\ Left(list, seen, 0) = {} BY DEF Range, Left
  <2>2. <<>> \in Seq(S) /\ loop[0] = <<>>
    BY <1>1
  <2>3. loop[0] \in Seq(S)
    BY <2>2, Zenon
  <2>4. Range(loop[0]) = Left(list, seen, 0)
    BY <2>1, <2>2, Zenon
  <2> QED BY <2>3, <2>4
<1>4. ASSUME NEW n \in Nat, n \in T
      PROVE  n + 1 \in T
  <2> SUFFICES ASSUME n + 1 <= Len(list)
               PROVE  loop[n + 1] \in Seq(S) /\ Range(loop[n + 1]) = Left(list, seen, n + 1)
    OBVIOUS
  <2>1. n + 1 \in 1 .. Len(list) BY <1>2
  <2>2. loop[n] \in Seq(S) /\ Range(loop[n]) = Left(list, seen, n) /\ list[n + 1] \in S
    BY <1>2, <1>4, <2>1
  <2>3. loop[n + 1] = Passed(list, seen, n, loop[n])
    BY <1>1
  <2> HIDE DEF T
  <2>4. CASE list[n + 1] \in seen
    <3>1. loop[n + 1] = loop[n] BY <2>3, <2>4 DEF Passed
    <3>2. {list[n + 1]} \ seen = {} BY <2>4
    <3>4. Left(list, seen, n + 1) = Left(list, seen, n) \cup ({list[n + 1]} \ seen) BY LeftNext
    <3>3. Left(list, seen, n + 1) = Left(list, seen, n) BY <3>2, <3>4
    <3> QED BY <2>2, <3>1, <3>3
  <2>5. CASE list[n + 1] \notin seen
    <3>1. loop[n + 1] = Append(loop[n], list[n + 1]) BY <2>3, <2>5 DEF Passed
    <3>2. Range(Append(loop[n], list[n + 1])) = Range(loop[n]) \cup {list[n + 1]}
      BY <2>2, RangeOfAppend
    <3> QED BY <2>2, <2>5, <3>1, <3>2, LeftNext
  <2> QED BY <2>4, <2>5
<1> HIDE DEF T
<1>5. Nat \subseteq T
  BY <1>3, <1>4, Inductive
<1>6. Range(list) = {list[i] : i \in 1 .. Len(list)}
  BY DEF Range
<1>7. loop[Len(list)] \in Seq(S) /\ Range(loop[Len(list)]) = Left(list, seen, Len(list))
  BY <1>2, <1>5 DEF T
<1>8. Left(list, seen, Len(list)) = Range(list) \ seen
  BY <1>6 DEF Left
<1> QED BY <1>1, <1>7, <1>8

(***************************************************************************)
(* Types, and the invariants.                                              *)
(***************************************************************************)
Paths == Seq(Packages) \ {<<>>}

Task == [path : Paths, step : {"start", "resume"}]

Call(path) == [path |-> path, step |-> "start"]

Resumed(path) == [path |-> path, step |-> "resume"]

(* A call that asked for dependencies is marked and not too deep.          *)
Asking(path) == Own(path) \in visited /\ Depth(path) < max_depth

Typed ==
  /\ max_depth \in MaxDepths /\ graph \in Graphs
  /\ failed \subseteq visited /\ visited \subseteq Packages
  /\ ready \in Seq(Task)
  /\ waiting \subseteq Paths /\ expanded \subseteq Paths /\ emitted \subseteq Paths
  /\ \A path \in emitted : Depth(path) \in 1 .. max_depth
  /\ \A path \in waiting : Asking(path)
  /\ \A task \in Range(ready) : task.step = "resume" => Asking(task.path)

(* The call of the root is under way, and no other has begun.              *)
AtRoot ==
  /\ emitted = {} /\ failed = {}
  /\ \/ ready = <<Call(<<Root>>)>> /\ waiting = {} /\ visited = {}
     \/ ready = <<>> /\ waiting = {<<Root>>} /\ visited = {Root}
     \/ ready = <<Resumed(<<Root>>)>> /\ waiting = {} /\ visited = {Root}

(* What the root depends on, apart from itself.                            *)
Direct == Range(graph[Root]) \ {Root}

(* Every call was reported, and a call of the first level is of a package  *)
(* the root depends on.                                                    *)
Reported ==
  /\ waiting \subseteq emitted /\ \A task \in Range(ready) : task.path \in emitted
  /\ \A path \in emitted : Depth(path) = 1 => path[1] = Root /\ Own(path) \in Direct
  /\ \A k \in visited \ {Root} : \E path \in emitted : Own(path) = k

(* Calls begin in the order of their depth.                                *)
InOrder(queue) ==
  \A i, j \in DOMAIN queue :
    i < j /\ queue[i].step = "start" /\ queue[j].step = "start"
      => Depth(queue[i].path) <= Depth(queue[j].path)

(* What k depends on was reported.                                         *)
Followed(k) ==
  \A d \in Range(graph[k]) \ {Root} : \E path \in emitted : Own(path) = d

(* A package the root depends on is about to be visited, on the first      *)
(* level; once visited, its answer is awaited, lost, or reported.          *)
Pursued(k) ==
  /\ <<Root, k>> \in emitted
  /\ k \notin visited => Call(<<Root, k>>) \in Range(ready)
  /\ k \in visited /\ max_depth = 2 =>
       <<Root, k>> \in waiting \/ Resumed(<<Root, k>>) \in Range(ready) \/ k \in failed \/ Followed(k)

Below ==
  Root \in visited /\ Reported /\ InOrder(ready) /\ \A k \in Direct : Pursued(k)

Levels == max_depth \in 1 .. 2 => Root \in failed \/ AtRoot \/ Below

(* The calls that the expansion of a path makes.                           *)
Calls(path, seen) == {Call(Append(path, k)) : k \in Range(graph[Own(path)]) \ seen}

LEMMA LongerPath ==
  ASSUME NEW path \in Paths, NEW k \in Packages
  PROVE  /\ Append(path, k) \in Paths /\ Own(Append(path, k)) = k
         /\ Depth(Append(path, k)) = Depth(path) + 1 /\ Append(path, k)[1] = path[1]
<1>1. path \in Seq(Packages) /\ path # <<>> /\ Len(path) \in Nat /\ Len(path) >= 1
  BY EmptySeq DEF Paths
<1>2. /\ Append(path, k) \in Seq(Packages) /\ Len(Append(path, k)) = Len(path) + 1
      /\ Append(path, k)[Len(path) + 1] = k /\ Append(path, k)[1] = path[1]
  BY <1>1
<1>3. Append(path, k) # <<>>
  BY <1>1, <1>2
<1> QED BY <1>1, <1>2, <1>3 DEF Paths, Own, Depth

LEMMA PathTyped ==
  ASSUME NEW path \in Paths
  PROVE  Own(path) \in Packages /\ Depth(path) \in Nat
<1>1. path \in Seq(Packages) /\ path # <<>> /\ Len(path) \in Nat /\ Len(path) >= 1
  BY EmptySeq DEF Paths
<1> QED BY <1>1 DEF Own, Depth

(* An expansion reports what was not visited and makes a call of each, or  *)
(* fails.                                                                  *)
LEMMA ExpandIs ==
  ASSUME graph \in Graphs, NEW path \in Paths, NEW rest \in Seq(Task), Expand(path, rest)
  PROVE  \/ /\ \E new \in Seq(Task) : /\ Range(new) = Calls(path, visited')
                                      /\ ready' = rest \o new
            /\ emitted' = emitted \cup {task.path : task \in Calls(path, visited')}
            /\ failed' = failed
         \/ failed' = failed \cup {Own(path)} /\ ready' = rest /\ emitted' = emitted
<1> DEFINE list == graph[Own(path)]
           deps == Unvisited(list, visited')
           child == [i \in DOMAIN deps |-> Append(path, deps[i])]
           new == [i \in DOMAIN child |-> [path |-> child[i], step |-> "start"]]
<1>1. Own(path) \in Packages /\ list \in Seq(Packages)
  BY PathTyped, GraphsAssumption
<1>2. deps \in Seq(Packages) /\ Range(deps) = Range(list) \ visited'
  <2> HIDE DEF list
  <2> QED BY <1>1, UnvisitedIs
<1>3. CASE /\ emitted' = emitted \cup Range(child)
           /\ ready' = Scheduled(rest, new)
           /\ UNCHANGED failed
  <2> HIDE DEF deps
  <2>1. DOMAIN deps = 1 .. Len(deps) /\ Len(deps) \in Nat /\ \A i \in DOMAIN deps : deps[i] \in Packages
    BY <1>2
  <2>2. \A i \in DOMAIN deps : child[i] \in Paths
    BY <2>1, LongerPath
  <2>3. \A i \in 1 .. Len(deps) : new[i] \in Task
    BY <2>1, <2>2 DEF Task
  <2>4. new \in Seq(Task)
    <3>1. new \in [1 .. Len(deps) -> Task] BY <2>1, <2>3
    <3> QED BY <2>1, <3>1, SeqDef
  <2>5. Range(deps) = {deps[i] : i \in DOMAIN deps}
    BY DEF Range
  <2>6. Range(child) = {Append(path, k) : k \in Range(deps)}
    BY <2>5 DEF Range
  <2>7. Range(new) = {Call(p) : p \in Range(child)}
    BY DEF Range, Call
  <2>8. Range(new) = Calls(path, visited')
    BY <1>2, <2>6, <2>7 DEF Calls
  <2>9. {task.path : task \in Calls(path, visited')} = Range(child)
    <3>1. \A p : Call(p).path = p BY DEF Call
    <3> DEFINE R == Range(child)
               C == Calls(path, visited')
    <3>2. C = {Call(p) : p \in R} BY <2>7, <2>8
    <3> HIDE DEF R, C, child
    <3>3. {task.path : task \in C} = {Call(p).path : p \in R} BY <3>2
    <3>4. {Call(p).path : p \in R} = R BY <3>1
    <3> QED BY <3>3, <3>4 DEF R, C
  <2> HIDE DEF new, child
  <2> QED BY <1>3, <2>4, <2>8, <2>9 DEF Scheduled
<1>4. CASE /\ failed' = failed \cup {Own(path)}
           /\ ready' = rest
           /\ UNCHANGED emitted
  BY <1>4
<1> QED BY <1>3, <1>4 DEF Expand

LEMMA InitTyped ==
  ASSUME Init PROVE Typed
<1>1. <<Root>> \in Paths /\ Own(<<Root>>) = Root
  BY GraphsAssumption DEF Paths, Own
<1>2. ready = <<Call(<<Root>>)>> /\ Call(<<Root>>) \in Task
  BY <1>1 DEF Init, Call, Task
<1>3. ready \in Seq(Task) /\ Range(ready) = {Call(<<Root>>)}
  BY <1>2 DEF Range
<1>4. Call(<<Root>>).step = "start"
  BY DEF Call
<1> QED BY <1>3, <1>4 DEF Init, Typed

LEMMA HeadOfReady ==
  ASSUME Typed, ready # <<>>
  PROVE  /\ Head(ready) \in Task /\ Head(ready).path \in Paths
         /\ Tail(ready) \in Seq(Task) /\ Range(ready) = {Head(ready)} \cup Range(Tail(ready))
<1>1. ready \in Seq(Task)
  BY DEF Typed
<1>2. Head(ready) \in Task /\ Tail(ready) \in Seq(Task)
  BY <1>1, HeadTailProperties
<1>3. Range(ready) = {Head(ready)} \cup Range(Tail(ready))
  BY <1>1, RangeOfTail
<1> QED BY <1>2, <1>3 DEF Task

(* What is asked for stays within the depth, whichever call asks.          *)
LEMMA ExpandTyped ==
  ASSUME Typed, visited \subseteq visited', UNCHANGED <<max_depth, graph>>,
         NEW path \in Paths, Own(path) \in visited', Depth(path) < max_depth,
         NEW rest \in Seq(Task), Range(rest) \subseteq Range(ready),
         Expand(path, rest)
  PROVE  /\ failed' \subseteq visited' /\ ready' \in Seq(Task) /\ emitted' \subseteq Paths
         /\ \A p \in emitted' : Depth(p) \in 1 .. max_depth
         /\ \A task \in Range(ready') : task.step = "resume" => Asking(task.path)'
<1>1. graph \in Graphs /\ max_depth \in Nat
  BY GraphsAssumption DEF Typed
<1>2. \A p : Asking(p) => Asking(p)'
  BY DEF Asking
<1>3. \A task \in Range(rest) : task.step = "resume" => Asking(task.path)'
  BY <1>2 DEF Typed
<1>4. CASE failed' = failed \cup {Own(path)} /\ ready' = rest /\ emitted' = emitted
  BY <1>3, <1>4 DEF Typed
<1>5. CASE /\ \E new \in Seq(Task) : Range(new) = Calls(path, visited') /\ ready' = rest \o new
           /\ emitted' = emitted \cup {task.path : task \in Calls(path, visited')}
           /\ failed' = failed
  <2>1. PICK new \in Seq(Task) : Range(new) = Calls(path, visited') /\ ready' = rest \o new
    BY <1>5
  <2>2. ready' \in Seq(Task) /\ Range(ready') = Range(rest) \cup Range(new)
    BY <2>1, ConcatProperties, RangeConcatenation
  <2>3. Range(graph[Own(path)]) \subseteq Packages
    BY <1>1, PathTyped, GraphsAssumption, RangeOfSeq
  <2>4. \A task \in Calls(path, visited') :
          task.step = "start" /\ task.path \in Paths /\ Depth(task.path) \in 1 .. max_depth
    <3> SUFFICES ASSUME NEW k \in Packages
                 PROVE  LET task == Call(Append(path, k))
                        IN  task.step = "start" /\ task.path \in Paths /\ Depth(task.path) \in 1 .. max_depth
      BY <2>3 DEF Calls
    <3>2. /\ Depth(Append(path, k)) = Depth(path) + 1 /\ Append(path, k) \in Paths
          /\ Depth(path) \in Nat
      BY LongerPath, PathTyped
    <3>1. Depth(Append(path, k)) \in 1 .. max_depth /\ Append(path, k) \in Paths
      BY <1>1, <3>2
    <3> QED BY <3>1 DEF Call
  <2>5. \A p \in emitted' : p \in Paths /\ Depth(p) \in 1 .. max_depth
    BY <1>5, <2>4 DEF Typed
  <2>6. \A task \in Range(ready') : task.step = "resume" => Asking(task.path)'
    BY <1>3, <2>1, <2>2, <2>4
  <2>7. failed' \subseteq visited'
    BY <1>5 DEF Typed
  <2> QED BY <2>2, <2>5, <2>6, <2>7
<1> QED BY <1>1, <1>4, <1>5, ExpandIs

LEMMA StartTyped ==
  ASSUME Typed, Start PROVE Typed'
<1>0. PICK path, rest : path = Head(ready).path /\ rest = Tail(ready)
  OBVIOUS
<1>1. /\ path \in Paths /\ rest \in Seq(Task) /\ Range(rest) \subseteq Range(ready)
      /\ Own(path) \in Packages /\ Depth(path) \in Nat /\ max_depth \in Nat
  BY <1>0, HeadOfReady, PathTyped, GraphsAssumption DEF Start, Typed
<1>2. visited \subseteq visited' /\ visited' \subseteq Packages /\ UNCHANGED <<max_depth, graph>>
  BY <1>0, <1>1 DEF Start, Marked, Typed
<1>3. \A p : Asking(p) => Asking(p)'
  BY <1>2 DEF Asking
<1>4. max_depth' \in MaxDepths /\ graph' \in Graphs /\ failed \subseteq visited'
  BY <1>2 DEF Typed
<1>5. \/ /\ ready' = rest /\ UNCHANGED <<failed, waiting, emitted, expanded>>
      \/ /\ Own(path) \in visited' /\ ~TooDeep(path) /\ expanded' = expanded \cup {path}
         /\ waiting' = waiting \cup {path} /\ ready' = rest /\ UNCHANGED <<failed, emitted>>
      \/ /\ Own(path) \in visited' /\ ~TooDeep(path) /\ expanded' = expanded \cup {path}
         /\ Expand(path, rest) /\ waiting' = waiting
  <2>1. Own(path) \notin visited /\ visited' = Marked(path) => Own(path) \in visited'
    BY DEF Marked
  <2> QED BY <1>0, <2>1 DEF Start
<1>6. ~TooDeep(path) => Depth(path) < max_depth
  BY <1>1 DEF TooDeep
<1>9. CASE ready' = rest /\ UNCHANGED <<failed, waiting, emitted, expanded>>
  <2>1. \A p \in waiting' : p \in Paths /\ Asking(p)'
    BY <1>3, <1>9 DEF Typed
  <2>2. \A task \in Range(ready') : task.step = "resume" => Asking(task.path)'
    BY <1>1, <1>3, <1>9 DEF Typed
  <2> QED BY <1>1, <1>2, <1>4, <1>9, <2>1, <2>2 DEF Typed
<1>7. CASE /\ Own(path) \in visited' /\ ~TooDeep(path) /\ expanded' = expanded \cup {path}
           /\ waiting' = waiting \cup {path} /\ ready' = rest /\ UNCHANGED <<failed, emitted>>
  <2>1. \A p \in waiting' : p \in Paths /\ Asking(p)'
    <3>1. \A p \in waiting : p \in Paths /\ Asking(p)' BY <1>3 DEF Typed
    <3>2. Asking(path)' BY <1>2, <1>6, <1>7 DEF Asking
    <3> QED BY <1>1, <1>7, <3>1, <3>2
  <2>2. \A task \in Range(ready') : task.step = "resume" => Asking(task.path)'
    BY <1>1, <1>3, <1>7 DEF Typed
  <2>3. expanded' \subseteq Paths /\ ready' \in Seq(Task) /\ failed' \subseteq visited'
    BY <1>1, <1>4, <1>7 DEF Typed
  <2>4. emitted' \subseteq Paths /\ \A p \in emitted' : Depth(p) \in 1 .. max_depth'
    BY <1>2, <1>7 DEF Typed
  <2> QED BY <1>2, <1>4, <2>1, <2>2, <2>3, <2>4 DEF Typed
<1>8. CASE /\ Own(path) \in visited' /\ ~TooDeep(path) /\ expanded' = expanded \cup {path}
           /\ Expand(path, rest) /\ waiting' = waiting
  <2>1. Depth(path) < max_depth BY <1>6, <1>8
  <2>2. /\ failed' \subseteq visited' /\ ready' \in Seq(Task) /\ emitted' \subseteq Paths
        /\ \A p \in emitted' : Depth(p) \in 1 .. max_depth
        /\ \A task \in Range(ready') : task.step = "resume" => Asking(task.path)'
    BY <1>1, <1>2, <1>8, <2>1, ExpandTyped
  <2>3. \A p \in waiting' : p \in Paths /\ Asking(p)'
    BY <1>3, <1>8 DEF Typed
  <2>4. expanded' \subseteq Paths
    BY <1>1, <1>8 DEF Typed
  <2> QED BY <1>2, <1>4, <2>2, <2>3, <2>4 DEF Typed
<1> QED BY <1>5, <1>7, <1>8, <1>9

LEMMA ResumeTyped ==
  ASSUME Typed, Resume PROVE Typed'
<1>0. PICK path, rest : path = Head(ready).path /\ rest = Tail(ready)
  OBVIOUS
<1>1. /\ path \in Paths /\ rest \in Seq(Task) /\ Range(rest) \subseteq Range(ready)
      /\ Asking(path) /\ Expand(path, rest)
  BY <1>0, HeadOfReady DEF Resume, Typed
<1>2. UNCHANGED <<max_depth, graph, waiting, visited, expanded>>
  BY DEF Resume
<1>3. Own(path) \in visited' /\ Depth(path) < max_depth
  BY <1>1, <1>2 DEF Asking
<1>4. /\ failed' \subseteq visited' /\ ready' \in Seq(Task) /\ emitted' \subseteq Paths
      /\ \A p \in emitted' : Depth(p) \in 1 .. max_depth
      /\ \A task \in Range(ready') : task.step = "resume" => Asking(task.path)'
  BY <1>1, <1>2, <1>3, ExpandTyped
<1>5. \A p : Asking(p) => Asking(p)'
  BY <1>2 DEF Asking
<1> QED BY <1>2, <1>4, <1>5 DEF Typed

LEMMA AnswerIs ==
  ASSUME Typed, NEW path \in waiting, Answer(path)
  PROVE  /\ path \in Paths /\ Asking(path) /\ Resumed(path) \in Task
         /\ ready' = Append(ready, Resumed(path)) /\ ready' \in Seq(Task)
         /\ Range(ready') = Range(ready) \cup {Resumed(path)}
<1>1. ready \in Seq(Task) /\ path \in Paths /\ Asking(path)
  BY DEF Typed
<1>2. Resumed(path) \in Task
  BY <1>1 DEF Resumed, Task
<1>3. ready' = Append(ready, Resumed(path))
  BY DEF Answer, Resumed
<1> QED BY <1>1, <1>2, <1>3, RangeOfAppend, AppendProperties

LEMMA AnswerTyped ==
  ASSUME Typed, NEW path \in waiting, Answer(path)
  PROVE  Typed'
<1>1. /\ path \in Paths /\ Asking(path) /\ ready' \in Seq(Task)
      /\ Range(ready') = Range(ready) \cup {Resumed(path)}
  BY AnswerIs
<1>2. waiting' \subseteq waiting /\ UNCHANGED <<max_depth, graph, failed, visited, emitted, expanded>>
  BY DEF Answer
<1>3. \A p : Asking(p) => Asking(p)'
  BY <1>2 DEF Asking
<1>4. \A task \in Range(ready') : task.step = "resume" => Asking(task.path)'
  BY <1>1, <1>3 DEF Resumed, Typed
<1> QED BY <1>1, <1>2, <1>3, <1>4 DEF Typed

LEMMA StepTyped ==
  ASSUME Typed, [Next]_vars PROVE Typed'
<1>1. CASE UNCHANGED vars
  BY <1>1 DEF vars, Typed, Asking
<1> QED BY <1>1, StartTyped, ResumeTyped, AnswerTyped DEF Next

LEMMA TypedIsTypeOK ==
  ASSUME Typed PROVE TypeOK
<1>1. Paths \subseteq Seq(Packages)
  BY DEF Paths
<1>2. ready \in Seq(Task)
  BY DEF Typed
<1>3. \A i \in DOMAIN ready : ready[i] \in Task
  BY <1>2
<1>4. \A i \in DOMAIN ready : ready[i].path \in Seq(Packages) /\ ready[i].step \in {"start", "resume"}
  BY <1>1, <1>3 DEF Task
<1> QED BY <1>1, <1>4 DEF Typed, TypeOK

(* In every reachable state the state is well formed, and nothing below    *)
(* max_depth is reported.                                                  *)
THEOREM TypeCorrect == Spec => []TypeOK
<1>1. Init => Typed
  BY InitTyped
<1>2. Typed /\ [Next]_vars => Typed'
  BY StepTyped
<1>3. Typed => TypeOK
  BY TypedIsTypeOK
<1> QED BY <1>1, <1>2, <1>3, PTL DEF Spec

(***************************************************************************)
(* What is within reach of the root: the recursion of Within, unfolded.    *)
(***************************************************************************)
Reach(so_far) == so_far \cup UNION {Range(graph[p]) : p \in so_far \ failed}

LEMMA WithinIs ==
  ASSUME Typed
  PROVE  Within[0] = {Root} /\ \A n \in Nat : Within[n + 1] = Reach(Within[n])
<1> DEFINE S == SUBSET Packages
           G == [x \in Nat \X S |-> Reach(x[2])]
           Step(W) == [n \in Nat |-> IF n = 0 THEN {Root} ELSE Reach(W[n - 1])]
<1>1. \A p \in Packages : Range(graph[p]) \subseteq Packages
  BY GraphsAssumption, RangeOfSeq DEF Typed
<1>2. \A s \in S : Reach(s) \in S
  BY <1>1 DEF Reach
<1>3. G \in [Nat \X S -> S]
  BY <1>2
<1>4. PICK f : Recursive(f, S, {Root}, G)
  <2>1. {Root} \in S BY GraphsAssumption
  <2> HIDE DEF G, S
  <2> QED BY <1>3, <2>1, Recursion
<1>5. \A n \in Nat : f[n + 1] = Reach(f[n])
  BY <1>4 DEF Recursive
<1>6. \E W : W = Step(W)
  <2> DEFINE W == [n \in Nat |-> f[n]]
  <2> SUFFICES ASSUME NEW n \in Nat
               PROVE  W[n] = Step(W)[n]
    OBVIOUS
  <2>1. CASE n = 0
    BY <1>4, <2>1 DEF Recursive
  <2>2. CASE n # 0
    <3>1. n - 1 \in Nat /\ n - 1 + 1 = n BY <2>2
    <3>2. f[n] = Reach(f[n - 1]) BY <1>5, <3>1
    <3> QED BY <2>2, <3>1, <3>2
  <2> QED BY <2>1, <2>2
<1>7. Within = Step(Within)
  <2> DEFINE V == CHOOSE W : W = Step(W)
  <2>1. V = Step(V) BY <1>6
  <2>2. Within = V BY DEF Within, Reach
  <2> HIDE DEF V
  <2> QED BY <2>1, <2>2
<1>8. Within[0] = {Root}
  BY <1>7
<1>9. ASSUME NEW n \in Nat
      PROVE  Within[n + 1] = Reach(Within[n])
  <2>1. n + 1 \in Nat /\ n + 1 # 0 /\ n + 1 - 1 = n OBVIOUS
  <2>2. Within[n + 1] = Step(Within)[n + 1] BY <1>7
  <2>3. Step(Within)[n + 1] = Reach(Within[n + 1 - 1])
    BY <2>1
  <2> QED BY <2>1, <2>2, <2>3
<1> QED BY <1>8, <1>9

(***************************************************************************)
(* The queue: calls begin in the order of their depth.                     *)
(***************************************************************************)
LEMMA TailInOrder ==
  ASSUME NEW queue \in Seq(Task), queue # <<>>, InOrder(queue)
  PROVE  InOrder(Tail(queue))
<1>1. /\ Len(queue) \in Nat /\ DOMAIN queue = 1 .. Len(queue)
      /\ Len(Tail(queue)) = Len(queue) - 1 /\ DOMAIN Tail(queue) = 1 .. Len(Tail(queue))
      /\ \A i \in 1 .. Len(Tail(queue)) : Tail(queue)[i] = queue[i + 1]
  BY HeadTailProperties, LenProperties
<1> SUFFICES ASSUME NEW i \in DOMAIN Tail(queue), NEW j \in DOMAIN Tail(queue), i < j,
                    Tail(queue)[i].step = "start", Tail(queue)[j].step = "start"
             PROVE  Depth(Tail(queue)[i].path) <= Depth(Tail(queue)[j].path)
  BY DEF InOrder
<1>2. i + 1 \in DOMAIN queue /\ j + 1 \in DOMAIN queue /\ i + 1 < j + 1
  BY <1>1
<1>3. Tail(queue)[i] = queue[i + 1] /\ Tail(queue)[j] = queue[j + 1]
  BY <1>1
<1> QED BY <1>2, <1>3 DEF InOrder

LEMMA AddedInOrder ==
  ASSUME NEW queue \in Seq(Task), NEW new \in Seq(Task), InOrder(queue), NEW d \in Nat,
         \A task \in Range(queue) : Depth(task.path) <= d,
         \A task \in Range(new) : Depth(task.path) = d
  PROVE  InOrder(queue \o new)
<1> DEFINE all == queue \o new
           m == Len(queue)
<1>1. /\ m \in Nat /\ Len(new) \in Nat /\ DOMAIN all = 1 .. m + Len(new)
      /\ DOMAIN queue = 1 .. m /\ DOMAIN new = 1 .. Len(new)
  BY ConcatProperties, LenProperties
<1>2. \A i \in DOMAIN all : all[i] = IF i <= m THEN queue[i] ELSE new[i - m]
  BY <1>1, ConcatProperties
<1> SUFFICES ASSUME NEW i \in DOMAIN all, NEW j \in DOMAIN all, i < j,
                    all[i].step = "start", all[j].step = "start"
             PROVE  Depth(all[i].path) <= Depth(all[j].path)
  BY DEF InOrder
<1> HIDE DEF all, m
<1>3. i \in Int /\ j \in Int
  BY <1>1
<1>4. CASE j <= m
  <2>1. i \in DOMAIN queue /\ j \in DOMAIN queue /\ all[i] = queue[i] /\ all[j] = queue[j]
    BY <1>1, <1>2, <1>3, <1>4
  <2> QED BY <2>1 DEF InOrder
<1>5. CASE ~(j <= m)
  <2>1. j - m \in DOMAIN new /\ all[j] = new[j - m]
    BY <1>1, <1>2, <1>3, <1>5
  <2>2. Depth(all[j].path) = d
    BY <2>1 DEF Range
  <2>3. CASE i <= m
    <3>1. i \in DOMAIN queue /\ all[i] = queue[i] BY <1>1, <1>2, <1>3, <2>3
    <3>2. Depth(all[i].path) <= d BY <3>1 DEF Range
    <3> QED BY <2>2, <3>2
  <2>4. CASE ~(i <= m)
    <3>1. i - m \in DOMAIN new /\ all[i] = new[i - m] BY <1>1, <1>2, <1>3, <2>4
    <3>2. Depth(all[i].path) = d BY <3>1 DEF Range
    <3> QED BY <2>2, <3>2
  <2> QED BY <2>3, <2>4
<1> QED BY <1>4, <1>5

LEMMA ResumedInOrder ==
  ASSUME NEW queue \in Seq(Task), InOrder(queue), NEW path \in Paths
  PROVE  InOrder(Append(queue, Resumed(path)))
<1> DEFINE all == Append(queue, Resumed(path))
<1>1. Resumed(path) \in Task /\ Resumed(path).step = "resume"
  BY DEF Resumed, Task
<1>2. /\ Len(queue) \in Nat /\ DOMAIN queue = 1 .. Len(queue)
      /\ DOMAIN all = 1 .. Len(queue) + 1 /\ all[Len(queue) + 1] = Resumed(path)
      /\ \A i \in DOMAIN queue : all[i] = queue[i]
  BY <1>1
<1> HIDE DEF all
<1>3. \A i \in DOMAIN all : all[i].step = "start" => i \in DOMAIN queue
  BY <1>1, <1>2
<1> QED BY <1>2, <1>3 DEF InOrder, all

(***************************************************************************)
(* The levels.                                                             *)
(***************************************************************************)
LEMMA FirstLevel ==
  ASSUME Typed, Reported, NEW path \in emitted, Depth(path) = 1
  PROVE  path = <<Root, Own(path)>> /\ Own(path) \in Direct
<1>1. path \in Seq(Packages) /\ Len(path) = 2
  BY DEF Typed, Paths, Depth
<1>2. path[1] = Root /\ Own(path) \in Direct
  BY DEF Reported
<1>3. path = <<path[1], path[2]>>
  <2>3. 1 \in 1 .. Len(path) /\ 2 \in 1 .. Len(path) BY <1>1
  <2>2. path[1] \in Packages /\ path[2] \in Packages BY <1>1, <2>3, ElementOfSeq
  <2>1. <<path[1], path[2]>> \in Seq(Packages) BY <2>2
  <2> QED BY <1>1, <2>1, SeqEqual
<1> QED BY <1>1, <1>2, <1>3 DEF Own

LEMMA AppendToRoot ==
  ASSUME NEW k \in Packages
  PROVE  Append(<<Root>>, k) = <<Root, k>>
<1> DEFINE long == Append(<<Root>>, k)
           pair == <<Root, k>>
<1>1. <<Root>> \in Seq(Packages) /\ pair \in Seq(Packages) /\ long \in Seq(Packages)
  BY GraphsAssumption
<1>2. Len(long) = 2 /\ Len(pair) = 2 /\ long[1] = pair[1] /\ long[2] = pair[2]
  BY GraphsAssumption
<1>3. \A i \in 1 .. Len(long) : long[i] = pair[i]
  BY <1>2
<1> HIDE DEF long, pair
<1>4. long = pair
  BY <1>1, <1>2, <1>3, SeqEqual
<1> QED BY <1>4 DEF long, pair

LEMMA OfRoot ==
  ASSUME NEW k
  PROVE  Own(<<Root, k>>) = k /\ Depth(<<Root, k>>) = 1 /\ Call(<<Root, k>>).path = <<Root, k>>
BY DEF Own, Depth, Call

(* A dependency of the root that is not visited yet is visited from the    *)
(* first level.                                                            *)
LEMMA FirstFirst ==
  ASSUME Typed, Below, ready # <<>>, Head(ready).step = "start",
         Own(Head(ready).path) \in Direct, Own(Head(ready).path) \notin visited
  PROVE  Depth(Head(ready).path) <= 1
<1>1. PICK k : k = Own(Head(ready).path)
  OBVIOUS
<1>2. Call(<<Root, k>>) \in Range(ready)
  BY <1>1 DEF Below, Pursued
<1>3. ready \in Seq(Task) /\ Len(ready) \in Nat /\ DOMAIN ready = 1 .. Len(ready) /\ Head(ready) = ready[1]
  BY LenProperties DEF Typed
<1>4. PICK j \in DOMAIN ready : ready[j] = Call(<<Root, k>>)
  BY <1>2 DEF Range
<1>5. Depth(ready[j].path) = 1 /\ ready[j].step = "start"
  BY <1>4, OfRoot DEF Call
<1>6. CASE j = 1
  BY <1>3, <1>5, <1>6
<1>7. CASE j # 1
  <2>1. 1 \in DOMAIN ready /\ 1 < j BY <1>3, <1>7
  <2> QED BY <1>3, <1>5, <2>1 DEF Below, InOrder
<1> QED BY <1>6, <1>7

(* The calls an expansion makes: what they are of, and how deep.           *)
LEMMA CallsOf ==
  ASSUME graph \in Graphs, NEW path \in Paths, NEW seen
  PROVE  /\ \A task \in Calls(path, seen) :
              /\ task.step = "start" /\ Depth(task.path) = Depth(path) + 1
              /\ task.path[1] = path[1] /\ Own(task.path) \in Range(graph[Own(path)]) \ seen
         /\ \A k \in Range(graph[Own(path)]) \ seen :
              /\ Call(Append(path, k)) \in Calls(path, seen)
              /\ Call(Append(path, k)).path = Append(path, k) /\ Own(Append(path, k)) = k
<1>1. Range(graph[Own(path)]) \subseteq Packages
  BY PathTyped, GraphsAssumption, RangeOfSeq
<1>2. ASSUME NEW k \in Range(graph[Own(path)]) \ seen
      PROVE  /\ Call(Append(path, k)).step = "start" /\ Call(Append(path, k)).path = Append(path, k)
             /\ Depth(Append(path, k)) = Depth(path) + 1
             /\ Append(path, k)[1] = path[1] /\ Own(Append(path, k)) = k
  BY <1>1, LongerPath DEF Call
<1>3. ASSUME NEW task \in Calls(path, seen)
      PROVE  /\ task.step = "start" /\ Depth(task.path) = Depth(path) + 1
             /\ task.path[1] = path[1] /\ Own(task.path) \in Range(graph[Own(path)]) \ seen
  <2>1. PICK k \in Range(graph[Own(path)]) \ seen : task = Call(Append(path, k))
    BY DEF Calls
  <2> QED BY <1>2, <2>1
<1> QED BY <1>2, <1>3 DEF Calls

LEMMA RootExpanded ==
  ASSUME Typed, max_depth \in 1 .. 2, emitted = {}, failed = {},
         visited' = {Root}, waiting' = {}, UNCHANGED <<max_depth, graph>>,
         Expand(<<Root>>, <<>>)
  PROVE  Root \in failed' \/ Below'
<1> DEFINE path == <<Root>>
<1>1. path \in Paths /\ <<>> \in Seq(Task) /\ Own(path) = Root /\ Depth(path) = 0 /\ path[1] = Root
  BY GraphsAssumption DEF Paths, Own, Depth
<1>2. graph \in Graphs
  BY DEF Typed
<1> HIDE DEF path
<1>3. CASE failed' = failed \cup {Own(path)}
  BY <1>1, <1>3
<1>4. CASE /\ \E new \in Seq(Task) : Range(new) = Calls(path, visited') /\ ready' = <<>> \o new
           /\ emitted' = emitted \cup {task.path : task \in Calls(path, visited')}
  <2>1. PICK new \in Seq(Task) : Range(new) = Calls(path, visited') /\ ready' = <<>> \o new
    BY <1>4
  <2>2. ready' = new
    BY <2>1
  <2>3. Range(ready') = Calls(path, visited') /\ emitted' = {task.path : task \in Calls(path, visited')}
    BY <1>4, <2>1, <2>2
  <2>4. Direct' = Range(graph[Own(path)]) \ visited' /\ Direct' = Direct
    BY <1>1 DEF Direct
  <2>5. \A task \in Calls(path, visited') :
          /\ Depth(task.path) = 1 /\ task.path[1] = Root /\ Own(task.path) \in Direct
    BY <1>1, <1>2, <2>4, CallsOf
  <2>6. \A k \in Direct : Append(path, k) = <<Root, k>> /\ Call(<<Root, k>>) \in Calls(path, visited')
                          /\ Call(<<Root, k>>).path = <<Root, k>>
    <3>2. Direct \subseteq Packages BY <1>2, GraphsAssumption, RangeOfSeq DEF Direct
    <3>1. \A k \in Direct : Append(path, k) = <<Root, k>> BY <3>2, AppendToRoot DEF path
    <3>3. \A k \in Direct : /\ Call(Append(path, k)) \in Calls(path, visited')
                            /\ Call(Append(path, k)).path = Append(path, k)
      BY <1>1, <1>2, <2>4, CallsOf
    <3> QED BY <3>1, <3>3
  <2>7. Reported'
    <3>1. \A task \in Range(ready') : task.path \in emitted' BY <2>3
    <3>2. \A p \in emitted' : p[1] = Root /\ Own(p) \in Direct' BY <2>3, <2>4, <2>5
    <3> QED BY <3>1, <3>2 DEF Reported
  <2>8. InOrder(ready')
    <3>1. InOrder(<<>>) BY DEF InOrder
    <3>2. \A task \in Range(<<>>) : Depth(task.path) <= 1 BY DEF Range
    <3>3. InOrder(<<>> \o new) BY <1>1, <2>1, <2>5, <3>1, <3>2, AddedInOrder
    <3> QED BY <2>1, <3>3
  <2>9. \A k \in Direct : <<Root, k>> \in emitted' /\ k \notin visited' /\ Call(<<Root, k>>) \in Range(ready')
    BY <2>3, <2>4, <2>6
  <2>10. \A k \in Direct' : Pursued(k)'
    BY <2>4, <2>9 DEF Pursued
  <2> QED BY <2>7, <2>8, <2>10 DEF Below
<1> QED BY <1>1, <1>2, <1>3, <1>4, ExpandIs DEF path

LEMMA AtRootSteps ==
  ASSUME Typed, max_depth \in 1 .. 2, AtRoot, Next
  PROVE  Root \in failed' \/ AtRoot' \/ Below'
<1>1. Call(<<Root>>).step = "start" /\ Call(<<Root>>).path = <<Root>>
      /\ Resumed(<<Root>>).step = "resume" /\ Resumed(<<Root>>).path = <<Root>>
      /\ Own(<<Root>>) = Root /\ Depth(<<Root>>) = 0
  BY DEF Call, Resumed, Own, Depth
<1>2. CASE Start
  <2>1. ready = <<Call(<<Root>>)>> /\ waiting = {} /\ visited = {}
    BY <1>1, <1>2 DEF AtRoot, Start
  <2>2. Head(ready).path = <<Root>> /\ Tail(ready) = <<>> /\ ~TooDeep(<<Root>>)
    BY <1>1, <2>1 DEF TooDeep
  <2>3. visited' = {Root} /\ UNCHANGED <<max_depth, graph>>
    BY <1>1, <1>2, <2>1, <2>2 DEF Start, Marked
  <2>4. \/ waiting' = waiting \cup {<<Root>>} /\ ready' = <<>> /\ UNCHANGED <<failed, emitted>>
        \/ Expand(<<Root>>, <<>>) /\ UNCHANGED waiting
    BY <1>1, <1>2, <2>1, <2>2 DEF Start
  <2>5. CASE waiting' = waiting \cup {<<Root>>} /\ ready' = <<>> /\ UNCHANGED <<failed, emitted>>
    BY <2>1, <2>3, <2>5 DEF AtRoot
  <2>6. CASE Expand(<<Root>>, <<>>) /\ UNCHANGED waiting
    BY <2>1, <2>3, <2>6, RootExpanded DEF AtRoot
  <2> QED BY <2>4, <2>5, <2>6
<1>3. CASE Resume
  <2>1. ready = <<Resumed(<<Root>>)>> /\ waiting = {} /\ visited = {Root}
    BY <1>1, <1>3 DEF AtRoot, Resume
  <2>2. Head(ready).path = <<Root>> /\ Tail(ready) = <<>>
    BY <1>1, <2>1
  <2>3. Expand(<<Root>>, <<>>) /\ UNCHANGED <<max_depth, graph, waiting, visited>>
    BY <1>3, <2>2 DEF Resume
  <2> QED BY <2>1, <2>3, RootExpanded DEF AtRoot
<1>4. ASSUME NEW path \in waiting, Answer(path)
      PROVE  AtRoot'
  <2>1. ready = <<>> /\ waiting = {<<Root>>} /\ visited = {Root} /\ path = <<Root>>
    BY DEF AtRoot
  <2>2. ready' = Append(ready, Resumed(path)) /\ waiting' = waiting \ {path}
        /\ UNCHANGED <<failed, visited, emitted>>
    BY <1>4 DEF Answer, Resumed
  <2>3. ready' = <<Resumed(<<Root>>)>> /\ waiting' = {}
    BY <2>1, <2>2
  <2> QED BY <2>1, <2>2, <2>3 DEF AtRoot
<1> QED BY <1>2, <1>3, <1>4 DEF Next

(* A dependency of the root has its answer, or its failure, and so does    *)
(* not disturb what is said of the others.                                 *)
LEMMA BelowExpanded ==
  ASSUME Typed, Below, max_depth = 2, UNCHANGED <<max_depth, graph, waiting>>,
         NEW c \in Direct, <<Root, c>> \in emitted,
         visited \subseteq visited', visited' \subseteq visited \cup {c}, c \in visited',
         NEW rest \in Seq(Task), Range(rest) \subseteq Range(ready), InOrder(rest),
         \A k \in Direct \ visited' : Call(<<Root, k>>) \in Range(rest),
         \A k \in Direct \ {c} : Resumed(<<Root, k>>) \in Range(ready) => Resumed(<<Root, k>>) \in Range(rest),
         Expand(<<Root, c>>, rest)
  PROVE  Below'
<1>1. PICK path : path = <<Root, c>>
  OBVIOUS
<1>2. path \in Paths /\ graph \in Graphs /\ Own(path) = c /\ Depth(path) = 1 /\ path[1] = Root
  BY <1>1, OfRoot DEF Typed
<1>3. Direct' = Direct /\ Root \in visited' /\ c # Root
  BY DEF Direct, Below
<1>4. \A k \in visited' \ {Root} : \E p \in emitted : Own(p) = k
  BY <1>1, <1>2 DEF Below, Reported
<1>5. ASSUME emitted \subseteq emitted'
      PROVE  \A k : Followed(k) => Followed(k)'
  BY <1>5 DEF Followed
<1>6. CASE failed' = failed \cup {Own(path)} /\ ready' = rest /\ emitted' = emitted
  <2>1. Reported'
    BY <1>3, <1>4, <1>6 DEF Below, Reported
  <2>2. ASSUME NEW k \in Direct
        PROVE  Pursued(k)'
    <3>1. CASE k = c
      BY <1>2, <1>6, <3>1 DEF Pursued
    <3>2. CASE k # c
      <4>1. k \notin visited' => Call(<<Root, k>>) \in Range(ready')
        BY <1>6
      <4>2. k \in visited' => k \in visited
        BY <3>2
      <4>3. k \in visited' =>
              \/ <<Root, k>> \in waiting' \/ Resumed(<<Root, k>>) \in Range(ready')
              \/ k \in failed' \/ Followed(k)'
        BY <1>5, <1>6, <3>2, <4>2 DEF Below, Pursued
      <4> QED BY <1>6, <4>1, <4>3 DEF Below, Pursued
    <3> QED BY <3>1, <3>2
  <2> QED BY <1>3, <1>6, <2>1, <2>2 DEF Below
<1>7. CASE /\ \E new \in Seq(Task) : Range(new) = Calls(path, visited') /\ ready' = rest \o new
           /\ emitted' = emitted \cup {task.path : task \in Calls(path, visited')}
           /\ failed' = failed
  <2>1. PICK new \in Seq(Task) : Range(new) = Calls(path, visited') /\ ready' = rest \o new
    BY <1>7
  <2>2. Range(ready') = Range(rest) \cup Calls(path, visited')
    BY <2>1, RangeConcatenation
  <2>3. emitted \subseteq emitted' /\ \A task \in Calls(path, visited') : task.path \in emitted'
    BY <1>7
  <2>4. \A task \in Calls(path, visited') : task.step = "start" /\ Depth(task.path) = 2
    BY <1>2, CallsOf
  <2>5. \A k \in Range(graph[c]) \ visited' : \E p \in emitted' : Own(p) = k
    <3>1. \A k \in Range(graph[c]) \ visited' :
            Call(Append(path, k)) \in Calls(path, visited')
            /\ Call(Append(path, k)).path = Append(path, k) /\ Own(Append(path, k)) = k
      BY <1>2, CallsOf
    <3> QED BY <2>3, <3>1
  <2>6. Reported'
    <3>1. waiting' \subseteq emitted'
      BY <2>3 DEF Below, Reported
    <3>2. \A task \in Range(ready') : task.path \in emitted'
      BY <2>2, <2>3 DEF Below, Reported
    <3>3. ASSUME NEW p \in emitted', Depth(p) = 1
          PROVE  p[1] = Root /\ Own(p) \in Direct'
      <4>1. p \in emitted
        BY <1>7, <2>4, <3>3
      <4> QED BY <1>3, <3>3, <4>1 DEF Below, Reported
    <3>4. \A k \in visited' \ {Root} : \E p \in emitted' : Own(p) = k
      BY <1>4, <2>3
    <3> QED BY <3>1, <3>2, <3>3, <3>4 DEF Reported
  <2>7. InOrder(ready')
    <3>1. \A task \in Range(rest) : Depth(task.path) <= 2
      <4> SUFFICES ASSUME NEW task \in Range(ready)
                   PROVE  Depth(task.path) <= 2
        OBVIOUS
      <4>1. task.path \in emitted
        BY DEF Below, Reported
      <4>2. Depth(task.path) \in 1 .. max_depth
        BY <4>1 DEF Typed
      <4> QED BY <4>2
    <3>2. InOrder(rest \o new)
      BY <2>1, <2>4, <3>1, AddedInOrder
    <3> QED BY <2>1, <3>2
  <2>8. Followed(c)'
    <3>1. \A d \in Range(graph[c]) \ {Root} : \E p \in emitted' : Own(p) = d
      BY <1>4, <2>3, <2>5
    <3> QED BY <3>1 DEF Followed
  <2>9. ASSUME NEW k \in Direct
        PROVE  Pursued(k)'
    <3>1. CASE k = c
      BY <1>2, <2>3, <2>8, <3>1 DEF Pursued
    <3>2. CASE k # c
      <4>1. k \notin visited' => Call(<<Root, k>>) \in Range(ready')
        BY <2>2
      <4>2. k \in visited' => k \in visited
        BY <3>2
      <4>3. k \in visited' =>
              \/ <<Root, k>> \in waiting' \/ Resumed(<<Root, k>>) \in Range(ready')
              \/ k \in failed' \/ Followed(k)'
        BY <1>5, <1>7, <2>2, <2>3, <3>2, <4>2 DEF Below, Pursued
      <4>4. <<Root, k>> \in emitted'
        BY <2>3 DEF Below, Pursued
      <4> QED BY <4>1, <4>3, <4>4 DEF Pursued
    <3> QED BY <3>1, <3>2
  <2> QED BY <1>3, <2>6, <2>7, <2>9 DEF Below
<1>8. Expand(path, rest)
  BY <1>1
<1> QED BY <1>2, <1>6, <1>7, <1>8, ExpandIs

LEMMA BelowStarts ==
  ASSUME Typed, max_depth \in 1 .. 2, Below, Start
  PROVE  Below'
<1>1. PICK path, rest : path = Head(ready).path /\ rest = Tail(ready)
  OBVIOUS
<1>2. /\ path \in Paths /\ rest \in Seq(Task) /\ Head(ready) \in Task
      /\ Range(ready) = {Head(ready)} \cup Range(rest) /\ Head(ready).step = "start"
  BY <1>1, HeadOfReady DEF Start
<1>3. Head(ready) = Call(path)
  BY <1>1, <1>2 DEF Task, Call
<1>4. InOrder(rest)
  BY <1>1, TailInOrder DEF Start, Typed, Below
<1>5. path \in emitted /\ Depth(path) \in 1 .. max_depth
  <2>1. path \in emitted BY <1>1, <1>2 DEF Below, Reported
  <2> QED BY <2>1 DEF Typed
<1>6. UNCHANGED <<max_depth, graph>> /\ Direct' = Direct
  BY DEF Start, Direct
<1>7. \A k \in Direct : Resumed(<<Root, k>>) \in Range(ready) => Resumed(<<Root, k>>) \in Range(rest)
  BY <1>2 DEF Resumed
<1>8. \A k \in Direct : Call(<<Root, k>>) \in Range(ready) =>
        Call(<<Root, k>>) \in Range(rest) \/ k = Own(path)
  <2>1. \A k : Call(<<Root, k>>) = Call(path) => k = Own(path)
    BY OfRoot DEF Call
  <2> QED BY <1>2, <1>3, <2>1
<1>9. Own(path) \in Direct \ visited => path = <<Root, Own(path)>> /\ Depth(path) = 1
  <2>1. Own(path) \in Direct \ visited => Depth(path) <= 1
    BY <1>1, <1>2, FirstFirst DEF Start
  <2>2. Depth(path) <= 1 => Depth(path) = 1
    BY <1>5
  <2> QED BY <1>5, <2>1, <2>2, FirstLevel DEF Below
<1>10. CASE /\ Own(path) \in visited /\ ready' = rest
            /\ UNCHANGED <<failed, waiting, visited, emitted, expanded>>
  <2>1. Reported'
    BY <1>2, <1>6, <1>10 DEF Below, Reported
  <2>2. ASSUME NEW k \in Direct
        PROVE  Pursued(k)'
    <3>1. Followed(k)' = Followed(k)
      BY <1>6, <1>10 DEF Followed
    <3> QED BY <1>6, <1>7, <1>8, <1>10, <3>1 DEF Below, Pursued
  <2> QED BY <1>4, <1>6, <1>10, <2>1, <2>2 DEF Below
<1>11. ASSUME visited' = visited \cup {Own(path)}, Own(path) \notin visited,
              ready' = rest, UNCHANGED <<failed, emitted>>, waiting' \in {waiting, waiting \cup {path}},
              max_depth = 2 /\ Own(path) \in Direct => path \in waiting'
       PROVE  Below'
  <2>1. Reported'
    BY <1>2, <1>5, <1>6, <1>11 DEF Below, Reported
  <2>2. ASSUME NEW k \in Direct
        PROVE  Pursued(k)'
    <3>1. Followed(k)' = Followed(k)
      BY <1>6, <1>11 DEF Followed
    <3>2. CASE k = Own(path)
      BY <1>6, <1>9, <1>11, <3>2 DEF Below, Pursued
    <3>3. CASE k # Own(path)
      BY <1>6, <1>7, <1>8, <1>11, <3>1, <3>3 DEF Below, Pursued
    <3> QED BY <3>2, <3>3
  <2> QED BY <1>4, <1>6, <1>11, <2>1, <2>2 DEF Below
<1>12. CASE /\ Own(path) \notin visited /\ visited' = visited \cup {Own(path)} /\ TooDeep(path)
            /\ ready' = rest /\ UNCHANGED <<failed, waiting, emitted, expanded>>
  <2>1. Own(path) \in Direct => max_depth # 2
    BY <1>9, <1>12 DEF TooDeep
  <2> QED BY <1>11, <1>12, <2>1
<1>13. CASE /\ Own(path) \notin visited /\ visited' = visited \cup {Own(path)} /\ ~TooDeep(path)
            /\ waiting' = waiting \cup {path} /\ ready' = rest /\ UNCHANGED <<failed, emitted>>
  BY <1>11, <1>13
<1>14. CASE /\ Own(path) \notin visited /\ visited' = visited \cup {Own(path)} /\ ~TooDeep(path)
            /\ Expand(path, rest) /\ UNCHANGED waiting
  <2>1. max_depth = 2 /\ Depth(path) = 1
    BY <1>5, <1>14 DEF TooDeep
  <2>2. path = <<Root, Own(path)>> /\ Own(path) \in Direct
    BY <1>5, <2>1, FirstLevel DEF Below
  <2>3. PICK c \in Direct : c = Own(path) /\ path = <<Root, c>>
    BY <2>2
  <2>4. \A k \in Direct \ visited' : Call(<<Root, k>>) \in Range(rest)
    BY <1>8, <1>14 DEF Below, Pursued
  <2>5. /\ <<Root, c>> \in emitted /\ Expand(<<Root, c>>, rest) /\ c \in visited'
        /\ visited \subseteq visited' /\ visited' \subseteq visited \cup {c}
        /\ UNCHANGED <<max_depth, graph, waiting>> /\ Range(rest) \subseteq Range(ready)
    BY <1>2, <1>5, <1>6, <1>14, <2>3
  <2> QED BY <1>2, <1>4, <1>7, <2>1, <2>4, <2>5, BelowExpanded
<1>15. \/ /\ Own(path) \in visited /\ ready' = rest
          /\ UNCHANGED <<failed, waiting, visited, emitted, expanded>>
       \/ /\ Own(path) \notin visited /\ visited' = visited \cup {Own(path)} /\ TooDeep(path)
          /\ ready' = rest /\ UNCHANGED <<failed, waiting, emitted, expanded>>
       \/ /\ Own(path) \notin visited /\ visited' = visited \cup {Own(path)} /\ ~TooDeep(path)
          /\ waiting' = waiting \cup {path} /\ ready' = rest /\ UNCHANGED <<failed, emitted>>
       \/ /\ Own(path) \notin visited /\ visited' = visited \cup {Own(path)} /\ ~TooDeep(path)
          /\ Expand(path, rest) /\ UNCHANGED waiting
  BY <1>1 DEF Start, Marked
<1> QED BY <1>10, <1>12, <1>13, <1>14, <1>15

LEMMA BelowResumes ==
  ASSUME Typed, max_depth \in 1 .. 2, Below, Resume
  PROVE  Below'
<1>1. PICK path, rest : path = Head(ready).path /\ rest = Tail(ready)
  OBVIOUS
<1>2. /\ path \in Paths /\ rest \in Seq(Task) /\ Head(ready) \in Task
      /\ Range(ready) = {Head(ready)} \cup Range(rest) /\ Head(ready).step = "resume"
  BY <1>1, HeadOfReady DEF Resume
<1>3. Head(ready) = Resumed(path)
  BY <1>1, <1>2 DEF Task, Resumed
<1>4. InOrder(rest)
  BY <1>1, TailInOrder DEF Resume, Typed, Below
<1>5. path \in emitted /\ Depth(path) \in 1 .. max_depth
  <2>1. path \in emitted BY <1>1, <1>2 DEF Below, Reported
  <2> QED BY <2>1 DEF Typed
<1>6. Asking(path)
  BY <1>1, <1>2 DEF Typed
<1>7. max_depth = 2 /\ Depth(path) = 1
  BY <1>5, <1>6 DEF Asking
<1>8. path = <<Root, Own(path)>> /\ Own(path) \in Direct
  BY <1>5, <1>7, FirstLevel DEF Below
<1>9. PICK c \in Direct : c = Own(path) /\ path = <<Root, c>>
  BY <1>8
<1>10. \A k \in Direct \ {c} : Resumed(<<Root, k>>) \in Range(ready) => Resumed(<<Root, k>>) \in Range(rest)
  <2>1. \A k : Resumed(<<Root, k>>) = Resumed(path) => k = Own(path)
    BY OfRoot DEF Resumed
  <2> QED BY <1>2, <1>3, <1>9, <2>1
<1>11. Expand(path, rest) /\ UNCHANGED <<max_depth, graph, waiting, visited>>
  BY <1>1 DEF Resume
<1>12. \A k \in Direct \ visited' : Call(<<Root, k>>) \in Range(rest)
  <2>1. \A k : Call(<<Root, k>>) # Resumed(path)
    BY DEF Call, Resumed
  <2> QED BY <1>2, <1>3, <1>11, <2>1 DEF Below, Pursued
<1>13. /\ <<Root, c>> \in emitted /\ Expand(<<Root, c>>, rest) /\ c \in visited'
       /\ visited \subseteq visited' /\ visited' \subseteq visited \cup {c}
       /\ Range(rest) \subseteq Range(ready)
  BY <1>2, <1>5, <1>6, <1>9, <1>11 DEF Asking
<1> QED BY <1>2, <1>4, <1>7, <1>10, <1>11, <1>12, <1>13, BelowExpanded

LEMMA BelowAnswered ==
  ASSUME Typed, Below, NEW path \in waiting, Answer(path)
  PROVE  Below'
<1>1. /\ path \in Paths /\ ready' = Append(ready, Resumed(path))
      /\ Range(ready') = Range(ready) \cup {Resumed(path)}
  BY AnswerIs
<1>2. waiting' = waiting \ {path} /\ UNCHANGED <<max_depth, graph, failed, visited, emitted>>
  BY DEF Answer
<1>3. InOrder(ready')
  BY <1>1, ResumedInOrder DEF Typed, Below
<1>4. Reported' /\ Direct' = Direct
  BY <1>1, <1>2 DEF Below, Reported, Resumed, Direct
<1>5. ASSUME NEW k \in Direct
      PROVE  Pursued(k)'
  <2>1. Followed(k)' = Followed(k)
    BY <1>2 DEF Followed
  <2>2. <<Root, k>> \in waiting => <<Root, k>> \in waiting' \/ Resumed(<<Root, k>>) \in Range(ready')
    BY <1>1, <1>2
  <2> QED BY <1>1, <1>2, <2>1, <2>2 DEF Below, Pursued
<1> QED BY <1>2, <1>3, <1>4, <1>5 DEF Below

LEMMA StepLevels ==
  ASSUME Typed, Levels, [Next]_vars
  PROVE  Levels'
<1> SUFFICES ASSUME max_depth \in 1 .. 2
             PROVE  Root \in failed' \/ AtRoot' \/ Below'
  BY DEF Levels, Next, Start, Resume, Answer, vars
<1>1. failed \subseteq failed'
  BY DEF Next, Start, Resume, Answer, Expand, vars
<1>2. CASE UNCHANGED vars
  BY <1>2 DEF Levels, AtRoot, Below, Reported, Direct, Pursued, Followed, vars
<1>3. CASE Next
  <2>1. CASE Root \in failed
    BY <1>1, <2>1
  <2>2. CASE AtRoot
    BY <1>3, <2>2, AtRootSteps
  <2>3. CASE Below
    BY <1>3, <2>3, BelowStarts, BelowResumes, BelowAnswered DEF Next
  <2> QED BY <2>1, <2>2, <2>3 DEF Levels
<1> QED BY <1>2, <1>3

LEMMA LevelsLoseNothing ==
  ASSUME Typed, Levels
  PROVE  NothingLost
<1> SUFFICES ASSUME ready = <<>>, waiting = {}, max_depth <= 2,
                    NEW n \in 1 .. max_depth, NEW k \in Within[n] \ Within[n - 1]
             PROVE  \E path \in emitted : Own(path) = k /\ Depth(path) = n
  BY DEF NothingLost, Finished
<1>1. max_depth \in 1 .. 2 /\ n \in 1 .. 2
  BY GraphsAssumption DEF Typed
<1>2. /\ Within[0] = {Root} /\ Within[1] = Reach({Root}) /\ Within[2] = Reach(Within[1])
  <2>1. Within[0] = {Root} /\ \A i \in Nat : Within[i + 1] = Reach(Within[i]) BY WithinIs
  <2>2. Within[0 + 1] = Reach(Within[0]) /\ Within[1 + 1] = Reach(Within[1]) BY <2>1
  <2>3. 0 + 1 = 1 /\ 1 + 1 = 2 OBVIOUS
  <2> QED BY <2>1, <2>2, <2>3
<1>3. CASE Root \in failed
  <2>1. Reach({Root}) = {Root} BY <1>3 DEF Reach
  <2>2. Within[1] = {Root} /\ Within[2] = {Root} BY <1>2, <2>1
  <2>3. n = 1 => k \in Within[1] \ Within[0] OBVIOUS
  <2>4. n = 2 => k \in Within[2] \ Within[1] OBVIOUS
  <2> QED BY <1>1, <1>2, <2>2, <2>3, <2>4
<1>4. CASE Root \notin failed
  <2>1. ~AtRoot
    BY DEF AtRoot
  <2>2. Below
    BY <1>1, <1>4, <2>1 DEF Levels
  <2>3. Within[1] = {Root} \cup Range(graph[Root]) /\ Within[1] = {Root} \cup Direct
    BY <1>2, <1>4 DEF Reach, Direct
  <2>4. Range(ready) = {}
    BY DEF Range
  <2>5. CASE n = 1
    <3>1. k \in Direct BY <1>2, <2>3, <2>5
    <3>2. <<Root, k>> \in emitted BY <2>2, <3>1 DEF Below, Pursued
    <3> QED BY <2>5, <3>2, OfRoot
  <2>6. CASE n = 2
    <3>1. k \in Reach(Within[1]) \ Within[1] BY <1>2, <2>6
    <3>2. PICK c \in Within[1] \ failed : k \in Range(graph[c])
      BY <3>1 DEF Reach
    <3>3. c \in Direct BY <2>3, <3>1, <3>2
    <3>4. Followed(c)
      <4>1. max_depth = 2 BY <1>1, <2>6
      <4> QED BY <2>2, <2>4, <3>2, <3>3, <4>1 DEF Below, Pursued
    <3>5. PICK path \in emitted : Own(path) = k
      BY <2>3, <3>1, <3>2, <3>4 DEF Followed
    <3>6. Depth(path) # 1
      BY <2>2, <2>3, <3>1, <3>5 DEF Below, Reported
    <3>7. Depth(path) \in 1 .. max_depth
      BY DEF Typed
    <3>8. Depth(path) = 2
      BY <1>1, <3>6, <3>7
    <3> QED BY <2>6, <3>5, <3>8
  <2> QED BY <1>1, <2>5, <2>6
<1> QED BY <1>3, <1>4

(* When the resolution is over, everything within max_depth of the root    *)
(* has been reported at its distance from it, whatever the order of the    *)
(* registry's answers: up to the max_depth of 2 that the router uses, a    *)
(* package the root depends on is never met on the last level first.       *)
THEOREM Complete == Spec => []NothingLost
<1>1. Init => Typed /\ Levels
  <2>1. Init => AtRoot BY DEF Init, AtRoot, Call
  <2> QED BY <2>1, InitTyped DEF Levels
<1>2. (Typed /\ Levels) /\ [Next]_vars => (Typed /\ Levels)'
  BY StepTyped, StepLevels
<1>3. Typed /\ Levels => NothingLost
  BY LevelsLoseNothing
<1> QED BY <1>1, <1>2, <1>3, PTL DEF Spec
=============================================================================
