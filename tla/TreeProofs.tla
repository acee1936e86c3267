----------------------------- MODULE TreeProofs -----------------------------
(***************************************************************************)
(* What prim_spanningTree computes, for every graph: a forest along known  *)
(* links, which spans when every link names a known switch.                *)
(*                                                                         *)
(* The loops are recursive functions.  That these exist, and what holds of *)
(* all their values, is shown by induction over sets of numbers, which     *)
(* rests on the theorems of FiniteSetTheorems.                             *)
(***************************************************************************)
EXTENDS SpanningTree, FiniteSetTheorems, TLAPS

(* Induction, and functions defined by it. *)

\* A non-empty set of natural numbers has a least one.
LEMMA LeastNat ==
  ASSUME NEW T, T \subseteq Nat, T # {}
  PROVE  \E n \in T : \A m \in T : n <= m
<1> DEFINE R == StrictSubsetOrdering(Nat)
           F == {0..n : n \in T}
<1>1. F \subseteq FiniteSubsetsOf(Nat) /\ F # {}
  <2>1. ASSUME NEW n \in T PROVE 0..n \subseteq Nat /\ IsFiniteSet(0..n)
    BY FS_Interval
  <2> QED BY <2>1 DEF FiniteSubsetsOf
<1>2. PICK X \in F : \A Y \in F : ~ (<<Y, X>> \in R)
  <2>1. IsWellFoundedOn(R, FiniteSubsetsOf(Nat))
    BY FS_StrictSubsetOrderingWellFounded
  <2> HIDE DEF R, F
  <2> QED BY <1>1, <2>1, WFMin
<1>3. PICK n \in T : X = 0..n
  OBVIOUS
<1>4. ASSUME NEW m \in T PROVE n <= m
  <2>1. 0..m \in F /\ 0..m \subseteq Nat /\ 0..n \subseteq Nat
    OBVIOUS
  <2>2. ~(0..m \subseteq 0..n /\ 0..m # 0..n)
    BY <1>2, <1>3, <2>1 DEF StrictSubsetOrdering
  <2>3. n \in Nat /\ m \in Nat
    OBVIOUS
  <2>4. SUFFICES ASSUME m < n PROVE FALSE
    BY <2>3
  <2>5. 0..m \subseteq 0..n /\ n \in 0..n /\ n \notin 0..m
    BY <2>3, <2>4
  <2> QED BY <2>2, <2>5
<1> QED BY <1>4

\* Induction from 0 to N, over a set.
LEMMA Induction ==
  ASSUME NEW N \in Nat, NEW T, 0 \in T, \A i \in 1..N : i - 1 \in T => i \in T
  PROVE  \A i \in 0..N : i \in T
<1> DEFINE Out == (0..N) \ T
<1> SUFFICES ASSUME Out # {} PROVE FALSE
  OBVIOUS
<1>1. PICK n \in Out : \A m \in Out : n <= m
  <2>1. Out \subseteq Nat
    OBVIOUS
  <2> HIDE DEF Out
  <2> QED BY <2>1, LeastNat
<1>2. n \in 1..N /\ n - 1 \in 0..N /\ n - 1 \notin Out
  BY <1>1
<1> QED BY <1>1, <1>2

\* f holds the states of a loop of N turns over a set S of states.
IsLoop(f, S, first, N, step) ==
  /\ f \in [0..N -> S] /\ f[0] = first
  /\ \A i \in 1..N : f[i] = step[<<f[i - 1], i>>]

LEMMA LoopExists ==
  ASSUME NEW S, NEW first \in S, NEW N \in Nat, NEW step \in [S \X (1..N) -> S]
  PROVE  \E f : IsLoop(f, S, first, N, step)
<1> DEFINE Fits(f, n) == /\ f \in [0..n -> S] /\ f[0] = first
                         /\ \A i \in 1..n : f[i] = step[<<f[i - 1], i>>]
           T == {n \in 0..N : \E f : Fits(f, n)}
<1>1. 0 \in T
  <2>1. Fits([i \in 0..0 |-> first], 0)
    OBVIOUS
  <2>2. 0 \in 0..N
    OBVIOUS
  <2> HIDE DEF Fits
  <2> QED BY <2>1, <2>2
<1>2. ASSUME NEW n \in 0..(N - 1), NEW f, Fits(f, n) PROVE \E g : Fits(g, n + 1)
  <2> DEFINE last == step[<<f[n], n + 1>>]
             g == [i \in 0..(n + 1) |-> IF i <= n THEN f[i] ELSE last]
  <2>1. <<f[n], n + 1>> \in S \X (1..N)
    BY <1>2
  <2>2. last \in S
    BY <2>1
  <2>3. g \in [0..(n + 1) -> S]
    BY <1>2, <2>2
  <2>4. g[0] = first
    BY <1>2
  <2>5. ASSUME NEW i \in 1..(n + 1) PROVE g[i] = step[<<g[i - 1], i>>]
    <3>1. CASE i <= n
      <4>1. i \in 1..n /\ g[i] = f[i] /\ g[i - 1] = f[i - 1]
        BY <3>1
      <4> HIDE DEF g
      <4> QED BY <4>1, <1>2
    <3>2. CASE i = n + 1
      <4>1. g[i] = step[<<f[n], n + 1>>] /\ g[i - 1] = f[n]
        BY <3>2
      <4> HIDE DEF g
      <4> QED BY <4>1, <3>2
    <3> QED BY <3>1, <3>2
  <2> QED BY <2>3, <2>4, <2>5
<1>3. \A i \in 1..N : i - 1 \in T => i \in T
  <2> SUFFICES ASSUME NEW i \in 1..N, i - 1 \in T PROVE i \in T
    OBVIOUS
  <2>1. PICK f : Fits(f, i - 1)
    OBVIOUS
  <2>2. i - 1 \in 0..(N - 1) /\ (i - 1) + 1 = i
    OBVIOUS
  <2> HIDE DEF Fits
  <2>3. \E g : Fits(g, i)
    BY <1>2, <2>1, <2>2
  <2> QED BY <2>3
<1>4. N \in T
  <2> HIDE DEF T
  <2> QED BY <1>1, <1>3, Induction
<1>5. PICK f : Fits(f, N)
  BY <1>4
<1> QED BY <1>5 DEF IsLoop

----------------------------------------------------------------------------
(* The two loops of prim_spanningTree. *)

SearchState(nodes) == [tree : [nodes -> SUBSET nodes], black : SUBSET nodes,
                       failed : BOOLEAN, queue : Seq(nodes)]

LEMMA VisitCases ==
  ASSUME NEW nodes, NEW st \in SearchState(nodes), NEW u \in nodes, NEW v
  PROVE  /\ st.failed \/ v \in st.black => Visit(st, u, v, nodes) = st
         /\ ~st.failed /\ v \notin nodes => Visit(st, u, v, nodes) = [st EXCEPT !.failed = TRUE]
         /\ ~st.failed /\ v \in nodes \ st.black =>
              Visit(st, u, v, nodes) =
                [tree   |-> Linked(st.tree, u, v),
                 black  |-> st.black \cup {v},
                 failed |-> FALSE,
                 queue  |-> Append(st.queue, v)]
<1>1. st.black \subseteq nodes
  BY DEF SearchState
<1>2. ~st.failed => st.failed = FALSE
  BY DEF SearchState
<1>3. st = [tree |-> st.tree, black |-> st.black, failed |-> st.failed, queue |-> st.queue]
  BY DEF SearchState
<1> QED BY <1>1, <1>2, <1>3 DEF Visit

LEMMA VisitType ==
  ASSUME NEW nodes, NEW st \in SearchState(nodes), NEW u \in nodes, NEW v
  PROVE  Visit(st, u, v, nodes) \in SearchState(nodes)
<1>1. CASE st.failed \/ v \in st.black
  BY <1>1, VisitCases
<1>2. CASE ~st.failed /\ v \notin nodes
  <2>1. Visit(st, u, v, nodes) = [st EXCEPT !.failed = TRUE]
    BY <1>2, VisitCases
  <2> QED BY <2>1 DEF SearchState
<1>3. CASE ~st.failed /\ v \in nodes \ st.black
  <2>1. Linked(st.tree, u, v) \in [nodes -> SUBSET nodes]
    BY <1>3 DEF SearchState, Linked
  <2>2. Append(st.queue, v) \in Seq(nodes)
    BY <1>3 DEF SearchState
  <2>3. Visit(st, u, v, nodes) =
          [tree   |-> Linked(st.tree, u, v), black  |-> st.black \cup {v},
           failed |-> FALSE, queue  |-> Append(st.queue, v)]
    BY <1>3, VisitCases
  <2>4. st.black \cup {v} \subseteq nodes
    BY <1>3 DEF SearchState
  <2> QED BY <2>1, <2>2, <2>3, <2>4 DEF SearchState
<1> QED BY <1>1, <1>2, <1>3

\* The turns of the for loop: f[i] is the state after i switches of order.
IsVisitAll(f, st, u, nodes, neighbours, order) ==
  /\ f \in [0..Len(order) -> SearchState(nodes)]
  /\ f[0] = st
  /\ \A i \in 1..Len(order) :
       f[i] = IF order[i] \in neighbours
              THEN Visit(f[i - 1], u, order[i], nodes) ELSE f[i - 1]
  /\ VisitAll(st, u, nodes, neighbours, order) = f[Len(order)]

LEMMA VisitAllLoop ==
  ASSUME NEW nodes, NEW st \in SearchState(nodes), NEW u \in nodes, NEW neighbours,
         NEW order \in Seq(Switches)
  PROVE  \E f : IsVisitAll(f, st, u, nodes, neighbours, order)
<1> DEFINE N == Len(order)
           S == SearchState(nodes)
           look(x, i) == IF order[i] \in neighbours THEN Visit(x, u, order[i], nodes) ELSE x
           step == [xi \in S \X (1..N) |-> look(xi[1], xi[2])]
           body(g) == [i \in 0..N |-> IF i = 0 THEN st
                       ELSE IF order[i] \in neighbours THEN Visit(g[i - 1], u, order[i], nodes)
                       ELSE g[i - 1]]
           after == CHOOSE g : g = body(g)
<1>1. N \in Nat
  OBVIOUS
<1>2. step \in [S \X (1..N) -> S]
  <2>1. ASSUME NEW x \in S, NEW i \in 1..N PROVE look(x, i) \in S
    BY VisitType
  <2> HIDE DEF look, S
  <2> QED BY <2>1
<1>3. PICK f : IsLoop(f, S, st, N, step)
  <2>1. st \in S
    OBVIOUS
  <2> HIDE DEF S, N, step
  <2> QED BY <1>1, <1>2, <2>1, LoopExists
<1>4. ASSUME NEW i \in 1..N PROVE f[i] = look(f[i - 1], i)
  <2>1. f[i - 1] \in S /\ f[i] = step[<<f[i - 1], i>>]
    <3> HIDE DEF S, N, step
    <3> QED BY <1>1, <1>3 DEF IsLoop
  <2>2. <<f[i - 1], i>> \in S \X (1..N)
    BY <2>1
  <2> HIDE DEF S, look
  <2> QED BY <2>1, <2>2
<1>5. f = body(f)
  BY <1>1, <1>3, <1>4 DEF IsLoop
<1>6. after = body(after)
  <2> HIDE DEF body
  <2> QED BY <1>5
<1>7. VisitAll(st, u, nodes, neighbours, order) = after[N]
  BY DEF VisitAll
<1> HIDE DEF after
<1>8. after[0] = st /\ \A i \in 1..N : after[i] = look(after[i - 1], i)
  <2>1. after[0] = st
    BY <1>1, <1>6
  <2>2. ASSUME NEW i \in 1..N PROVE after[i] = look(after[i - 1], i)
    <3>1. i \in 0..N /\ i # 0
      BY <1>1
    <3> QED BY <1>6, <3>1
  <2> QED BY <2>1, <2>2
<1>9. \A i \in 0..N : after[i] \in S
  <2> DEFINE T == {i \in 0..N : after[i] \in S}
  <2>1. 0 \in T
    BY <1>1, <1>8
  <2>2. ASSUME NEW i \in 1..N, i - 1 \in T PROVE i \in T
    <3>1. look(after[i - 1], i) \in S
      BY <2>2, VisitType
    <3> HIDE DEF look, S
    <3> QED BY <3>1, <1>8
  <2> HIDE DEF T
  <2>3. \A i \in 0..N : i \in T
    BY <1>1, <2>1, <2>2, Induction
  <2> QED BY <2>3 DEF T
<1>10. after \in [0..N -> S]
  BY <1>6, <1>9
<1>11. IsVisitAll(after, st, u, nodes, neighbours, order)
  BY <1>7, <1>8, <1>10 DEF IsVisitAll
<1> QED BY <1>11

LEMMA VisitAllType ==
  ASSUME NEW nodes, NEW st \in SearchState(nodes), NEW u \in nodes, NEW neighbours,
         NEW order \in Seq(Switches)
  PROVE  VisitAll(st, u, nodes, neighbours, order) \in SearchState(nodes)
<1>1. Len(order) \in 0..Len(order)
  OBVIOUS
<1>2. PICK f : IsVisitAll(f, st, u, nodes, neighbours, order)
  BY VisitAllLoop
<1> QED BY <1>1, <1>2 DEF IsVisitAll

\* The fields of a state, and of one with another queue and set black.
IsState(st, tree, black, failed, queue) ==
  st = [tree |-> tree, black |-> black, failed |-> failed, queue |-> queue]

Popped(st, queue, black) == [st EXCEPT !.queue = queue, !.black = black]

LEMMA PoppedFields ==
  ASSUME NEW st, NEW a, NEW b, NEW c, NEW d, NEW x, NEW y, IsState(st, a, b, c, d)
  PROVE  IsState(Popped(st, x, y), a, y, c, x)
<1>1. [st EXCEPT !.queue = x, !.black = y] \in
        [tree : {a}, black : {y}, failed : {c}, queue : {x}]
  BY DEF IsState
<1>2. ASSUME NEW r \in [tree : {a}, black : {y}, failed : {c}, queue : {x}]
      PROVE  r = [tree |-> a, black |-> y, failed |-> c, queue |-> x]
  OBVIOUS
<1> QED BY <1>1, <1>2 DEF IsState, Popped

\* A turn that looks at the neighbours of the first switch in the queue.
TurnsOn(st, after, nodes, edges, order) ==
  \E from \in SearchState(nodes) :
    /\ from = [tree |-> st.tree, black |-> st.black \cup {Head(st.queue)},
               failed |-> FALSE, queue |-> Tail(st.queue)]
    /\ after = VisitAll(from, Head(st.queue), nodes, edges[Head(st.queue)], order)

LEMMA TurnCases ==
  ASSUME NEW nodes, NEW st \in SearchState(nodes), NEW edges, NEW order \in Seq(Switches)
  PROVE  \/ Turn(st, nodes, edges, order) = st /\ (st.failed \/ st.queue = <<>>)
         \/ /\ ~st.failed /\ st.queue # <<>>
            /\ Head(st.queue) \in nodes \ DOMAIN edges
            /\ Turn(st, nodes, edges, order) = [st EXCEPT !.failed = TRUE]
         \/ /\ ~st.failed /\ st.queue # <<>>
            /\ Head(st.queue) \in nodes \cap DOMAIN edges
            /\ TurnsOn(st, Turn(st, nodes, edges, order), nodes, edges, order)
<1> DEFINE u == Head(st.queue)
           from == [tree |-> st.tree, black |-> st.black \cup {u},
                    failed |-> FALSE, queue |-> Tail(st.queue)]
<1>1. CASE st.failed \/ st.queue = <<>>
  BY <1>1 DEF Turn
<1>2. CASE ~st.failed /\ st.queue # <<>>
  <2>1. st.queue \in Seq(nodes) /\ st.failed = FALSE
    BY <1>2 DEF SearchState
  <2>2. u \in nodes /\ Tail(st.queue) \in Seq(nodes)
    BY <1>2, <2>1
  <2>3. CASE u \notin DOMAIN edges
    BY <1>2, <2>2, <2>3 DEF Turn
  <2>4. CASE u \in DOMAIN edges
    <3>1. from \in SearchState(nodes)
      BY <2>2 DEF SearchState
    <3>2. from = [st EXCEPT !.queue = Tail(@), !.black = @ \cup {u}]
      <4>1. IsState(st, st.tree, st.black, FALSE, st.queue)
        BY <2>1 DEF SearchState, IsState
      <4> HIDE DEF u
      <4>2. IsState(Popped(st, Tail(st.queue), st.black \cup {u}),
                    st.tree, st.black \cup {u}, FALSE, Tail(st.queue))
        BY <4>1, PoppedFields
      <4>3. Popped(st, Tail(st.queue), st.black \cup {u}) = from
        BY <4>2 DEF IsState
      <4> QED BY <4>3 DEF Popped
    <3>3. Turn(st, nodes, edges, order) = VisitAll(from, u, nodes, edges[u], order)
      BY <1>2, <2>4, <3>2 DEF Turn
    <3>4. TurnsOn(st, Turn(st, nodes, edges, order), nodes, edges, order)
      BY <3>1, <3>3 DEF TurnsOn
    <3> QED BY <1>2, <2>2, <2>4, <3>4
  <2> QED BY <2>3, <2>4
<1> QED BY <1>1, <1>2

LEMMA TurnType ==
  ASSUME NEW nodes, NEW st \in SearchState(nodes), NEW edges, NEW order \in Seq(Switches)
  PROVE  Turn(st, nodes, edges, order) \in SearchState(nodes)
<1> DEFINE u == Head(st.queue)
           after == Turn(st, nodes, edges, order)
<1>1. CASE after = st
  BY <1>1
<1>2. CASE after = [st EXCEPT !.failed = TRUE]
  BY <1>2 DEF SearchState
<1>3. CASE u \in nodes /\ TurnsOn(st, after, nodes, edges, order)
  <2>1. PICK from \in SearchState(nodes) : after = VisitAll(from, u, nodes, edges[u], order)
    BY <1>3 DEF TurnsOn
  <2> HIDE DEF u, after
  <2>2. VisitAll(from, u, nodes, edges[u], order) \in SearchState(nodes)
    BY <1>3, VisitAllType
  <2>3. after \in SearchState(nodes)
    BY <2>1, <2>2
  <2> QED BY <2>3 DEF after
<1> QED BY <1>1, <1>2, <1>3, TurnCases

\* The switch that is first in an order.
LEMMA FirstOfIn ==
  ASSUME NEW S \in SUBSET Switches, S # {}, NEW order \in Orders
  PROVE  FirstOf(S, order) \in S
<1> DEFINE Where == {i \in DOMAIN order : order[i] \in S}
<1>1. order \in Seq(Switches) /\ {order[i] : i \in DOMAIN order} = Switches
  BY OrdersAssumption
<1>2. Where \subseteq Nat /\ Where # {}
  BY <1>1
<1>3. \E i \in Where : \A j \in Where : i <= j
  <2> HIDE DEF Where
  <2> QED BY <1>2, LeastNat
<1> QED BY <1>3 DEF FirstOf

\* The turns of the while loop: f[n] is the state after n turns.
IsSearch(f, nodes, edges, order) ==
  /\ f \in [0..Cardinality(nodes) -> SearchState(nodes)]
  /\ f[0] = Start(nodes, order)
  /\ \A n \in 1..Cardinality(nodes) : f[n] = Turn(f[n - 1], nodes, edges, order)
  /\ Search(nodes, edges, order) = f[Cardinality(nodes)]

LEMMA SearchLoop ==
  ASSUME NEW nodes \in SUBSET Switches, nodes # {}, NEW edges, NEW order \in Orders
  PROVE  /\ Cardinality(nodes) \in Nat
         /\ \E f : IsSearch(f, nodes, edges, order)
<1> DEFINE N == Cardinality(nodes)
           S == SearchState(nodes)
           start == Start(nodes, order)
           step == [xi \in S \X (1..N) |-> Turn(xi[1], nodes, edges, order)]
           body(g) == [n \in 0..N |-> IF n = 0 THEN start
                                      ELSE Turn(g[n - 1], nodes, edges, order)]
           after == CHOOSE g : g = body(g)
<1>1. N \in Nat
  BY OrdersAssumption, FS_Subset, FS_CardinalityType
<1>2. order \in Seq(Switches)
  BY OrdersAssumption
<1>3. start \in S
  <2>1. <<FirstOf(nodes, order)>> \in Seq(nodes)
    BY FirstOfIn
  <2> QED BY <2>1 DEF Start, SearchState
<1>4. step \in [S \X (1..N) -> S]
  <2>1. ASSUME NEW x \in S PROVE Turn(x, nodes, edges, order) \in S
    BY <1>2, TurnType
  <2> HIDE DEF S, N
  <2> QED BY <2>1
<1>5. PICK f : IsLoop(f, S, start, N, step)
  <2> HIDE DEF S, N, step, start
  <2> QED BY <1>1, <1>3, <1>4, LoopExists
<1>6. f = body(f)
  <2>1. ASSUME NEW n \in 1..N PROVE f[n] = Turn(f[n - 1], nodes, edges, order)
    <3>1. f[n - 1] \in S /\ f[n] = step[<<f[n - 1], n>>]
      <4> HIDE DEF S, N, step, start
      <4> QED BY <1>1, <1>5 DEF IsLoop
    <3>2. <<f[n - 1], n>> \in S \X (1..N)
      BY <3>1
    <3> HIDE DEF S, N
    <3> QED BY <3>1, <3>2
  <2> HIDE DEF S, N, step, start
  <2> QED BY <1>1, <1>5, <2>1 DEF IsLoop
<1>7. after = body(after)
  <2> HIDE DEF body
  <2> QED BY <1>6
<1>8. Search(nodes, edges, order) = after[N]
  BY DEF Search
<1> HIDE DEF after, start, N, S
<1>9. after[0] = start /\ \A n \in 1..N : after[n] = Turn(after[n - 1], nodes, edges, order)
  <2>1. after[0] = start
    BY <1>1, <1>7
  <2>2. ASSUME NEW n \in 1..N PROVE after[n] = Turn(after[n - 1], nodes, edges, order)
    <3>1. n \in 0..N /\ n # 0
      BY <1>1
    <3> QED BY <1>7, <3>1
  <2> QED BY <2>1, <2>2
<1>10. \A n \in 0..N : after[n] \in S
  <2> DEFINE T == {n \in 0..N : after[n] \in S}
  <2>1. 0 \in T
    BY <1>1, <1>3, <1>9
  <2>2. ASSUME NEW n \in 1..N, n - 1 \in T PROVE n \in T
    <3>1. Turn(after[n - 1], nodes, edges, order) \in S
      BY <1>2, <2>2, TurnType DEF S
    <3> QED BY <3>1, <1>9
  <2> HIDE DEF T
  <2>3. \A n \in 0..N : n \in T
    BY <1>1, <2>1, <2>2, Induction
  <2> QED BY <2>3 DEF T
<1>11. after \in [0..N -> S]
  BY <1>7, <1>10
<1>12. IsSearch(after, nodes, edges, order)
  BY <1>8, <1>9, <1>11 DEF IsSearch, N, S, start
<1> QED BY <1>1, <1>12 DEF N

----------------------------------------------------------------------------
(* What the search builds is a forest along known links. *)

Known(edges, s, t) == \/ s \in DOMAIN edges /\ t \in edges[s]
                      \/ t \in DOMAIN edges /\ s \in edges[t]

\* Links join switches that have been reached, and there is no cycle.
IsForest(st, edges) ==
  /\ \A s \in DOMAIN st.tree : \A t \in st.tree[s] :
       /\ s # t /\ s \in st.black /\ t \in st.black
       /\ s \in st.tree[t] /\ Known(edges, s, t)
  /\ Acyclic(st.tree)

LEMMA FewOrNone ==
  ASSUME NEW S, NEW u, S \subseteq {u}
  PROVE  Cardinality(S) <= 1
<1>1. CASE S = {}
  BY <1>1, FS_EmptySet
<1>2. CASE S = {u}
  <2>1. Cardinality({u}) = 1
    BY FS_Singleton
  <2> QED BY <1>2, <2>1
<1> QED BY <1>1, <1>2

\* A switch with no links can be linked without closing a cycle.
LEMMA LinkLeaf ==
  ASSUME NEW nodes, NEW tree \in [nodes -> SUBSET nodes], NEW u \in nodes, NEW v \in nodes,
         u # v, tree[v] = {}, Acyclic(tree)
  PROVE  Acyclic(Linked(tree, u, v))
<1> DEFINE new == Linked(tree, u, v)
<1>1. /\ DOMAIN new = nodes /\ new[v] = {u} /\ new[u] = tree[u] \cup {v}
      /\ \A s \in nodes \ {u, v} : new[s] = tree[s]
  BY DEF Linked
<1> HIDE DEF new
<1>2. ASSUME NEW S \in (SUBSET nodes) \ {{}}
      PROVE  \E s \in S : Cardinality(new[s] \cap S) <= 1
  <2>1. CASE v \in S
    <3>1. Cardinality(new[v] \cap S) <= 1
      BY <1>1, FewOrNone
    <3> QED BY <2>1, <3>1
  <2>2. CASE v \notin S
    <3>1. PICK s \in S : Cardinality(tree[s] \cap S) <= 1
      BY DEF Acyclic
    <3>2. new[s] \cap S = tree[s] \cap S
      BY <1>1, <2>2
    <3> QED BY <3>1, <3>2
  <2> QED BY <2>1, <2>2
<1> QED BY <1>1, <1>2 DEF Acyclic, new

LEMMA VisitForest ==
  ASSUME NEW nodes, NEW st \in SearchState(nodes), NEW u \in nodes, NEW v, NEW edges,
         u \in st.black, Known(edges, u, v), IsForest(st, edges)
  PROVE  LET next == Visit(st, u, v, nodes)
         IN  st.black \subseteq next.black /\ IsForest(next, edges)
<1> DEFINE next == Visit(st, u, v, nodes)
<1>1. CASE st.failed \/ v \in st.black
  BY <1>1, VisitCases
<1>2. CASE ~st.failed /\ v \notin nodes
  <2>1. next = [st EXCEPT !.failed = TRUE]
    BY <1>2, VisitCases
  <2>2. next.tree = st.tree /\ next.black = st.black
    BY <2>1 DEF SearchState
  <2> HIDE DEF next
  <2>3. IsForest(next, edges) /\ st.black \subseteq next.black
    BY <2>2 DEF IsForest
  <2> QED BY <2>3 DEF next
<1>3. CASE ~st.failed /\ v \in nodes \ st.black
  <2>1. next = [tree   |-> Linked(st.tree, u, v), black  |-> st.black \cup {v},
                failed |-> FALSE, queue  |-> Append(st.queue, v)]
    BY <1>3, VisitCases
  <2>2. next.tree = Linked(st.tree, u, v) /\ next.black = st.black \cup {v}
    BY <2>1
  <2> HIDE DEF next
  <2>3. st.tree \in [nodes -> SUBSET nodes] /\ u # v
    BY <1>3 DEF SearchState
  <2>4. st.tree[v] = {}
    BY <1>3, <2>3 DEF IsForest
  <2>5. Acyclic(next.tree)
    BY <1>3, <2>2, <2>3, <2>4, LinkLeaf DEF IsForest
  <2>6. /\ next.tree \in [nodes -> SUBSET nodes]
        /\ next.tree[v] = {u} /\ next.tree[u] = st.tree[u] \cup {v}
        /\ \A s \in nodes \ {u, v} : next.tree[s] = st.tree[s]
    BY <1>3, <2>2, <2>3, <2>4 DEF Linked
  <2>7. ASSUME NEW s \in nodes, NEW t \in next.tree[s]
        PROVE  /\ s # t /\ s \in next.black /\ t \in next.black
               /\ s \in next.tree[t] /\ Known(edges, s, t)
    <3>1. CASE s = v
      <4>1. t = u
        BY <2>6, <3>1
      <4> QED BY <1>3, <2>2, <2>6, <3>1, <4>1 DEF Known
    <3>2. CASE s # v /\ t = v
      <4>1. s = u
        BY <2>3, <2>6, <3>2, <1>3 DEF IsForest
      <4> QED BY <2>2, <2>6, <3>2, <4>1
    <3>3. CASE s # v /\ t # v
      <4>1. t \in st.tree[s]
        BY <2>6, <3>3
      <4>2. s # t /\ s \in st.black /\ t \in st.black /\ s \in st.tree[t] /\ Known(edges, s, t)
        BY <2>3, <4>1 DEF IsForest
      <4>3. t \in nodes /\ s \in next.tree[t]
        BY <2>3, <2>6, <3>3, <4>1, <4>2
      <4> QED BY <2>2, <4>2, <4>3
    <3> QED BY <3>1, <3>2, <3>3
  <2>8. IsForest(next, edges) /\ st.black \subseteq next.black
    BY <2>2, <2>5, <2>6, <2>7 DEF IsForest
  <2> QED BY <2>8 DEF next
<1> QED BY <1>1, <1>2, <1>3

LEMMA VisitAllForest ==
  ASSUME NEW nodes, NEW st \in SearchState(nodes), NEW u \in nodes, NEW edges,
         NEW order \in Seq(Switches),
         u \in st.black, u \in DOMAIN edges, IsForest(st, edges)
  PROVE  IsForest(VisitAll(st, u, nodes, edges[u], order), edges)
<1> DEFINE N == Len(order)
<1>1. N \in Nat
  OBVIOUS
<1>2. PICK f : IsVisitAll(f, st, u, nodes, edges[u], order)
  BY VisitAllLoop
<1>3. /\ f \in [0..N -> SearchState(nodes)] /\ f[0] = st
      /\ \A i \in 1..N : f[i] = IF order[i] \in edges[u]
                                THEN Visit(f[i - 1], u, order[i], nodes) ELSE f[i - 1]
      /\ VisitAll(st, u, nodes, edges[u], order) = f[N]
  BY <1>2 DEF IsVisitAll
<1> DEFINE T == {i \in 0..N : u \in f[i].black /\ IsForest(f[i], edges)}
<1>4. 0 \in T
  BY <1>1, <1>3
<1>5. ASSUME NEW i \in 1..N, i - 1 \in T PROVE i \in T
  <2>1. f[i - 1] \in SearchState(nodes) /\ i \in 0..N
    BY <1>1, <1>3
  <2>2. u \in f[i - 1].black /\ IsForest(f[i - 1], edges)
    BY <1>5
  <2>3. u \in f[i].black /\ IsForest(f[i], edges)
    <3>1. CASE order[i] \in edges[u]
      <4>1. Known(edges, u, order[i])
        BY <3>1 DEF Known
      <4>2. f[i] = Visit(f[i - 1], u, order[i], nodes)
        BY <1>3, <3>1
      <4>3. f[i - 1].black \subseteq f[i].black /\ IsForest(f[i], edges)
        BY <2>1, <2>2, <4>1, <4>2, VisitForest
      <4> QED BY <2>2, <4>3
    <3>2. CASE order[i] \notin edges[u]
      BY <1>3, <2>2, <3>2
    <3> QED BY <3>1, <3>2
  <2> QED BY <2>1, <2>3
<1>6. N \in T
  <2> HIDE DEF T, N
  <2>1. \A i \in 0..N : i \in T
    BY <1>1, <1>4, <1>5, Induction
  <2> QED BY <1>1, <2>1
<1> QED BY <1>3, <1>6

LEMMA TurnForest ==
  ASSUME NEW nodes, NEW st \in SearchState(nodes), NEW edges, NEW order \in Seq(Switches),
         IsForest(st, edges)
  PROVE  IsForest(Turn(st, nodes, edges, order), edges)
<1> DEFINE u == Head(st.queue)
           after == Turn(st, nodes, edges, order)
<1>1. CASE after = st
  BY <1>1
<1>2. CASE after = [st EXCEPT !.failed = TRUE]
  <2>1. after.tree = st.tree /\ after.black = st.black
    BY <1>2 DEF SearchState
  <2> HIDE DEF after
  <2>2. IsForest(after, edges)
    BY <2>1 DEF IsForest
  <2> QED BY <2>2 DEF after
<1>3. CASE u \in nodes \cap DOMAIN edges /\ TurnsOn(st, after, nodes, edges, order)
  <2>1. PICK from \in SearchState(nodes) :
             /\ from = [tree |-> st.tree, black |-> st.black \cup {u},
                        failed |-> FALSE, queue |-> Tail(st.queue)]
             /\ after = VisitAll(from, u, nodes, edges[u], order)
    BY <1>3 DEF TurnsOn
  <2> HIDE DEF u, after
  <2>2. from.tree = st.tree /\ from.black = st.black \cup {u}
    BY <2>1
  <2>3. IsForest(from, edges)
    BY <2>2 DEF IsForest
  <2>4. IsForest(after, edges)
    BY <1>3, <2>1, <2>2, <2>3, VisitAllForest
  <2> QED BY <2>4 DEF after
<1> QED BY <1>1, <1>2, <1>3, TurnCases

LEMMA StartForest ==
  ASSUME NEW nodes, NEW edges, NEW order
  PROVE  IsForest(Start(nodes, order), edges)
<1> DEFINE none == [s \in nodes |-> {}]
<1>1. ASSUME NEW S \in (SUBSET nodes) \ {{}} PROVE \E u \in S : Cardinality(none[u] \cap S) <= 1
  <2>1. PICK u \in S : TRUE
    OBVIOUS
  <2>2. none[u] \cap S \subseteq {u}
    OBVIOUS
  <2> HIDE DEF none
  <2>3. Cardinality(none[u] \cap S) <= 1
    BY <2>2, FewOrNone
  <2> QED BY <2>3
<1>2. Acyclic(none)
  BY <1>1 DEF Acyclic
<1> QED BY <1>2 DEF Start, IsForest

\* For every graph and in whatever order Python goes through it, the tree of
\* prim_spanningTree is symmetric, without a cycle, and along known links.
THEOREM SearchBuildsForest ==
  ASSUME NEW nodes \in SUBSET Switches, nodes # {}, NEW edges, NEW order \in Orders
  PROVE  LET tree == prim_spanningTree(nodes, edges, order)
         IN  /\ tree \in [nodes -> SUBSET nodes]
             /\ Symmetric(tree) /\ Acyclic(tree)
             /\ \A s \in nodes : \A t \in tree[s] : s # t /\ Known(edges, s, t)
<1> DEFINE N == Cardinality(nodes)
<1>1. N \in Nat
  BY SearchLoop
<1>2. PICK f : /\ f \in [0..N -> SearchState(nodes)]
               /\ f[0] = Start(nodes, order)
               /\ \A n \in 1..N : f[n] = Turn(f[n - 1], nodes, edges, order)
               /\ Search(nodes, edges, order) = f[N]
  <2>1. PICK f : IsSearch(f, nodes, edges, order)
    BY SearchLoop
  <2> QED BY <2>1 DEF IsSearch
<1> DEFINE T == {n \in 0..N : IsForest(f[n], edges)}
<1>3. 0 \in T
  BY <1>1, <1>2, StartForest
<1>4. ASSUME NEW n \in 1..N, n - 1 \in T PROVE n \in T
  <2>1. f[n - 1] \in SearchState(nodes) /\ n \in 0..N /\ order \in Seq(Switches)
    <3>1. n - 1 \in 0..N /\ n \in 0..N
      BY <1>1
    <3>2. order \in Seq(Switches)
      BY OrdersAssumption
    <3> QED BY <1>2, <3>1, <3>2
  <2>2. IsForest(f[n - 1], edges)
    BY <1>4
  <2>3. IsForest(f[n], edges)
    BY <1>2, <2>1, <2>2, TurnForest
  <2> QED BY <2>1, <2>3
<1>5. N \in T
  <2> HIDE DEF T, N
  <2>1. \A n \in 0..N : n \in T
    BY <1>1, <1>3, <1>4, Induction
  <2> QED BY <1>1, <2>1
<1>6. f[N] \in SearchState(nodes) /\ IsForest(f[N], edges)
  BY <1>1, <1>2, <1>5
<1>7. prim_spanningTree(nodes, edges, order) = f[N].tree
  BY <1>2 DEF prim_spanningTree
<1>8. f[N].tree \in [nodes -> SUBSET nodes]
  BY <1>6 DEF SearchState
<1>9. Symmetric(f[N].tree)
  BY <1>6, <1>8 DEF IsForest, Symmetric
<1> QED BY <1>6, <1>7, <1>8, <1>9 DEF IsForest

----------------------------------------------------------------------------
(* When every link names a known switch, the search reaches all that the   *)
(* links connect to the switch where it starts.                            *)

\* Links lead out of every part of B that holds root.
Connected(tree, B, root) ==
  \A S \in (SUBSET B) \ {B} : root \in S => \E s \in S : tree[s] \cap (B \ S) # {}

InQueue(s, queue) == \E i \in DOMAIN queue : queue[i] = s

\* The search while the neighbours of u are looked at, m switches having left
\* the queue before.
Growing(st, edges, root, u, m) ==
  /\ st.failed = FALSE /\ root \in st.black /\ u \in st.black
  /\ \A i \in DOMAIN st.queue : st.queue[i] \in st.black
  /\ Cardinality(st.black) = m + Len(st.queue)
  /\ \A s \in st.black \ {u} : InQueue(s, st.queue) \/ edges[s] \subseteq st.black
  /\ Connected(st.tree, st.black, root)

LEMMA LinkConnected ==
  ASSUME NEW nodes, NEW tree \in [nodes -> SUBSET nodes], NEW B \in SUBSET nodes,
         NEW root \in B, NEW u \in B, NEW v \in nodes \ B, Connected(tree, B, root)
  PROVE  Connected(Linked(tree, u, v), B \cup {v}, root)
<1> DEFINE new == Linked(tree, u, v)
           C == B \cup {v}
<1>1. v \in new[u] /\ \A s \in nodes : tree[s] \subseteq new[s]
  BY DEF Linked
<1> HIDE DEF new
<1>2. ASSUME NEW S \in (SUBSET C) \ {C}, root \in S
      PROVE  \E s \in S : new[s] \cap (C \ S) # {}
  <2>1. CASE B \subseteq S
    <3>1. v \notin S /\ u \in S
      BY <2>1
    <3> QED BY <1>1, <3>1
  <2>2. CASE ~(B \subseteq S)
    <3>1. S \cap B \in (SUBSET B) \ {B} /\ root \in S \cap B
      BY <1>2, <2>2
    <3>2. PICK s \in S \cap B : tree[s] \cap (B \ (S \cap B)) # {}
      BY <3>1 DEF Connected
    <3>3. PICK t \in tree[s] : t \in B \ S
      BY <3>2
    <3>4. s \in S /\ t \in new[s] /\ t \in C \ S
      BY <1>1, <3>3
    <3> QED BY <3>4
  <2> QED BY <2>1, <2>2
<1> QED BY <1>2 DEF Connected, new

LEMMA VisitGrows ==
  ASSUME NEW nodes, IsFiniteSet(nodes), NEW st \in SearchState(nodes), NEW edges, NEW root,
         NEW u \in nodes, NEW v \in nodes, NEW m \in Nat, Growing(st, edges, root, u, m)
  PROVE  LET next == Visit(st, u, v, nodes)
         IN  Growing(next, edges, root, u, m) /\ st.black \subseteq next.black /\ v \in next.black
<1> DEFINE next == Visit(st, u, v, nodes)
<1>1. CASE v \in st.black
  BY <1>1, VisitCases
<1>2. CASE v \notin st.black
  <2>1. /\ st.tree \in [nodes -> SUBSET nodes] /\ st.black \in SUBSET nodes
        /\ st.queue \in Seq(nodes) /\ st.failed = FALSE
    BY DEF SearchState, Growing
  <2>2. next = [tree   |-> Linked(st.tree, u, v), black  |-> st.black \cup {v},
                failed |-> FALSE, queue  |-> Append(st.queue, v)]
    BY <1>2, <2>1, VisitCases
  <2>3. /\ next.tree = Linked(st.tree, u, v) /\ next.black = st.black \cup {v}
        /\ next.failed = FALSE /\ next.queue = Append(st.queue, v)
    BY <2>2
  <2> HIDE DEF next
  <2>4. root \in st.black /\ u \in st.black /\ Connected(st.tree, st.black, root)
    BY DEF Growing
  <2>5. Connected(next.tree, next.black, root)
    BY <1>2, <2>1, <2>3, <2>4, LinkConnected
  <2>6. Cardinality(next.black) = m + Len(next.queue)
    <3>1. IsFiniteSet(st.black)
      BY <2>1, FS_Subset
    <3>2. Cardinality(next.black) = Cardinality(st.black) + 1
      BY <1>2, <2>3, <3>1, FS_AddElement
    <3>3. Len(next.queue) = Len(st.queue) + 1 /\ Len(st.queue) \in Nat
      BY <2>1, <2>3
    <3>4. Cardinality(st.black) = m + Len(st.queue)
      BY DEF Growing
    <3> QED BY <3>2, <3>3, <3>4
  <2>7. \A i \in DOMAIN next.queue : next.queue[i] \in next.black
    BY <2>1, <2>3 DEF Growing
  <2>8. ASSUME NEW s \in next.black \ {u}
        PROVE  InQueue(s, next.queue) \/ edges[s] \subseteq next.black
    <3>1. CASE s = v
      <4>1. Len(st.queue) + 1 \in DOMAIN next.queue /\ next.queue[Len(st.queue) + 1] = v
        BY <2>1, <2>3
      <4> QED BY <3>1, <4>1 DEF InQueue
    <3>2. CASE s # v
      <4>1. InQueue(s, st.queue) \/ edges[s] \subseteq st.black
        BY <2>3, <3>2 DEF Growing
      <4>2. ASSUME NEW i \in DOMAIN st.queue PROVE i \in DOMAIN next.queue /\ next.queue[i] = st.queue[i]
        BY <2>1, <2>3
      <4> QED BY <2>3, <4>1, <4>2 DEF InQueue
    <3> QED BY <3>1, <3>2
  <2>9. Growing(next, edges, root, u, m)
    BY <2>3, <2>4, <2>5, <2>6, <2>7, <2>8 DEF Growing
  <2> QED BY <2>3, <2>9 DEF next
<1> QED BY <1>1, <1>2

LEMMA VisitAllGrows ==
  ASSUME NEW nodes \in SUBSET Switches, IsFiniteSet(nodes), NEW st \in SearchState(nodes),
         NEW u \in nodes, NEW edges, edges[u] \subseteq nodes, NEW order \in Orders,
         NEW root, NEW m \in Nat, Growing(st, edges, root, u, m)
  PROVE  LET next == VisitAll(st, u, nodes, edges[u], order)
         IN  Growing(next, edges, root, u, m) /\ edges[u] \subseteq next.black
<1> DEFINE N == Len(order)
<1>1. /\ N \in Nat /\ order \in Seq(Switches) /\ DOMAIN order = 1..N
      /\ \A s \in Switches : \E i \in 1..N : order[i] = s
  <2>1. order \in Seq(Switches) /\ {order[i] : i \in DOMAIN order} = Switches
    BY OrdersAssumption
  <2> QED BY <2>1
<1>2. PICK f : IsVisitAll(f, st, u, nodes, edges[u], order)
  BY <1>1, VisitAllLoop
<1>3. /\ f \in [0..N -> SearchState(nodes)] /\ f[0] = st
      /\ \A i \in 1..N : f[i] = IF order[i] \in edges[u]
                                THEN Visit(f[i - 1], u, order[i], nodes) ELSE f[i - 1]
      /\ VisitAll(st, u, nodes, edges[u], order) = f[N]
  BY <1>2 DEF IsVisitAll
<1> DEFINE Good(i) == /\ Growing(f[i], edges, root, u, m)
                      /\ \A j \in 1..i : order[j] \in edges[u] => order[j] \in f[i].black
           T == {i \in 0..N : Good(i)}
<1>4. 0 \in T
  BY <1>1, <1>3
<1>5. ASSUME NEW i \in 1..N, i - 1 \in T PROVE i \in T
  <2>1. f[i - 1] \in SearchState(nodes) /\ i \in 0..N
    <3>1. i - 1 \in 0..N /\ i \in 0..N
      BY <1>1
    <3> QED BY <1>3, <3>1
  <2>2. Good(i - 1)
    BY <1>5
  <2>3. CASE order[i] \in edges[u]
    <3>1. f[i] = Visit(f[i - 1], u, order[i], nodes)
      BY <1>3, <2>3
    <3>2. /\ Growing(f[i], edges, root, u, m)
          /\ f[i - 1].black \subseteq f[i].black /\ order[i] \in f[i].black
      BY <2>1, <2>2, <2>3, <3>1, VisitGrows
    <3>3. ASSUME NEW j \in 1..i, order[j] \in edges[u] PROVE order[j] \in f[i].black
      <4>1. j = i \/ j \in 1..(i - 1)
        OBVIOUS
      <4> QED BY <2>2, <3>2, <3>3, <4>1
    <3> QED BY <2>1, <3>2, <3>3
  <2>4. CASE order[i] \notin edges[u]
    <3>1. f[i] = f[i - 1]
      BY <1>3, <2>4
    <3>2. ASSUME NEW j \in 1..i, order[j] \in edges[u] PROVE order[j] \in f[i].black
      <4>1. j \in 1..(i - 1)
        BY <2>4, <3>2
      <4> QED BY <2>2, <3>1, <3>2, <4>1
    <3> QED BY <2>1, <2>2, <3>1, <3>2
  <2> QED BY <2>3, <2>4
<1>6. N \in T
  <2> HIDE DEF T, N
  <2>1. \A i \in 0..N : i \in T
    BY <1>1, <1>4, <1>5, Induction
  <2> QED BY <1>1, <2>1
<1>7. edges[u] \subseteq f[N].black
  BY <1>1, <1>6
<1> QED BY <1>3, <1>6, <1>7

\* The search after n turns.
Spanning(st, edges, root, n) ==
  LET B == st.black \cup {root}
  IN  /\ st.failed = FALSE
      /\ root \in st.black \/ st.queue = <<root>>
      /\ \A i \in DOMAIN st.queue : st.queue[i] \in B
      /\ st.queue = <<>> \/ Cardinality(B) = n + Len(st.queue)
      /\ \A s \in B : InQueue(s, st.queue) \/ edges[s] \subseteq B
      /\ Connected(st.tree, B, root)

LEMMA StartSpanning ==
  ASSUME NEW nodes \in SUBSET Switches, nodes # {}, NEW edges, NEW order \in Orders
  PROVE  Spanning(Start(nodes, order), edges, FirstOf(nodes, order), 0)
<1> DEFINE root == FirstOf(nodes, order)
           st == Start(nodes, order)
<1>1. st.failed = FALSE /\ st.queue = <<root>> /\ st.black = {}
  BY DEF Start
<1> HIDE DEF st, root
<1>2. Len(st.queue) = 1 /\ DOMAIN st.queue = {1} /\ st.queue[1] = root
  BY <1>1
<1>3. Cardinality(st.black \cup {root}) = 0 + Len(st.queue)
  <2>1. st.black \cup {root} = {root} /\ Cardinality({root}) = 1
    BY <1>1, FS_Singleton
  <2> QED BY <1>2, <2>1
<1>4. Connected(st.tree, st.black \cup {root}, root)
  BY <1>1 DEF Connected
<1>5. Spanning(st, edges, root, 0)
  BY <1>1, <1>2, <1>3, <1>4 DEF Spanning, InQueue
<1> QED BY <1>5 DEF st, root

LEMMA TurnSpanning ==
  ASSUME NEW nodes \in SUBSET Switches, IsFiniteSet(nodes), NEW st \in SearchState(nodes),
         NEW edges, DOMAIN edges = nodes, \A s \in nodes : edges[s] \subseteq nodes,
         NEW order \in Orders, NEW root \in nodes, NEW n \in Nat,
         Spanning(st, edges, root, n)
  PROVE  Spanning(Turn(st, nodes, edges, order), edges, root, n + 1)
<1> DEFINE u == Head(st.queue)
           B == st.black \cup {root}
           after == Turn(st, nodes, edges, order)
<1>0. st.queue \in Seq(nodes) /\ st.failed = FALSE /\ order \in Seq(Switches)
  BY OrdersAssumption DEF SearchState, Spanning
<1>1. CASE st.queue = <<>>
  <2>1. after = st
    BY <1>1 DEF Turn
  <2>2. Spanning(st, edges, root, n + 1)
    BY <1>1 DEF Spanning
  <2> QED BY <2>1, <2>2
<1>2. CASE st.queue # <<>>
  <2>1. /\ u \in nodes /\ u = st.queue[1] /\ 1 \in DOMAIN st.queue
        /\ Len(Tail(st.queue)) = Len(st.queue) - 1 /\ Len(st.queue) \in Nat \ {0}
        /\ \A i \in DOMAIN Tail(st.queue) : /\ Tail(st.queue)[i] = st.queue[i + 1]
                                             /\ i + 1 \in DOMAIN st.queue
        /\ \A i \in DOMAIN st.queue \ {1} : /\ i - 1 \in DOMAIN Tail(st.queue)
                                             /\ Tail(st.queue)[i - 1] = st.queue[i]
    BY <1>0, <1>2
  <2>2. PICK from \in SearchState(nodes) :
          /\ from = [tree |-> st.tree, black |-> st.black \cup {u},
                     failed |-> FALSE, queue |-> Tail(st.queue)]
          /\ after = VisitAll(from, u, nodes, edges[u], order)
    <3>1. TurnsOn(st, after, nodes, edges, order)
      <4>1. ~st.failed /\ u \notin nodes \ DOMAIN edges
        BY <1>0
      <4>2. \/ after = st /\ (st.failed \/ st.queue = <<>>)
            \/ u \in nodes \ DOMAIN edges
            \/ TurnsOn(st, after, nodes, edges, order)
        BY <1>0, TurnCases
      <4> HIDE DEF u, after
      <4> QED BY <1>2, <4>1, <4>2
    <3> QED BY <3>1 DEF TurnsOn
  <2>3. /\ from.tree = st.tree /\ from.black = st.black \cup {u}
        /\ from.failed = FALSE /\ from.queue = Tail(st.queue)
    BY <2>2
  <2> HIDE DEF u, after
  <2>4. from.black = B /\ u \in B /\ root \in B
    <3>1. u \in B
      BY <2>1 DEF Spanning
    <3>2. CASE root \in st.black
      BY <2>3, <3>1, <3>2
    <3>3. CASE st.queue = <<root>>
      <4>1. u = root
        BY <2>1, <3>3
      <4> QED BY <2>3, <4>1
    <3> QED BY <3>1, <3>2, <3>3 DEF Spanning
  <2> HIDE DEF B
  <2>5. Cardinality(from.black) = (n + 1) + Len(from.queue)
    <3>1. Cardinality(B) = n + Len(st.queue)
      BY <1>2 DEF Spanning, B
    <3>2. Len(from.queue) = Len(st.queue) - 1 /\ Cardinality(from.black) = n + Len(st.queue)
      BY <2>1, <2>3, <2>4, <3>1
    <3>3. ASSUME NEW c, NEW l \in Nat, NEW k, c = n + l, k = l - 1 PROVE c = (n + 1) + k
      BY <3>3
    <3>4. Len(st.queue) \in Nat
      BY <2>1
    <3> QED BY <3>2, <3>3, <3>4
  <2>6. \A i \in DOMAIN from.queue : from.queue[i] \in from.black
    BY <2>1, <2>3, <2>4 DEF Spanning, B
  <2>7. ASSUME NEW s \in from.black \ {u}
        PROVE  InQueue(s, from.queue) \/ edges[s] \subseteq from.black
    <3>1. InQueue(s, st.queue) \/ edges[s] \subseteq B
      BY <2>4 DEF Spanning, B
    <3>2. CASE InQueue(s, st.queue)
      <4>1. PICK i \in DOMAIN st.queue : st.queue[i] = s
        BY <3>2 DEF InQueue
      <4>2. i # 1
        BY <2>1, <2>7, <4>1
      <4> QED BY <2>1, <2>3, <4>1, <4>2 DEF InQueue
    <3> QED BY <2>4, <3>1, <3>2
  <2>8. Connected(from.tree, from.black, root)
    BY <2>3, <2>4 DEF Spanning, B
  <2>9. Growing(from, edges, root, u, n + 1)
    BY <2>3, <2>4, <2>5, <2>6, <2>7, <2>8 DEF Growing
  <2>10. /\ Growing(after, edges, root, u, n + 1)
         /\ edges[u] \subseteq after.black
    <3>1. n + 1 \in Nat /\ edges[u] \subseteq nodes
      BY <2>1
    <3>2. after = VisitAll(from, u, nodes, edges[u], order)
      BY <2>2
    <3> QED BY <2>1, <2>9, <3>1, <3>2, VisitAllGrows
  <2>11. after.black \cup {root} = after.black
    BY <2>10 DEF Growing
  <2>12. \A s \in after.black : InQueue(s, after.queue) \/ edges[s] \subseteq after.black
    BY <2>10 DEF Growing
  <2>13. Spanning(after, edges, root, n + 1)
    BY <2>10, <2>11, <2>12 DEF Spanning, Growing
  <2> QED BY <2>13 DEF after
<1> QED BY <1>1, <1>2

\* For every graph whose links all name known switches, the tree spans what the
\* links connect to the switch at which prim_spanningTree starts.
THEOREM SearchSpans ==
  ASSUME NEW nodes \in SUBSET Switches, nodes # {}, NEW edges, DOMAIN edges = nodes,
         \A s \in nodes : edges[s] \subseteq nodes, NEW order \in Orders
  PROVE  \E root \in nodes : Spans(prim_spanningTree(nodes, edges, order), edges, root)
<1> DEFINE N == Cardinality(nodes)
           root == FirstOf(nodes, order)
<1>1. N \in Nat /\ IsFiniteSet(nodes) /\ root \in nodes
  BY SearchLoop, FirstOfIn, OrdersAssumption, FS_Subset
<1>2. PICK f : /\ f \in [0..N -> SearchState(nodes)]
               /\ f[0] = Start(nodes, order)
               /\ \A n \in 1..N : f[n] = Turn(f[n - 1], nodes, edges, order)
               /\ Search(nodes, edges, order) = f[N]
  <2>1. PICK f : IsSearch(f, nodes, edges, order)
    BY SearchLoop
  <2> QED BY <2>1 DEF IsSearch
<1> DEFINE T == {n \in 0..N : Spanning(f[n], edges, root, n)}
<1>3. 0 \in T
  BY <1>1, <1>2, StartSpanning
<1>4. ASSUME NEW n \in 1..N, n - 1 \in T PROVE n \in T
  <2>1. n - 1 \in 0..N /\ n \in 0..N /\ n - 1 \in Nat /\ (n - 1) + 1 = n
    BY <1>1
  <2>2. f[n - 1] \in SearchState(nodes) /\ f[n] = Turn(f[n - 1], nodes, edges, order)
    BY <1>2, <2>1
  <2>3. Spanning(f[n - 1], edges, root, n - 1)
    BY <1>4
  <2> HIDE DEF root
  <2>4. Spanning(f[n], edges, root, (n - 1) + 1)
    BY <1>1, <2>1, <2>2, <2>3, TurnSpanning
  <2> QED BY <2>1, <2>4 DEF root
<1>5. N \in T
  <2> HIDE DEF T, N
  <2>1. \A n \in 0..N : n \in T
    BY <1>1, <1>3, <1>4, Induction
  <2> QED BY <1>1, <2>1
<1> DEFINE st == f[N]
           B == st.black \cup {root}
<1>6. st \in SearchState(nodes) /\ Spanning(st, edges, root, N)
  BY <1>1, <1>2, <1>5
<1> HIDE DEF root
<1>7. st.queue \in Seq(nodes) /\ B \subseteq nodes /\ root \in B
  BY <1>1, <1>6 DEF SearchState
<1>8. st.queue = <<>>
  <2>1. Cardinality(B) <= N
    BY <1>1, <1>7, FS_Subset
  <2>2. st.queue = <<>> \/ Cardinality(B) = N + Len(st.queue)
    BY <1>6 DEF Spanning
  <2>3. st.queue # <<>> => Len(st.queue) \in Nat \ {0}
    BY <1>7
  <2> HIDE DEF st, N, B
  <2> QED BY <1>1, <2>1, <2>2, <2>3
<1>9. \A s \in B : edges[s] \subseteq B
  <2>1. \A s \in B : InQueue(s, st.queue) \/ edges[s] \subseteq B
    BY <1>6 DEF Spanning
  <2>2. \A s \in B : ~InQueue(s, st.queue)
    BY <1>8 DEF InQueue
  <2> QED BY <2>1, <2>2
<1>10. Connected(st.tree, B, root)
  BY <1>6 DEF Spanning
<1>11. prim_spanningTree(nodes, edges, order) = st.tree
  BY <1>2 DEF prim_spanningTree
<1> HIDE DEF st, B
<1>12. Spans(st.tree, edges, root)
  BY <1>7, <1>9, <1>10 DEF Spans, Connected
<1> QED BY <1>1, <1>11, <1>12

----------------------------------------------------------------------------
(* A link of a graph without cycles is the only way between its two sides. *)

\* The only link that leads out of B is that from s to t.
Cuts(B, G, s, t) ==
  s \in B /\ t \notin B /\ \A x \in B : \A y \in G[x] \ B : x = s /\ y = t

\* A set of subsets of a finite set has a minimal one.
LEMMA MinimalSet ==
  ASSUME NEW S, IsFiniteSet(S), NEW F \in SUBSET (SUBSET S), F # {}
  PROVE  \E X \in F : \A Y \in F : Y \subseteq X => Y = X
<1> DEFINE R == StrictSubsetOrdering(S)
<1>1. F \subseteq FiniteSubsetsOf(S)
  BY FS_Subset DEF FiniteSubsetsOf
<1>2. PICK X \in F : \A Y \in F : ~ (<<Y, X>> \in R)
  <2>1. IsWellFoundedOn(R, FiniteSubsetsOf(S))
    BY FS_StrictSubsetOrderingWellFounded
  <2> HIDE DEF R
  <2> QED BY <1>1, <2>1, WFMin
<1>3. ASSUME NEW Y \in F, Y \subseteq X PROVE Y = X
  <2>1. ~(<<Y, X>> \in R) /\ X \subseteq S /\ Y \subseteq S
    BY <1>2
  <2> QED BY <1>3, <2>1 DEF StrictSubsetOrdering
<1> QED BY <1>3

LEMMA AtLeastTwo ==
  ASSUME NEW S, IsFiniteSet(S), NEW a \in S, NEW b \in S, a # b
  PROVE  ~(Cardinality(S) <= 1)
<1>1. {a} \in SUBSET S /\ {a} # S
  OBVIOUS
<1>2. Cardinality({a}) = 1
  BY FS_Singleton
<1>3. Cardinality({a}) <= Cardinality(S) /\ Cardinality({a}) # Cardinality(S)
  BY <1>1, FS_Subset
<1>4. Cardinality(S) \in Nat
  BY FS_CardinalityType
<1> QED BY <1>2, <1>3, <1>4

\* Within X there is a way from s to t other than their link: every cut
\* between them has another link across.
Around(X, G, s, t) ==
  /\ s \in X /\ t \in X
  /\ \A B \in SUBSET X : s \in B /\ t \notin B =>
       \E x \in B : \E y \in G[x] \cap (X \ B) : ~(x = s /\ y = t)

\* The links of a least such set would all be on a cycle.
LEMMA Bridge ==
  ASSUME NEW nodes, IsFiniteSet(nodes), NEW G \in [nodes -> SUBSET nodes],
         Symmetric(G), Acyclic(G), NEW s \in nodes, NEW t \in G[s], s # t
  PROVE  \E B \in SUBSET nodes : Cuts(B, G, s, t)
<1> SUFFICES ASSUME \A B \in SUBSET nodes : ~Cuts(B, G, s, t) PROVE FALSE
  OBVIOUS
<1> DEFINE F == {X \in SUBSET nodes : Around(X, G, s, t)}
<1>1. nodes \in F
  BY DEF Cuts, Around
<1>2. PICK X \in F : \A Y \in F : Y \subseteq X => Y = X
  <2>1. F \in SUBSET (SUBSET nodes) /\ F # {}
    BY <1>1
  <2> HIDE DEF F
  <2> QED BY <2>1, MinimalSet
<1>3. X \subseteq nodes /\ s \in X /\ t \in X /\ Around(X, G, s, t)
  BY DEF Around
<1>4. PICK u \in X : Cardinality(G[u] \cap X) <= 1
  BY <1>3 DEF Acyclic
<1>5. ASSUME NEW a \in G[u] \cap X, NEW b \in G[u] \cap X, a # b PROVE FALSE
  <2>1. IsFiniteSet(G[u] \cap X)
    BY <1>3, FS_Subset
  <2> QED BY <1>4, <1>5, <2>1, AtLeastTwo
<1>6. \A x \in nodes : \A y \in G[x] : y \in nodes /\ x \in G[y]
  BY DEF Symmetric
<1>7. CASE u = s
  <2>1. PICK x \in {s} : \E y \in G[x] \cap (X \ {s}) : ~(x = s /\ y = t)
    BY <1>3 DEF Around
  <2> QED BY <1>3, <1>5, <1>7, <2>1
<1>8. CASE u = t
  <2>1. PICK x \in X \ {t} : \E y \in G[x] \cap (X \ (X \ {t})) : ~(x = s /\ y = t)
    BY <1>3 DEF Around
  <2>2. t \in G[x] /\ x # s
    BY <2>1
  <2>3. x \in G[t] \cap X /\ s \in G[t] \cap X
    BY <1>3, <1>6, <2>2
  <2> QED BY <1>5, <1>8, <2>2, <2>3
<1>9. CASE u # s /\ u # t
  <2>1. ~Around(X \ {u}, G, s, t)
    BY <1>2, <1>3
  <2>2. PICK B \in SUBSET (X \ {u}) :
          /\ s \in B /\ t \notin B
          /\ \A x \in B : \A y \in G[x] \cap ((X \ {u}) \ B) : x = s /\ y = t
    BY <1>3, <1>9, <2>1 DEF Around
  <2>3. PICK x \in B : \E y \in G[x] \cap (X \ B) : ~(x = s /\ y = t)
    BY <1>3, <2>2 DEF Around
  <2>4. x \in G[u] \cap X
    <3>1. u \in G[x]
      BY <2>2, <2>3
    <3> QED BY <1>3, <1>6, <2>2, <3>1
  <2>5. PICK z \in B \cup {u} : \E y \in G[z] \cap (X \ (B \cup {u})) : ~(z = s /\ y = t)
    <3>1. B \cup {u} \in SUBSET X /\ s \in B \cup {u} /\ t \notin B \cup {u}
      BY <1>9, <2>2
    <3> QED BY <1>3, <3>1 DEF Around
  <2>6. PICK y \in G[z] \cap (X \ (B \cup {u})) : ~(z = s /\ y = t)
    BY <2>5
  <2>7. z = u
    BY <2>2, <2>6
  <2> QED BY <1>5, <2>3, <2>4, <2>6, <2>7
<1> QED BY <1>7, <1>8, <1>9

\* A walk that does not turn back stays cut off from where it has been.
LEMMA CutOnward ==
  ASSUME NEW nodes, IsFiniteSet(nodes), NEW G \in [nodes -> SUBSET nodes],
         Symmetric(G), Acyclic(G), NEW S \in SUBSET nodes, NEW q \in nodes, NEW a \in nodes,
         Cuts(S, G, q, a), NEW t \in G[a], t # q, t # a
  PROVE  \E B \in SUBSET nodes : S \subseteq B /\ Cuts(B, G, a, t)
<1>1. PICK B \in SUBSET nodes : Cuts(B, G, a, t)
  BY Bridge
<1>2. t \notin S
  <2>1. a \in G[t]
    BY DEF Symmetric
  <2> QED BY <2>1 DEF Cuts
<1>3. Cuts(S \cup B, G, a, t)
  BY <1>1, <1>2 DEF Cuts
<1> QED BY <1>3
=============================================================================
