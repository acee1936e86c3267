---------------------------- MODULE SpanningTree ----------------------------
(***************************************************************************)
(* prim_spanningTree of the two controllers (sourceCode.py and             *)
(* serviceChain_demo.py): a breadth-first search over the known switches   *)
(* and the dictionary of links.                                            *)
(*                                                                         *)
(* The links are a function edges from the switches that have an entry to  *)
(* sets of neighbours; the port to a neighbour is not needed here.  The    *)
(* order in which Python goes through a set or a dictionary is a parameter *)
(* of every operator that depends on it.                                   *)
(***************************************************************************)
EXTENDS Naturals, Sequences, FiniteSets

CONSTANTS Switches,   \* datapath ids
          Orders      \* enumerations of Switches that Python may go by

ASSUME OrdersAssumption ==
  /\ IsFiniteSet(Switches) /\ Orders # {}
  /\ \A o \in Orders : /\ o \in Seq(Switches) /\ Len(o) = Cardinality(Switches)
                       /\ {o[i] : i \in DOMAIN o} = Switches

FirstOf(S, order) ==
  order[CHOOSE i \in DOMAIN order :
          order[i] \in S /\ \A j \in DOMAIN order : order[j] \in S => i <= j]

Linked(tree, u, v) == [tree EXCEPT ![u] = @ \cup {v}, ![v] = @ \cup {u}]

\* Mutants of Visit: the neighbours of v are never looked at; or a switch that
\* has been reached is reached again.
MutVisitShallow(st, u, v, nodes) ==
  IF st.failed \/ v \in st.black THEN st
  ELSE IF v \notin nodes THEN [st EXCEPT !.failed = TRUE]
  ELSE [st EXCEPT !.tree = Linked(@, u, v),
                  !.black = @ \cup {v}]

MutVisit(st, u, v, nodes) ==
  IF st.failed THEN st
  ELSE IF v \notin nodes THEN [st EXCEPT !.failed = TRUE]
  ELSE IF u \in st.tree[v] THEN st
  ELSE [st EXCEPT !.tree = Linked(@, u, v),
                  !.black = @ \cup {v},
                  !.queue = Append(@, v)]

\* The neighbour v of u.  One that is no known switch raises KeyError.
Visit(st, u, v, nodes) ==
  IF st.failed \/ v \in st.black THEN st
  ELSE IF v \notin nodes THEN [st EXCEPT !.failed = TRUE]
  ELSE [st EXCEPT !.tree = Linked(@, u, v),
                  !.black = @ \cup {v},
                  !.queue = Append(@, v)]

\* The for loop over the neighbours of u.
VisitAll(st, u, nodes, neighbours, order) ==
  LET after[i \in 0..Len(order)] ==
        IF i = 0 THEN st
        ELSE IF order[i] \in neighbours THEN Visit(after[i - 1], u, order[i], nodes)
        ELSE after[i - 1]
  IN  after[Len(order)]

\* One turn of the while loop.  A switch without an entry in edges raises
\* KeyError as well.
Turn(st, nodes, edges, order) ==
  LET u == Head(st.queue)
  IN  IF st.failed \/ st.queue = <<>> THEN st
      ELSE IF u \notin DOMAIN edges THEN [st EXCEPT !.failed = TRUE]
      ELSE VisitAll([st EXCEPT !.queue = Tail(@), !.black = @ \cup {u}],
                    u, nodes, edges[u], order)

Start(nodes, order) == [tree |-> [s \in nodes |-> {}], black |-> {}, failed |-> FALSE,
                        queue |-> <<FirstOf(nodes, order)>>]

\* The search after as many turns as there are switches, when the queue is
\* empty or the search has failed.
Search(nodes, edges, order) ==
  LET after[n \in 0..Cardinality(nodes)] ==
        IF n = 0 THEN Start(nodes, order) ELSE Turn(after[n - 1], nodes, edges, order)
  IN  after[Cardinality(nodes)]

\* The new treeLinks of the switches nodes, as far as the search came.
prim_spanningTree(nodes, edges, order) == Search(nodes, edges, order).tree

----------------------------------------------------------------------------
(* What a spanning tree is, with no algorithm in it. *)

Symmetric(links) == \A u \in DOMAIN links : \A v \in links[u] :
                      v \in DOMAIN links /\ u \in links[v]

\* Every non-empty set of switches has a member with at most one link into it.
Acyclic(links) == \A S \in (SUBSET DOMAIN links) \ {{}} :
                    \E u \in S : Cardinality(links[u] \cap S) <= 1

\* root lies in a set of switches that no edge leaves and no cut of which,
\* with root on one side, is without a link from that side to the other.
Spans(links, edges, root) ==
  \E C \in SUBSET DOMAIN edges :
    /\ root \in C
    /\ \A u \in C : edges[u] \subseteq C
    /\ \A S \in (SUBSET C) \ {C} :
         root \in S => \E u \in S : links[u] \cap (C \ S) # {}
=============================================================================
