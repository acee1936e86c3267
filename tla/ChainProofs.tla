---------------------------- MODULE ChainProofs ----------------------------
(***************************************************************************)
(* Theorems of ServiceChain, for every network that is part of the one of  *)
(* the scripts, and any bounds.                                            *)
(*                                                                         *)
(* First the network as finite tables, the paths in it, and the entries    *)
(* that install_flow_rules writes for a host (RulesAreWritten).  From what *)
(* the outermost tag of a packet vouches for (Vouches) follows that no     *)
(* packet skips the chain; that holds whatever ports were learnt.  While   *)
(* no tagged packet has come to the controller the ports are those towards *)
(* the hosts (Toward), the entries those for them (RightFor), and a tagged *)
(* packet is at one of few places (InPlace), so the order is exact and the *)
(* entries of a table agree.  Last, what a host's rules must contain       *)
(* (Needed) is in the tables or on its way to them once the host is        *)
(* installed, and following the entries place by place ends at the other   *)
(* host (Served).  And what the controller knows of the network, together  *)
(* with what the waiting events will tell it, is the network that is       *)
(* connected (KnownInv), so it is once no event waits (NetworkKnown).      *)
(***************************************************************************)
EXTENDS ServiceChain, TreeProofs

----------------------------------------------------------------------------
(* The network. *)

\* What leaves switch s through port q comes to switch t at its port r.
Cable(s, q, t, r) ==
  <<s, q, t, r>> \in {<<1, 2, 2, 1>>, <<2, 1, 1, 2>>, <<2, 2, 3, 2>>, <<3, 2, 2, 2>>,
                      <<3, 5, 4, 2>>, <<4, 2, 3, 5>>, <<1, 7, 5, 2>>, <<5, 2, 1, 7>>}

\* What leaves switch s through port q comes back at r, through middlebox m.
Box(s, q, r, m) ==
  <<s, q, r, m>> \in {<<1, 3, 4, 1>>, <<1, 4, 3, 1>>, <<1, 5, 6, 2>>, <<1, 6, 5, 2>>,
                      <<3, 3, 4, 3>>, <<3, 4, 3, 3>>}

LEMMA AcrossCable ==
  ASSUME NEW s, NEW q, NEW e \in Across(<<s, q>>)
  PROVE  e = <<e[1], e[2]>> /\ Cable(s, q, e[1], e[2])
BY DEF Across, Cables, Cable

LEMMA CableAcross ==
  ASSUME NEW s, NEW q, NEW t, NEW r, Cable(s, q, t, r)
  PROVE  <<t, r>> \in Across(<<s, q>>)
<1>1. {<<s, q>>, <<t, r>>} \in Cables
  BY DEF Cable, Cables
<1>2. <<t, r>> \in {<<s, q>>, <<t, r>>} \ {<<s, q>>}
  BY DEF Cable
<1> QED BY <1>1, <1>2 DEF Across

LEMMA ThroughBox ==
  ASSUME NEW s, NEW q, NEW m \in DOMAIN Middleboxes, <<s, q>> \in Middleboxes[m],
         NEW e \in Middleboxes[m] \ {<<s, q>>}
  PROVE  Box(s, q, e[2], m)
BY DEF Middleboxes, Box

LEMMA CabledPairs ==
  ASSUME NEW s \in 1..5, NEW t \in 1..5
  PROVE  Cabled(s, t) <=> \E q, r \in 1..7 : Cable(s, q, t, r)
BY DEF Cabled, Cables, Cable

LEMMA PortOfCable ==
  ASSUME NEW s, NEW q, NEW t, NEW r, Cable(s, q, t, r)
  PROVE  PortTo(s, t) = q
<1>1. q \in 1..7 /\ \E e \in Across(<<s, q>>) : e[1] = t
  <2>1. <<t, r>>[1] = t /\ q \in 1..7
    BY DEF Cable
  <2> QED BY <2>1, CableAcross
<1>2. \A x \in 1..7 : (\E e \in Across(<<s, x>>) : e[1] = t) => x = q
  BY AcrossCable DEF Cable
<1> QED BY <1>1, <1>2 DEF PortTo

\* The pairs of switches that a cable joins.
Neighbours == {<<1, 2>>, <<2, 1>>, <<2, 3>>, <<3, 2>>, <<3, 4>>, <<4, 3>>, <<1, 5>>, <<5, 1>>}

LEMMA CabledNeighbours ==
  ASSUME NEW s \in 1..5, NEW t \in 1..5
  PROVE  Cabled(s, t) <=> <<s, t>> \in Neighbours
<1>1. (\E q, r \in 1..7 : Cable(s, q, t, r)) <=> <<s, t>> \in Neighbours
  BY DEF Cable, Neighbours
<1> QED BY <1>1, CabledPairs

----------------------------------------------------------------------------
(* The paths between the switches that may have hosts. *)

\* A path of n switches, with nothing in it but integers.
Steps(R, n, s, t) == /\ R[1] = s /\ R[n] = t
                     /\ \A i \in 1..n : R[i] \in 1..5
                     /\ \A i \in 1..(n - 1) : <<R[i], R[i + 1]>> \in Neighbours
                     /\ \A i, j \in 1..n : R[i] = R[j] => i = j

Walk(R, n, s, t) == R = [i \in 1..n |-> R[i]] /\ Steps(R, n, s, t)

LEMMA PathIsWalk ==
  ASSUME NEW R \in Routes, NEW s, NEW t, IsPath(R, s, t)
  PROVE  \E n \in 1..5 : Walk(R, n, s, t)
<1>1. PICK n \in 1..5 : R \in [1..n -> 1..5]
  BY DEF Routes
<1>2. Len(R) = n /\ DOMAIN R = 1..n /\ \A i \in 1..n : R[i] \in 1..5
  BY <1>1
<1>3. \A i \in 1..(n - 1) : <<R[i], R[i + 1]>> \in Neighbours
  BY <1>2, CabledNeighbours DEF IsPath
<1> QED BY <1>1, <1>2, <1>3 DEF IsPath, Walk, Steps

LEMMA WalkIsPath ==
  ASSUME NEW n \in 1..5, NEW R, NEW s, NEW t, Walk(R, n, s, t)
  PROVE  R \in Routes /\ IsPath(R, s, t)
<1>1. /\ \A i \in 1..n : R[i] \in 1..5
      /\ \A i \in 1..(n - 1) : <<R[i], R[i + 1]>> \in Neighbours
  BY DEF Walk, Steps
<1>2. \A i \in 1..(n - 1) : Cabled(R[i], R[i + 1])
  <2> SUFFICES ASSUME NEW i \in 1..(n - 1) PROVE Cabled(R[i], R[i + 1])
    OBVIOUS
  <2>1. i \in 1..n /\ i + 1 \in 1..n
    OBVIOUS
  <2>2. R[i] \in 1..5 /\ R[i + 1] \in 1..5 /\ <<R[i], R[i + 1]>> \in Neighbours
    BY <1>1, <2>1
  <2> QED BY <2>2, CabledNeighbours
<1>3. R \in [1..n -> 1..5] /\ R = [i \in 1..n |-> R[i]]
  <2>1. R = [i \in 1..n |-> R[i]]
    BY DEF Walk
  <2> QED BY <1>1, <2>1
<1>4. Len(R) = n /\ DOMAIN R = 1..n /\ R \in Routes
  BY <1>3 DEF Routes
<1> QED BY <1>2, <1>4 DEF Walk, Steps, IsPath

\* The only way from one switch to another is their path.
LEMMA OnlyWay ==
  ASSUME NEW s \in 1..5, NEW t \in 1..5, NEW n \in 1..5, NEW W, Walk(W, n, s, t),
         \A R : \A k \in 1..5 : Walk(R, k, s, t) => R = W
  PROVE  Path[s][t] = W
<1>1. W \in Routes /\ IsPath(W, s, t)
  BY WalkIsPath
<1>2. \A R \in Routes : IsPath(R, s, t) => R = W
  BY PathIsWalk
<1>3. Path[s][t] = CHOOSE R \in Routes : IsPath(R, s, t)
  BY DEF Path
<1> QED BY <1>1, <1>2, <1>3

\* The ways between two switches with hosts.
Ways == {<<1, 2, 3>>, <<1, 2, 3, 4>>, <<1, 5>>, <<3, 2, 1>>, <<3, 4>>, <<3, 2, 1, 5>>,
         <<4, 3, 2, 1>>, <<4, 3>>, <<4, 3, 2, 1, 5>>, <<5, 1>>, <<5, 1, 2, 3>>, <<5, 1, 2, 3, 4>>}

LEMMA WaysAreSteps ==
  ASSUME NEW W \in Ways
  PROVE  Len(W) \in 1..5 /\ Walk(W, Len(W), W[1], W[Len(W)])
BY DEF Ways, Walk, Steps, Neighbours

LEMMA NoOtherSteps ==
  ASSUME NEW W \in Ways, NEW R, NEW k \in 1..5, Steps(R, k, W[1], W[Len(W)])
  PROVE  k = Len(W) /\ \A i \in 1..k : R[i] = W[i]
BY DEF Ways, Steps, Neighbours

LEMMA WayIsPath ==
  ASSUME NEW W \in Ways
  PROVE  Path[W[1]][W[Len(W)]] = W
<1>1. Len(W) \in 1..5 /\ Walk(W, Len(W), W[1], W[Len(W)])
  BY WaysAreSteps
<1>2. W[1] \in 1..5 /\ W[Len(W)] \in 1..5
  BY <1>1 DEF Walk, Steps
<1>3. ASSUME NEW R, NEW k \in 1..5, Walk(R, k, W[1], W[Len(W)])
      PROVE  R = W
  <2>1. k = Len(W) /\ \A i \in 1..k : R[i] = W[i]
    BY <1>3, NoOtherSteps DEF Walk
  <2>2. R = [i \in 1..k |-> R[i]] /\ W = [i \in 1..k |-> W[i]]
    BY <1>1, <1>3, <2>1 DEF Walk
  <2> QED BY <2>1, <2>2
<1> QED BY <1>1, <1>2, <1>3, OnlyWay

----------------------------------------------------------------------------
(* The entries. *)

\* The switches that may have a host, and the ports by which they send it inward.
Hosted == {1, 3, 4, 5}
Doors(h) == CASE h = 1 -> {3} [] h = 3 -> {2, 5} [] h \in {4, 5} -> {2}

\* An entry of switch s that install_flow_rules may have written for host h; q is
\* the port that was learnt for h.
WrittenFor(h, s, f, q) ==
  \/ /\ s = h
     /\ f = Entry(Fields(None, h, None, IF h = 1 THEN MB3 ELSE POLICY_COMPLETE), Pop, q)
  \/ /\ s = h
     /\ \E out \in Doors(h) :
          f = Entry(Fields(h, None, q, None), Push(IF h = 1 THEN MB1 ELSE APPLY_SERVICE_CHAIN), out)
  \/ \E out \in {1, 2} :
       /\ <<s, h, out>> \in {<<3, 4, 2>>, <<2, 4, 1>>, <<2, 3, 1>>}
       /\ f = Entry(Fields(h, None, None, APPLY_SERVICE_CHAIN), Keep, out)
  \/ \E out \in {2, 5} :
       /\ <<s, h, out>> \in {<<3, 4, 5>>, <<2, 4, 2>>, <<2, 3, 2>>}
       /\ f = Entry(Fields(None, h, None, POLICY_COMPLETE), Keep, out)
  \/ /\ s = 1 /\ h # 1
     /\ f = Entry(Fields(h, None, None, APPLY_SERVICE_CHAIN), Set(MB1), 3)
  \/ \E out \in {2, 7} :
       /\ s = 1 /\ <<h, out>> \in {<<3, 2>>, <<4, 2>>, <<5, 7>>}
       /\ f = Entry(Fields(None, h, None, MB3), Set(POLICY_COMPLETE), out)

\* The port of a link of m_graph['edges'], or none.
IsEdge(edge) == \A s, t \in 1..5 : edge[s][t] \in {None, PortTo(s, t)}

LEMMA PortValues ==
  /\ PortTo(3, 2) = 2 /\ PortTo(3, 4) = 5 /\ PortTo(4, 3) = 2 /\ PortTo(5, 1) = 2
  /\ PortTo(2, 1) = 1 /\ PortTo(2, 3) = 2 /\ PortTo(1, 2) = 2 /\ PortTo(1, 5) = 7
<1>1. /\ Cable(3, 2, 2, 2) /\ Cable(3, 5, 4, 2) /\ Cable(4, 2, 3, 5) /\ Cable(5, 2, 1, 7)
      /\ Cable(2, 1, 1, 2) /\ Cable(2, 2, 3, 2) /\ Cable(1, 2, 2, 1) /\ Cable(1, 7, 5, 2)
  BY DEF Cable
<1> QED BY <1>1, PortOfCable

\* The rules for host h, with the entries at which the handler breaks off.
AreRules(r, h, learnt) ==
  /\ r \in Seq(ToSet(r)) /\ Len(r) >= 1 /\ r[1][2].out = learnt
  /\ \A m \in ToSet(r) : m[2].out # None => WrittenFor(h, m[1], m[2], learnt)

\* What comes first stays first when a sequence is continued.
LEMMA FirstOfJoined ==
  ASSUME NEW S, NEW s \in Seq(S), NEW t \in Seq(S), Len(s) >= 1
  PROVE  s \o t \in Seq(S) /\ Len(s \o t) >= 1 /\ (s \o t)[1] = s[1]
OBVIOUS

LEMMA RulesOfSet ==
  ASSUME NEW S, NEW r \in Seq(S), NEW h, NEW learnt, Len(r) >= 1, r[1][2].out = learnt,
         \A m \in S : m[2].out # None => WrittenFor(h, m[1], m[2], learnt)
  PROVE  AreRules(r, h, learnt)
<1>1. Len(r) \in Nat /\ r \in [1..Len(r) -> S] /\ DOMAIN r = 1..Len(r)
  OBVIOUS
<1>2. r \in [1..Len(r) -> ToSet(r)] /\ ToSet(r) \subseteq S
  BY <1>1 DEF ToSet
<1>3. r \in Seq(ToSet(r))
  BY <1>1, <1>2
<1> QED BY <1>2, <1>3 DEF AreRules

Holds(r, m) == \E k \in 1..Len(r) : r[k] = m

LEMMA JoinedHolds ==
  ASSUME NEW S, NEW s \in Seq(S), NEW t \in Seq(S), NEW m, Holds(s, m) \/ Holds(t, m)
  PROVE  Holds(s \o t, m)
<1>1. /\ Len(s) \in Nat /\ Len(t) \in Nat /\ Len(s \o t) = Len(s) + Len(t)
      /\ \A k \in 1..Len(s) : (s \o t)[k] = s[k]
      /\ \A k \in 1..Len(t) : (s \o t)[Len(s) + k] = t[k]
  OBVIOUS
<1>2. ASSUME NEW k \in 1..Len(s), s[k] = m PROVE Holds(s \o t, m)
  <2>1. k \in 1..Len(s \o t)
    BY <1>1
  <2> QED BY <1>1, <1>2, <2>1 DEF Holds
<1>3. ASSUME NEW k \in 1..Len(t), t[k] = m PROVE Holds(s \o t, m)
  <2>1. Len(s) + k \in 1..Len(s \o t)
    BY <1>1
  <2> QED BY <1>1, <1>3, <2>1 DEF Holds
<1> QED BY <1>2, <1>3 DEF Holds

\* Where the rules of a host that is not on S1 end, those of the switches between,
\* and all of them.
EndOf(W) == CHOOSE k \in DOMAIN W : W[k] = 1 \/ (k = Len(W) /\ 1 \notin ToSet(W))

Middle(W, edge) ==
  [k \in 1..(2 * (EndOf(W) - 2)) |->
     LET j == (k + 3) \div 2
     IN  IF k % 2 = 1 THEN Inward(W[1], W[j], edge[W[j]][W[j + 1]])
                      ELSE Outward(W[1], W[j], edge[W[j]][W[j - 1]])]

RuleSet(W, learnt, edge) ==
  {Delivery(W[1], W, learnt), Ingress(W[1], W, learnt, edge[W[1]][W[2]]), ChainStarts(W[1])}
  \cup {Middle(W, edge)[k] : k \in 1..(2 * (EndOf(W) - 2))}
  \cup {m \in {ChainEnds(W[1], edge[1][W[EndOf(W) - 1]])} : W[EndOf(W)] = 1}

LEMMA EndOfWay ==
  ASSUME NEW W \in Ways, W[1] # 1
  PROVE  /\ EndOf(W) \in {2, 3, 4} /\ EndOf(W) \in DOMAIN W
         /\ W[EndOf(W)] = 1 \/ (EndOf(W) = Len(W) /\ 1 \notin ToSet(W))
<1>1. \E k \in DOMAIN W : W[k] = 1 \/ (k = Len(W) /\ 1 \notin ToSet(W))
  <2>1. Len(W) \in DOMAIN W
    BY DEF Ways
  <2> QED BY <2>1 DEF ToSet
<1>2. EndOf(W) \in DOMAIN W /\ (W[EndOf(W)] = 1 \/ (EndOf(W) = Len(W) /\ 1 \notin ToSet(W)))
  BY <1>1 DEF EndOf
<1>3. EndOf(W) \in {2, 3, 4}
  BY <1>2 DEF Ways, ToSet
<1> QED BY <1>2, <1>3

LEMMA RulesAreSet ==
  ASSUME NEW W \in Ways, W[1] # 1, NEW learnt, NEW edge
  PROVE  LET r == Rules(W[1], W, learnt, edge)
         IN  /\ r \in Seq(RuleSet(W, learnt, edge)) /\ Len(r) >= 1
             /\ r[1] = Delivery(W[1], W, learnt)
             /\ \A m \in RuleSet(W, learnt, edge) : Holds(r, m)
<1> DEFINE h == W[1]
           at == EndOf(W)
           middle == Middle(W, edge)
           ends == IF W[at] = 1 THEN << ChainEnds(h, edge[1][W[at - 1]]) >> ELSE <<>>
           first == << Delivery(h, W, learnt), Ingress(h, W, learnt, edge[W[1]][W[2]]) >>
           start == << ChainStarts(h) >>
           S == RuleSet(W, learnt, edge)
           N == 2 * (at - 2)
<1>1. Rules(h, W, learnt, edge) = first \o middle \o start \o ends
  BY DEF Rules, Middle, EndOf
<1>2. N \in Nat
  BY EndOfWay
<1>3. middle = [k \in 1..N |-> middle[k]] /\ \A k \in 1..N : middle[k] \in S
  BY DEF Middle, RuleSet
<1>4. /\ Delivery(h, W, learnt) \in S /\ Ingress(h, W, learnt, edge[W[1]][W[2]]) \in S
      /\ ChainStarts(h) \in S
      /\ W[at] = 1 => ChainEnds(h, edge[1][W[at - 1]]) \in S
  BY DEF RuleSet
<1>5. \A m \in S : \/ m \in {Delivery(h, W, learnt), Ingress(h, W, learnt, edge[W[1]][W[2]])}
                   \/ m = ChainStarts(h)
                   \/ \E k \in 1..N : m = middle[k]
                   \/ W[at] = 1 /\ m = ChainEnds(h, edge[1][W[at - 1]])
  BY DEF RuleSet
<1> HIDE DEF S, N, middle
<1>6. middle \in Seq(S) /\ Len(middle) = N
  BY <1>2, <1>3
<1>7. first \in Seq(S) /\ start \in Seq(S) /\ ends \in Seq(S) /\ Len(first) >= 1
  BY <1>4
<1>8. /\ Holds(first, Delivery(h, W, learnt)) /\ Holds(start, ChainStarts(h))
      /\ Holds(first, Ingress(h, W, learnt, edge[W[1]][W[2]]))
      /\ \A k \in 1..N : Holds(middle, middle[k])
      /\ W[at] = 1 => Holds(ends, ChainEnds(h, edge[1][W[at - 1]]))
  <2>1. Len(first) = 2 /\ Len(start) = 1
    OBVIOUS
  <2>2. first[1] = Delivery(h, W, learnt) /\ first[2] = Ingress(h, W, learnt, edge[W[1]][W[2]])
    OBVIOUS
  <2>3. start[1] = ChainStarts(h)
    OBVIOUS
  <2>4. W[at] = 1 => Len(ends) = 1 /\ ends[1] = ChainEnds(h, edge[1][W[at - 1]])
    OBVIOUS
  <2> HIDE DEF first, start, ends
  <2> QED BY <2>1, <2>2, <2>3, <2>4, <1>6 DEF Holds
<1>9. first[1] = Delivery(h, W, learnt)
  OBVIOUS
<1> HIDE DEF first, ends, start
<1>10. /\ first \o middle \in Seq(S) /\ Len(first \o middle) >= 1
       /\ (first \o middle)[1] = first[1]
  BY <1>6, <1>7, FirstOfJoined
<1>11. /\ first \o middle \o start \in Seq(S) /\ Len(first \o middle \o start) >= 1
       /\ (first \o middle \o start)[1] = first[1]
  BY <1>7, <1>10, FirstOfJoined
<1>12. /\ first \o middle \o start \o ends \in Seq(S) /\ Len(first \o middle \o start \o ends) >= 1
       /\ (first \o middle \o start \o ends)[1] = first[1]
  BY <1>7, <1>11, FirstOfJoined
<1>13. ASSUME NEW m, Holds(first, m) \/ Holds(middle, m) \/ Holds(start, m) \/ Holds(ends, m)
       PROVE  Holds(first \o middle \o start \o ends, m)
  <2>1. Holds(first, m) \/ Holds(middle, m) => Holds(first \o middle, m)
    BY <1>6, <1>7, JoinedHolds
  <2>2. Holds(first \o middle, m) \/ Holds(start, m) => Holds(first \o middle \o start, m)
    BY <1>7, <1>10, JoinedHolds
  <2>3. Holds(first \o middle \o start, m) \/ Holds(ends, m) => Holds(first \o middle \o start \o ends, m)
    BY <1>7, <1>11, JoinedHolds
  <2> QED BY <1>13, <2>1, <2>2, <2>3
<1>14. \A m \in S : Holds(first \o middle \o start \o ends, m)
  BY <1>5, <1>8, <1>13
<1> QED BY <1>1, <1>9, <1>12, <1>14 DEF S

LEMMA RulesAreWritten ==
  ASSUME NEW W \in Ways, NEW learnt, NEW edge, IsEdge(edge)
  PROVE  AreRules(Rules(W[1], W, learnt, edge), W[1], learnt)
<1> DEFINE h == W[1]
<1>1. CASE h = 1
  <2>1. Rules(h, W, learnt, edge) = <<Delivery(h, W, learnt), Ingress(h, W, learnt, 3)>>
    BY <1>1 DEF Rules
  <2> DEFINE S == {Delivery(h, W, learnt), Ingress(h, W, learnt, 3)}
  <2>2. Rules(h, W, learnt, edge) \in Seq(S)
    BY <2>1
  <2>3. Len(Rules(h, W, learnt, edge)) >= 1 /\ Rules(h, W, learnt, edge)[1][2].out = learnt
    BY <2>1 DEF Delivery, Entry
  <2>4. \A m \in S : WrittenFor(h, m[1], m[2], learnt)
    BY <1>1 DEF Delivery, Ingress, ToHost, FromHost, WrittenFor, Doors, Entry
  <2> HIDE DEF S
  <2> QED BY <2>2, <2>3, <2>4, RulesOfSet
<1>2. CASE h # 1
  <2> DEFINE at == EndOf(W)
             middle == Middle(W, edge)
             S == RuleSet(W, learnt, edge)
  <2>2. /\ at \in {2, 3, 4} /\ at \in DOMAIN W
        /\ W[at] = 1 \/ (at = Len(W) /\ 1 \notin ToSet(W))
    BY <1>2, EndOfWay
  <2>3. /\ Rules(h, W, learnt, edge) \in Seq(S)
        /\ Len(Rules(h, W, learnt, edge)) >= 1 /\ Rules(h, W, learnt, edge)[1][2].out = learnt
    <3>1. Delivery(h, W, learnt)[2].out = learnt
      BY DEF Delivery, Entry
    <3> QED BY <1>2, <3>1, RulesAreSet
  <2> SUFFICES ASSUME NEW m \in S, m[2].out # None
               PROVE  WrittenFor(h, m[1], m[2], learnt)
    <3> HIDE DEF S
    <3> QED BY <2>3, RulesOfSet
  <2> HIDE DEF at
  <2>4. /\ W[1] \in 1..5 /\ \A k \in 1..at : W[k] \in 1..5
        /\ edge[W[1]][W[2]] \in {None, PortTo(W[1], W[2])}
    <3>1. W[1] \in 1..5 /\ W[2] \in 1..5 /\ \A k \in 1..at : W[k] \in 1..5
      BY <2>2 DEF Ways
    <3> QED BY <3>1 DEF IsEdge
  <2>5. CASE m \in {Delivery(h, W, learnt), ChainStarts(h)}
    BY <2>5, <1>2 DEF Delivery, ChainStarts, ToHost, FromHost, WrittenFor, Entry
  <2>6. CASE m = Ingress(h, W, learnt, edge[W[1]][W[2]])
    <3>1. m[1] = h /\ m[2].out = edge[W[1]][W[2]]
      BY <2>6 DEF Ingress, Entry
    <3>2. m[2].out = PortTo(W[1], W[2])
      BY <3>1, <2>4
    <3>3. m[2].out \in Doors(h)
      BY <3>2, <1>2, PortValues DEF Ways, Doors
    <3>4. m[2] = Entry(Fields(h, None, learnt, None),
                       Push(IF h = 1 THEN MB1 ELSE APPLY_SERVICE_CHAIN), m[2].out)
      BY <2>6 DEF Ingress, Entry
    <3> QED BY <3>1, <3>3, <3>4 DEF WrittenFor
  <2>7. ASSUME NEW k \in 1..(2 * (at - 2)), m = middle[k]
        PROVE  WrittenFor(h, m[1], m[2], learnt)
    <3> DEFINE j == (k + 3) \div 2
    <3>1. j \in 2..(at - 1) /\ j - 1 \in 1..at /\ j + 1 \in 1..at /\ j \in 1..at
      <4>1. (at = 3 /\ k \in {1, 2}) \/ (at = 4 /\ k \in {1, 2, 3, 4})
        BY <2>2
      <4> QED BY <4>1
    <3> HIDE DEF j
    <3>2. m = IF k % 2 = 1 THEN Inward(h, W[j], edge[W[j]][W[j + 1]])
                           ELSE Outward(h, W[j], edge[W[j]][W[j - 1]])
      BY <2>7 DEF j, Middle, at
    <3>3. /\ edge[W[j]][W[j + 1]] \in {None, PortTo(W[j], W[j + 1])}
          /\ edge[W[j]][W[j - 1]] \in {None, PortTo(W[j], W[j - 1])}
      BY <3>1, <2>4 DEF IsEdge
    <3>0. <<h, W[j - 1], W[j], W[j + 1]>> \in {<<3, 3, 2, 1>>, <<4, 4, 3, 2>>, <<4, 3, 2, 1>>}
      <4>1. (at = 3 /\ j = 2) \/ (at = 4 /\ j \in {2, 3})
        BY <3>1, <2>2
      <4>2. /\ at = 3 => W \in {<<3, 2, 1>>, <<3, 2, 1, 5>>}
            /\ at = 4 => W \in {<<4, 3, 2, 1>>, <<4, 3, 2, 1, 5>>}
        <5>1. W[at] = 1
          <6>1. Len(W) \in {3, 4, 5} => \E i \in DOMAIN W : W[i] = 1
            BY DEF Ways
          <6>2. CASE at = Len(W) /\ 1 \notin ToSet(W)
            BY <6>1, <6>2, <4>1 DEF ToSet
          <6> QED BY <6>2, <2>2
        <5> QED BY <5>1, <4>1, <2>2, <1>2 DEF Ways
      <4>3. CASE at = 3
        BY <4>1, <4>2, <4>3
      <4>4. CASE at = 4
        BY <4>1, <4>2, <4>4
      <4> QED BY <4>1, <4>3, <4>4
    <3>4. CASE m = Inward(h, W[j], edge[W[j]][W[j + 1]])
      <4>1. m[1] = W[j] /\ m[2].out = PortTo(W[j], W[j + 1])
        BY <3>3, <3>4 DEF Inward, Entry
      <4>2. <<W[j], h, m[2].out>> \in {<<3, 4, 2>>, <<2, 4, 1>>, <<2, 3, 1>>}
        BY <4>1, <3>0, PortValues
      <4>3. m[2] = Entry(Fields(h, None, None, APPLY_SERVICE_CHAIN), Keep, m[2].out)
        BY <3>4 DEF Inward, Entry, FromHost
      <4>4. m[2].out \in {1, 2}
        BY <4>2
      <4> QED BY <4>1, <4>2, <4>3, <4>4 DEF WrittenFor
    <3>5. CASE m = Outward(h, W[j], edge[W[j]][W[j - 1]])
      <4>1. m[1] = W[j] /\ m[2].out = PortTo(W[j], W[j - 1])
        BY <3>3, <3>5 DEF Outward, Entry
      <4>2. <<W[j], h, m[2].out>> \in {<<3, 4, 5>>, <<2, 4, 2>>, <<2, 3, 2>>}
        BY <4>1, <3>0, PortValues
      <4>3. m[2] = Entry(Fields(None, h, None, POLICY_COMPLETE), Keep, m[2].out)
        BY <3>5 DEF Outward, Entry, ToHost
      <4>4. m[2].out \in {2, 5}
        BY <4>2
      <4> QED BY <4>1, <4>2, <4>3, <4>4 DEF WrittenFor
    <3> QED BY <3>2, <3>4, <3>5
  <2>8. CASE W[at] = 1 /\ m = ChainEnds(h, edge[1][W[at - 1]])
    <3>1. W[at - 1] \in 1..5
      BY <2>2, <2>4
    <3>2. m[1] = 1 /\ m[2].out = PortTo(1, W[at - 1])
      BY <3>1, <2>8 DEF ChainEnds, Entry, IsEdge
    <3>3. <<h, m[2].out>> \in {<<3, 2>>, <<4, 2>>, <<5, 7>>}
      BY <3>2, <2>2, <2>8, PortValues, <1>2 DEF Ways
    <3>4. m[2] = Entry(Fields(None, h, None, MB3), Set(POLICY_COMPLETE), m[2].out)
      BY <2>8 DEF ChainEnds, Entry, ToHost
    <3>5. m[2].out \in {2, 7}
      BY <3>3
    <3> QED BY <3>2, <3>3, <3>4, <3>5 DEF WrittenFor
  <2> HIDE DEF middle
  <2> QED BY <2>5, <2>6, <2>7, <2>8 DEF RuleSet, at, middle
<1> QED BY <1>1, <1>2

LEMMA WayBetween ==
  ASSUME NEW s \in Hosted, NEW t \in Hosted, s # t
  PROVE  /\ Path[s][t] \in Ways /\ Path[s][t][1] = s
         /\ Reverse(Path[s][t]) \in Ways /\ Reverse(Path[s][t])[1] = t
         /\ Path[s][t][Len(Path[s][t])] = t
         /\ Reverse(Path[s][t])[Len(Reverse(Path[s][t]))] = s
<1>1. PICK W \in Ways : W[1] = s /\ W[Len(W)] = t
  BY DEF Hosted, Ways
<1>2. Path[s][t] = W
  BY <1>1, WayIsPath
<1>3. W \in Ways /\ Len(W) \in 2..5
  BY DEF Ways
<1>4. /\ Len(W) = 2 => Reverse(W) = <<W[2], W[1]>>
      /\ Len(W) = 3 => Reverse(W) = <<W[3], W[2], W[1]>>
      /\ Len(W) = 4 => Reverse(W) = <<W[4], W[3], W[2], W[1]>>
      /\ Len(W) = 5 => Reverse(W) = <<W[5], W[4], W[3], W[2], W[1]>>
  <2>1. CASE Len(W) = 2
    <3>1. [i \in 1..2 |-> W[(2 - i) + 1]] = <<W[2], W[1]>>
      OBVIOUS
    <3> QED BY <3>1, <2>1 DEF Reverse
  <2>2. CASE Len(W) = 3
    <3>1. [i \in 1..3 |-> W[(3 - i) + 1]] = <<W[3], W[2], W[1]>>
      OBVIOUS
    <3> QED BY <3>1, <2>2 DEF Reverse
  <2>3. CASE Len(W) = 4
    <3>1. [i \in 1..4 |-> W[(4 - i) + 1]] = <<W[4], W[3], W[2], W[1]>>
      OBVIOUS
    <3> QED BY <3>1, <2>3 DEF Reverse
  <2>4. CASE Len(W) = 5
    <3>1. [i \in 1..5 |-> W[(5 - i) + 1]] = <<W[5], W[4], W[3], W[2], W[1]>>
      OBVIOUS
    <3> QED BY <3>1, <2>4 DEF Reverse
  <2> QED BY <1>3, <2>1, <2>2, <2>3, <2>4
<1>5. /\ Len(W) = 2 => <<W[2], W[1]>> \in Ways
      /\ Len(W) = 3 => <<W[3], W[2], W[1]>> \in Ways
      /\ Len(W) = 4 => <<W[4], W[3], W[2], W[1]>> \in Ways
      /\ Len(W) = 5 => <<W[5], W[4], W[3], W[2], W[1]>> \in Ways
  BY DEF Ways
<1>6. Reverse(W) \in Ways /\ Reverse(W)[1] = W[Len(W)]
  BY <1>3, <1>4, <1>5
<1>7. Reverse(W)[Len(Reverse(W))] = W[1]
  <2> DEFINE n == Len(W)
  <2>1. n \in Nat /\ n >= 1 /\ Reverse(W) = [i \in 1..n |-> W[(n - i) + 1]]
    BY <1>3 DEF Reverse
  <2> HIDE DEF n
  <2>2. Len(Reverse(W)) = n /\ n \in 1..n /\ (n - n) + 1 = 1
    BY <2>1
  <2> QED BY <2>1, <2>2
<1> QED BY <1>1, <1>2, <1>6, <1>7

LEMMA MaxOf ==
  ASSUME NEW n \in Nat, NEW S \in SUBSET (0..n), S # {}
  PROVE  Max(S) \in S /\ \A i \in S : Max(S) >= i
<1> DEFINE D == {n - i : i \in S}
<1>1. D \in SUBSET Nat /\ D # {}
  <2>1. \A i \in S : i \in 0..n
    OBVIOUS
  <2>2. \A i \in 0..n : n - i \in Nat
    OBVIOUS
  <2> QED BY <2>1, <2>2
<1>2. PICK d \in D : \A e \in D : d <= e
  <2> HIDE DEF D
  <2> QED BY <1>1, LeastNat
<1>3. PICK i \in S : d = n - i
  OBVIOUS
<1>4. \A j \in S : n - i <= n - j
  BY <1>2, <1>3
<1>5. \A j \in S : i >= j
  BY <1>4
<1> QED BY <1>5 DEF Max

LEMMA RulesOfBoth ==
  ASSUME NEW src \in Hosted, NEW dst \in Hosted, src # dst, NEW ports, IsEdge(Edge)
  PROVE  /\ AreRules(Rules(src, Path[src][dst], ports[src], Edge), src, ports[src])
         /\ AreRules(Rules(dst, Reverse(Path[src][dst]), ports[dst], Edge), dst, ports[dst])
<1> DEFINE R == Path[src][dst]
<1>1. R \in Ways /\ R[1] = src /\ Reverse(R) \in Ways /\ Reverse(R)[1] = dst
  BY WayBetween
<1> HIDE DEF R
<1>2. AreRules(Rules(R[1], R, ports[src], Edge), R[1], ports[src])
  BY <1>1, RulesAreWritten
<1>3. AreRules(Rules(Reverse(R)[1], Reverse(R), ports[dst], Edge), Reverse(R)[1], ports[dst])
  BY <1>1, RulesAreWritten
<1> QED BY <1>1, <1>2, <1>3 DEF R

\* What the handler sends, and that it is all when nothing stopped it.
AreSent(mods, complete, r1, r2) ==
  /\ Len(mods) \in Nat /\ DOMAIN mods = 1..Len(mods)
  /\ \A k \in 1..Len(mods) : /\ \E r \in {r1, r2} : mods[k] \in ToSet(r) /\ r[1][2].out # None
                             /\ mods[k][1] \in Dpids /\ mods[k][2].out # None
  /\ complete => \A m : Holds(r1, m) \/ Holds(r2, m) => Holds(mods, m)

LEMMA SentAreRules ==
  ASSUME NEW src \in Hosted, NEW dst \in Hosted, src # dst, NEW ports, IsEdge(Edge)
  PROVE  LET R == Path[src][dst]
             todo == ToSend(src, dst, ports)
         IN  AreSent(todo.mods, todo.complete, Rules(src, R, ports[src], Edge),
                     Rules(dst, Reverse(R), ports[dst], Edge))
<1> DEFINE R == Path[src][dst]
           r1 == Rules(src, R, ports[src], Edge)
           r2 == Rules(dst, Reverse(R), ports[dst], Edge)
           all == r1 \o r2
           Fine(i) == all[i][1] \in Dpids /\ all[i][2].out # None
           fine == {n \in 0..Len(all) : \A i \in 1..n : Fine(i)}
           S == ToSet(r1) \cup ToSet(r2)
<1>1. AreRules(r1, src, ports[src]) /\ AreRules(r2, dst, ports[dst])
  BY RulesOfBoth
<1>2. /\ r1 \in Seq(S) /\ r2 \in Seq(S) /\ Len(r1) >= 1 /\ Len(r2) >= 1
      /\ \A i \in 1..Len(r1) : r1[i] \in ToSet(r1)
      /\ \A i \in 1..Len(r2) : r2[i] \in ToSet(r2)
  <2>1. r1 \in Seq(ToSet(r1)) /\ r2 \in Seq(ToSet(r2)) /\ Len(r1) >= 1 /\ Len(r2) >= 1
    BY <1>1 DEF AreRules
  <2> HIDE DEF r1, r2
  <2> QED BY <2>1
<1> DEFINE todo == ToSend(src, dst, ports)
<1>3. todo.mods = SubSeq(all, 1, Max(fine)) /\ todo.complete = (Max(fine) = Len(all))
  BY DEF ToSend
<1> HIDE DEF r1, r2, S, todo
<1>4. /\ all \in Seq(S) /\ Len(all) = Len(r1) + Len(r2) /\ Len(r1) \in Nat /\ Len(r2) \in Nat
      /\ \A i \in 1..Len(r1) : all[i] = r1[i]
      /\ \A i \in 1..Len(r2) : all[Len(r1) + i] = r2[i]
  BY <1>2
<1>5. \A m : Holds(r1, m) \/ Holds(r2, m) => Holds(all, m)
  BY <1>2, JoinedHolds
<1> HIDE DEF all
<1>6. Max(fine) \in 0..Len(all) /\ \A i \in 1..Max(fine) : Fine(i)
  <2>1. Len(all) \in Nat /\ fine \in SUBSET (0..Len(all)) /\ 0 \in fine
    BY <1>4
  <2>2. Max(fine) \in fine
    <3> HIDE DEF fine
    <3> QED BY <2>1, MaxOf
  <2> QED BY <2>2
<1> HIDE DEF fine
<1> DEFINE mods == todo.mods
<1>7. /\ Len(mods) = Max(fine) /\ DOMAIN mods = 1..Max(fine) /\ Max(fine) \in Nat
      /\ \A k \in 1..Max(fine) : mods[k] = all[k] /\ k \in 1..Len(all)
  BY <1>3, <1>4, <1>6
<1> HIDE DEF mods
<1>8. ASSUME NEW k \in 1..Len(mods)
      PROVE  /\ \E r \in {r1, r2} : mods[k] \in ToSet(r) /\ r[1][2].out # None
             /\ mods[k][1] \in Dpids /\ mods[k][2].out # None
  <2>1. k \in 1..Max(fine) /\ mods[k] = all[k] /\ Fine(k)
    BY <1>6, <1>7
  <2>2. CASE k <= Len(r1)
    <3>1. k \in 1..Len(r1) /\ 1 \in 1..Len(r1) /\ 1 \in 1..Max(fine)
      BY <1>2, <1>4, <1>6, <2>1, <2>2
    <3>2. r1[k] \in ToSet(r1) /\ r1[1][2].out # None
      BY <3>1, <1>2, <1>4, <1>6
    <3> QED BY <2>1, <3>1, <3>2, <1>4
  <2>3. CASE k > Len(r1)
    <3>1. PICK i \in 1..Len(r2) : k = Len(r1) + i
      <4>1. k - Len(r1) \in 1..Len(r2) /\ k = Len(r1) + (k - Len(r1))
        BY <1>4, <1>6, <2>1, <2>3
      <4> QED BY <4>1
    <3>2. 1 \in 1..Len(r2) /\ Len(r1) + 1 \in 1..Max(fine)
      BY <1>2, <1>4, <1>6, <2>1, <3>1
    <3>3. all[k] = r2[i] /\ all[Len(r1) + 1] = r2[1]
      BY <3>1, <3>2, <1>4
    <3>4. r2[i] \in ToSet(r2) /\ r2[1][2].out # None
      BY <1>2, <1>6, <3>2, <3>3
    <3> QED BY <2>1, <3>3, <3>4
  <2>4. k \in Nat /\ Len(r1) \in Nat
    BY <1>4, <2>1
  <2> QED BY <2>1, <2>2, <2>3, <2>4
<1>9. ASSUME todo.complete, NEW m, Holds(all, m) PROVE Holds(mods, m)
  <2>1. Max(fine) = Len(all)
    BY <1>3, <1>9
  <2> QED BY <1>7, <1>9, <2>1 DEF Holds
<1>10. AreSent(mods, todo.complete, r1, r2)
  BY <1>5, <1>7, <1>8, <1>9 DEF AreSent
<1> QED BY <1>10 DEF mods, todo, r1, r2

\* What the handler sends is entries that were written for one of the two hosts.
AreWritten(mods, src, dst, ports) ==
  /\ Len(mods) \in Nat /\ DOMAIN mods = 1..Len(mods)
  /\ \A k \in DOMAIN mods : \E h \in {src, dst} :
       ports[h] # None /\ WrittenFor(h, mods[k][1], mods[k][2], ports[h])

LEMMA SentAreWritten ==
  ASSUME NEW src \in Hosted, NEW dst \in Hosted, src # dst, NEW ports, IsEdge(Edge)
  PROVE  AreWritten(ToSend(src, dst, ports).mods, src, dst, ports)
<1> DEFINE R == Path[src][dst]
           r1 == Rules(src, R, ports[src], Edge)
           r2 == Rules(dst, Reverse(R), ports[dst], Edge)
           todo == ToSend(src, dst, ports)
           mods == todo.mods
<1>1. AreRules(r1, src, ports[src]) /\ AreRules(r2, dst, ports[dst])
  BY RulesOfBoth
<1>2. AreSent(mods, todo.complete, r1, r2)
  BY SentAreRules
<1> HIDE DEF todo, r1, r2
<1>3. ASSUME NEW k \in 1..Len(mods)
      PROVE  \E h \in {src, dst} : ports[h] # None /\ WrittenFor(h, mods[k][1], mods[k][2], ports[h])
  BY <1>1, <1>2 DEF AreSent, AreRules
<1>4. Len(mods) \in Nat /\ DOMAIN mods = 1..Len(mods)
  BY <1>2 DEF AreSent
<1> QED BY <1>3, <1>4 DEF AreWritten, todo

----------------------------------------------------------------------------
(* Entries and packets, as sets. *)

Ids == 1..7

OpenFields == [src : Hosted \cup {None}, dst : Hosted \cup {None},
               port : 1..7 \cup {None}, vid : Ids \cup {None}]
Actions == {Keep, Pop} \cup {Set(v) : v \in Ids} \cup {Push(v) : v \in Ids}

\* The entries that may be written for switch s, and those that it may come to have.
WrittenOf(s) == {f \in [match : OpenFields, action : Actions, out : 1..7] :
                   \E h \in Hosted : \E q \in 1..7 : WrittenFor(h, s, f, q)}
EntriesOf(s) == StaticRules(s) \cup WrittenOf(s)

LEMMA EntryIn ==
  ASSUME NEW m \in OpenFields, NEW a \in Actions, NEW out \in 1..7
  PROVE  Entry(m, a, out) \in [match : OpenFields, action : Actions, out : 1..7]
BY DEF Entry

LEMMA FieldsIn ==
  ASSUME NEW a \in Hosted \cup {None}, NEW b \in Hosted \cup {None},
         NEW port \in 1..7 \cup {None}, NEW vid \in Ids \cup {None}
  PROVE  Fields(a, b, port, vid) \in OpenFields
BY DEF Fields, OpenFields

LEMMA ActionsIn ==
  /\ Keep \in Actions /\ Pop \in Actions
  /\ \A v \in Ids : Set(v) \in Actions /\ Push(v) \in Actions
BY DEF Actions

LEMMA IdsIn == {MB1, MB2, MB3, TUNNEL, POLICY_COMPLETE, APPLY_SERVICE_CHAIN} \subseteq Ids
BY DEF Ids, MB1, MB2, MB3, TUNNEL, POLICY_COMPLETE, APPLY_SERVICE_CHAIN

LEMMA WrittenIn ==
  ASSUME NEW h \in Hosted, NEW s, NEW f, NEW q \in 1..7, WrittenFor(h, s, f, q)
  PROVE  f \in WrittenOf(s)
<1>1. \E m \in OpenFields : \E a \in Actions : \E out \in 1..7 : f = Entry(m, a, out)
  <2>1. \A vid \in Ids : /\ Fields(None, h, None, vid) \in OpenFields
                         /\ Fields(h, None, None, vid) \in OpenFields
    BY FieldsIn
  <2>2. Fields(h, None, q, None) \in OpenFields
    BY FieldsIn
  <2>3. Doors(h) \subseteq 1..7
    BY DEF Doors, Hosted
  <2> QED BY <2>1, <2>2, <2>3, IdsIn, ActionsIn DEF WrittenFor
<1>2. f \in [match : OpenFields, action : Actions, out : 1..7]
  BY <1>1, EntryIn
<1> QED BY <1>2 DEF WrittenOf

PacketSet == [src : Hosted, dst : Hosted \cup {Broadcast}, at : 1..5, port : 1..7,
              tags : Seq(Ids), trail : Seq(1..3), entered : BOOLEAN, asked : BOOLEAN,
              late : BOOLEAN]

\* c is q, sent on through the port.
Moved(q, port, c) ==
  /\ c \in PacketSet
  /\ c.src = q.src /\ c.dst = q.dst /\ c.tags = q.tags /\ c.entered = q.entered /\ c.late = q.late
  /\ port # q.port
  /\ \/ Cable(q.at, port, c.at, c.port) /\ c.trail = q.trail /\ c.at \in live
     \/ \E m \in 1..3 : /\ Box(q.at, port, c.port, m)
                        /\ c.at = q.at /\ c.trail = Append(q.trail, m)

LEMMA SentIsMoved ==
  ASSUME NEW q \in PacketSet, NEW port, NEW c \in Sent(q, port)
  PROVE  Moved(q, port, c)
<1> DEFINE end == <<q.at, port>>
<1>1. port # q.port
  BY DEF Sent
<1>2. ASSUME NEW e \in Across(end), e[1] \in live, c = [q EXCEPT !.at = e[1], !.port = e[2]]
      PROVE  Moved(q, port, c)
  <2>1. Cable(q.at, port, e[1], e[2])
    BY AcrossCable
  <2>2. e[1] \in 1..5 /\ e[2] \in 1..7
    BY <2>1 DEF Cable
  <2>3. /\ c \in PacketSet
        /\ c.src = q.src /\ c.dst = q.dst /\ c.tags = q.tags /\ c.entered = q.entered
        /\ c.late = q.late /\ c.at = e[1] /\ c.port = e[2] /\ c.trail = q.trail
    BY <1>2, <2>2 DEF PacketSet
  <2> QED BY <1>1, <1>2, <2>1, <2>3 DEF Moved
<1>3. ASSUME NEW m \in DOMAIN Middleboxes, end \in Middleboxes[m], NEW e \in Middleboxes[m] \ {end},
             c = [q EXCEPT !.port = e[2], !.trail = Append(@, m)]
      PROVE  Moved(q, port, c)
  <2>1. Box(q.at, port, e[2], m)
    BY <1>3, ThroughBox
  <2>2. e[2] \in 1..7 /\ m \in 1..3
    BY <2>1 DEF Box
  <2>3. q.trail \in Seq(1..3)
    BY DEF PacketSet
  <2>4. Append(q.trail, m) \in Seq(1..3)
    BY <2>2, <2>3
  <2>5. /\ c \in PacketSet
        /\ c.src = q.src /\ c.dst = q.dst /\ c.tags = q.tags /\ c.entered = q.entered
        /\ c.late = q.late /\ c.at = q.at /\ c.port = e[2] /\ c.trail = Append(q.trail, m)
    BY <1>3, <2>2, <2>4 DEF PacketSet
  <2> QED BY <1>1, <2>1, <2>2, <2>5 DEF Moved
<1> QED BY <1>1, <1>2, <1>3 DEF Sent

\* A copy that comes to a switch is the one that was sent, asked about or not.
LEMMA ArrivedSame ==
  ASSUME NEW d \in PacketSet, NEW table
  PROVE  /\ Arrived(d, table) \in PacketSet
         /\ Arrived(d, table).src = d.src /\ Arrived(d, table).dst = d.dst
         /\ Arrived(d, table).at = d.at /\ Arrived(d, table).port = d.port
         /\ Arrived(d, table).tags = d.tags /\ Arrived(d, table).trail = d.trail
         /\ Arrived(d, table).entered = d.entered /\ Arrived(d, table).late = d.late
         /\ Arrived(d, table).asked = ~\E f \in table : Matches(f, d)
<1> DEFINE misses == ~\E f \in table : Matches(f, d)
<1>1. Arrived(d, table) = [d EXCEPT !.asked = misses] /\ misses \in BOOLEAN
  BY DEF Arrived
<1>2. Arrived(d, table).asked = misses
  BY <1>1 DEF PacketSet
<1> HIDE DEF misses
<1>3. /\ Arrived(d, table) \in PacketSet
      /\ Arrived(d, table).src = d.src /\ Arrived(d, table).dst = d.dst
      /\ Arrived(d, table).at = d.at /\ Arrived(d, table).port = d.port
      /\ Arrived(d, table).tags = d.tags /\ Arrived(d, table).trail = d.trail
      /\ Arrived(d, table).entered = d.entered /\ Arrived(d, table).late = d.late
  BY <1>1 DEF PacketSet
<1> QED BY <1>2, <1>3 DEF misses

LEMMA ArrivedUnmatched ==
  ASSUME NEW d \in PacketSet, NEW table, Arrived(d, table).asked, NEW f \in table
  PROVE  ~Matches(f, Arrived(d, table))
<1>1. ~Matches(f, d)
  BY ArrivedSame
<1> QED BY <1>1, ArrivedSame DEF Matches

LEMMA ArrivedIsMoved ==
  ASSUME NEW q \in PacketSet, NEW port, NEW d \in Sent(q, port), NEW table
  PROVE  Moved(q, port, Arrived(d, table))
<1>1. Moved(q, port, d) /\ d \in PacketSet
  BY SentIsMoved DEF Moved
<1> DEFINE c == Arrived(d, table)
<1>2. /\ c \in PacketSet /\ c.src = d.src /\ c.dst = d.dst /\ c.at = d.at /\ c.port = d.port
      /\ c.tags = d.tags /\ c.trail = d.trail /\ c.entered = d.entered /\ c.late = d.late
  BY <1>1, ArrivedSame
<1> HIDE DEF c
<1>3. Moved(q, port, c)
  BY <1>1, <1>2 DEF Moved
<1> QED BY <1>3 DEF c

\* q is p with other tags.
Retagged(p, q) ==
  /\ q \in PacketSet
  /\ q.src = p.src /\ q.dst = p.dst /\ q.at = p.at /\ q.port = p.port
  /\ q.trail = p.trail /\ q.late = p.late

LEMMA TagKept ==
  ASSUME NEW p
  PROVE  Tagged(p, Keep) = p
BY DEF Tagged, Keep

LEMMA TagPopped ==
  ASSUME NEW p \in PacketSet, p.tags # <<>>
  PROVE  /\ Retagged(p, Tagged(p, Pop))
         /\ Tagged(p, Pop).tags = Tail(p.tags) /\ Tagged(p, Pop).entered = p.entered
<1>1. p.tags \in Seq(Ids) /\ Tail(p.tags) \in Seq(Ids)
  BY DEF PacketSet
<1>2. Tagged(p, Pop) = [p EXCEPT !.tags = Tail(p.tags)]
  BY DEF Tagged, Pop
<1> QED BY <1>1, <1>2 DEF PacketSet, Retagged

LEMMA TagSet ==
  ASSUME NEW p \in PacketSet, p.tags # <<>>, NEW v \in Ids
  PROVE  /\ Retagged(p, Tagged(p, Set(v)))
         /\ Tagged(p, Set(v)).tags = <<v>> \o Tail(p.tags)
         /\ Tagged(p, Set(v)).tags # <<>> /\ Head(Tagged(p, Set(v)).tags) = v
         /\ Tagged(p, Set(v)).entered = p.entered
<1>1. p.tags \in Seq(Ids) /\ Tail(p.tags) \in Seq(Ids)
  BY DEF PacketSet
<1>2. <<v>> \o Tail(p.tags) \in Seq(Ids) /\ <<v>> \o Tail(p.tags) # <<>> /\ Head(<<v>> \o Tail(p.tags)) = v
  BY <1>1
<1>3. Tagged(p, Set(v)) = [p EXCEPT !.tags = <<v>> \o Tail(p.tags)]
  BY DEF Tagged, Set
<1> QED BY <1>2, <1>3 DEF PacketSet, Retagged

LEMMA TagPushed ==
  ASSUME NEW p \in PacketSet, NEW v \in Ids
  PROVE  /\ Retagged(p, Tagged(p, Push(v)))
         /\ Tagged(p, Push(v)).tags = <<v>> \o p.tags
         /\ Tagged(p, Push(v)).tags # <<>> /\ Head(Tagged(p, Push(v)).tags) = v
         /\ Tagged(p, Push(v)).entered = TRUE
<1>1. p.tags \in Seq(Ids)
  BY DEF PacketSet
<1>2. <<v>> \o p.tags \in Seq(Ids) /\ <<v>> \o p.tags # <<>> /\ Head(<<v>> \o p.tags) = v
  BY <1>1
<1>3. Tagged(p, Push(v)) = [p EXCEPT !.tags = <<v>> \o p.tags, !.entered = TRUE]
  BY DEF Tagged, Push
<1> QED BY <1>2, <1>3 DEF PacketSet, Retagged

----------------------------------------------------------------------------
(* No packet skips the chain, whatever ports have been learnt. *)

Started(trail) == \E i \in DOMAIN trail : trail[i] = 1
Halfway(trail) == \E i, j \in DOMAIN trail : i < j /\ trail[i] = 1 /\ trail[j] = 3

LEMMA TrailGrows ==
  ASSUME NEW trail \in Seq(1..3), NEW m \in 1..3
  PROVE  /\ Started(trail) \/ m = 1 => Started(Append(trail, m))
         /\ Halfway(trail) \/ (Started(trail) /\ m = 3) => Halfway(Append(trail, m))
         /\ Through(trail) \/ (Halfway(trail) /\ m = 2) => Through(Append(trail, m))
<1>1. /\ DOMAIN trail = 1..Len(trail) /\ Len(trail) \in Nat
      /\ DOMAIN Append(trail, m) = 1..(Len(trail) + 1)
      /\ \A i \in 1..Len(trail) : Append(trail, m)[i] = trail[i]
      /\ Append(trail, m)[Len(trail) + 1] = m
  OBVIOUS
<1>2. \A i \in DOMAIN trail : /\ i \in DOMAIN Append(trail, m) /\ Append(trail, m)[i] = trail[i]
                             /\ i < Len(trail) + 1
  BY <1>1
<1>3. Len(trail) + 1 \in DOMAIN Append(trail, m)
  BY <1>1
<1> QED BY <1>1, <1>2, <1>3 DEF Started, Halfway, Through

LEMMA Shorter ==
  ASSUME NEW trail
  PROVE  /\ Through(trail) => Halfway(trail)
         /\ Halfway(trail) => Started(trail)
BY DEF Started, Halfway, Through

\* What has been passed by a packet whose outer tag is v, unless it has passed all:
\* the tag of the link between the two halves counts only where the links are.
Vouches(v, at, port, trail) ==
  /\ v \in {MB3, POLICY_COMPLETE} => Through(trail)
  /\ v = MB1 => Started(trail)
  /\ v = MB2 => Halfway(trail)
  /\ v = TUNNEL => \/ <<at, port>> \in {<<2, 1>>, <<3, 2>>} /\ Started(trail)
                   \/ <<at, port>> \in {<<2, 2>>, <<1, 2>>} /\ Halfway(trail)

Vouched(p) ==
  \/ Through(p.trail)
  \/ IF p.tags = <<>> THEN ~p.entered ELSE Vouches(Head(p.tags), p.at, p.port, p.trail)

\* What is handed on, by an entry or by the controller, has its trail or a longer one.
LEMMA TrailKept ==
  ASSUME NEW p \in PacketSet, NEW q, NEW port, NEW c, Retagged(p, q), Moved(q, port, c)
  PROVE  /\ Started(p.trail) => Started(c.trail)
         /\ Halfway(p.trail) => Halfway(c.trail)
         /\ Through(p.trail) => Through(c.trail)
         /\ c.tags = q.tags /\ c.entered = q.entered
<1>1. q.trail = p.trail /\ p.trail \in Seq(1..3)
  BY DEF Retagged, PacketSet
<1>2. c.trail = p.trail \/ \E m \in 1..3 : c.trail = Append(p.trail, m)
  BY <1>1 DEF Moved
<1>3. CASE c.trail = p.trail
  BY <1>3 DEF Moved
<1>4. ASSUME NEW m \in 1..3, c.trail = Append(p.trail, m)
      PROVE  /\ Started(p.trail) => Started(c.trail)
             /\ Halfway(p.trail) => Halfway(c.trail)
             /\ Through(p.trail) => Through(c.trail)
  BY <1>1, <1>4, TrailGrows
<1> QED BY <1>2, <1>3, <1>4 DEF Moved

\* Where a packet with outer tag v may be sent from switch s through the port.
Allows(v, s, port, trail) ==
  /\ \A t \in 1..5, r \in 1..7 : Cable(s, port, t, r) => Vouches(v, t, r, trail)
  /\ \A r \in 1..7, m \in 1..3 : Box(s, port, r, m) => Vouches(v, s, r, Append(trail, m))

LEMMA AllowedIsVouched ==
  ASSUME NEW p \in PacketSet, NEW q, NEW port, NEW c, Retagged(p, q), Moved(q, port, c),
         q.tags # <<>>, Through(p.trail) \/ Allows(Head(q.tags), p.at, port, p.trail)
  PROVE  Vouched(c)
<1>1. CASE Through(p.trail)
  BY <1>1, TrailKept DEF Vouched
<1>2. CASE Allows(Head(q.tags), p.at, port, p.trail)
  <2>1. /\ c.at \in 1..5 /\ c.port \in 1..7 /\ c.tags = q.tags
        /\ q.at = p.at /\ q.trail = p.trail
    BY DEF Moved, PacketSet, Retagged
  <2>2. Vouches(Head(q.tags), c.at, c.port, c.trail)
    <3>1. CASE Cable(q.at, port, c.at, c.port) /\ c.trail = q.trail
      BY <1>2, <2>1, <3>1 DEF Allows
    <3>2. ASSUME NEW m \in 1..3, Box(q.at, port, c.port, m), c.at = q.at, c.trail = Append(q.trail, m)
          PROVE  Vouches(Head(q.tags), c.at, c.port, c.trail)
      BY <1>2, <2>1, <3>2 DEF Allows
    <3> QED BY <3>1, <3>2 DEF Moved
  <2> QED BY <2>1, <2>2 DEF Vouched
<1> QED BY <1>1, <1>2

\* What an entry does to a packet that has the invariant.
HopVouched(p, f) ==
  /\ Retagged(p, Tagged(p, f.action))
  /\ Tagged(p, f.action).tags = <<>> /\ Tagged(p, f.action).entered => Through(p.trail)
  /\ \A c : Moved(Tagged(p, f.action), f.out, c) => Vouched(c)

LEMMA Identifiers ==
  /\ MB1 = 1 /\ MB2 = 2 /\ MB3 = 3 /\ TUNNEL = 4 /\ POLICY_COMPLETE = 5
  /\ APPLY_SERVICE_CHAIN = 7 /\ HostPort = 1 /\ Broadcast = 0 /\ None \notin 0..7
BY ChainAssumption DEF MB1, MB2, MB3, TUNNEL, POLICY_COMPLETE, APPLY_SERVICE_CHAIN, HostPort, Broadcast

LEMMA SetVouched ==
  ASSUME NEW p \in PacketSet, NEW f, NEW v \in Ids, f.action = Set(v), p.tags # <<>>,
         Through(p.trail) \/ Allows(v, p.at, f.out, p.trail)
  PROVE  HopVouched(p, f)
<1> DEFINE q == Tagged(p, f.action)
<1>1. Retagged(p, q) /\ q.tags # <<>> /\ Head(q.tags) = v
  BY TagSet
<1> HIDE DEF q
<1>2. ASSUME NEW c, Moved(q, f.out, c) PROVE Vouched(c)
  BY <1>1, <1>2, AllowedIsVouched
<1> QED BY <1>1, <1>2 DEF HopVouched, q

LEMMA PushVouched ==
  ASSUME NEW p \in PacketSet, NEW f, NEW v \in Ids, f.action = Push(v),
         Through(p.trail) \/ Allows(v, p.at, f.out, p.trail)
  PROVE  HopVouched(p, f)
<1> DEFINE q == Tagged(p, f.action)
<1>1. Retagged(p, q) /\ q.tags # <<>> /\ Head(q.tags) = v
  BY TagPushed
<1> HIDE DEF q
<1>2. ASSUME NEW c, Moved(q, f.out, c) PROVE Vouched(c)
  BY <1>1, <1>2, AllowedIsVouched
<1> QED BY <1>1, <1>2 DEF HopVouched, q

LEMMA PopVouched ==
  ASSUME NEW p \in PacketSet, NEW f, f.action = Pop, p.tags # <<>>, Through(p.trail)
  PROVE  HopVouched(p, f)
<1> DEFINE q == Tagged(p, f.action)
<1>1. Retagged(p, q)
  BY TagPopped
<1> HIDE DEF q
<1>2. ASSUME NEW c, Moved(q, f.out, c) PROVE Vouched(c)
  BY <1>1, <1>2, TrailKept DEF Vouched
<1> QED BY <1>1, <1>2 DEF HopVouched, q

\* As it is sent on, by an entry or by the controller.
LEMMA KeepVouched ==
  ASSUME NEW p \in PacketSet, NEW port, NEW c, Moved(p, port, c), Vouched(p),
         \/ Through(p.trail) \/ p.tags = <<>>
         \/ Allows(Head(p.tags), p.at, port, p.trail)
  PROVE  Vouched(c)
<1>1. Retagged(p, p)
  BY DEF Retagged
<1>2. CASE Through(p.trail)
  BY <1>1, <1>2, TrailKept DEF Vouched
<1>3. CASE ~Through(p.trail) /\ p.tags = <<>>
  BY <1>1, <1>3, TrailKept DEF Vouched
<1>4. CASE p.tags # <<>> /\ Allows(Head(p.tags), p.at, port, p.trail)
  BY <1>1, <1>4, AllowedIsVouched
<1> QED BY <1>2, <1>3, <1>4

\* But for the link between the halves, a tag allows any port.
LEMMA AnyPort ==
  ASSUME NEW v, NEW at, NEW r, NEW trail \in Seq(1..3), NEW s, NEW port,
         Vouches(v, at, r, trail), v # TUNNEL
  PROVE  Allows(v, s, port, trail)
<1>1. \A t, x : Vouches(v, t, x, trail)
  BY DEF Vouches
<1>2. ASSUME NEW x \in 1..7, NEW m \in 1..3
      PROVE  Vouches(v, s, x, Append(trail, m))
  <2>1. /\ Started(trail) => Started(Append(trail, m))
        /\ Halfway(trail) => Halfway(Append(trail, m))
        /\ Through(trail) => Through(Append(trail, m))
    BY TrailGrows
  <2> QED BY <2>1 DEF Vouches
<1> QED BY <1>1, <1>2 DEF Allows

LEMMA StaticVouches ==
  ASSUME NEW p \in PacketSet, Vouched(p), NEW f \in StaticRules(p.at), Matches(f, p)
  PROVE  HopVouched(p, f)
<1>1. p.trail \in Seq(1..3) /\ p.tags \in Seq(Ids) /\ p.at \in 1..5 /\ p.port \in 1..7
  BY DEF PacketSet
<1>2. ASSUME NEW port \in 1..7, NEW out \in 1..7, f = Between(port, out), p.at = 2,
             <<port, out>> \in {<<1, 2>>, <<2, 1>>}
      PROVE  HopVouched(p, f)
  <2>1. p.port = port /\ f.out = out /\ f.action = Keep
    BY <1>2, Identifiers DEF Between, Entry, Fields, Matches
  <2>2. Tagged(p, f.action) = p /\ Retagged(p, p)
    BY <2>1, TagKept DEF Retagged
  <2>3. \/ Through(p.trail) \/ p.tags = <<>>
        \/ Allows(Head(p.tags), p.at, out, p.trail)
    <3>1. CASE p.tags # <<>> /\ Vouches(Head(p.tags), p.at, p.port, p.trail) /\ Head(p.tags) # TUNNEL
      BY <1>1, <3>1, AnyPort
    <3>2. CASE p.tags # <<>> /\ Vouches(Head(p.tags), p.at, p.port, p.trail) /\ Head(p.tags) = TUNNEL
      BY <1>2, <2>1, <3>2, Identifiers DEF Allows, Vouches, Cable, Box
    <3> QED BY <3>1, <3>2 DEF Vouched
  <2>4. p.tags = <<>> /\ p.entered => Through(p.trail)
    BY DEF Vouched
  <2>5. ASSUME NEW c, Moved(p, out, c) PROVE Vouched(c)
    BY <2>3, <2>5, KeepVouched
  <2> QED BY <2>1, <2>2, <2>4, <2>5 DEF HopVouched
<1>3. ASSUME NEW port \in 1..7, NEW vid \in Ids, NEW new \in Ids, NEW out \in 1..7,
             f = Within(port, vid, new, out),
             <<p.at, port, vid, new, out>> \in {<<1, 4, MB1, TUNNEL, 2>>, <<1, 2, TUNNEL, MB3, 5>>,
                                              <<3, 2, TUNNEL, MB2, 3>>, <<3, 4, MB2, TUNNEL, 2>>}
      PROVE  HopVouched(p, f)
  <2>1. f.out = out /\ f.action = Set(new) /\ f.match = Fields(None, None, port, vid)
    BY <1>3 DEF Within, Entry
  <2>2. p.port = port /\ p.tags # <<>> /\ Head(p.tags) = vid
    BY <2>1, Identifiers DEF Fields, Matches, Ids
  <2>3. \A m \in 1..3 :
          /\ Started(p.trail) /\ m = 3 => Halfway(Append(p.trail, m))
          /\ Halfway(p.trail) /\ m = 2 => Through(Append(p.trail, m))
    BY <1>1, TrailGrows
  <2>4. Through(p.trail) \/ Vouches(vid, p.at, port, p.trail)
    BY <2>2 DEF Vouched
  <2>5. ASSUME Vouches(vid, p.at, port, p.trail) PROVE Allows(new, p.at, out, p.trail)
    <3>1. vid = TUNNEL => IF p.at = 1 THEN Halfway(p.trail) ELSE Started(p.trail)
      BY <1>3, <2>5, Identifiers DEF Vouches
    <3>2. /\ vid = MB1 => Started(p.trail)
          /\ vid = MB2 => Halfway(p.trail)
      BY <2>5 DEF Vouches
    <3>3. CASE out = 2
      <4>1. new = TUNNEL /\ ((p.at = 1 /\ Started(p.trail)) \/ (p.at = 3 /\ Halfway(p.trail)))
        BY <1>3, <3>2, <3>3
      <4> QED BY <4>1, <3>3, Identifiers DEF Allows, Vouches, Cable, Box
    <3>4. CASE out = 3
      <4>1. new = MB2 /\ p.at = 3 /\ Started(p.trail)
        BY <1>3, <3>1, <3>4
      <4> QED BY <4>1, <3>4, <2>3, Identifiers DEF Allows, Vouches, Cable, Box
    <3>5. CASE out = 5
      <4>1. new = MB3 /\ p.at = 1 /\ Halfway(p.trail)
        BY <1>3, <3>1, <3>5
      <4> QED BY <4>1, <3>5, <2>3, Identifiers DEF Allows, Vouches, Cable, Box
    <3> QED BY <1>3, <3>3, <3>4, <3>5
  <2> QED BY <2>1, <2>2, <2>4, <2>5, SetVouched
<1>4. \/ \E port, out \in 1..7 :
           f = Between(port, out) /\ p.at = 2 /\ <<port, out>> \in {<<1, 2>>, <<2, 1>>}
      \/ \E port, out \in 1..7, vid, new \in Ids :
           /\ f = Within(port, vid, new, out)
           /\ <<p.at, port, vid, new, out>> \in {<<1, 4, MB1, TUNNEL, 2>>, <<1, 2, TUNNEL, MB3, 5>>,
                                               <<3, 2, TUNNEL, MB2, 3>>, <<3, 4, MB2, TUNNEL, 2>>}
  <2>1. CASE p.at = 2
    BY <2>1 DEF StaticRules
  <2>2. CASE p.at \in {1, 3}
    BY <2>2, IdsIn DEF StaticRules
  <2> QED BY <2>1, <2>2 DEF StaticRules
<1> QED BY <1>2, <1>3, <1>4

LEMMA WrittenVouches ==
  ASSUME NEW p \in PacketSet, Vouched(p), NEW h \in Hosted, NEW q \in 1..7, NEW f,
         WrittenFor(h, p.at, f, q), Matches(f, p)
  PROVE  HopVouched(p, f)
<1>1. p.trail \in Seq(1..3) /\ p.tags \in Seq(Ids) /\ p.at \in 1..5 /\ p.port \in 1..7
  BY DEF PacketSet
<1>2. ASSUME NEW vid \in Ids, f.match.vid = vid
      PROVE  /\ p.tags # <<>> /\ Head(p.tags) = vid
             /\ Through(p.trail) \/ Vouches(vid, p.at, p.port, p.trail)
  <2>1. p.tags # <<>> /\ Head(p.tags) = vid
    BY <1>2, Identifiers DEF Matches, Ids
  <2> QED BY <2>1 DEF Vouched
<1>3. ASSUME NEW vid \in {MB3, POLICY_COMPLETE}, f.match.vid = vid
      PROVE  p.tags # <<>> /\ Through(p.trail)
  BY <1>2, <1>3, IdsIn DEF Vouches
<1>4. CASE /\ p.at = h
           /\ f = Entry(Fields(None, h, None, IF h = 1 THEN MB3 ELSE POLICY_COMPLETE), Pop, q)
  <2>1. f.action = Pop /\ f.match.vid \in {MB3, POLICY_COMPLETE}
    BY <1>4 DEF Entry, Fields
  <2> QED BY <2>1, <1>3, PopVouched
<1>5. ASSUME NEW out \in Doors(h), p.at = h,
             f = Entry(Fields(h, None, q, None), Push(IF h = 1 THEN MB1 ELSE APPLY_SERVICE_CHAIN), out)
      PROVE  HopVouched(p, f)
  <2>1. f.out = out /\ f.action = Push(IF h = 1 THEN MB1 ELSE APPLY_SERVICE_CHAIN)
    BY <1>5 DEF Entry
  <2>2. CASE h = 1
    <3>1. \A m \in 1..3 : m = 1 => Started(Append(p.trail, m))
      BY <1>1, TrailGrows
    <3>2. Allows(MB1, p.at, 3, p.trail)
      BY <3>1, <1>5, <2>2, Identifiers DEF Allows, Vouches, Cable, Box
    <3> QED BY <3>2, <2>1, <2>2, <1>5, PushVouched, IdsIn DEF Doors
  <2>3. CASE h # 1
    <3>1. Allows(APPLY_SERVICE_CHAIN, p.at, out, p.trail)
      BY Identifiers DEF Allows, Vouches
    <3> QED BY <3>1, <2>1, <2>3, PushVouched, IdsIn
  <2> QED BY <2>2, <2>3
<1>6. ASSUME NEW vid \in {APPLY_SERVICE_CHAIN, POLICY_COMPLETE}, f.match.vid = vid, f.action = Keep
      PROVE  HopVouched(p, f)
  <2>1. p.tags # <<>> /\ Head(p.tags) = vid /\ (Through(p.trail) \/ Vouches(vid, p.at, p.port, p.trail))
    BY <1>2, <1>6, IdsIn
  <2>2. Through(p.trail) \/ Allows(Head(p.tags), p.at, f.out, p.trail)
    BY <2>1, <1>1, AnyPort, Identifiers
  <2>3. Tagged(p, f.action) = p /\ Retagged(p, p)
    BY <1>6, TagKept DEF Retagged
  <2>4. ASSUME NEW c, Moved(p, f.out, c) PROVE Vouched(c)
    BY <2>2, <2>4, KeepVouched
  <2> QED BY <2>1, <2>3, <2>4 DEF HopVouched
<1>7. ASSUME p.at = 1, f = Entry(Fields(h, None, None, APPLY_SERVICE_CHAIN), Set(MB1), 3)
      PROVE  HopVouched(p, f)
  <2>1. f.out = 3 /\ f.action = Set(MB1) /\ f.match.vid = APPLY_SERVICE_CHAIN
    BY <1>7 DEF Entry, Fields
  <2>2. \A m \in 1..3 : m = 1 => Started(Append(p.trail, m))
    BY <1>1, TrailGrows
  <2>3. Allows(MB1, p.at, 3, p.trail)
    BY <2>2, <1>7, Identifiers DEF Allows, Vouches, Cable, Box
  <2>4. p.tags # <<>>
    BY <2>1, <1>2, IdsIn
  <2> QED BY <2>1, <2>3, <2>4, SetVouched, IdsIn
<1>8. ASSUME NEW out, f = Entry(Fields(None, h, None, MB3), Set(POLICY_COMPLETE), out)
      PROVE  HopVouched(p, f)
  <2>1. f.action = Set(POLICY_COMPLETE) /\ f.match.vid = MB3
    BY <1>8 DEF Entry, Fields
  <2>2. p.tags # <<>> /\ Through(p.trail)
    BY <2>1, <1>3
  <2> QED BY <2>1, <2>2, SetVouched, IdsIn
<1>9. ASSUME NEW out,
             \/ f = Entry(Fields(h, None, None, APPLY_SERVICE_CHAIN), Keep, out)
             \/ f = Entry(Fields(None, h, None, POLICY_COMPLETE), Keep, out)
      PROVE  HopVouched(p, f)
  <2>1. f.action = Keep /\ f.match.vid \in {APPLY_SERVICE_CHAIN, POLICY_COMPLETE}
    BY <1>9 DEF Entry, Fields
  <2> QED BY <2>1, <1>6
<1> QED BY <1>4, <1>5, <1>7, <1>8, <1>9 DEF WrittenFor

\* An entry of its switch hands a packet on with the invariant.
LEMMA EntryVouches ==
  ASSUME NEW p \in PacketSet, Vouched(p), NEW f \in EntriesOf(p.at), Matches(f, p)
  PROVE  HopVouched(p, f)
BY StaticVouches, WrittenVouches DEF EntriesOf, WrittenOf

\* And so does the controller, as long as the switch has its static entries.
LEMMA MissVouches ==
  ASSUME NEW p \in PacketSet, Vouched(p), \A f \in StaticRules(p.at) : ~Matches(f, p),
         NEW port, NEW c, Moved(p, port, c)
  PROVE  Vouched(c)
<1>1. p.trail \in Seq(1..3) /\ p.tags \in Seq(Ids) /\ p.at \in 1..5 /\ p.port \in 1..7
  BY DEF PacketSet
<1>2. CASE p.tags # <<>> /\ Vouches(Head(p.tags), p.at, p.port, p.trail) /\ Head(p.tags) # TUNNEL
  BY <1>1, <1>2, AnyPort, KeepVouched
<1>3. CASE p.tags # <<>> /\ Vouches(Head(p.tags), p.at, p.port, p.trail) /\ Head(p.tags) = TUNNEL
  <2>1. <<p.at, p.port>> \in {<<2, 1>>, <<3, 2>>, <<2, 2>>, <<1, 2>>}
    BY <1>3 DEF Vouches
  <2>2. CASE p.at = 2
    <3>1. Between(1, 2) \in StaticRules(p.at) /\ Between(2, 1) \in StaticRules(p.at)
      BY <2>2 DEF StaticRules
    <3>2. Matches(Between(1, 2), p) \/ Matches(Between(2, 1), p)
      BY <2>1, <2>2 DEF Between, Entry, Fields, Matches
    <3> QED BY <3>1, <3>2
  <2>3. CASE p.at \in {1, 3} /\ p.port = 2
    <3>1. \E new, out \in 1..7 : Within(2, TUNNEL, new, out) \in StaticRules(p.at)
      BY <2>3, Identifiers DEF StaticRules
    <3>2. \A new, out : Matches(Within(2, TUNNEL, new, out), p)
      BY <2>3, <1>3 DEF Within, Entry, Fields, Matches
    <3> QED BY <3>1, <3>2
  <2> QED BY <2>1, <2>2, <2>3
<1>4. CASE Through(p.trail) \/ p.tags = <<>>
  BY <1>4, KeepVouched
<1> QED BY <1>2, <1>3, <1>4 DEF Vouched

----------------------------------------------------------------------------
(* What the tables and the connections hold. *)

\* The loop of For over the entries that are sent.
Sorted(mods, s, first) ==
  /\ first[0] = <<>> /\ For(mods, s) = first[Len(mods)]
  /\ \A i \in 1..Len(mods) :
       first[i] = IF mods[i][1] = s THEN Append(first[i - 1], mods[i][2]) ELSE first[i - 1]

LEMMA ForLoop ==
  ASSUME NEW mods, NEW s, NEW E, Len(mods) \in Nat,
         \A k \in 1..Len(mods) : mods[k][1] = s => mods[k][2] \in E
  PROVE  \E first : /\ Sorted(mods, s, first)
                    /\ \A i \in 0..Len(mods) : first[i] \in Seq(E)
<1> DEFINE N == Len(mods)
           S == Seq(E)
           look(x, i) == IF mods[i][1] = s THEN Append(x, mods[i][2]) ELSE x
           step == [xi \in S \X (1..N) |-> look(xi[1], xi[2])]
           body(g) == [n \in 0..N |-> IF n = 0 THEN <<>>
                       ELSE IF mods[n][1] = s THEN Append(g[n - 1], mods[n][2])
                       ELSE g[n - 1]]
           first == CHOOSE g : g = body(g)
<1>1. step \in [S \X (1..N) -> S]
  <2>1. ASSUME NEW x \in S, NEW i \in 1..N PROVE look(x, i) \in S
    OBVIOUS
  <2> HIDE DEF look, S
  <2> QED BY <2>1
<1>2. PICK f : IsLoop(f, S, <<>>, N, step)
  <2>1. <<>> \in S
    OBVIOUS
  <2> HIDE DEF S, step
  <2> QED BY <1>1, <2>1, LoopExists
<1>3. ASSUME NEW i \in 1..N PROVE f[i] = look(f[i - 1], i)
  <2>1. f[i - 1] \in S /\ f[i] = step[<<f[i - 1], i>>]
    <3> HIDE DEF S, step
    <3> QED BY <1>2 DEF IsLoop
  <2>2. <<f[i - 1], i>> \in S \X (1..N)
    BY <2>1
  <2> HIDE DEF S, look
  <2> QED BY <2>1, <2>2
<1>4. f = body(f)
  <2>1. f = [i \in 0..N |-> f[i]] /\ f[0] = <<>>
    <3> HIDE DEF S, step
    <3> QED BY <1>2 DEF IsLoop
  <2>2. \A i \in 0..N : i # 0 => i \in 1..N
    OBVIOUS
  <2> QED BY <2>1, <2>2, <1>3
<1>5. first = body(first)
  <2> HIDE DEF body
  <2> QED BY <1>4
<1>6. For(mods, s) = first[N]
  BY DEF For
<1> HIDE DEF first
<1>7. first[0] = <<>> /\ \A i \in 1..N : first[i] = look(first[i - 1], i)
  <2>1. first[0] = <<>>
    BY <1>5
  <2>2. ASSUME NEW i \in 1..N PROVE first[i] = look(first[i - 1], i)
    <3>1. i \in 0..N /\ i # 0
      OBVIOUS
    <3> QED BY <1>5, <3>1
  <2> QED BY <2>1, <2>2
<1> DEFINE T == {i \in 0..N : first[i] \in S}
<1>8. 0 \in T
  <2>1. 0 \in 0..N /\ <<>> \in S
    OBVIOUS
  <2> QED BY <1>7, <2>1
<1>9. ASSUME NEW i \in 1..N, i - 1 \in T PROVE i \in T
  <2>1. look(first[i - 1], i) \in S
    BY <1>9
  <2> HIDE DEF look, S
  <2> QED BY <1>7, <1>9, <2>1
<1>10. \A i \in 0..N : i \in T
  <2> HIDE DEF T
  <2> QED BY <1>8, <1>9, Induction
<1>11. Sorted(mods, s, first)
  BY <1>6, <1>7 DEF Sorted
<1> QED BY <1>10, <1>11

LEMMA ForIn ==
  ASSUME NEW mods, NEW s, NEW E, Len(mods) \in Nat,
         \A k \in 1..Len(mods) : mods[k][1] = s => mods[k][2] \in E
  PROVE  For(mods, s) \in Seq(E)
<1>1. PICK first : Sorted(mods, s, first) /\ \A i \in 0..Len(mods) : first[i] \in Seq(E)
  BY ForLoop
<1> QED BY <1>1 DEF Sorted

LEMMA ForHas ==
  ASSUME NEW mods, NEW s, Len(mods) \in Nat, NEW k \in 1..Len(mods), mods[k][1] = s
  PROVE  Holds(For(mods, s), mods[k][2])
<1> DEFINE N == Len(mods)
           E == {mods[i][2] : i \in 1..N}
<1>1. PICK first : Sorted(mods, s, first) /\ \A i \in 0..N : first[i] \in Seq(E)
  <2>1. \A i \in 1..N : mods[i][2] \in E
    OBVIOUS
  <2> HIDE DEF E
  <2> QED BY <2>1, ForLoop
<1> DEFINE T == {i \in 0..N : i >= k => Holds(first[i], mods[k][2])}
<1>2. 0 \in T
  OBVIOUS
<1>3. ASSUME NEW i \in 1..N, i - 1 \in T PROVE i \in T
  <2>1. /\ first[i] = IF mods[i][1] = s THEN Append(first[i - 1], mods[i][2]) ELSE first[i - 1]
        /\ first[i - 1] \in Seq(E) /\ i - 1 \in 0..N
    BY <1>1 DEF Sorted
  <2> HIDE DEF E
  <2>2. ASSUME NEW x PROVE /\ Len(first[i - 1]) \in Nat
                           /\ Len(Append(first[i - 1], x)) = Len(first[i - 1]) + 1
                           /\ Append(first[i - 1], x)[Len(first[i - 1]) + 1] = x
                           /\ \A j \in 1..Len(first[i - 1]) : Append(first[i - 1], x)[j] = first[i - 1][j]
    BY <2>1
  <2>3. Holds(Append(first[i - 1], mods[i][2]), mods[i][2])
    <3>1. Len(first[i - 1]) + 1 \in 1..(Len(first[i - 1]) + 1)
      BY <2>2
    <3> QED BY <2>2, <3>1 DEF Holds
  <2>4. ASSUME Holds(first[i - 1], mods[k][2]) PROVE Holds(first[i], mods[k][2])
    <3>1. \A j \in 1..Len(first[i - 1]) : j \in 1..(Len(first[i - 1]) + 1)
      BY <2>2
    <3> QED BY <2>1, <2>2, <2>4, <3>1 DEF Holds
  <2>5. CASE i = k
    <3>1. mods[i][1] = s /\ mods[i][2] = mods[k][2]
      BY <2>5
    <3>2. first[i] = Append(first[i - 1], mods[i][2])
      BY <2>1, <3>1
    <3>3. Holds(first[i], mods[k][2])
      <4> HIDE DEF N, T
      <4> QED BY <2>3, <3>1, <3>2
    <3> QED BY <3>3
  <2>6. CASE i > k
    BY <1>3, <2>4, <2>6
  <2> QED BY <2>5, <2>6
<1>4. N \in T
  <2>1. N \in 0..N
    OBVIOUS
  <2> HIDE DEF T
  <2> QED BY <1>2, <1>3, <2>1, Induction
<1> QED BY <1>1, <1>4 DEF Sorted

\* A table has what it had before and the entries that are added to it; those do
\* not replace the static ones (StaticStays).
LEMMA AddedIn ==
  ASSUME NEW s, NEW table \in SUBSET EntriesOf(s), NEW new \in Seq(WrittenOf(s))
  PROVE  Added(table, new) \in SUBSET EntriesOf(s)
<1>1. \A k \in DOMAIN new : new[k] \in WrittenOf(s)
  OBVIOUS
<1> QED BY <1>1 DEF Added, EntriesOf

LEMMA StaticMatch ==
  ASSUME NEW s, NEW f \in StaticRules(s)
  PROVE  f.match.src = None /\ f.match.dst = None
BY DEF StaticRules, Within, Between, Entry, Fields

LEMMA WrittenMatch ==
  ASSUME NEW h \in Hosted, NEW s, NEW f, NEW q, WrittenFor(h, s, f, q)
  PROVE  f.match.src # None \/ f.match.dst # None
<1>1. h # None
  BY Identifiers DEF Hosted
<1> QED BY <1>1 DEF WrittenFor, Entry, Fields

LEMMA StaticStays ==
  ASSUME NEW s, NEW table, StaticRules(s) \subseteq table, NEW new \in Seq(WrittenOf(s))
  PROVE  StaticRules(s) \subseteq Added(table, new)
<1>1. ASSUME NEW f \in StaticRules(s), NEW k \in DOMAIN new PROVE new[k].match # f.match
  <2>1. new[k] \in WrittenOf(s)
    OBVIOUS
  <2>2. PICK h \in Hosted, q \in 1..7 : WrittenFor(h, s, new[k], q)
    BY <2>1 DEF WrittenOf
  <2> QED BY <2>2, StaticMatch, WrittenMatch
<1> QED BY <1>1 DEF Added

----------------------------------------------------------------------------
(* The invariant, and what each step does to it. *)

NetInv == IsNetwork(net) /\ live \subseteq net.switches

LearntInv == m_mac_to_port \in [net.switches -> [1..5 -> 1..7 \cup {None}]]

TablesInv ==
  /\ DOMAIN tables = net.switches /\ DOMAIN wire = net.switches
  /\ \A s \in net.switches : /\ tables[s] \in SUBSET EntriesOf(s) /\ wire[s] \in Seq(WrittenOf(s))
                             /\ s \in live => StaticRules(s) \subseteq tables[s]

IsSound(p) == /\ p \in PacketSet /\ p.at \in net.switches
              /\ p.src \in net.hosts /\ p.dst \in net.hosts \cup {Broadcast} /\ p.src # p.dst
              /\ ~p.late => p.at \in live
              /\ p.asked /\ ~p.late => \A f \in StaticRules(p.at) : ~Matches(f, p)

PacketsInv == \A p \in packets : IsSound(p) /\ Vouched(p)

ChainInv == NetInv /\ LearntInv /\ TablesInv /\ PacketsInv /\ NothingSkipsTheChain

LEMMA HostsHosted ==
  ASSUME NetInv
  PROVE  net.hosts \subseteq Hosted /\ net.switches \subseteq 1..5 /\ net.hosts \subseteq net.switches
BY DEF NetInv, IsNetwork, Hosted

LEMMA EdgeIs == IsEdge(Edge)
BY DEF IsEdge, Edge

\* Copies that are sent on in place of p.
LEMMA OnwardSound ==
  ASSUME NetInv, PacketsInv, NothingSkipsTheChain, UNCHANGED <<net, live>>, TablesInv',
         NEW p \in packets, ~p.late, NEW q, Retagged(p, q), NEW ports, Onward(p, q, ports),
         \A port \in ports : \A c : Moved(q, port, c) => Vouched(c),
         q.tags = <<>> /\ q.entered => Through(q.trail)
  PROVE  PacketsInv' /\ NothingSkipsTheChain'
<1>1. ASSUME NEW c \in packets' PROVE IsSound(c)' /\ Vouched(c)'
  <2>1. c \in packets \/ \E port \in ports : \E d \in Sent(q, port) : c = Arrived(d, tables'[d.at])
    BY DEF Onward
  <2>2. CASE c \in packets
    BY <2>2 DEF PacketsInv, IsSound, Vouched
  <2>3. ASSUME NEW port \in ports, NEW d \in Sent(q, port), c = Arrived(d, tables'[d.at])
        PROVE  IsSound(c)' /\ Vouched(c)'
    <3>1. Moved(q, port, c)
      BY <2>3, ArrivedIsMoved DEF Retagged
    <3>2. c.at \in live
      BY <3>1 DEF Moved, Retagged, PacketsInv, IsSound
    <3>3. c.at \in net.switches
      BY <3>2 DEF NetInv
    <3>4. c.asked => \A f \in StaticRules(c.at) : ~Matches(f, c)
      <4> SUFFICES ASSUME c.asked, NEW f \in StaticRules(c.at) PROVE ~Matches(f, c)
        OBVIOUS
      <4>1. d \in PacketSet
        BY SentIsMoved DEF Retagged, Moved
      <4>2. c.at = d.at
        BY <2>3, <4>1, ArrivedSame
      <4>3. f \in tables'[d.at]
        BY <3>2, <3>3, <4>2 DEF TablesInv
      <4> QED BY <2>3, <4>1, <4>3, ArrivedUnmatched
    <3>5. IsSound(c)
      BY <3>1, <3>2, <3>3, <3>4 DEF Moved, Retagged, PacketsInv, IsSound
    <3>6. Vouched(c)
      BY <3>1
    <3> QED BY <3>5, <3>6 DEF IsSound, Vouched
  <2> QED BY <2>1, <2>2, <2>3
<1>2. NothingSkipsTheChain'
  <2>1. inbox' = inbox \/ (inbox' = inbox \cup {q.trail} /\ q.entered /\ q.tags = <<>>)
    BY DEF Onward, Accepts
  <2> QED BY <2>1 DEF NothingSkipsTheChain
<1> QED BY <1>1, <1>2 DEF PacketsInv

LEMMA ForwardSound ==
  ASSUME ChainInv, UNCHANGED net, NEW p \in packets, Forward(p)
  PROVE  ChainInv'
<1>1. /\ UNCHANGED <<net, live, tables, wire, m_mac_to_port>> /\ ~p.late
      /\ NetInv /\ LearntInv /\ TablesInv /\ PacketsInv /\ NothingSkipsTheChain
  BY DEF Forward, ChainInv, discoVars, learntVars
<1>2. PICK f \in tables[p.at] : Matches(f, p) /\ Onward(p, Tagged(p, f.action), {f.out})
  BY DEF Forward
<1>3. p \in PacketSet /\ Vouched(p) /\ f \in EntriesOf(p.at)
  BY <1>1 DEF PacketsInv, IsSound, TablesInv
<1>4. HopVouched(p, f)
  BY <1>2, <1>3, EntryVouches
<1>5. TablesInv'
  BY <1>1 DEF TablesInv
<1>6. PacketsInv' /\ NothingSkipsTheChain'
  <2> DEFINE q == Tagged(p, f.action)
  <2>1. /\ Retagged(p, q) /\ (q.tags = <<>> /\ q.entered => Through(q.trail))
        /\ \A port \in {f.out} : \A c : Moved(q, port, c) => Vouched(c)
    BY <1>4 DEF HopVouched, Retagged
  <2> HIDE DEF q
  <2>2. Onward(p, q, {f.out})
    BY <1>2 DEF q
  <2> QED BY <1>1, <1>5, <2>1, <2>2, OnwardSound
<1> QED BY <1>1, <1>6, <1>5 DEF ChainInv, NetInv, LearntInv

LEMMA MissSound ==
  ASSUME NetInv, PacketsInv, NothingSkipsTheChain, UNCHANGED <<net, live>>, TablesInv',
         NEW p \in packets, p.asked,
         NEW ports, p.late => ports = {}, Onward(p, p, ports)
  PROVE  PacketsInv' /\ NothingSkipsTheChain'
<1>1. p \in PacketSet /\ Vouched(p) /\ p.at \in net.switches /\ (~p.late => p.at \in live)
  BY DEF PacketsInv, IsSound
<1>2. Retagged(p, p) /\ (p.tags = <<>> /\ p.entered => Through(p.trail))
  BY <1>1 DEF Retagged, Vouched
<1>3. CASE p.late
  <2>1. packets' = packets \ {p} /\ inbox' = inbox
    BY <1>3 DEF Onward
  <2> QED BY <2>1 DEF PacketsInv, IsSound, Vouched, NothingSkipsTheChain
<1>4. CASE ~p.late
  <2>1. \A f \in StaticRules(p.at) : ~Matches(f, p)
    BY <1>4 DEF PacketsInv, IsSound
  <2>2. \A port \in ports : \A c : Moved(p, port, c) => Vouched(c)
    BY <1>1, <2>1, MissVouches
  <2> QED BY <1>2, <1>4, <2>2, OnwardSound
<1> QED BY <1>3, <1>4

LEMMA SendIn ==
  ASSUME TablesInv, UNCHANGED <<net, live>>, NEW mods, NEW s, NEW lost, Send(mods, s, lost),
         \A t \in net.switches : For(mods, t) \in Seq(WrittenOf(t))
  PROVE  TablesInv'
<1>1. DOMAIN tables' = net.switches /\ DOMAIN wire' = net.switches
  BY DEF Send, TablesInv
<1>2. ASSUME NEW t \in net.switches
      PROVE  /\ tables'[t] \in SUBSET EntriesOf(t) /\ wire'[t] \in Seq(WrittenOf(t))
             /\ t \in live => StaticRules(t) \subseteq tables'[t]
  <2>1. For(mods, t) \in Seq(WrittenOf(t)) /\ wire[t] \in Seq(WrittenOf(t))
    BY DEF TablesInv
  <2>2. wire'[t] = wire[t] \/ wire'[t] = wire[t] \o For(mods, t)
    BY DEF Send, TablesInv
  <2>3. wire'[t] \in Seq(WrittenOf(t))
    <3> DEFINE S == WrittenOf(t)  a == wire[t]  b == For(mods, t)
    <3>1. a \in Seq(S) /\ b \in Seq(S)
      BY <2>1
    <3> HIDE DEF S, a, b
    <3>2. a \o b \in Seq(S)
      BY <3>1
    <3> QED BY <2>2, <3>1, <3>2 DEF S, a, b
  <2>4. tables'[t] = tables[t] \/ tables'[t] = Added(tables[t], For(mods, t))
    BY DEF Send, TablesInv
  <2>5. /\ tables'[t] \in SUBSET EntriesOf(t)
        /\ t \in live => StaticRules(t) \subseteq tables'[t]
    BY <2>1, <2>4, AddedIn, StaticStays DEF TablesInv
  <2> QED BY <2>3, <2>5
<1> QED BY <1>1, <1>2 DEF TablesInv

LEMMA WrittenForSwitch ==
  ASSUME NEW mods, NEW src \in Hosted, NEW dst \in Hosted, NEW ports,
         AreWritten(mods, src, dst, ports),
         \A h \in {src, dst} : ports[h] \in 1..7 \cup {None}, NEW t
  PROVE  For(mods, t) \in Seq(WrittenOf(t))
<1>1. ASSUME NEW k \in 1..Len(mods), mods[k][1] = t PROVE mods[k][2] \in WrittenOf(t)
  <2>1. PICK h \in {src, dst} : ports[h] # None /\ WrittenFor(h, t, mods[k][2], ports[h])
    BY <1>1 DEF AreWritten
  <2>2. h \in Hosted /\ ports[h] \in 1..7
    BY <2>1
  <2> QED BY <2>1, <2>2, WrittenIn
<1>2. Len(mods) \in Nat
  BY DEF AreWritten
<1> QED BY <1>1, <1>2, ForIn

LEMMA PacketInSound ==
  ASSUME ChainInv, UNCHANGED net, NEW p \in packets, _packet_in_handler(p)
  PROVE  ChainInv'
<1>1. /\ UNCHANGED <<net, live>>
      /\ NetInv /\ LearntInv /\ TablesInv /\ PacketsInv /\ NothingSkipsTheChain
  BY DEF _packet_in_handler, ChainInv, discoVars
<1>2. /\ p \in PacketSet /\ p.at \in net.switches /\ p.src \in net.hosts
      /\ p.dst \in net.hosts \cup {Broadcast} /\ p.src # p.dst /\ p.port \in 1..7
  BY <1>1 DEF PacketsInv, IsSound, PacketSet
<1>3. LearntInv'
  <2>1. m_mac_to_port' = [m_mac_to_port EXCEPT ![p.at] = [m_mac_to_port[p.at] EXCEPT ![p.src] = p.port]]
    BY DEF _packet_in_handler
  <2>2. p.src \in 1..5
    BY <1>2 DEF PacketSet, Hosted
  <2> QED BY <1>1, <1>2, <2>1, <2>2 DEF LearntInv
<1>4. p.asked
  BY DEF _packet_in_handler
<1>5. CASE UNCHANGED <<tables, wire>> /\ \E ports : (p.late => ports = {}) /\ Onward(p, p, ports)
  <2>1. TablesInv'
    BY <1>1, <1>5 DEF TablesInv
  <2>2. PacketsInv' /\ NothingSkipsTheChain'
    BY <1>1, <1>4, <1>5, <2>1, MissSound
  <2> QED BY <1>1, <1>3, <2>1, <2>2 DEF ChainInv, NetInv
<1>6. ASSUME p.dst = p.at, NEW out, p.late => out = {}, InstallsAndSends(p, out)
      PROVE  ChainInv'
  <2> DEFINE ports == [h \in DOMAIN m_mac_to_port' |-> m_mac_to_port'[h][h]]
             todo == ToSend(p.src, p.dst, ports)
  <2>1. CASE /\ UNCHANGED <<tables, wire>> /\ Onward(p, p, {})
    BY <2>1, <1>5
  <2>2. ASSUME NEW lost, Send(todo.mods, p.at, lost), Onward(p, p, IF todo.complete THEN out ELSE {})
        PROVE  ChainInv'
    <3>1. p.src \in Hosted /\ p.dst \in Hosted /\ p.src \in net.switches /\ p.dst \in net.switches
      BY <1>1, <1>2, <1>6, HostsHosted, Identifiers DEF Hosted
    <3>2. \A h \in {p.src, p.dst} : ports[h] \in 1..7 \cup {None}
      BY <1>1, <1>3, <3>1 DEF LearntInv, Hosted
    <3> HIDE DEF ports
    <3>3. AreWritten(todo.mods, p.src, p.dst, ports)
      BY <1>2, <3>1, EdgeIs, SentAreWritten
    <3> HIDE DEF todo
    <3>4. \A t \in net.switches : For(todo.mods, t) \in Seq(WrittenOf(t))
      BY <3>1, <3>2, <3>3, WrittenForSwitch
    <3>5. TablesInv'
      BY <1>1, <2>2, <3>4, SendIn
    <3>6. PacketsInv' /\ NothingSkipsTheChain'
      <4> DEFINE to == IF todo.complete THEN out ELSE {}
      <4>1. (p.late => to = {}) /\ Onward(p, p, to)
        BY <1>6, <2>2
      <4> HIDE DEF to
      <4> QED BY <1>1, <1>4, <3>5, <4>1, MissSound
    <3> QED BY <1>1, <1>3, <3>6, <3>5 DEF ChainInv, NetInv
  <2> QED BY <1>6, <2>1, <2>2 DEF InstallsAndSends
<1>7. \/ \E out : /\ p.dst = p.at /\ (p.late => out = {}) /\ InstallsAndSends(p, out)
      \/ UNCHANGED <<tables, wire>> /\ \E ports : (p.late => ports = {}) /\ Onward(p, p, ports)
  <2> DEFINE s == p.at
             learnt == [m_mac_to_port[s] EXCEPT ![p.src] = p.port]
             known == p.dst # Broadcast /\ learnt[p.dst] # None
             Out(ports) == IF p.late THEN {} ELSE ports
             way == CASE ~known -> Out(FloodPorts(s, p.port))
                      [] known /\ p.dst \in m_mac_to_dpid -> Out({learnt[p.dst]})
                      [] OTHER -> {}
  <2>1. CASE known /\ p.dst = s /\ p.dst \in m_mac_to_dpid
    <3>1. InstallsAndSends(p, Out({learnt[p.dst]}))
      BY <2>1 DEF _packet_in_handler
    <3>2. p.late => Out({learnt[p.dst]}) = {}
      OBVIOUS
    <3> HIDE DEF Out, learnt, known
    <3> QED BY <2>1, <3>1, <3>2
  <2>2. CASE ~(known /\ p.dst = s /\ p.dst \in m_mac_to_dpid)
    <3>1. Onward(p, p, way) /\ UNCHANGED <<tables, wire>>
      BY <2>2 DEF _packet_in_handler
    <3>2. p.late => way = {}
      OBVIOUS
    <3> HIDE DEF way, known
    <3> QED BY <3>1, <3>2
  <2> QED BY <2>1, <2>2
<1> QED BY <1>5, <1>6, <1>7

LEMMA InitSound == Init => ChainInv
<1> SUFFICES ASSUME Init PROVE ChainInv
  OBVIOUS
<1>1. NetInv
  BY NetworkAssumption DEF Init, NetInv
<1>2. LearntInv
  <2>1. NoKeys \in [1..5 -> 1..7 \cup {None}]
    BY DEF NoKeys
  <2> QED BY <2>1 DEF Init, LearntInv
<1>3. TablesInv
  <2>1. \A s \in net.switches : tables[s] = StaticRules(s) /\ wire[s] = <<>>
    BY DEF Init
  <2>2. \A s : <<>> \in Seq(WrittenOf(s))
    OBVIOUS
  <2>3. DOMAIN tables = net.switches /\ DOMAIN wire = net.switches
    BY DEF Init
  <2> QED BY <2>1, <2>2, <2>3 DEF TablesInv, EntriesOf
<1>4. PacketsInv /\ NothingSkipsTheChain
  BY DEF Init, PacketsInv, NothingSkipsTheChain
<1> QED BY <1>1, <1>2, <1>3, <1>4 DEF ChainInv

\* A handler of a topology event changes none of it but what is learnt.
LEMMA TopologySound ==
  ASSUME ChainInv, UNCHANGED net, Topology
  PROVE  ChainInv'
<1>1. UNCHANGED <<net, live, tables, wire, packets, inbox>>
  BY DEF Topology, update_topology_switchEnter, update_topology_switchLeave, SwitchLeaveFails,
         update_topology_linkAdd, update_topology_hostAdd, discoVars, dataVars
<1>2. \/ m_mac_to_port' = m_mac_to_port
      \/ \E s : m_mac_to_port' = [m_mac_to_port EXCEPT ![s] = NoKeys]
  BY DEF Topology, update_topology_switchEnter, update_topology_switchLeave, SwitchLeaveFails,
         update_topology_linkAdd, update_topology_hostAdd, learntVars
<1>3. LearntInv'
  <2>1. NoKeys \in [1..5 -> 1..7 \cup {None}]
    BY DEF NoKeys
  <2> QED BY <1>1, <1>2, <2>1 DEF LearntInv, ChainInv
<1>4. PacketsInv'
  BY <1>1 DEF ChainInv, PacketsInv, IsSound, Vouched
<1> QED BY <1>1, <1>3, <1>4 DEF ChainInv, NetInv, TablesInv, NothingSkipsTheChain

LEMMA StaysSound ==
  ASSUME ChainInv, UNCHANGED <<net, live, m_mac_to_port, tables, wire, packets, inbox>>
  PROVE  ChainInv'
<1>1. PacketsInv'
  BY DEF ChainInv, PacketsInv, IsSound, Vouched
<1> QED BY <1>1 DEF ChainInv, NetInv, LearntInv, TablesInv, NothingSkipsTheChain

LEMMA SwitchUpSound ==
  ASSUME ChainInv, UNCHANGED net, NEW s \in net.switches, SwitchUp(s)
  PROVE  ChainInv'
<1>1. /\ live' = live \cup {s} /\ tables' = [tables EXCEPT ![s] = StaticRules(s)]
      /\ UNCHANGED <<m_mac_to_port, wire, packets, inbox>>
  BY DEF SwitchUp, learntVars
<1>2. PacketsInv'
  BY <1>1 DEF ChainInv, PacketsInv, IsSound, Vouched
<1>3. TablesInv'
  BY <1>1 DEF ChainInv, TablesInv, EntriesOf
<1> QED BY <1>1, <1>2, <1>3 DEF ChainInv, NetInv, LearntInv, NothingSkipsTheChain

LEMMA SwitchDownSound ==
  ASSUME ChainInv, UNCHANGED net, NEW s \in net.switches, SwitchDown(s)
  PROVE  ChainInv'
<1>1. /\ live' = live \ {s} /\ tables' = [tables EXCEPT ![s] = {}]
      /\ wire' = [wire EXCEPT ![s] = <<>>]
      /\ UNCHANGED <<m_mac_to_port, inbox>>
  BY DEF SwitchDown, learntVars
<1>2. PacketsInv'
  <2>1. ASSUME NEW c \in packets'
        PROVE  (c \in packets /\ c.at # s) \/ \E p \in packets : c = [p EXCEPT !.late = TRUE]
    BY DEF SwitchDown
  <2>2. ASSUME NEW c \in packets, c.at # s PROVE IsSound(c)' /\ Vouched(c)'
    BY <1>1, <2>2 DEF ChainInv, PacketsInv, IsSound, Vouched
  <2>3. ASSUME NEW p \in packets, NEW c, c = [p EXCEPT !.late = TRUE] PROVE IsSound(c)' /\ Vouched(c)'
    <3>1. IsSound(p) /\ Vouched(p) /\ p \in PacketSet
      BY DEF ChainInv, PacketsInv, IsSound
    <3>2. /\ c \in PacketSet /\ c.late
          /\ c.src = p.src /\ c.dst = p.dst /\ c.at = p.at /\ c.port = p.port
          /\ c.tags = p.tags /\ c.trail = p.trail /\ c.entered = p.entered
      BY <2>3, <3>1 DEF PacketSet
    <3> QED BY <3>1, <3>2 DEF IsSound, Vouched
  <2> QED BY <2>1, <2>2, <2>3 DEF PacketsInv
<1>3. TablesInv'
  <2>1. DOMAIN tables' = net.switches /\ DOMAIN wire' = net.switches
    BY <1>1 DEF ChainInv, TablesInv
  <2>2. ASSUME NEW t \in net.switches
        PROVE  /\ tables'[t] \in SUBSET EntriesOf(t) /\ wire'[t] \in Seq(WrittenOf(t))
               /\ t \in live' => StaticRules(t) \subseteq tables'[t]
    <3>1. CASE t = s
      <4>1. tables'[t] = {} /\ wire'[t] = <<>> /\ t \notin live'
        BY <1>1, <3>1 DEF ChainInv, TablesInv
      <4>2. <<>> \in Seq(WrittenOf(t))
        OBVIOUS
      <4> QED BY <4>1, <4>2
    <3>2. CASE t # s
      BY <1>1, <3>2 DEF ChainInv, TablesInv
    <3> QED BY <3>1, <3>2
  <2> QED BY <2>1, <2>2 DEF TablesInv
<1> QED BY <1>1, <1>2, <1>3 DEF ChainInv, NetInv, LearntInv, NothingSkipsTheChain

LEMMA HostSendsSound ==
  ASSUME ChainInv, UNCHANGED net, NEW h \in net.hosts,
         NEW dst \in (net.hosts \cup {Broadcast}) \ {h}, HostSends(h, dst)
  PROVE  ChainInv'
<1> DEFINE c == [src |-> h, dst |-> dst, at |-> h, port |-> HostPort, tags |-> <<>>,
                 trail |-> <<>>, entered |-> FALSE, asked |-> FALSE, late |-> FALSE]
<1>1. /\ UNCHANGED <<live, m_mac_to_port, tables, wire, inbox>> /\ h \in live
      /\ packets' = packets \cup {Arrived(c, tables[h])}
  BY DEF HostSends, discoVars, learntVars
<1>2. c \in PacketSet
  <2>1. h \in Hosted /\ dst \in Hosted \cup {Broadcast} /\ h \in 1..5
    BY HostsHosted DEF ChainInv, Hosted
  <2>2. <<>> \in Seq(Ids) /\ <<>> \in Seq(1..3) /\ HostPort \in 1..7
    BY Identifiers
  <2> QED BY <2>1, <2>2 DEF PacketSet
<1>3. IsSound(Arrived(c, tables[h])) /\ Vouched(Arrived(c, tables[h]))
  <2> DEFINE a == Arrived(c, tables[h])
  <2>1. /\ a \in PacketSet /\ a.src = h /\ a.dst = dst /\ a.at = h
        /\ ~a.late /\ ~a.entered /\ a.tags = <<>>
    BY <1>2, ArrivedSame
  <2>2. h \in net.switches /\ StaticRules(h) \subseteq tables[h]
    BY <1>1, HostsHosted DEF ChainInv, TablesInv
  <2>3. a.asked => \A f \in StaticRules(h) : ~Matches(f, a)
    BY <1>2, <2>2, ArrivedUnmatched
  <2> HIDE DEF a
  <2>4. IsSound(a) /\ Vouched(a)
    BY <1>1, <2>1, <2>2, <2>3 DEF IsSound, Vouched
  <2> QED BY <2>4 DEF a
<1>4. PacketsInv'
  BY <1>1, <1>3 DEF ChainInv, PacketsInv, IsSound, Vouched
<1> QED BY <1>1, <1>4 DEF ChainInv, NetInv, LearntInv, TablesInv, NothingSkipsTheChain

LEMMA DeliverSound ==
  ASSUME ChainInv, UNCHANGED net, NEW s \in net.switches, Deliver(s)
  PROVE  ChainInv'
<1>1. /\ wire[s] # <<>> /\ UNCHANGED <<live, m_mac_to_port, packets, inbox>>
      /\ tables' = [tables EXCEPT ![s] = Added(tables[s], <<Head(wire[s])>>)]
      /\ wire' = [wire EXCEPT ![s] = Tail(wire[s])]
  BY DEF Deliver, discoVars, learntVars
<1>2. <<Head(wire[s])>> \in Seq(WrittenOf(s)) /\ Tail(wire[s]) \in Seq(WrittenOf(s))
  <2>1. wire[s] \in Seq(WrittenOf(s))
    BY DEF ChainInv, TablesInv
  <2> QED BY <1>1, <2>1
<1>3. /\ Added(tables[s], <<Head(wire[s])>>) \in SUBSET EntriesOf(s)
      /\ s \in live => StaticRules(s) \subseteq Added(tables[s], <<Head(wire[s])>>)
  BY <1>2, AddedIn, StaticStays DEF ChainInv, TablesInv
<1>4. TablesInv'
  BY <1>1, <1>2, <1>3 DEF ChainInv, TablesInv
<1>5. PacketsInv'
  BY <1>1 DEF ChainInv, PacketsInv, IsSound, Vouched
<1> QED BY <1>1, <1>4, <1>5 DEF ChainInv, NetInv, LearntInv, NothingSkipsTheChain

LEMMA NextSound == ChainInv /\ [Next]_vars => ChainInv'
<1> SUFFICES ASSUME ChainInv, [Next]_vars PROVE ChainInv'
  OBVIOUS
<1>1. CASE UNCHANGED vars
  BY <1>1, StaysSound DEF vars, discoVars, learntVars, dataVars
<1>2. CASE Topology /\ UNCHANGED net
  BY <1>2, TopologySound
<1>3. CASE Transit /\ UNCHANGED net
  BY <1>3, ForwardSound, PacketInSound DEF Transit
<1>4. CASE Network /\ UNCHANGED net
  <2>1. ASSUME NEW s \in net.switches, SwitchUp(s) \/ SwitchDown(s) \/ Deliver(s) PROVE ChainInv'
    BY <1>4, <2>1, SwitchUpSound, SwitchDownSound, DeliverSound
  <2>2. ASSUME NEW s, NEW t, LinkSeen(s, t) PROVE ChainInv'
    BY <1>4, <2>2, StaysSound DEF LinkSeen, learntVars, dataVars
  <2>3. ASSUME NEW h, HostSeen(h) PROVE ChainInv'
    BY <1>4, <2>3, StaysSound DEF HostSeen, learntVars, dataVars
  <2>4. ASSUME NEW h \in net.hosts, NEW dst \in (net.hosts \cup {Broadcast}) \ {h}, HostSends(h, dst)
        PROVE  ChainInv'
    BY <1>4, <2>4, HostSendsSound
  <2> QED BY <1>4, <2>1, <2>2, <2>3, <2>4 DEF Network
<1> QED BY <1>1, <1>2, <1>3, <1>4 DEF Next

\* A packet that was given a tag reaches a host without one only after M1, M3 and M2,
\* in every network and for any number of hosts, packets and restarts: the entries
\* of switch_features_handler and install_flow_rules together see to it, and neither
\* rules that are lost, late or written for the wrong port nor a packet that the
\* controller sends on itself can undo it.
THEOREM NothingSkips == Spec => []NothingSkipsTheChain
<1>1. ChainInv => NothingSkipsTheChain
  BY DEF ChainInv
<1> QED BY InitSound, NextSound, <1>1, PTL DEF Spec

----------------------------------------------------------------------------
(* The types of the controller's variables. *)

Events ==
  {[type |-> "enter"], [type |-> "leave"]}
  \cup {[type |-> "link", src |-> l[1], dst |-> l[2]] :
           l \in {k \in (1..5) \X (1..5) : Cabled(k[1], k[2])}}
  \cup {[type |-> "host", dpid |-> h] : h \in 1..5}

LinksInv == \A s \in DOMAIN edges : \A t \in edges[s] : t \in 1..5 /\ Cabled(s, t)

SavedInv == /\ DOMAIN edges \subseteq net.switches /\ DOMAIN hosts = DOMAIN edges
            /\ \A s \in DOMAIN hosts : hosts[s] \subseteq {s} \cap m_mac_to_dpid
            /\ m_mac_to_dpid \subseteq seen /\ seen \subseteq net.hosts

TreeInv == \A s \in DOMAIN m_treeLinks : m_treeLinks[s] \subseteq DOMAIN m_treeLinks

\* A switch that has come back had gone before.
LivesInv == /\ switches \subseteq {<<s, n>> : s \in net.switches, n \in 0..net.maxDowns}
            /\ downs \in 0..net.maxDowns /\ DOMAIN life = net.switches
            /\ \A s \in net.switches : /\ life[s] \in Nat /\ life[s] <= downs
                                       /\ s \notin live => life[s] < downs

GraphInv == LinksInv /\ SavedInv /\ TreeInv /\ LivesInv /\ events \in Seq(Events)

LEMMA ReportIn ==
  ASSUME events \in Seq(Events), NEW e \in Events, Report(e)
  PROVE  events' \in Seq(Events)
BY DEF Report

LEMMA HandlesIn ==
  ASSUME events \in Seq(Events), NEW type, Handles(type)
  PROVE  /\ events' \in Seq(Events)
         /\ Head(events) \in Events /\ Head(events).type = type
BY DEF Handles

LEMMA LinkEvent ==
  ASSUME NEW e \in Events, e.type = "link"
  PROVE  e.src \in 1..5 /\ e.dst \in 1..5 /\ Cabled(e.src, e.dst) /\ Cabled(e.dst, e.src)
<1>1. PICK l \in (1..5) \X (1..5) :
        e = [type |-> "link", src |-> l[1], dst |-> l[2]] /\ Cabled(l[1], l[2])
  BY DEF Events
<1>2. e.src = l[1] /\ e.dst = l[2] /\ l[1] \in 1..5 /\ l[2] \in 1..5
  BY <1>1
<1>3. Cabled(l[2], l[1])
  BY <1>1, <1>2, CabledNeighbours DEF Neighbours
<1> QED BY <1>1, <1>2, <1>3

\* The tree is computed for known switches.
LEMMA RecomputeTree ==
  ASSUME NetInv, TreeInv, NEW order \in Orders, Recompute(order),
         switches' \subseteq {<<s, n>> : s \in net.switches, n \in 0..net.maxDowns}
  PROVE  TreeInv'
<1> DEFINE nodes == {dp[1] : dp \in switches'}
<1>1. CASE switches' = {}
  BY <1>1 DEF Recompute, TreeInv
<1>2. CASE switches' # {}
  <2>1. nodes \in SUBSET Switches /\ nodes # {}
    BY <1>2, HostsHosted, ChainAssumption
  <2>2. m_treeLinks' = prim_spanningTree(nodes, edges', order)
    BY <1>2 DEF Recompute
  <2> HIDE DEF nodes
  <2>3. m_treeLinks' \in [nodes -> SUBSET nodes]
    BY <2>1, <2>2, SearchBuildsForest
  <2> QED BY <2>3 DEF TreeInv
<1> QED BY <1>1, <1>2

LEMMA InitGraph == Init => GraphInv
<1> SUFFICES ASSUME Init PROVE GraphInv
  OBVIOUS
<1>1. IsNetwork(net) /\ net.switches \subseteq 1..5
  BY NetworkAssumption DEF Init, IsNetwork
<1>2. LinksInv
  BY <1>1 DEF Init, LinksInv
<1>3. SavedInv
  BY <1>1 DEF Init, SavedInv, IsNetwork
<1>4. TreeInv
  BY DEF Init, TreeInv
<1>5. LivesInv
  <2>1. net.maxDowns \in Nat
    BY <1>1 DEF IsNetwork
  <2> QED BY <2>1 DEF Init, LivesInv
<1>6. events \in Seq(Events)
  BY DEF Init
<1> QED BY <1>2, <1>3, <1>4, <1>5, <1>6 DEF GraphInv

LEMMA EnterGraph ==
  ASSUME GraphInv, NetInv, UNCHANGED net, update_topology_switchEnter
  PROVE  GraphInv'
<1>1. /\ UNCHANGED <<m_treeLinks, m_mac_to_dpid, live, life, seen, downs>> /\ Handles("enter")
      /\ switches' = switches \cup {<<s, life[s]>> : s \in live}
      /\ edges' = [s \in DOMAIN edges \cup live |-> IF s \in DOMAIN edges THEN edges[s] ELSE {}]
      /\ hosts' = [s \in DOMAIN edges \cup live |-> IF s \in DOMAIN edges THEN hosts[s] ELSE {}]
  BY DEF update_topology_switchEnter, learntVars, discoVars
<1>2. LinksInv'
  BY <1>1 DEF GraphInv, LinksInv
<1>3. SavedInv'
  BY <1>1 DEF GraphInv, SavedInv, NetInv
<1>4. LivesInv'
  <2>1. \A s \in live : s \in net.switches /\ life[s] \in 0..net.maxDowns
    <3>1. net.maxDowns \in Nat
      BY DEF NetInv, IsNetwork
    <3> QED BY <3>1 DEF GraphInv, LivesInv, NetInv
  <2> QED BY <1>1, <2>1 DEF GraphInv, LivesInv
<1>5. events' \in Seq(Events)
  BY <1>1, HandlesIn DEF GraphInv
<1> QED BY <1>1, <1>2, <1>3, <1>4, <1>5 DEF GraphInv, TreeInv

LEMMA LeaveGraph ==
  ASSUME GraphInv, NetInv, UNCHANGED net, update_topology_switchLeave \/ SwitchLeaveFails
  PROVE  GraphInv'
<1>1. CASE SwitchLeaveFails
  <2>1. /\ UNCHANGED <<edges, hosts, m_treeLinks, m_mac_to_dpid, live, life, seen, downs>>
        /\ Handles("leave") /\ switches' \subseteq switches
    BY <1>1 DEF SwitchLeaveFails, learntVars, discoVars
  <2>2. events' \in Seq(Events)
    BY <2>1, HandlesIn DEF GraphInv
  <2> QED BY <2>1, <2>2 DEF GraphInv, LinksInv, SavedInv, TreeInv, LivesInv
<1>2. CASE update_topology_switchLeave
  <2>1. PICK order \in Orders :
          /\ Handles("leave") /\ Recompute(order)
          /\ \E dp \in switches :
               /\ switches' = switches \ {dp}
               /\ edges' = [s \in DOMAIN edges \ {dp[1]} |-> edges[s] \ {dp[1]}]
               /\ hosts' = [s \in DOMAIN edges \ {dp[1]} |-> hosts[s]]
          /\ UNCHANGED <<m_mac_to_dpid, live, life, seen, downs>>
    BY <1>2 DEF update_topology_switchLeave, discoVars
  <2>2. PICK dp \in switches :
          /\ switches' = switches \ {dp}
          /\ edges' = [s \in DOMAIN edges \ {dp[1]} |-> edges[s] \ {dp[1]}]
          /\ hosts' = [s \in DOMAIN edges \ {dp[1]} |-> hosts[s]]
    BY <2>1
  <2>3. LinksInv'
    BY <2>2 DEF GraphInv, LinksInv
  <2>4. SavedInv'
    BY <2>1, <2>2 DEF GraphInv, SavedInv
  <2>5. LivesInv'
    BY <2>1, <2>2 DEF GraphInv, LivesInv
  <2>6. TreeInv'
    <3>1. switches' \subseteq {<<s, n>> : s \in net.switches, n \in 0..net.maxDowns}
      BY <2>2 DEF GraphInv, LivesInv
    <3> QED BY <2>1, <3>1, RecomputeTree DEF GraphInv
  <2>7. events' \in Seq(Events)
    BY <2>1, HandlesIn DEF GraphInv
  <2> QED BY <2>3, <2>4, <2>5, <2>6, <2>7 DEF GraphInv
<1> QED BY <1>1, <1>2

LEMMA LinkGraph ==
  ASSUME GraphInv, NetInv, UNCHANGED net, update_topology_linkAdd
  PROVE  GraphInv'
<1> DEFINE src == Head(events).src
           dst == Head(events).dst
           known == src \in DOMAIN edges
           Gets(s) == CASE s = src -> {dst}
                        [] s = dst /\ known -> {src}
                        [] OTHER -> {}
<1>1. PICK order \in Orders :
        /\ Handles("link")
        /\ edges' = [s \in DOMAIN edges |-> edges[s] \cup Gets(s)]
        /\ \/ switches' = switches /\ Recompute(order)
           \/ UNCHANGED <<switches, m_treeLinks>>
        /\ UNCHANGED <<hosts, m_mac_to_dpid, live, life, seen, downs>>
  BY DEF update_topology_linkAdd, learntVars, discoVars
<1>2. /\ events' \in Seq(Events) /\ src \in 1..5 /\ dst \in 1..5
      /\ Cabled(src, dst) /\ Cabled(dst, src)
  BY <1>1, HandlesIn, LinkEvent DEF GraphInv
<1>3. LinksInv'
  BY <1>1, <1>2 DEF GraphInv, LinksInv
<1>4. SavedInv'
  BY <1>1 DEF GraphInv, SavedInv
<1>5. LivesInv'
  BY <1>1 DEF GraphInv, LivesInv
<1>6. TreeInv'
  <2>1. CASE UNCHANGED <<switches, m_treeLinks>>
    BY <2>1 DEF GraphInv, TreeInv
  <2>2. CASE switches' = switches /\ Recompute(order)
    <3>1. switches' \subseteq {<<s, n>> : s \in net.switches, n \in 0..net.maxDowns}
      BY <2>2 DEF GraphInv, LivesInv
    <3> QED BY <2>2, <3>1, RecomputeTree DEF GraphInv
  <2> QED BY <1>1, <2>1, <2>2
<1> QED BY <1>2, <1>3, <1>4, <1>5, <1>6 DEF GraphInv

LEMMA HostGraph ==
  ASSUME GraphInv, NetInv, UNCHANGED net, update_topology_hostAdd
  PROVE  GraphInv'
<1> DEFINE dpid == Head(events).dpid
           known == dpid \in DOMAIN edges
<1>1. PICK order \in Orders, saved \in SUBSET ({dpid} \cap seen) :
        /\ Handles("host")
        /\ hosts' = [s \in DOMAIN edges |-> IF s = dpid THEN hosts[s] \cup saved ELSE hosts[s]]
        /\ m_mac_to_dpid' = IF known THEN m_mac_to_dpid \cup saved ELSE m_mac_to_dpid
        /\ edges' = edges /\ switches' = switches
        /\ Recompute(order) \/ m_treeLinks' = m_treeLinks
        /\ UNCHANGED <<live, life, seen, downs>>
  <2>1. PICK order \in Orders, stranger \in BOOLEAN :
          \E saved \in IF stranger THEN {{dpid} \cap seen, {}} ELSE {{dpid} \cap seen} :
            /\ Handles("host")
            /\ hosts' = [s \in DOMAIN edges |-> IF s = dpid THEN hosts[s] \cup saved ELSE hosts[s]]
            /\ m_mac_to_dpid' = IF known THEN m_mac_to_dpid \cup saved ELSE m_mac_to_dpid
            /\ edges' = edges /\ switches' = switches
            /\ Recompute(order) \/ m_treeLinks' = m_treeLinks
            /\ UNCHANGED <<live, life, seen, downs>>
    BY DEF update_topology_hostAdd, discoVars
  <2> QED BY <2>1
<1>2. events' \in Seq(Events)
  BY <1>1, HandlesIn DEF GraphInv
<1>3. SavedInv'
  BY <1>1 DEF GraphInv, SavedInv
<1>4. LivesInv' /\ LinksInv'
  BY <1>1 DEF GraphInv, LivesInv, LinksInv
<1>5. TreeInv'
  <2>1. CASE m_treeLinks' = m_treeLinks
    BY <2>1 DEF GraphInv, TreeInv
  <2>2. CASE Recompute(order)
    <3>1. switches' \subseteq {<<s, n>> : s \in net.switches, n \in 0..net.maxDowns}
      BY <1>1 DEF GraphInv, LivesInv
    <3> QED BY <2>2, <3>1, RecomputeTree DEF GraphInv
  <2> QED BY <1>1, <2>1, <2>2
<1> QED BY <1>2, <1>3, <1>4, <1>5 DEF GraphInv

LEMMA DiscoveryGraph ==
  ASSUME GraphInv, NetInv, UNCHANGED net,
         \/ \E s \in net.switches : SwitchUp(s) \/ SwitchDown(s)
         \/ \E s, t \in net.switches : LinkSeen(s, t)
         \/ \E h \in net.hosts : HostSeen(h)
  PROVE  GraphInv'
<1>1. UNCHANGED <<switches, edges, hosts, m_treeLinks, m_mac_to_dpid>>
  BY DEF SwitchUp, SwitchDown, LinkSeen, HostSeen, graphVars, learntVars
<1>2. net.switches \subseteq 1..5 /\ net.hosts \subseteq 1..5 /\ net.maxDowns \in Nat
  <2>1. net.hosts \subseteq net.switches /\ net.switches \subseteq 1..5
    BY HostsHosted
  <2> QED BY <2>1 DEF NetInv, IsNetwork
<1>3. /\ events' \in Seq(Events) /\ seen \subseteq seen' /\ seen' \subseteq net.hosts
      /\ \/ UNCHANGED <<live, life, downs>>
         \/ \E s \in net.switches \ live :
              /\ live' = live \cup {s} /\ life' = [life EXCEPT ![s] = @ + 1] /\ downs' = downs
         \/ \E s \in live : /\ live' = live \ {s} /\ life' = life
                            /\ downs' = downs + 1 /\ downs < net.maxDowns
  <2>1. ASSUME NEW s \in net.switches, SwitchUp(s) PROVE <1>3!:
    <3>1. [type |-> "enter"] \in Events
      BY DEF Events
    <3> QED BY <2>1, <3>1, ReportIn DEF SwitchUp, GraphInv, SavedInv
  <2>2. ASSUME NEW s \in net.switches, SwitchDown(s) PROVE <1>3!:
    <3>1. [type |-> "leave"] \in Events
      BY DEF Events
    <3> QED BY <2>2, <3>1, ReportIn DEF SwitchDown, GraphInv, SavedInv
  <2>3. ASSUME NEW s, NEW t, LinkSeen(s, t) PROVE <1>3!:
    <3>1. s \in 1..5 /\ t \in 1..5 /\ Cabled(s, t)
      BY <2>3, <1>2 DEF LinkSeen, Cabling
    <3>2. [type |-> "link", src |-> s, dst |-> t] \in Events
      <4>1. <<s, t>> \in {k \in (1..5) \X (1..5) : Cabled(k[1], k[2])}
        BY <3>1
      <4> QED BY <4>1 DEF Events
    <3> QED BY <2>3, <3>2, ReportIn DEF LinkSeen, GraphInv, SavedInv
  <2>4. ASSUME NEW h \in net.hosts, HostSeen(h) PROVE <1>3!:
    <3>1. [type |-> "host", dpid |-> h] \in Events
      BY <1>2 DEF Events
    <3> QED BY <2>4, <3>1, ReportIn DEF HostSeen, GraphInv, SavedInv
  <2> QED BY <2>1, <2>2, <2>3, <2>4
<1>4. LivesInv'
  BY <1>1, <1>2, <1>3 DEF GraphInv, LivesInv
<1>5. SavedInv'
  BY <1>1, <1>3 DEF GraphInv, SavedInv
<1> QED BY <1>1, <1>3, <1>4, <1>5 DEF GraphInv, LinksInv, TreeInv

LEMMA NextGraph == GraphInv /\ NetInv /\ [Next]_vars => GraphInv'
<1> SUFFICES ASSUME GraphInv, NetInv, [Next]_vars PROVE GraphInv'
  OBVIOUS
<1>1. ASSUME UNCHANGED <<net, switches, edges, hosts, m_treeLinks, m_mac_to_dpid, live, life,
                         seen, downs, events>>
      PROVE  GraphInv'
  BY <1>1 DEF GraphInv, LinksInv, SavedInv, TreeInv, LivesInv
<1>2. CASE UNCHANGED vars
  BY <1>1, <1>2 DEF vars, graphVars, learntVars, discoVars
<1>3. CASE Topology /\ UNCHANGED net
  BY <1>3, EnterGraph, LeaveGraph, LinkGraph, HostGraph DEF Topology
<1>4. CASE Transit /\ UNCHANGED net
  BY <1>1, <1>4 DEF Transit, Forward, _packet_in_handler, graphVars, learntVars, discoVars
<1>5. CASE Network /\ UNCHANGED net
  <2>1. ASSUME NEW s \in net.switches, Deliver(s) PROVE GraphInv'
    BY <1>1, <1>5, <2>1 DEF Deliver, graphVars, learntVars, discoVars
  <2>2. ASSUME NEW h, NEW dst, HostSends(h, dst) PROVE GraphInv'
    BY <1>1, <1>5, <2>2 DEF HostSends, graphVars, learntVars, discoVars
  <2> QED BY <1>5, <2>1, <2>2, DiscoveryGraph DEF Network
<1> QED BY <1>2, <1>3, <1>4, <1>5 DEF Next

LEMMA TypesFollow ==
  ASSUME GraphInv, ChainInv
  PROVE  TypeOK
<1>1. \A p \in packets : IsPacket(p)
  BY DEF ChainInv, PacketsInv, IsSound, PacketSet, IsPacket, Ids, Middleboxes
<1> QED BY <1>1 DEF TypeOK, GraphInv, LinksInv, SavedInv, TreeInv, LivesInv, ChainInv, LearntInv, NetInv

\* Every variable keeps its type: in particular the handlers add only links that
\* exist and hosts that were seen, no datapath object is newer than the last
\* restart, and the tree names no switch that it does not hold.
THEOREM TypesAreKept == Spec => []TypeOK
<1>1. Init => GraphInv /\ ChainInv
  BY InitGraph, InitSound
<1>2. GraphInv /\ ChainInv /\ [Next]_vars => (GraphInv /\ ChainInv)'
  BY NextGraph, NextSound DEF ChainInv
<1>3. GraphInv /\ ChainInv => TypeOK
  BY TypesFollow
<1> QED BY <1>1, <1>2, <1>3, PTL DEF Spec

----------------------------------------------------------------------------
(* As long as no tagged packet has come to the controller, it knows the    *)
(* hosts by the right ports, and a packet is at one of few places.         *)

\* Switch s has host h behind port q.
Toward(s, h, q) ==
  <<s, h, q>> \in {<<1, 1, 1>>, <<2, 1, 1>>, <<3, 1, 2>>, <<4, 1, 2>>, <<5, 1, 2>>,
                  <<1, 3, 2>>, <<2, 3, 2>>, <<3, 3, 1>>, <<4, 3, 2>>, <<5, 3, 2>>,
                  <<1, 4, 2>>, <<2, 4, 2>>, <<3, 4, 5>>, <<4, 4, 1>>, <<5, 4, 2>>,
                  <<1, 5, 7>>, <<2, 5, 1>>, <<3, 5, 2>>, <<4, 5, 2>>, <<5, 5, 1>>}

LEMMA AwayFromHost ==
  ASSUME NEW s, NEW h, NEW q, Toward(s, h, q), NEW port, NEW t, NEW r,
         port # q, Cable(s, port, t, r)
  PROVE  Toward(t, h, r)
BY DEF Toward, Cable

LEMMA TowardPorts ==
  ASSUME NEW s, NEW h, NEW q, Toward(s, h, q)
  PROVE  /\ s \in 1..5 /\ h \in Hosted /\ q \in 1..7
         /\ s = h => q = 1
         /\ \A r, m : ~Box(s, q, r, m)
BY DEF Toward, Box, Hosted

\* Where a packet whose only tag is v may be, and what it has passed by then.
InPlace(v, src, dst, at, port, trail) ==
  \/ /\ v = APPLY_SERVICE_CHAIN /\ trail = <<>>
     /\ <<src, at, port>> \in {<<3, 2, 2>>, <<3, 1, 2>>, <<3, 4, 2>>,
                              <<4, 3, 5>>, <<4, 2, 2>>, <<4, 1, 2>>, <<5, 1, 7>>}
  \/ v = MB1 /\ at = 1 /\ port = 4 /\ trail = <<1>>
  \/ v = TUNNEL /\ <<at, port>> \in {<<2, 1>>, <<3, 2>>} /\ trail = <<1>>
  \/ v = TUNNEL /\ <<at, port>> \in {<<2, 2>>, <<1, 2>>} /\ trail = <<1, 3>>
  \/ v = MB2 /\ at = 3 /\ port = 4 /\ trail = <<1, 3>>
  \/ v = MB3 /\ at = 1 /\ port = 6 /\ trail = <<1, 3, 2>>
  \/ /\ v = POLICY_COMPLETE /\ trail = <<1, 3, 2>>
     /\ <<dst, at, port>> \in {<<3, 2, 1>>, <<3, 3, 2>>,
                              <<4, 2, 1>>, <<4, 3, 2>>, <<4, 4, 2>>, <<5, 5, 2>>}

\* Before it enters the chain a packet has not been tagged, and goes away from its host.
Outside(p) == /\ p.tags = <<>> /\ ~p.entered /\ p.trail = <<>>
              /\ Toward(p.at, p.src, p.port)

Inside(p) == \E v \in Ids : p.tags = <<v>> /\ InPlace(v, p.src, p.dst, p.at, p.port, p.trail)

\* The entries that are written while that holds.
RightFor(s, f) == \E h \in Hosted : WrittenFor(h, s, f, HostPort)
IsRight(s, f) == f \in StaticRules(s) \/ RightFor(s, f)

\* What such an entry does to a packet that is inside: its action, and where to.
Does(v, at, port, dst) ==
  CASE v = APPLY_SERVICE_CHAIN /\ at = 2 -> <<Keep, 1>>
    [] v = APPLY_SERVICE_CHAIN /\ at = 3 -> <<Keep, 2>>
    [] v = APPLY_SERVICE_CHAIN /\ at = 1 -> <<Set(MB1), 3>>
    [] v = MB1 -> <<Set(TUNNEL), 2>>
    [] v = TUNNEL /\ at = 2 -> <<Keep, IF port = 1 THEN 2 ELSE 1>>
    [] v = TUNNEL /\ at = 3 -> <<Set(MB2), 3>>
    [] v = TUNNEL /\ at = 1 -> <<Set(MB3), 5>>
    [] v = MB2 -> <<Set(TUNNEL), 2>>
    [] v = MB3 /\ dst = 1 -> <<Pop, 1>>
    [] v = MB3 /\ dst \in {3, 4} -> <<Set(POLICY_COMPLETE), 2>>
    [] v = MB3 /\ dst = 5 -> <<Set(POLICY_COMPLETE), 7>>
    [] v = POLICY_COMPLETE /\ at = dst -> <<Pop, 1>>
    [] v = POLICY_COMPLETE /\ at = 2 -> <<Keep, 2>>
    [] v = POLICY_COMPLETE /\ at = 3 /\ dst = 4 -> <<Keep, 5>>

LEMMA InsideStatic ==
  ASSUME NEW p \in PacketSet, NEW v \in Ids, p.tags = <<v>>,
         InPlace(v, p.src, p.dst, p.at, p.port, p.trail), NEW f \in StaticRules(p.at), Matches(f, p)
  PROVE  /\ <<v, p.at>> \in {<<7, 2>>, <<1, 1>>, <<4, 2>>, <<4, 3>>, <<4, 1>>, <<2, 3>>, <<5, 2>>}
         /\ <<f.action, f.out>> = Does(v, p.at, p.port, p.dst)
<1>1. Head(p.tags) = v /\ p.tags # <<>>
  OBVIOUS
<1>2. CASE p.at = 2
  <2>1. \/ p.port = 1 /\ f.action = Keep /\ f.out = 2
        \/ p.port = 2 /\ f.action = Keep /\ f.out = 1
    BY <1>2, Identifiers DEF StaticRules, Between, Entry, Fields, Matches
  <2>2. (v = 7 /\ p.port = 2) \/ v = 4 \/ (v = 5 /\ p.port = 1 /\ p.dst # 2)
    BY <1>2, Identifiers DEF InPlace
  <2>3. v = 4 => p.port \in {1, 2}
    BY <1>2, Identifiers DEF InPlace
  <2> QED BY <1>2, <2>1, <2>2, <2>3, Identifiers DEF Does
<1>3. CASE p.at = 1
  <2>1. \/ v = MB1 /\ f.action = Set(TUNNEL) /\ f.out = 2
        \/ v = TUNNEL /\ f.action = Set(MB3) /\ f.out = 5
    BY <1>1, <1>3, Identifiers DEF StaticRules, Within, Entry, Fields, Matches
  <2> QED BY <1>3, <2>1, Identifiers DEF Does
<1>4. CASE p.at = 3
  <2>1. \/ v = TUNNEL /\ f.action = Set(MB2) /\ f.out = 3
        \/ v = MB2 /\ f.action = Set(TUNNEL) /\ f.out = 2
    BY <1>1, <1>4, Identifiers DEF StaticRules, Within, Entry, Fields, Matches
  <2> QED BY <1>4, <2>1, Identifiers DEF Does
<1>5. p.at \in {1, 2, 3}
  BY DEF StaticRules
<1> QED BY <1>2, <1>3, <1>4, <1>5

LEMMA InsideWritten ==
  ASSUME NEW p \in PacketSet, NEW v \in Ids, p.tags = <<v>>, p.src # p.dst,
         InPlace(v, p.src, p.dst, p.at, p.port, p.trail),
         NEW h \in Hosted, NEW f, WrittenFor(h, p.at, f, HostPort), Matches(f, p)
  PROVE  /\ <<v, p.at>> \in {<<7, 2>>, <<7, 3>>, <<7, 1>>, <<3, 1>>, <<5, 2>>, <<5, 3>>, <<5, 4>>, <<5, 5>>}
         /\ <<f.action, f.out>> = Does(v, p.at, p.port, p.dst)
         /\ v = 3 => p.dst \in Hosted
<1>1. Head(p.tags) = v /\ p.tags # <<>> /\ v \in 1..7 /\ h \in {1, 3, 4, 5} /\ h # None
  BY Identifiers DEF Hosted, Ids
<1>2. CASE /\ p.at = h
           /\ f = Entry(Fields(None, h, None, IF h = 1 THEN MB3 ELSE POLICY_COMPLETE), Pop, HostPort)
  <2>1. /\ f.action = Pop /\ f.out = 1 /\ p.dst = h
        /\ v = IF h = 1 THEN MB3 ELSE POLICY_COMPLETE
    BY <1>1, <1>2, Identifiers DEF Entry, Fields, Matches
  <2>2. CASE h = 1
    BY <1>2, <2>1, <2>2, Identifiers DEF Does
  <2>3. CASE h # 1
    BY <1>1, <1>2, <2>1, <2>3, Identifiers DEF Does
  <2> QED BY <2>2, <2>3
<1>3. ASSUME p.at = h, NEW out \in Doors(h),
             f = Entry(Fields(h, None, HostPort, None),
                       Push(IF h = 1 THEN MB1 ELSE APPLY_SERVICE_CHAIN), out)
      PROVE  FALSE
  <2>1. p.src = h /\ p.port = 1
    BY <1>1, <1>3, Identifiers DEF Entry, Fields, Matches
  <2> QED BY <2>1, <1>1, <1>3, Identifiers DEF InPlace
<1>4. ASSUME NEW out \in {1, 2}, <<p.at, h, out>> \in {<<3, 4, 2>>, <<2, 4, 1>>, <<2, 3, 1>>},
             f = Entry(Fields(h, None, None, APPLY_SERVICE_CHAIN), Keep, out)
      PROVE  /\ <<v, p.at>> \in {<<7, 2>>, <<7, 3>>}
             /\ <<f.action, f.out>> = Does(v, p.at, p.port, p.dst)
  <2>1. v = 7 /\ f.action = Keep /\ f.out = out
    BY <1>1, <1>4, Identifiers DEF Entry, Fields, Matches
  <2> QED BY <1>4, <2>1, Identifiers DEF Does
<1>5. ASSUME NEW out \in {2, 5}, <<p.at, h, out>> \in {<<3, 4, 5>>, <<2, 4, 2>>, <<2, 3, 2>>},
             f = Entry(Fields(None, h, None, POLICY_COMPLETE), Keep, out)
      PROVE  /\ <<v, p.at>> \in {<<5, 2>>, <<5, 3>>}
             /\ <<f.action, f.out>> = Does(v, p.at, p.port, p.dst)
  <2>1. v = 5 /\ f.action = Keep /\ f.out = out /\ p.dst = h
    BY <1>1, <1>5, Identifiers DEF Entry, Fields, Matches
  <2> QED BY <1>5, <2>1, Identifiers DEF Does
<1>6. ASSUME p.at = 1, h # 1, f = Entry(Fields(h, None, None, APPLY_SERVICE_CHAIN), Set(MB1), 3)
      PROVE  v = 7 /\ <<f.action, f.out>> = Does(v, p.at, p.port, p.dst)
  <2>1. v = 7 /\ f.action = Set(MB1) /\ f.out = 3
    BY <1>1, <1>6, Identifiers DEF Entry, Fields, Matches
  <2> QED BY <1>6, <2>1, Identifiers DEF Does
<1>7. ASSUME NEW out \in {2, 7}, p.at = 1, <<h, out>> \in {<<3, 2>>, <<4, 2>>, <<5, 7>>},
             f = Entry(Fields(None, h, None, MB3), Set(POLICY_COMPLETE), out)
      PROVE  /\ v = 3 /\ p.dst \in Hosted
             /\ <<f.action, f.out>> = Does(v, p.at, p.port, p.dst)
  <2>1. v = 3 /\ f.action = Set(POLICY_COMPLETE) /\ f.out = out /\ p.dst = h
    BY <1>1, <1>7, Identifiers DEF Entry, Fields, Matches
  <2> QED BY <1>7, <2>1, Identifiers DEF Does
<1> QED
  BY <1>2, <1>3, <1>4, <1>5, <1>6, <1>7 DEF WrittenFor

LEMMA OneTag ==
  ASSUME NEW p \in PacketSet, NEW v \in Ids, p.tags = <<v>>
  PROVE  /\ \A w \in Ids : /\ Retagged(p, Tagged(p, Set(w)))
                           /\ Tagged(p, Set(w)).tags = <<w>>
         /\ Retagged(p, Tagged(p, Pop)) /\ Tagged(p, Pop).tags = <<>>
         /\ Retagged(p, Tagged(p, Keep)) /\ Tagged(p, Keep).tags = <<v>>
<1>1. p.tags # <<>> /\ Tail(p.tags) = <<>>
  OBVIOUS
<1>2. \A w : <<w>> \o <<>> = <<w>>
  OBVIOUS
<1>3. Retagged(p, p)
  BY DEF Retagged
<1> QED BY <1>1, <1>2, <1>3, TagSet, TagPopped, TagKept

LEMMA Trails ==
  Append(<<>>, 1) = <<1>> /\ Append(<<1>>, 3) = <<1, 3>> /\ Append(<<1, 3>>, 2) = <<1, 3, 2>>
<1>1. /\ Append(<<>>, 1) \in Seq(1..3) /\ Len(Append(<<>>, 1)) = 1 /\ Append(<<>>, 1)[1] = 1
  OBVIOUS
<1>2. /\ Append(<<1>>, 3) \in Seq(1..3) /\ Len(Append(<<1>>, 3)) = 2
      /\ Append(<<1>>, 3)[1] = 1 /\ Append(<<1>>, 3)[2] = 3
  OBVIOUS
<1>3. /\ Append(<<1, 3>>, 2) \in Seq(1..3) /\ Len(Append(<<1, 3>>, 2)) = 3
      /\ Append(<<1, 3>>, 2)[1] = 1 /\ Append(<<1, 3>>, 2)[2] = 3 /\ Append(<<1, 3>>, 2)[3] = 2
  OBVIOUS
<1>4. ASSUME NEW s \in Seq(1..3)
      PROVE  /\ Len(s) = 1 /\ s[1] = 1 => s = <<1>>
             /\ Len(s) = 2 /\ s[1] = 1 /\ s[2] = 3 => s = <<1, 3>>
             /\ Len(s) = 3 /\ s[1] = 1 /\ s[2] = 3 /\ s[3] = 2 => s = <<1, 3, 2>>
  OBVIOUS
<1> QED BY <1>1, <1>2, <1>3, <1>4

\* A packet with the one tag w, sent out of the port of a switch.
LEMMA OnInside ==
  ASSUME NEW p \in PacketSet, NEW q, Retagged(p, q), NEW w \in Ids, q.tags = <<w>>,
         NEW out, NEW c, Moved(q, out, c),
         \A t, r : Cable(p.at, out, t, r) => InPlace(w, p.src, p.dst, t, r, p.trail),
         \A r, m : Box(p.at, out, r, m) => InPlace(w, p.src, p.dst, p.at, r, Append(p.trail, m))
  PROVE  Inside(c)
<1>1. /\ c.tags = <<w>> /\ c.src = p.src /\ c.dst = p.dst
      /\ q.at = p.at /\ q.trail = p.trail
  BY DEF Moved, Retagged
<1>2. InPlace(w, p.src, p.dst, c.at, c.port, c.trail)
  BY <1>1 DEF Moved
<1> QED BY <1>1, <1>2 DEF Inside

\* The entries of a switch, while the ports are right: what they do to one packet.
HopPlaced(p, f) ==
  /\ Retagged(p, Tagged(p, f.action))
  /\ Tagged(p, f.action).tags = <<>> =>
       ~Tagged(p, f.action).entered \/ p.trail = <<1, 3, 2>>
  /\ \A c : Moved(Tagged(p, f.action), f.out, c) => Outside(c) \/ Inside(c)

LEMMA InsideHop ==
  ASSUME NEW p \in PacketSet, Inside(p), p.src # p.dst, NEW f, IsRight(p.at, f), Matches(f, p)
  PROVE  HopPlaced(p, f)
<1>1. PICK v \in Ids : p.tags = <<v>> /\ InPlace(v, p.src, p.dst, p.at, p.port, p.trail)
  BY DEF Inside
<1>2. /\ v = 3 => p.dst \in {1, 3, 4, 5}
      /\ <<v, p.at>> \in {<<7, 2>>, <<7, 3>>, <<7, 1>>, <<1, 1>>, <<4, 2>>, <<4, 3>>, <<4, 1>>,
                        <<2, 3>>, <<3, 1>>, <<5, 2>>, <<5, 3>>, <<5, 4>>, <<5, 5>>}
      /\ <<f.action, f.out>> = Does(v, p.at, p.port, p.dst)
  BY <1>1, InsideStatic, InsideWritten DEF IsRight, RightFor, Hosted
<1> DEFINE Ok(w, out) ==
      /\ \A t, r : Cable(p.at, out, t, r) => InPlace(w, p.src, p.dst, t, r, p.trail)
      /\ \A r, m : Box(p.at, out, r, m) => InPlace(w, p.src, p.dst, p.at, r, Append(p.trail, m))
<1>3. ASSUME NEW w \in Ids, NEW a, NEW out, f.action = a, f.out = out, Ok(w, out),
             a = Set(w) \/ (a = Keep /\ w = v)
      PROVE  HopPlaced(p, f)
  <2>1. Retagged(p, Tagged(p, a)) /\ Tagged(p, a).tags = <<w>>
    BY <1>1, <1>3, OneTag
  <2>2. ASSUME NEW c, Moved(Tagged(p, a), out, c) PROVE Inside(c)
    <3> DEFINE q == Tagged(p, a)
    <3>1. Retagged(p, q) /\ q.tags = <<w>> /\ Moved(q, out, c)
      BY <2>1, <2>2
    <3> HIDE DEF q
    <3> QED BY <3>1, <1>3, OnInside
  <2> QED BY <1>3, <2>1, <2>2 DEF HopPlaced
<1>4. ASSUME f.action = Pop, f.out = 1, p.trail = <<1, 3, 2>>, p.at \in {1, 3, 4, 5}
      PROVE  HopPlaced(p, f)
  <2>1. Retagged(p, Tagged(p, Pop))
    BY <1>1, OneTag
  <2>2. ASSUME NEW c, Moved(Tagged(p, Pop), 1, c) PROVE FALSE
    BY <1>4, <2>1, <2>2 DEF Moved, Retagged, Cable, Box
  <2> QED BY <1>4, <2>1, <2>2 DEF HopPlaced
<1>5. CASE v = 7
  <2>1. p.at = 2 => f.action = Keep /\ f.out = 1 /\ Ok(7, 1)
    BY <1>1, <1>2, <1>5, Identifiers DEF Does, InPlace, Cable, Box
  <2>2. p.at = 3 => f.action = Keep /\ f.out = 2 /\ Ok(7, 2)
    BY <1>1, <1>2, <1>5, Identifiers DEF Does, InPlace, Cable, Box
  <2>3. p.at = 1 => f.action = Set(MB1) /\ f.out = 3 /\ Ok(MB1, 3)
    <3>1. p.at = 1 => f.action = Set(MB1) /\ f.out = 3 /\ p.trail = <<>>
      BY <1>1, <1>2, <1>5, Identifiers DEF Does, InPlace
    <3>2. \A t, r, m : ~Cable(1, 3, t, r) /\ (Box(1, 3, r, m) => r = 4 /\ m = 1)
      BY DEF Cable, Box
    <3>3. InPlace(MB1, p.src, p.dst, 1, 4, Append(<<>>, 1))
      BY Trails, Identifiers DEF InPlace
    <3> QED BY <3>1, <3>2, <3>3
  <2>4. p.at \in {1, 2, 3}
    BY <1>2, <1>5
  <2> HIDE DEF Ok
  <2> QED BY <2>1, <2>2, <2>3, <2>4, <1>3, <1>5, IdsIn
<1>6. CASE v = 1
  <2>1. f.action = Set(TUNNEL) /\ f.out = 2 /\ Ok(TUNNEL, 2)
    BY <1>1, <1>2, <1>6, Identifiers DEF Does, InPlace, Cable, Box
  <2> HIDE DEF Ok
  <2> QED BY <2>1, <1>3, IdsIn
<1>7. CASE v = 4
  <2>1. p.at = 2 => f.action = Keep /\ Ok(4, f.out)
    BY <1>1, <1>2, <1>7, Identifiers DEF Does, InPlace, Cable, Box
  <2>2. p.at = 3 => f.action = Set(MB2) /\ f.out = 3 /\ Ok(MB2, 3)
    <3>1. p.at = 3 => f.action = Set(MB2) /\ f.out = 3 /\ p.trail = <<1>>
      BY <1>1, <1>2, <1>7, Identifiers DEF Does, InPlace
    <3>2. \A t, r, m : ~Cable(3, 3, t, r) /\ (Box(3, 3, r, m) => r = 4 /\ m = 3)
      BY DEF Cable, Box
    <3>3. InPlace(MB2, p.src, p.dst, 3, 4, Append(<<1>>, 3))
      BY Trails, Identifiers DEF InPlace
    <3> QED BY <3>1, <3>2, <3>3
  <2>3. p.at = 1 => f.action = Set(MB3) /\ f.out = 5 /\ Ok(MB3, 5)
    <3>1. p.at = 1 => f.action = Set(MB3) /\ f.out = 5 /\ p.trail = <<1, 3>>
      BY <1>1, <1>2, <1>7, Identifiers DEF Does, InPlace
    <3>2. \A t, r, m : ~Cable(1, 5, t, r) /\ (Box(1, 5, r, m) => r = 6 /\ m = 2)
      BY DEF Cable, Box
    <3>3. InPlace(MB3, p.src, p.dst, 1, 6, Append(<<1, 3>>, 2))
      BY Trails, Identifiers DEF InPlace
    <3> QED BY <3>1, <3>2, <3>3
  <2>4. p.at \in {1, 2, 3}
    BY <1>2, <1>7
  <2> HIDE DEF Ok
  <2> QED BY <2>1, <2>2, <2>3, <2>4, <1>3, <1>7, IdsIn
<1>8. CASE v = 2
  <2>1. f.action = Set(TUNNEL) /\ f.out = 2 /\ Ok(TUNNEL, 2)
    BY <1>1, <1>2, <1>8, Identifiers DEF Does, InPlace, Cable, Box
  <2> HIDE DEF Ok
  <2> QED BY <2>1, <1>3, IdsIn
<1>9. CASE v = 3
  <2>1. p.dst \in {1, 3, 4, 5}
    BY <1>2, <1>9
  <2>2. p.dst = 1 => f.action = Pop /\ f.out = 1 /\ p.trail = <<1, 3, 2>> /\ p.at = 1
    BY <1>1, <1>2, <1>9, Identifiers DEF Does, InPlace
  <2>3. p.dst # 1 => f.action = Set(POLICY_COMPLETE) /\ Ok(POLICY_COMPLETE, f.out)
    BY <1>1, <1>2, <1>9, <2>1, Identifiers DEF Does, InPlace, Cable, Box
  <2> HIDE DEF Ok
  <2> QED BY <2>1, <2>2, <2>3, <1>3, <1>4, IdsIn
<1>10. CASE v = 5
  <2>1. p.at = p.dst => f.action = Pop /\ f.out = 1 /\ p.trail = <<1, 3, 2>> /\ p.at \in {1, 3, 4, 5}
    BY <1>1, <1>2, <1>10, Identifiers DEF Does, InPlace
  <2>2. p.at # p.dst => f.action = Keep /\ Ok(5, f.out)
    BY <1>1, <1>2, <1>10, Identifiers DEF Does, InPlace, Cable, Box
  <2> HIDE DEF Ok
  <2> QED BY <2>1, <2>2, <1>3, <1>4, <1>10, IdsIn
<1> QED BY <1>2, <1>5, <1>6, <1>7, <1>8, <1>9, <1>10

LEMMA OutsideEntries ==
  ASSUME NEW p \in PacketSet, Outside(p), NEW f, IsRight(p.at, f), Matches(f, p)
  PROVE  \/ p.at = 2 /\ f.action = Keep /\ f.out = IF p.port = 1 THEN 2 ELSE 1
         \/ /\ p.at = p.src /\ p.src \in Hosted /\ f.match = Fields(p.src, None, HostPort, None)
            /\ f.out \in Doors(p.src)
            /\ f.action = Push(IF p.src = 1 THEN MB1 ELSE APPLY_SERVICE_CHAIN)
<1>1. p.tags = <<>> /\ f.match.vid = None
  BY DEF Outside, Matches
<1>2. CASE f \in StaticRules(p.at)
  <2>1. p.at = 2
    BY <1>1, <1>2, Identifiers DEF StaticRules, Within, Between, Entry, Fields
  <2> QED BY <1>2, <2>1, Identifiers DEF StaticRules, Between, Entry, Fields, Matches
<1>3. ASSUME NEW h \in Hosted, WrittenFor(h, p.at, f, HostPort)
      PROVE  /\ p.at = h /\ p.src = h /\ f.match = Fields(h, None, HostPort, None)
             /\ f.out \in Doors(h) /\ f.action = Push(IF h = 1 THEN MB1 ELSE APPLY_SERVICE_CHAIN)
  <2>1. h # None
    BY Identifiers DEF Hosted
  <2>2. p.at = h /\ \E out \in Doors(h) :
          f = Entry(Fields(h, None, HostPort, None),
                    Push(IF h = 1 THEN MB1 ELSE APPLY_SERVICE_CHAIN), out)
    BY <1>1, <1>3, Identifiers DEF WrittenFor, Entry, Fields
  <2> QED BY <2>1, <2>2 DEF Entry, Fields, Matches
<1> QED BY <1>2, <1>3 DEF IsRight, RightFor

\* An untagged packet that is sent on as it is, through any port but one to a middlebox.
LEMMA OnOutside ==
  ASSUME NEW p \in PacketSet, Outside(p), NEW port, \A r, m : ~Box(p.at, port, r, m),
         NEW c, Moved(p, port, c)
  PROVE  Outside(c)
<1>1. /\ Cable(p.at, port, c.at, c.port) /\ port # p.port /\ c.trail = p.trail
      /\ c.tags = p.tags /\ c.entered = p.entered /\ c.src = p.src
  BY DEF Moved
<1>2. Toward(c.at, c.src, c.port)
  BY <1>1, AwayFromHost DEF Outside
<1> QED BY <1>1, <1>2 DEF Outside

LEMMA OutsideHop ==
  ASSUME NEW p \in PacketSet, Outside(p), NEW f, IsRight(p.at, f), Matches(f, p)
  PROVE  HopPlaced(p, f)
<1>1. CASE p.at = 2 /\ f.action = Keep /\ f.out = IF p.port = 1 THEN 2 ELSE 1
  <2>1. Tagged(p, f.action) = p /\ Retagged(p, p)
    BY <1>1, TagKept DEF Retagged
  <2>2. \A r, m : ~Box(p.at, f.out, r, m)
    BY <1>1 DEF Box
  <2>3. ASSUME NEW c, Moved(p, f.out, c) PROVE Outside(c)
    BY <2>2, <2>3, OnOutside
  <2> QED BY <2>1, <2>3 DEF HopPlaced, Outside
<1>2. CASE /\ p.at = p.src /\ p.src \in Hosted /\ f.out \in Doors(p.src)
           /\ f.action = Push(IF p.src = 1 THEN MB1 ELSE APPLY_SERVICE_CHAIN)
  <2> DEFINE v == IF p.src = 1 THEN MB1 ELSE APPLY_SERVICE_CHAIN
             q == Tagged(p, Push(v))
  <2>1. v \in Ids /\ f.action = Push(v)
    BY <1>2, IdsIn
  <2>2. Retagged(p, q) /\ q.tags = <<v>>
    <3> HIDE DEF v
    <3>1. <<v>> \o <<>> = <<v>> /\ p.tags = <<>>
      BY DEF Outside
    <3> QED BY <2>1, <3>1, TagPushed
  <2>3. /\ \A t, r : Cable(p.at, f.out, t, r) => InPlace(v, p.src, p.dst, t, r, p.trail)
        /\ \A r, m : Box(p.at, f.out, r, m) => InPlace(v, p.src, p.dst, p.at, r, Append(p.trail, m))
    <3>1. CASE p.src = 1
      <4>1. v = MB1 /\ f.out = 3 /\ p.at = 1 /\ p.trail = <<>>
        BY <1>2, <3>1 DEF Doors, Outside
      <4>2. \A t, r, m : ~Cable(1, 3, t, r) /\ (Box(1, 3, r, m) => r = 4 /\ m = 1)
        BY DEF Cable, Box
      <4>3. InPlace(MB1, p.src, p.dst, 1, 4, Append(<<>>, 1))
        BY Trails, Identifiers DEF InPlace
      <4> HIDE DEF v
      <4> QED BY <4>1, <4>2, <4>3
    <3>2. CASE p.src # 1
      <4>1. v = APPLY_SERVICE_CHAIN /\ p.trail = <<>> /\ p.at = p.src
            /\ <<p.src, f.out>> \in {<<3, 2>>, <<3, 5>>, <<4, 2>>, <<5, 2>>}
        BY <1>2, <3>2 DEF Doors, Outside, Hosted
      <4> HIDE DEF v
      <4>2. ASSUME NEW t, NEW r, Cable(p.at, f.out, t, r)
            PROVE  InPlace(v, p.src, p.dst, t, r, p.trail)
        BY <4>1, <4>2, Identifiers DEF InPlace, Cable
      <4>3. \A r, m : ~Box(p.at, f.out, r, m)
        BY <4>1 DEF Box
      <4> QED BY <4>2, <4>3
    <3> QED BY <3>1, <3>2
  <2> HIDE DEF v, q
  <2>4. ASSUME NEW c, Moved(q, f.out, c) PROVE Inside(c)
    BY <2>1, <2>2, <2>3, <2>4, OnInside
  <2>5. q.tags # <<>>
    BY <2>2
  <2> QED BY <2>1, <2>2, <2>4, <2>5 DEF HopPlaced, q
<1> QED BY <1>1, <1>2, OutsideEntries

----------------------------------------------------------------------------
(* That holds from the start, and stays. *)

LearntRight == \A s \in net.switches : \A h \in 1..5 :
                 m_mac_to_port[s][h] # None => Toward(s, h, m_mac_to_port[s][h])

RightOf(s) == {f \in WrittenOf(s) : RightFor(s, f)}

EntriesRight == \A s \in net.switches : /\ tables[s] \subseteq StaticRules(s) \cup RightOf(s)
                                         /\ wire[s] \in Seq(RightOf(s))

Placed == \A p \in packets : Outside(p) \/ Inside(p)

\* A table has one entry with a match.
SoleMatches == \A s \in net.switches : \A f, g \in tables[s] : f.match = g.match => f = g

InOrder == inbox \subseteq {<<1, 3, 2>>}

RightInv == LearntRight /\ EntriesRight /\ Placed /\ InOrder

OrderInv == ~strayed => RightInv

LEMMA SoleAdded ==
  ASSUME NEW table, NEW new, NEW n \in Nat, DOMAIN new = 1..n,
         \A f, g \in table : f.match = g.match => f = g
  PROVE  \A f, g \in Added(table, new) : f.match = g.match => f = g
<1> SUFFICES ASSUME NEW f \in Added(table, new), NEW g \in Added(table, new), f.match = g.match
             PROVE  f = g
  OBVIOUS
<1> DEFINE Old(x) == x \in table /\ \A k \in 1..n : new[k].match # x.match
           Newest(x, k) == x = new[k] /\ \A j \in 1..n : j > k => new[j].match # new[k].match
<1>1. \A x \in {f, g} : Old(x) \/ \E k \in 1..n : Newest(x, k)
  BY DEF Added
<1>2. CASE Old(f) /\ Old(g)
  BY <1>2
<1>3. ASSUME NEW k \in 1..n, Newest(f, k), Old(g) PROVE FALSE
  BY <1>3
<1>4. ASSUME NEW k \in 1..n, Newest(g, k), Old(f) PROVE FALSE
  BY <1>4
<1>5. ASSUME NEW k \in 1..n, NEW j \in 1..n, Newest(f, k), Newest(g, j) PROVE f = g
  <2>1. ~(j > k) /\ ~(k > j)
    BY <1>5
  <2>2. j = k
    BY <2>1
  <2> QED BY <2>2, <1>5
<1> HIDE DEF Old, Newest
<1> QED BY <1>1, <1>2, <1>3, <1>4, <1>5

LEMMA SoleStatic ==
  ASSUME NEW s, NEW f \in StaticRules(s), NEW g \in StaticRules(s), f.match = g.match
  PROVE  f = g
<1>1. CASE s = 1
  BY <1>1, Identifiers DEF StaticRules, Within, Entry, Fields
<1>2. CASE s = 2
  BY <1>2, Identifiers DEF StaticRules, Between, Entry, Fields
<1>3. CASE s = 3
  BY <1>3, Identifiers DEF StaticRules, Within, Entry, Fields
<1>4. s \in {1, 2, 3}
  BY DEF StaticRules
<1> QED BY <1>1, <1>2, <1>3, <1>4

LEMMA RightAdded ==
  ASSUME NEW s, NEW table, table \subseteq StaticRules(s) \cup RightOf(s), NEW new \in Seq(RightOf(s))
  PROVE  Added(table, new) \subseteq StaticRules(s) \cup RightOf(s)
<1>1. \A k \in DOMAIN new : new[k] \in RightOf(s)
  OBVIOUS
<1> QED BY <1>1 DEF Added

LEMMA IsRightIn ==
  ASSUME EntriesRight, NEW s \in net.switches, NEW f \in tables[s]
  PROVE  IsRight(s, f)
BY DEF EntriesRight, RightOf, IsRight

LEMMA OnwardPlaced ==
  ASSUME Placed, InOrder, NEW p \in packets, p \in PacketSet, NEW q, Retagged(p, q),
         NEW ports, Onward(p, q, ports),
         \A port \in ports : \A c : Moved(q, port, c) => Outside(c) \/ Inside(c),
         q.tags = <<>> => ~q.entered \/ q.trail = <<1, 3, 2>>
  PROVE  Placed' /\ InOrder'
<1>1. ASSUME NEW c \in packets' PROVE Outside(c) \/ Inside(c)
  <2>1. c \in packets \/ \E port \in ports : \E d \in Sent(q, port) : c = Arrived(d, tables'[d.at])
    BY DEF Onward
  <2>2. ASSUME NEW port \in ports, NEW d \in Sent(q, port), c = Arrived(d, tables'[d.at])
        PROVE  Moved(q, port, c)
    BY <2>2, ArrivedIsMoved DEF Retagged
  <2> QED BY <2>1, <2>2 DEF Placed
<1>2. InOrder'
  <2>1. inbox' = inbox \/ (inbox' = inbox \cup {q.trail} /\ q.entered /\ q.tags = <<>>)
    BY DEF Onward, Accepts
  <2> QED BY <2>1 DEF InOrder
<1> QED BY <1>1, <1>2 DEF Placed

LEMMA ForwardOrder ==
  ASSUME ChainInv, RightInv, UNCHANGED net, NEW p \in packets, Forward(p)
  PROVE  RightInv'
<1>1. PICK f \in tables[p.at] : Matches(f, p) /\ Onward(p, Tagged(p, f.action), {f.out})
  BY DEF Forward
<1>2. p \in PacketSet /\ p.at \in net.switches /\ p.src # p.dst /\ (Outside(p) \/ Inside(p))
  BY DEF ChainInv, PacketsInv, IsSound, RightInv, Placed
<1>3. IsRight(p.at, f)
  BY <1>2, IsRightIn DEF RightInv
<1>4. HopPlaced(p, f)
  BY <1>1, <1>2, <1>3, InsideHop, OutsideHop
<1>5. Placed' /\ InOrder'
  <2> DEFINE q == Tagged(p, f.action)
  <2>1. /\ Retagged(p, q) /\ (q.tags = <<>> => ~q.entered \/ q.trail = <<1, 3, 2>>)
        /\ \A port \in {f.out} : \A c : Moved(q, port, c) => Outside(c) \/ Inside(c)
    BY <1>4 DEF HopPlaced, Retagged
  <2>2. Onward(p, q, {f.out})
    BY <1>1
  <2> HIDE DEF q
  <2> QED BY <1>2, <2>1, <2>2, OnwardPlaced DEF RightInv
<1>6. UNCHANGED <<tables, wire, m_mac_to_port>>
  BY DEF Forward, learntVars
<1> QED BY <1>5, <1>6 DEF RightInv, LearntRight, EntriesRight

\* The controller sends to other switches and to hosts, never into a middlebox.
LEMMA FloodsPast ==
  ASSUME GraphInv, NetInv, NEW s \in 1..5, NEW in_port, NEW port \in FloodPorts(s, in_port)
  PROVE  \A r, m : ~Box(s, port, r, m)
<1>1. CASE port = HostPort
  BY <1>1, Identifiers DEF Box
<1>2. ASSUME NEW t \in edges[s], s \in DOMAIN edges, port = PortTo(s, t)
      PROVE  \A r, m : ~Box(s, port, r, m)
  <2>1. t \in 1..5 /\ Cabled(s, t)
    BY <1>2 DEF GraphInv, LinksInv
  <2>2. PICK q \in 1..7, r \in 1..7 : Cable(s, q, t, r)
    BY <2>1, CabledPairs
  <2>3. port = q
    BY <1>2, <2>2, PortOfCable
  <2> QED BY <2>2, <2>3 DEF Cable, Box
<1> QED BY <1>1, <1>2 DEF FloodPorts

LEMMA SendRight ==
  ASSUME EntriesRight, TablesInv, UNCHANGED net, NEW mods, NEW s, NEW lost, Send(mods, s, lost),
         \A t \in net.switches : For(mods, t) \in Seq(RightOf(t))
  PROVE  EntriesRight'
<1>1. ASSUME NEW t \in net.switches
      PROVE  /\ tables'[t] \subseteq StaticRules(t) \cup RightOf(t)
             /\ wire'[t] \in Seq(RightOf(t))
  <2>1. For(mods, t) \in Seq(RightOf(t)) /\ wire[t] \in Seq(RightOf(t))
    BY DEF EntriesRight
  <2>2. wire'[t] = wire[t] \/ wire'[t] = wire[t] \o For(mods, t)
    BY DEF Send, TablesInv
  <2>3. wire'[t] \in Seq(RightOf(t))
    <3> DEFINE S == RightOf(t)  a == wire[t]  b == For(mods, t)
    <3>1. a \in Seq(S) /\ b \in Seq(S)
      BY <2>1
    <3> HIDE DEF S, a, b
    <3>2. a \o b \in Seq(S)
      BY <3>1
    <3> QED BY <2>2, <3>1, <3>2 DEF S, a, b
  <2>4. tables'[t] = tables[t] \/ tables'[t] = Added(tables[t], For(mods, t))
    BY DEF Send, TablesInv
  <2>5. tables'[t] \subseteq StaticRules(t) \cup RightOf(t)
    BY <2>1, <2>4, RightAdded DEF EntriesRight
  <2> QED BY <2>3, <2>5
<1> QED BY <1>1 DEF EntriesRight

LEMMA RightForSwitch ==
  ASSUME NEW mods, NEW src \in Hosted, NEW dst \in Hosted, NEW ports,
         AreWritten(mods, src, dst, ports),
         \A h \in {src, dst} : ports[h] \in {None, HostPort}, NEW t
  PROVE  For(mods, t) \in Seq(RightOf(t))
<1>1. ASSUME NEW k \in 1..Len(mods), mods[k][1] = t PROVE mods[k][2] \in RightOf(t)
  <2>1. PICK h \in {src, dst} : ports[h] # None /\ WrittenFor(h, t, mods[k][2], ports[h])
    BY <1>1 DEF AreWritten
  <2>2. h \in Hosted /\ ports[h] = HostPort /\ HostPort \in 1..7
    BY <2>1, Identifiers
  <2>3. mods[k][2] \in WrittenOf(t)
    BY <2>1, <2>2, WrittenIn
  <2> QED BY <2>1, <2>2, <2>3 DEF RightOf, RightFor
<1>2. Len(mods) \in Nat
  BY DEF AreWritten
<1> QED BY <1>1, <1>2, ForIn

LEMMA PacketInOrder ==
  ASSUME ChainInv, GraphInv, RightInv, UNCHANGED net, NEW p \in packets, _packet_in_handler(p),
         ~strayed'
  PROVE  RightInv'
<1>1. /\ p \in PacketSet /\ p.at \in net.switches /\ p.src \in Hosted /\ p.dst \in Hosted \cup {Broadcast}
      /\ p.src # p.dst /\ p.at \in 1..5 /\ p.src \in 1..5 /\ net.hosts \subseteq net.switches
      /\ p.src \in net.hosts /\ p.dst \in net.hosts \cup {Broadcast}
  BY HostsHosted DEF ChainInv, PacketsInv, IsSound, PacketSet, Hosted
<1>2. Outside(p)
  <2>1. p.tags = <<>>
    BY DEF _packet_in_handler
  <2> QED BY <2>1 DEF RightInv, Placed, Inside
<1> DEFINE s == p.at
           learnt == [m_mac_to_port[s] EXCEPT ![p.src] = p.port]
           known == p.dst # Broadcast /\ learnt[p.dst] # None
           Out(ports) == IF p.late THEN {} ELSE ports
           way == CASE ~known -> Out(FloodPorts(s, p.port))
                    [] known /\ p.dst \in m_mac_to_dpid -> Out({learnt[p.dst]})
                    [] OTHER -> {}
<1>3. m_mac_to_port' = [m_mac_to_port EXCEPT ![s] = learnt]
  BY DEF _packet_in_handler
<1>4. /\ learnt \in [1..5 -> 1..7 \cup {None}]
      /\ \A h \in 1..5 : learnt[h] # None => Toward(s, h, learnt[h])
  <2>1. m_mac_to_port[s] \in [1..5 -> 1..7 \cup {None}] /\ p.port \in 1..7
    BY <1>1 DEF ChainInv, LearntInv, PacketSet
  <2>2. \A h \in 1..5 : m_mac_to_port[s][h] # None => Toward(s, h, m_mac_to_port[s][h])
    BY <1>1 DEF RightInv, LearntRight
  <2> QED BY <1>1, <1>2, <2>1, <2>2 DEF Outside
<1> HIDE DEF learnt
<1>5. LearntRight'
  BY <1>1, <1>3, <1>4 DEF RightInv, LearntRight, ChainInv, LearntInv
<1>6. ASSUME NEW ports, Onward(p, p, ports), \A port \in ports : \A r, m : ~Box(s, port, r, m)
      PROVE  Placed' /\ InOrder'
  <2>1. \A port \in ports : \A c : Moved(p, port, c) => Outside(c) \/ Inside(c)
    BY <1>1, <1>2, <1>6, OnOutside
  <2>2. Retagged(p, p) /\ (p.tags = <<>> => ~p.entered \/ p.trail = <<1, 3, 2>>)
    BY <1>1, <1>2 DEF Retagged, Outside
  <2> QED BY <1>1, <1>6, <2>1, <2>2, OnwardPlaced DEF RightInv
<1>7. known => \A r, m : ~Box(s, learnt[p.dst], r, m)
  <2> SUFFICES ASSUME known PROVE \A r, m : ~Box(s, learnt[p.dst], r, m)
    OBVIOUS
  <2>1. p.dst \in 1..5
    BY <1>1 DEF Hosted
  <2>2. Toward(s, p.dst, learnt[p.dst])
    BY <1>4, <2>1
  <2> QED BY <2>2, TowardPorts
<1>8. CASE known /\ p.dst = s /\ p.dst \in m_mac_to_dpid
  <2> DEFINE out == Out({learnt[p.dst]})
             ports == [h \in DOMAIN m_mac_to_port' |-> m_mac_to_port'[h][h]]
             todo == ToSend(p.src, p.dst, ports)
  <2>1. InstallsAndSends(p, out)
    BY <1>8 DEF _packet_in_handler, learnt
  <2>2. \A port \in out : \A r, m : ~Box(s, port, r, m)
    BY <1>7, <1>8
  <2> HIDE DEF out
  <2>3. CASE UNCHANGED <<tables, wire>> /\ Onward(p, p, {})
    <3>1. Placed' /\ InOrder'
      BY <2>3, <1>6
    <3> QED BY <1>5, <2>3, <3>1 DEF RightInv, EntriesRight
  <2>4. ASSUME NEW lost, Send(todo.mods, s, lost), Onward(p, p, IF todo.complete THEN out ELSE {})
        PROVE  RightInv'
    <3>1. Placed' /\ InOrder'
      <4> DEFINE to == IF todo.complete THEN out ELSE {}
      <4>1. Onward(p, p, to) /\ \A port \in to : \A r, m : ~Box(s, port, r, m)
        BY <2>2, <2>4
      <4> HIDE DEF to
      <4> QED BY <1>6, <4>1
    <3>2. p.dst \in Hosted /\ p.dst \in net.switches /\ p.src \in net.switches
      BY <1>1, <1>8, Identifiers DEF Hosted
    <3>3. \A h \in {p.src, p.dst} : ports[h] \in {None, HostPort}
      <4>1. \A h \in {p.src, p.dst} : h \in net.switches /\ h \in 1..5
        BY <1>1, <3>2 DEF Hosted
      <4>2. DOMAIN m_mac_to_port' = net.switches
        BY <1>3 DEF ChainInv, LearntInv
      <4>3. \A h \in {p.src, p.dst} : ports[h] = m_mac_to_port'[h][h]
        BY <4>1, <4>2
      <4>4. \A h \in {p.src, p.dst} :
              m_mac_to_port'[h][h] # None => Toward(h, h, m_mac_to_port'[h][h])
        BY <1>5, <4>1 DEF LearntRight
      <4> QED BY <4>3, <4>4, TowardPorts, Identifiers
    <3> HIDE DEF ports
    <3>4. AreWritten(todo.mods, p.src, p.dst, ports)
      BY <1>1, <3>2, EdgeIs, SentAreWritten
    <3> HIDE DEF todo
    <3>5. \A t \in net.switches : For(todo.mods, t) \in Seq(RightOf(t))
      BY <1>1, <3>2, <3>3, <3>4, RightForSwitch
    <3>6. EntriesRight'
      BY <2>4, <3>5, SendRight DEF ChainInv, RightInv
    <3> QED BY <1>5, <3>1, <3>6 DEF RightInv
  <2> QED BY <2>1, <2>3, <2>4 DEF InstallsAndSends
<1>9. CASE ~(known /\ p.dst = s /\ p.dst \in m_mac_to_dpid)
  <2>1. Onward(p, p, way) /\ UNCHANGED <<tables, wire>>
    BY <1>9 DEF _packet_in_handler, learnt
  <2>2. \A port \in way : \A r, m : ~Box(s, port, r, m)
    <3>1. \A port \in FloodPorts(s, p.port) : \A r, m : ~Box(s, port, r, m)
      BY <1>1, FloodsPast DEF ChainInv
    <3> QED BY <1>7, <3>1
  <2>3. Placed' /\ InOrder'
    <3> HIDE DEF way
    <3> QED BY <1>6, <2>1, <2>2
  <2> QED BY <1>5, <2>1, <2>3 DEF RightInv, EntriesRight
<1> QED BY <1>8, <1>9

----------------------------------------------------------------------------
(* A table keeps one entry for a match. *)

LEMMA TableSole ==
  ASSUME NEW table, \A f, g \in table : f.match = g.match => f = g, NEW E, NEW new \in Seq(E)
  PROVE  \A f, g \in Added(table, new) : f.match = g.match => f = g
<1>1. Len(new) \in Nat /\ DOMAIN new = 1..Len(new)
  OBVIOUS
<1> QED BY <1>1, SoleAdded

LEMMA PacketInSole ==
  ASSUME ChainInv, LearntInv', SoleMatches, UNCHANGED net, NEW p \in packets, _packet_in_handler(p)
  PROVE  SoleMatches'
<1>1. CASE tables' = tables
  BY <1>1 DEF SoleMatches
<1>2. ASSUME NEW out, p.dst = p.at, InstallsAndSends(p, out) PROVE SoleMatches'
  <2> DEFINE ports == [h \in DOMAIN m_mac_to_port' |-> m_mac_to_port'[h][h]]
             todo == ToSend(p.src, p.dst, ports)
  <2>1. tables' = tables \/ \E lost : Send(todo.mods, p.at, lost)
    BY <1>2 DEF InstallsAndSends
  <2>2. ASSUME NEW lost, Send(todo.mods, p.at, lost) PROVE SoleMatches'
    <3>1. p.src \in Hosted /\ p.dst \in Hosted /\ p.src \in net.switches /\ p.dst \in net.switches
          /\ p.src # p.dst
      BY <1>2, HostsHosted, Identifiers DEF ChainInv, PacketsInv, IsSound, PacketSet, Hosted
    <3>2. \A h \in {p.src, p.dst} : ports[h] \in 1..7 \cup {None}
      BY <3>1 DEF LearntInv, Hosted
    <3> HIDE DEF ports
    <3>3. AreWritten(todo.mods, p.src, p.dst, ports)
      BY <3>1, EdgeIs, SentAreWritten DEF ChainInv
    <3> HIDE DEF todo
    <3>4. \A t \in net.switches : For(todo.mods, t) \in Seq(WrittenOf(t))
      BY <3>1, <3>2, <3>3, WrittenForSwitch
    <3>5. ASSUME NEW t \in net.switches
          PROVE  tables'[t] = tables[t] \/ tables'[t] = Added(tables[t], For(todo.mods, t))
      BY <2>2 DEF Send, ChainInv, TablesInv
    <3>6. ASSUME NEW t \in net.switches, NEW f \in tables'[t], NEW g \in tables'[t], f.match = g.match
          PROVE  f = g
      BY <3>4, <3>5, <3>6, TableSole DEF SoleMatches
    <3> QED BY <3>6 DEF SoleMatches
  <2> QED BY <1>1, <2>1, <2>2
<1>3. tables' = tables \/ \E out : p.dst = p.at /\ InstallsAndSends(p, out)
  BY DEF _packet_in_handler
<1> QED BY <1>1, <1>2, <1>3

LEMMA NextSole == ChainInv /\ SoleMatches /\ [Next]_vars => SoleMatches'
<1> SUFFICES ASSUME ChainInv, SoleMatches, [Next]_vars PROVE SoleMatches'
  OBVIOUS
<1>1. CASE UNCHANGED <<net, tables>>
  BY <1>1 DEF SoleMatches
<1>2. UNCHANGED net
  BY DEF Next, vars
<1>3. ASSUME NEW s \in net.switches, NEW table, tables' = [tables EXCEPT ![s] = table],
             \A f, g \in table : f.match = g.match => f = g
      PROVE  SoleMatches'
  BY <1>2, <1>3 DEF SoleMatches, ChainInv, TablesInv
<1>4. ASSUME NEW s \in net.switches, SwitchUp(s) PROVE SoleMatches'
  <2>1. tables' = [tables EXCEPT ![s] = StaticRules(s)]
    BY <1>4 DEF SwitchUp
  <2>2. \A f, g \in StaticRules(s) : f.match = g.match => f = g
    BY SoleStatic
  <2> QED BY <1>3, <2>1, <2>2
<1>5. ASSUME NEW s \in net.switches, SwitchDown(s) PROVE SoleMatches'
  <2>1. tables' = [tables EXCEPT ![s] = {}]
    BY <1>5 DEF SwitchDown
  <2> QED BY <1>3, <2>1
<1>6. ASSUME NEW s \in net.switches, Deliver(s) PROVE SoleMatches'
  <2> DEFINE new == <<Head(wire[s])>>
  <2>1. wire[s] # <<>> /\ tables' = [tables EXCEPT ![s] = Added(tables[s], new)]
    BY <1>6 DEF Deliver
  <2>2. new \in Seq(WrittenOf(s))
    <3>1. wire[s] \in Seq(WrittenOf(s))
      BY DEF ChainInv, TablesInv
    <3> QED BY <2>1, <3>1
  <2> HIDE DEF new
  <2>3. \A f, g \in tables[s] : f.match = g.match => f = g
    BY DEF SoleMatches
  <2>4. \A f, g \in Added(tables[s], new) : f.match = g.match => f = g
    BY <2>2, <2>3, TableSole
  <2> QED BY <1>3, <2>1, <2>4
<1>7. ASSUME NEW p \in packets, _packet_in_handler(p) PROVE SoleMatches'
  BY <1>2, <1>7, NextSound, PacketInSole DEF ChainInv
<1>8. ASSUME NEW p \in packets, Forward(p) PROVE SoleMatches'
  BY <1>1, <1>2, <1>8 DEF Forward
<1>9. CASE Topology
  <2>1. tables' = tables
    BY <1>9 DEF Topology, update_topology_switchEnter, update_topology_switchLeave, SwitchLeaveFails,
                update_topology_linkAdd, update_topology_hostAdd, dataVars
  <2> QED BY <1>1, <1>2, <2>1
<1>10. CASE \/ \E s, t \in net.switches : LinkSeen(s, t)
            \/ \E h \in net.hosts : HostSeen(h)
            \/ \E h \in net.hosts : \E dst \in (net.hosts \cup {Broadcast}) \ {h} : HostSends(h, dst)
  <2>1. tables' = tables
    BY <1>10 DEF LinkSeen, HostSeen, HostSends, dataVars
  <2> QED BY <1>1, <1>2, <2>1
<1>11. CASE UNCHANGED vars
  BY <1>1, <1>11 DEF vars, dataVars
<1> QED BY <1>4, <1>5, <1>6, <1>7, <1>8, <1>9, <1>10, <1>11 DEF Next, Transit, Network

----------------------------------------------------------------------------
(* The right ports stay right, until a tagged packet comes to the          *)
(* controller.                                                             *)

LEMMA InitOrder == Init => OrderInv /\ SoleMatches
<1> SUFFICES ASSUME Init PROVE OrderInv /\ SoleMatches
  OBVIOUS
<1>1. net.switches \subseteq 1..5
  BY NetworkAssumption DEF Init, IsNetwork
<1>2. LearntRight
  BY <1>1 DEF Init, LearntRight, NoKeys
<1>3. EntriesRight
  <2>1. \A s \in net.switches : tables[s] = StaticRules(s) /\ wire[s] = <<>>
    BY DEF Init
  <2>2. \A s : <<>> \in Seq(RightOf(s))
    OBVIOUS
  <2> QED BY <2>1, <2>2 DEF EntriesRight
<1>4. Placed /\ InOrder
  BY DEF Init, Placed, InOrder
<1>5. SoleMatches
  <2>1. \A s \in net.switches : tables[s] = StaticRules(s)
    BY DEF Init
  <2> QED BY <2>1, SoleStatic DEF SoleMatches
<1> QED BY <1>2, <1>3, <1>4, <1>5 DEF OrderInv, RightInv

LEMMA SwitchUpOrder ==
  ASSUME ChainInv, RightInv, UNCHANGED net, NEW s \in net.switches, SwitchUp(s)
  PROVE  RightInv'
<1>1. /\ tables' = [tables EXCEPT ![s] = StaticRules(s)]
      /\ UNCHANGED <<m_mac_to_port, wire, packets, inbox>>
  BY DEF SwitchUp, learntVars
<1>2. EntriesRight'
  BY <1>1 DEF RightInv, EntriesRight, ChainInv, TablesInv
<1> QED BY <1>1, <1>2 DEF RightInv, LearntRight, Placed, InOrder

LEMMA SwitchDownOrder ==
  ASSUME ChainInv, RightInv, UNCHANGED net, NEW s \in net.switches, SwitchDown(s)
  PROVE  RightInv'
<1>1. /\ tables' = [tables EXCEPT ![s] = {}] /\ wire' = [wire EXCEPT ![s] = <<>>]
      /\ UNCHANGED <<m_mac_to_port, inbox>>
  BY DEF SwitchDown, learntVars
<1>2. EntriesRight'
  <2>1. <<>> \in Seq(RightOf(s))
    OBVIOUS
  <2> QED BY <1>1, <2>1 DEF RightInv, EntriesRight, ChainInv, TablesInv
<1>3. Placed'
  <2>1. ASSUME NEW c \in packets'
        PROVE  c \in packets \/ \E p \in packets : c = [p EXCEPT !.late = TRUE]
    BY DEF SwitchDown
  <2>2. ASSUME NEW p \in packets, NEW c, c = [p EXCEPT !.late = TRUE] PROVE Outside(c) \/ Inside(c)
    <3>1. p \in PacketSet /\ (Outside(p) \/ Inside(p))
      BY DEF ChainInv, PacketsInv, IsSound, RightInv, Placed
    <3>2. /\ c.src = p.src /\ c.dst = p.dst /\ c.at = p.at /\ c.port = p.port
          /\ c.tags = p.tags /\ c.trail = p.trail /\ c.entered = p.entered
      BY <2>2, <3>1 DEF PacketSet
    <3> QED BY <3>1, <3>2 DEF Outside, Inside
  <2> QED BY <2>1, <2>2 DEF RightInv, Placed
<1> QED BY <1>1, <1>2, <1>3 DEF RightInv, LearntRight, InOrder

LEMMA HostSendsOrder ==
  ASSUME ChainInv, RightInv, UNCHANGED net, NEW h \in net.hosts,
         NEW dst \in (net.hosts \cup {Broadcast}) \ {h}, HostSends(h, dst)
  PROVE  RightInv'
<1> DEFINE c == [src |-> h, dst |-> dst, at |-> h, port |-> HostPort, tags |-> <<>>,
                 trail |-> <<>>, entered |-> FALSE, asked |-> FALSE, late |-> FALSE]
<1>1. /\ UNCHANGED <<m_mac_to_port, tables, wire, inbox>>
      /\ packets' = packets \cup {Arrived(c, tables[h])}
  BY DEF HostSends, learntVars
<1>2. Outside(Arrived(c, tables[h]))
  <2>1. h \in {1, 3, 4, 5} /\ h \in Hosted /\ dst \in Hosted \cup {Broadcast}
    BY HostsHosted DEF ChainInv, Hosted
  <2>2. Outside(c)
    BY <2>1, Identifiers DEF Outside, Toward
  <2>3. c \in PacketSet
    <3>1. <<>> \in Seq(Ids) /\ <<>> \in Seq(1..3) /\ HostPort \in 1..7
      BY Identifiers
    <3> QED BY <2>1, <3>1 DEF PacketSet
  <2> DEFINE a == Arrived(c, tables[h])
  <2>4. /\ a.src = c.src /\ a.dst = c.dst /\ a.at = c.at /\ a.port = c.port
        /\ a.tags = c.tags /\ a.trail = c.trail /\ a.entered = c.entered
    BY <2>3, ArrivedSame
  <2> HIDE DEF a, c
  <2>5. Outside(a)
    BY <2>2, <2>4 DEF Outside
  <2> QED BY <2>5 DEF a
<1>3. Placed'
  BY <1>1, <1>2 DEF RightInv, Placed
<1> QED BY <1>1, <1>3 DEF RightInv, LearntRight, EntriesRight, InOrder

LEMMA DeliverOrder ==
  ASSUME ChainInv, RightInv, UNCHANGED net, NEW s \in net.switches, Deliver(s)
  PROVE  RightInv'
<1>1. /\ wire[s] # <<>> /\ UNCHANGED <<m_mac_to_port, packets, inbox>>
      /\ tables' = [tables EXCEPT ![s] = Added(tables[s], <<Head(wire[s])>>)]
      /\ wire' = [wire EXCEPT ![s] = Tail(wire[s])]
  BY DEF Deliver, learntVars
<1>2. <<Head(wire[s])>> \in Seq(RightOf(s)) /\ Tail(wire[s]) \in Seq(RightOf(s))
  <2>1. wire[s] \in Seq(RightOf(s))
    BY DEF RightInv, EntriesRight
  <2> QED BY <1>1, <2>1
<1>3. Added(tables[s], <<Head(wire[s])>>) \subseteq StaticRules(s) \cup RightOf(s)
  BY <1>2, RightAdded DEF RightInv, EntriesRight
<1>4. EntriesRight'
  BY <1>1, <1>2, <1>3 DEF RightInv, EntriesRight, ChainInv, TablesInv
<1> QED BY <1>1, <1>4 DEF RightInv, LearntRight, Placed, InOrder

\* What is learnt of a switch that left is forgotten.
LEMMA TopologyOrder ==
  ASSUME ChainInv, RightInv, UNCHANGED net, Topology
  PROVE  RightInv'
<1>1. UNCHANGED <<tables, wire, packets, inbox>>
  BY DEF Topology, update_topology_switchEnter, update_topology_switchLeave, SwitchLeaveFails,
         update_topology_linkAdd, update_topology_hostAdd, dataVars
<1>2. \/ m_mac_to_port' = m_mac_to_port
      \/ \E s : m_mac_to_port' = [m_mac_to_port EXCEPT ![s] = NoKeys]
  BY DEF Topology, update_topology_switchEnter, update_topology_switchLeave, SwitchLeaveFails,
         update_topology_linkAdd, update_topology_hostAdd, learntVars
<1>3. LearntRight'
  BY <1>2 DEF RightInv, LearntRight, ChainInv, LearntInv, NoKeys
<1> QED BY <1>1, <1>3 DEF RightInv, EntriesRight, Placed, InOrder

LEMMA NextOrder == ChainInv /\ GraphInv /\ OrderInv /\ [Next]_vars => OrderInv'
<1> SUFFICES ASSUME ChainInv, GraphInv, RightInv, ~strayed, ~strayed', [Next]_vars PROVE RightInv'
  <2>1. CASE strayed'
    BY <2>1 DEF OrderInv
  <2>2. CASE strayed
    <3>1. ASSUME strayed, [Next]_vars PROVE strayed'
      BY <3>1 DEF Next, Topology, Transit, Network, vars, dataVars, Forward, _packet_in_handler,
           update_topology_switchEnter, update_topology_switchLeave, SwitchLeaveFails,
           update_topology_linkAdd, update_topology_hostAdd, SwitchUp, SwitchDown, Deliver,
           LinkSeen, HostSeen, HostSends
    <3> QED BY <2>1, <2>2, <3>1
  <2> QED BY <2>1, <2>2 DEF OrderInv
<1>1. UNCHANGED net
  BY DEF Next, vars
<1>2. ASSUME UNCHANGED <<m_mac_to_port, tables, wire, packets, inbox>> PROVE RightInv'
  BY <1>1, <1>2 DEF RightInv, LearntRight, EntriesRight, Placed, InOrder
<1>3. CASE UNCHANGED vars
  BY <1>2, <1>3 DEF vars, learntVars, dataVars
<1>4. CASE Topology
  BY <1>1, <1>4, TopologyOrder
<1>5. CASE Transit
  BY <1>1, <1>5, ForwardOrder, PacketInOrder DEF Transit
<1>6. CASE Network
  <2>1. ASSUME NEW s \in net.switches, SwitchUp(s) \/ SwitchDown(s) \/ Deliver(s) PROVE RightInv'
    BY <1>1, <2>1, SwitchUpOrder, SwitchDownOrder, DeliverOrder
  <2>2. ASSUME NEW s, NEW t, LinkSeen(s, t) PROVE RightInv'
    BY <1>2, <2>2 DEF LinkSeen, learntVars, dataVars
  <2>3. ASSUME NEW h, HostSeen(h) PROVE RightInv'
    BY <1>2, <2>3 DEF HostSeen, learntVars, dataVars
  <2>4. ASSUME NEW h \in net.hosts, NEW dst \in (net.hosts \cup {Broadcast}) \ {h}, HostSends(h, dst)
        PROVE  RightInv'
    BY <1>1, <2>4, HostSendsOrder
  <2> QED BY <1>6, <2>1, <2>2, <2>3, <2>4 DEF Network
<1> QED BY <1>3, <1>4, <1>5, <1>6 DEF Next

ServiceInv == ChainInv /\ GraphInv /\ OrderInv /\ SoleMatches

LEMMA AlwaysService == Spec => []ServiceInv
<1>1. Init => ServiceInv
  BY InitSound, InitGraph, InitOrder DEF ServiceInv
<1>2. ServiceInv /\ [Next]_vars => ServiceInv'
  BY NextSound, NextGraph, NextOrder, NextSole DEF ServiceInv, ChainInv
<1> QED BY <1>1, <1>2, PTL DEF Spec

\* A packet that was given a tag passes M1, M3 and M2 once each, in this order,
\* before a host gets it without one, in every network, for any number of packets
\* and whatever switches restart, unless a tagged packet has come to the controller:
\* until then the ports that _packet_in_handler learns are those towards the hosts.
THEOREM ChainKeepsOrder == Spec => []ChainInOrder
<1>1. ServiceInv => ChainInOrder
  BY DEF ServiceInv, OrderInv, RightInv, InOrder, ChainInOrder
<1> QED BY <1>1, AlwaysService, PTL

LEMMA SameHop ==
  ASSUME NEW p \in PacketSet, p.src # p.dst, Outside(p) \/ Inside(p),
         NEW f, NEW g, IsRight(p.at, f), IsRight(p.at, g), Matches(f, p), Matches(g, p),
         f.match = g.match => f = g
  PROVE  Hop(p, f) = Hop(p, g)
<1>1. CASE Inside(p)
  <2>1. PICK v \in Ids : p.tags = <<v>> /\ InPlace(v, p.src, p.dst, p.at, p.port, p.trail)
    BY <1>1 DEF Inside
  <2>2. /\ <<f.action, f.out>> = Does(v, p.at, p.port, p.dst)
        /\ <<g.action, g.out>> = Does(v, p.at, p.port, p.dst)
    BY <2>1, InsideStatic, InsideWritten DEF IsRight, RightFor
  <2>3. f.action = g.action /\ f.out = g.out
    BY <2>2
  <2> QED BY <2>3 DEF Hop
<1>2. CASE Outside(p)
  <2>1. f.action = g.action /\ f.out = g.out
    <3>1. Hosted = {1, 3, 4, 5}
      BY DEF Hosted
    <3> QED BY <1>2, <3>1, OutsideEntries
  <2> QED BY <2>1 DEF Hop
<1> QED BY <1>1, <1>2

\* When two entries of a switch match a packet they do the same to it, though all
\* have priority 0 (add_flow), unless a tagged packet has come to the controller:
\* in every network and for all the rules that install_flow_rules ever writes.
THEOREM EntriesAgree == Spec => []Unambiguous
<1>1. ServiceInv => Unambiguous
  <2> SUFFICES ASSUME ServiceInv, ~strayed, NEW p \in packets,
                      NEW f \in tables[p.at], NEW g \in tables[p.at], Matches(f, p), Matches(g, p)
               PROVE  Hop(p, f) = Hop(p, g)
    BY DEF Unambiguous
  <2>1. /\ p \in PacketSet /\ p.at \in net.switches /\ p.src # p.dst /\ (Outside(p) \/ Inside(p))
        /\ EntriesRight /\ SoleMatches
    BY DEF ServiceInv, OrderInv, ChainInv, PacketsInv, IsSound, RightInv, Placed
  <2>2. IsRight(p.at, f) /\ IsRight(p.at, g) /\ (f.match = g.match => f = g)
    BY <2>1, IsRightIn DEF SoleMatches
  <2> QED BY <2>1, <2>2, SameHop
<1> QED BY <1>1, AlwaysService, PTL

----------------------------------------------------------------------------
(* The rules of two hosts, when all of them are sent.                      *)

\* What has to be matched at a switch for the packets from and to host h.  At S2
\* the static entries do the same as those that are written for it.
Needed(h) ==
  {<<h, ToHost(h, IF h = 1 THEN MB3 ELSE POLICY_COMPLETE)>>, <<h, Fields(h, None, HostPort, None)>>}
  \cup (IF h = 1 THEN {} ELSE {<<1, FromHost(h, APPLY_SERVICE_CHAIN)>>, <<1, ToHost(h, MB3)>>})
  \cup (IF h = 4 THEN {<<3, FromHost(4, APPLY_SERVICE_CHAIN)>>, <<3, ToHost(4, POLICY_COMPLETE)>>}
                 ELSE {})

\* Host 3 is sent to S4, away from the chain.
AwayFromChain(f) == f.match.src = 3 /\ f.match.port # None /\ f.out = 5

LEMMA RulesAreNeeded ==
  ASSUME NEW W \in Ways, NEW n \in Needed(W[1]), 1 \in ToSet(W), NEW edge
  PROVE  \E m : /\ Holds(Rules(W[1], W, HostPort, edge), m)
                /\ n = <<m[1], m[2].match>>
<1> DEFINE h == W[1]
           r == Rules(h, W, HostPort, edge)
<1>1. CASE h = 1
  <2>1. r = <<Delivery(h, W, HostPort), Ingress(h, W, HostPort, 3)>>
    BY <1>1 DEF Rules
  <2>2. Holds(r, Delivery(h, W, HostPort)) /\ Holds(r, Ingress(h, W, HostPort, 3))
    <3>1. Len(r) = 2 /\ r[1] = Delivery(h, W, HostPort) /\ r[2] = Ingress(h, W, HostPort, 3)
      BY <2>1
    <3> HIDE DEF r
    <3> QED BY <3>1 DEF Holds
  <2> HIDE DEF r
  <2>3. n = <<1, ToHost(1, MB3)>> \/ n = <<1, Fields(1, None, HostPort, None)>>
    BY <1>1 DEF Needed
  <2>4. /\ <<Delivery(h, W, HostPort)[1], Delivery(h, W, HostPort)[2].match>> = <<1, ToHost(1, MB3)>>
        /\ <<Ingress(h, W, HostPort, 3)[1], Ingress(h, W, HostPort, 3)[2].match>>
             = <<1, Fields(1, None, HostPort, None)>>
    BY <1>1 DEF Delivery, Ingress, Entry
  <2> QED BY <2>2, <2>3, <2>4 DEF r
<1>2. CASE h # 1
  <2> DEFINE S == RuleSet(W, HostPort, edge)
             at == EndOf(W)
  <2>1. \A m \in S : Holds(r, m)
    BY <1>2, RulesAreSet
  <2>2. at \in {2, 3, 4} /\ at \in DOMAIN W /\ W[at] = 1
    <3>1. at \in {2, 3, 4} /\ at \in DOMAIN W
          /\ (W[at] = 1 \/ (at = Len(W) /\ 1 \notin ToSet(W)))
      BY <1>2, EndOfWay
    <3> QED BY <3>1
  <2>3. \A k \in 1..(2 * (at - 2)) : Middle(W, edge)[k] \in S
    BY DEF RuleSet
  <2>4. /\ Delivery(h, W, HostPort) \in S /\ Ingress(h, W, HostPort, edge[W[1]][W[2]]) \in S
        /\ ChainStarts(h) \in S /\ ChainEnds(h, edge[1][W[at - 1]]) \in S
    BY <2>2 DEF RuleSet
  <2>5. CASE n \in {<<h, ToHost(h, POLICY_COMPLETE)>>, <<h, Fields(h, None, HostPort, None)>>,
                    <<1, FromHost(h, APPLY_SERVICE_CHAIN)>>, <<1, ToHost(h, MB3)>>}
    <3>1. /\ <<Delivery(h, W, HostPort)[1], Delivery(h, W, HostPort)[2].match>>
               = <<h, ToHost(h, POLICY_COMPLETE)>>
          /\ <<Ingress(h, W, HostPort, edge[W[1]][W[2]])[1],
               Ingress(h, W, HostPort, edge[W[1]][W[2]])[2].match>> = <<h, Fields(h, None, HostPort, None)>>
          /\ <<ChainStarts(h)[1], ChainStarts(h)[2].match>> = <<1, FromHost(h, APPLY_SERVICE_CHAIN)>>
          /\ <<ChainEnds(h, edge[1][W[at - 1]])[1], ChainEnds(h, edge[1][W[at - 1]])[2].match>>
               = <<1, ToHost(h, MB3)>>
      BY <1>2 DEF Delivery, Ingress, ChainStarts, ChainEnds, Entry
    <3> HIDE DEF S, r
    <3> QED BY <2>1, <2>4, <2>5, <3>1 DEF r
  <2>6. CASE h = 4 /\ n \in {<<3, FromHost(4, APPLY_SERVICE_CHAIN)>>, <<3, ToHost(4, POLICY_COMPLETE)>>}
    <3>1. W[2] = 3 /\ at = 4
      BY <2>2, <2>6 DEF Ways
    <3>2. /\ Middle(W, edge)[1] = Inward(4, 3, edge[3][W[3]])
          /\ Middle(W, edge)[2] = Outward(4, 3, edge[3][W[1]])
      BY <2>6, <3>1 DEF Middle
    <3>3. Middle(W, edge)[1] \in S /\ Middle(W, edge)[2] \in S
      BY <2>3, <3>1
    <3>4. /\ <<Inward(4, 3, edge[3][W[3]])[1], Inward(4, 3, edge[3][W[3]])[2].match>>
               = <<3, FromHost(4, APPLY_SERVICE_CHAIN)>>
          /\ <<Outward(4, 3, edge[3][W[1]])[1], Outward(4, 3, edge[3][W[1]])[2].match>>
               = <<3, ToHost(4, POLICY_COMPLETE)>>
      BY DEF Inward, Outward, Entry
    <3> HIDE DEF S, r
    <3> QED BY <2>1, <2>6, <3>2, <3>3, <3>4 DEF r
  <2>7. \/ n \in {<<h, ToHost(h, POLICY_COMPLETE)>>, <<h, Fields(h, None, HostPort, None)>>,
                  <<1, FromHost(h, APPLY_SERVICE_CHAIN)>>, <<1, ToHost(h, MB3)>>}
        \/ h = 4 /\ n \in {<<3, FromHost(4, APPLY_SERVICE_CHAIN)>>, <<3, ToHost(4, POLICY_COMPLETE)>>}
    BY <1>2 DEF Needed
  <2> QED BY <2>5, <2>6, <2>7
<1> QED BY <1>1, <1>2

LEMMA WrittenSource ==
  ASSUME NEW h, NEW s, NEW f, NEW q, WrittenFor(h, s, f, q)
  PROVE  f.match.src \in {None, h}
BY DEF WrittenFor, Entry, Fields

LEMMA RulesToChain ==
  ASSUME NEW W \in Ways, W[1] # 3 \/ W[2] # 4, NEW learnt, NEW edge, IsEdge(edge),
         NEW m \in ToSet(Rules(W[1], W, learnt, edge)), m[2].out # None
  PROVE  ~AwayFromChain(m[2])
<1> DEFINE h == W[1]
           r == Rules(h, W, learnt, edge)
<1>1. AreRules(r, h, learnt)
  BY RulesAreWritten
<1>2. WrittenFor(h, m[1], m[2], learnt)
  BY <1>1 DEF AreRules
<1>3. h \in Hosted /\ h # None
  BY Identifiers DEF Hosted, Ways
<1>4. CASE h # 3
  <2>1. m[2].match.src \in {None, h}
    <3> HIDE DEF h
    <3> QED BY <1>2, WrittenSource
  <2> QED BY <1>4, <2>1, Identifiers DEF AwayFromChain
<1>5. CASE h = 3
  <2>1. m \in RuleSet(W, learnt, edge)
    <3> DEFINE S == RuleSet(W, learnt, edge)
    <3>1. r \in Seq(S)
      BY <1>5, RulesAreSet
    <3>2. ToSet(r) \subseteq S
      <4> HIDE DEF r, S
      <4> QED BY <3>1 DEF ToSet
    <3> QED BY <3>2
  <2>2. CASE m = Ingress(h, W, learnt, edge[W[1]][W[2]])
    <3>1. W[2] = 2
      BY <1>5 DEF Ways
    <3>2. edge[3][2] \in {None, 2}
      BY PortValues DEF IsEdge
    <3> QED BY <1>5, <2>2, <3>1, <3>2 DEF Ingress, Entry, AwayFromChain
  <2>3. CASE m \in {Delivery(h, W, learnt), ChainStarts(h), ChainEnds(h, edge[1][W[EndOf(W) - 1]])}
    BY <1>5, <2>3, Identifiers DEF Delivery, ChainStarts, ChainEnds, ToHost, FromHost, Entry, Fields,
                                   AwayFromChain
  <2>4. ASSUME NEW k \in 1..(2 * (EndOf(W) - 2)), m = Middle(W, edge)[k] PROVE ~AwayFromChain(m[2])
    BY <1>5, <2>4 DEF Middle, Inward, Outward, ToHost, FromHost, Entry, Fields, AwayFromChain
  <2> QED BY <2>1, <2>2, <2>3, <2>4 DEF RuleSet
<1> QED BY <1>4, <1>5
InTable(table, m) == \E f \in table : f.match = m
OnWire(w, m) == \E k \in 1..Len(w) : w[k].match = m

LEMMA AddedHolds ==
  ASSUME NEW table, NEW E, NEW new \in Seq(E), NEW m, InTable(table, m) \/ OnWire(new, m)
  PROVE  InTable(Added(table, new), m)
<1> DEFINE N == Len(new)
           K == {k \in 0..N : k \in 1..N /\ new[k].match = m}
<1>1. N \in Nat /\ DOMAIN new = 1..N
  OBVIOUS
<1>2. CASE K = {}
  <2>1. \A k \in 1..N : new[k].match # m
    BY <1>1, <1>2
  <2>2. PICK f \in table : f.match = m
    BY <2>1 DEF InTable, OnWire
  <2>3. f \in Added(table, new)
    BY <1>1, <2>1, <2>2 DEF Added
  <2> QED BY <2>2, <2>3 DEF InTable
<1>3. CASE K # {}
  <2>1. Max(K) \in K /\ \A i \in K : Max(K) >= i
    <3>1. K \in SUBSET (0..N)
      OBVIOUS
    <3> HIDE DEF K
    <3> QED BY <1>1, <1>3, <3>1, MaxOf
  <2> DEFINE k == Max(K)
  <2>2. k \in 1..N /\ new[k].match = m
    BY <2>1
  <2>3. \A j \in 1..N : j > k => new[j].match # m
    <3> SUFFICES ASSUME NEW j \in 1..N, j > k, new[j].match = m PROVE FALSE
      OBVIOUS
    <3>1. j \in K
      BY <1>1
    <3>2. k >= j /\ k \in Nat
      BY <2>1, <2>2, <3>1
    <3> QED BY <3>2
  <2> HIDE DEF k, K
  <2>4. new[k] \in Added(table, new)
    BY <1>1, <2>2, <2>3 DEF Added
  <2> QED BY <2>2, <2>4 DEF InTable
<1> QED BY <1>2, <1>3

LEMMA JoinedOnWire ==
  ASSUME NEW S, NEW a \in Seq(S), NEW b \in Seq(S), NEW m, OnWire(a, m) \/ OnWire(b, m)
  PROVE  OnWire(a \o b, m)
<1>1. PICK x : x.match = m /\ (Holds(a, x) \/ Holds(b, x))
  BY DEF OnWire, Holds
<1>2. Holds(a \o b, x)
  BY <1>1, JoinedHolds
<1> QED BY <1>1, <1>2 DEF OnWire, Holds

----------------------------------------------------------------------------
(* The hosts that are installed have their entries, at their switches or   *)
(* on the way to them.                                                     *)

Holding(table, w, m) == InTable(table, m) \/ OnWire(w, m)
Has(s, m) == Holding(tables[s], wire[s], m)

InstalledInv ==
  \A h \in installed : h \in net.hosts
    /\ \A n \in Needed(h) : n[1] \in live /\ n[1] \in net.switches /\ Has(n[1], n[2])

ToChainInv ==
  \A s \in net.switches : /\ \A f \in tables[s] : ~AwayFromChain(f)
                          /\ \A k \in 1..Len(wire[s]) : ~AwayFromChain(wire[s][k])

ServeInv == ~strayed /\ ~({3, 4} \subseteq net.hosts) => InstalledInv /\ ToChainInv

\* What is at a connected switch, or on the way to it, stays.
Keeps == \A s \in live \cap net.switches : s \in live' /\ \A m : Has(s, m) => Has(s, m)'

LEMMA KeptInstalled ==
  ASSUME InstalledInv, UNCHANGED net, Keeps, installed' \subseteq installed
  PROVE  InstalledInv'
<1> SUFFICES ASSUME NEW h \in installed'
             PROVE  h \in net.hosts' /\ \A n \in Needed(h) :
                      n[1] \in live' /\ n[1] \in net.switches' /\ Has(n[1], n[2])'
  BY DEF InstalledInv
<1>1. h \in net.hosts /\ \A n \in Needed(h) :
        n[1] \in live /\ n[1] \in net.switches /\ Has(n[1], n[2])
  BY DEF InstalledInv
<1> QED BY <1>1 DEF Keeps

LEMMA HasSame ==
  ASSUME NEW s, UNCHANGED <<tables[s], wire[s]>>, NEW m, Has(s, m)
  PROVE  Has(s, m)'
BY DEF Has

LEMMA DeliverServe ==
  ASSUME ChainInv, ServeInv, UNCHANGED net, NEW s \in net.switches, Deliver(s)
  PROVE  ServeInv'
<1>1. /\ wire[s] # <<>> /\ UNCHANGED <<live, installed, strayed>>
      /\ tables' = [tables EXCEPT ![s] = Added(tables[s], <<Head(wire[s])>>)]
      /\ wire' = [wire EXCEPT ![s] = Tail(wire[s])]
  BY DEF Deliver, discoVars
<1>2. wire[s] \in Seq(WrittenOf(s)) /\ DOMAIN tables = net.switches /\ DOMAIN wire = net.switches
  BY DEF ChainInv, TablesInv
<1>3. /\ <<Head(wire[s])>> \in Seq(WrittenOf(s)) /\ Len(<<Head(wire[s])>>) = 1
      /\ <<Head(wire[s])>>[1] = wire[s][1] /\ Len(Tail(wire[s])) = Len(wire[s]) - 1
      /\ Len(wire[s]) \in Nat \ {0}
      /\ \A k \in 1..Len(Tail(wire[s])) : Tail(wire[s])[k] = wire[s][k + 1]
  BY <1>1, <1>2
<1>4. ASSUME NEW t \in net.switches, NEW m, Has(t, m) PROVE Has(t, m)'
  <2>1. CASE t # s
    BY <1>1, <1>2, <1>4, <2>1, HasSame
  <2>2. CASE t = s
    <3>1. CASE InTable(tables[s], m) \/ wire[s][1].match = m
      <4> DEFINE new == <<Head(wire[s])>>
      <4>1. new \in Seq(WrittenOf(s)) /\ Len(new) = 1 /\ new[1] = wire[s][1]
        BY <1>3
      <4>2. tables'[t] = Added(tables[s], new)
        BY <1>1, <1>2, <2>2
      <4> HIDE DEF new
      <4>3. InTable(tables[s], m) \/ OnWire(new, m)
        BY <3>1, <4>1 DEF OnWire
      <4>4. InTable(Added(tables[s], new), m)
        BY <4>1, <4>3, AddedHolds
      <4> QED BY <4>2, <4>4 DEF Has, Holding
    <3>2. ASSUME NEW k \in 1..Len(wire[s]), k # 1, wire[s][k].match = m PROVE Has(t, m)'
      <4>1. k - 1 \in 1..Len(Tail(wire[s])) /\ (k - 1) + 1 = k
        BY <1>3, <3>2
      <4>2. Tail(wire[s])[k - 1].match = m
        BY <1>3, <3>2, <4>1
      <4> QED BY <1>1, <1>2, <2>2, <4>1, <4>2 DEF Has, Holding, OnWire
    <3> QED BY <1>4, <2>2, <3>1, <3>2 DEF Has, Holding, OnWire
  <2> QED BY <2>1, <2>2
<1>5. InstalledInv => InstalledInv'
  BY <1>1, <1>4, KeptInstalled DEF Keeps
<1>6. ASSUME ToChainInv, NEW t \in net.switches
      PROVE  /\ \A f \in tables'[t] : ~AwayFromChain(f)
             /\ \A k \in 1..Len(wire'[t]) : ~AwayFromChain(wire'[t][k])
  <2>1. CASE t # s
    BY <1>1, <1>2, <1>6, <2>1 DEF ToChainInv
  <2>2. CASE t = s
    <3>1. \A f \in tables[s] : ~AwayFromChain(f)
      BY <1>6 DEF ToChainInv
    <3>2. \A k \in 1..Len(wire[s]) : ~AwayFromChain(wire[s][k])
      BY <1>6 DEF ToChainInv
    <3>3. ASSUME NEW f \in Added(tables[s], <<Head(wire[s])>>) PROVE ~AwayFromChain(f)
      <4>1. f \in tables[s] \/ f = wire[s][1]
        BY <1>3 DEF Added
      <4>2. 1 \in 1..Len(wire[s])
        BY <1>3
      <4> QED BY <3>1, <3>2, <4>1, <4>2
    <3>4. ASSUME NEW k \in 1..Len(Tail(wire[s])) PROVE ~AwayFromChain(Tail(wire[s])[k])
      <4>1. k + 1 \in 1..Len(wire[s])
        BY <1>3
      <4> QED BY <1>3, <3>2, <4>1
    <3>5. tables'[t] = Added(tables[s], <<Head(wire[s])>>) /\ wire'[t] = Tail(wire[s])
      BY <1>1, <1>2, <2>2
    <3> QED BY <3>3, <3>4, <3>5
  <2> QED BY <2>1, <2>2
<1>7. ToChainInv => ToChainInv'
  BY <1>6 DEF ToChainInv
<1> QED BY <1>1, <1>5, <1>7 DEF ServeInv
LEMMA SwitchUpServe ==
  ASSUME ChainInv, ServeInv, UNCHANGED net, NEW s \in net.switches, SwitchUp(s)
  PROVE  ServeInv'
<1>1. /\ s \notin live /\ live' = live \cup {s} /\ UNCHANGED <<wire, installed, strayed>>
      /\ tables' = [tables EXCEPT ![s] = StaticRules(s)]
  BY DEF SwitchUp
<1>2. ASSUME NEW t \in net.switches, t # s PROVE tables'[t] = tables[t]
  BY <1>1, <1>2 DEF ChainInv, TablesInv
<1>3. InstalledInv => InstalledInv'
  <2>1. Keeps
    <3> SUFFICES ASSUME NEW t \in live \cap net.switches PROVE t \in live' /\ \A m : Has(t, m) => Has(t, m)'
      BY DEF Keeps
    <3>1. t # s
      BY <1>1
    <3> QED BY <1>1, <1>2, <3>1, HasSame
  <2> QED BY <1>1, <2>1, KeptInstalled
<1>4. ToChainInv => ToChainInv'
  <2>1. \A f \in StaticRules(s) : ~AwayFromChain(f)
    BY StaticMatch, Identifiers DEF AwayFromChain
  <2>2. tables'[s] = StaticRules(s)
    BY <1>1 DEF ChainInv, TablesInv
  <2> QED BY <1>1, <1>2, <2>1, <2>2 DEF ToChainInv
<1> QED BY <1>1, <1>3, <1>4 DEF ServeInv

LEMMA SwitchDownServe ==
  ASSUME ChainInv, ServeInv, UNCHANGED net, NEW s \in net.switches, SwitchDown(s)
  PROVE  ServeInv'
<1>1. /\ tables' = [tables EXCEPT ![s] = {}] /\ wire' = [wire EXCEPT ![s] = <<>>]
      /\ installed' = {} /\ UNCHANGED strayed
  BY DEF SwitchDown
<1>2. InstalledInv'
  BY <1>1 DEF InstalledInv
<1>3. Len(<<>>) = 0
  OBVIOUS
<1>4. ToChainInv => ToChainInv'
  BY <1>1, <1>3 DEF ToChainInv, ChainInv, TablesInv
<1> QED BY <1>1, <1>2, <1>4 DEF ServeInv

LEMMA SendHas ==
  ASSUME TablesInv, NEW mods, NEW s, NEW lost, Send(mods, s, lost), Len(mods) \in Nat,
         \A t \in net.switches : For(mods, t) \in Seq(WrittenOf(t))
  PROVE  /\ \A t \in net.switches : \A m : Has(t, m) => Holding(tables'[t], wire'[t], m)
         /\ lost = {} => \A k \in 1..Len(mods) :
              \A t \in net.switches : mods[k][1] = t => Holding(tables'[t], wire'[t], mods[k][2].match)
<1>1. ASSUME NEW t \in net.switches
      PROVE  /\ For(mods, t) \in Seq(WrittenOf(t)) /\ wire[t] \in Seq(WrittenOf(t))
             /\ tables'[t] = IF t = s /\ t \notin lost THEN Added(tables[t], For(mods, t)) ELSE tables[t]
             /\ wire'[t] = IF t \in lost \cup {s} THEN wire[t] ELSE wire[t] \o For(mods, t)
  BY DEF Send, TablesInv
<1>2. ASSUME NEW t \in net.switches, NEW m, InTable(tables[t], m) \/ OnWire(For(mods, t), m)
      PROVE  InTable(Added(tables[t], For(mods, t)), m)
  BY <1>1, <1>2, AddedHolds
<1>3. ASSUME NEW t \in net.switches, NEW m, OnWire(wire[t], m) \/ OnWire(For(mods, t), m)
      PROVE  OnWire(wire[t] \o For(mods, t), m)
  BY <1>1, <1>3, JoinedOnWire
<1>4. ASSUME NEW t \in net.switches, NEW m, Has(t, m) PROVE Holding(tables'[t], wire'[t], m)
  <2>1. InTable(tables[t], m) => InTable(tables'[t], m)
    BY <1>1, <1>2
  <2>2. OnWire(wire[t], m) => OnWire(wire'[t], m)
    BY <1>1, <1>3
  <2> QED BY <1>4, <2>1, <2>2 DEF Has, Holding
<1>5. ASSUME lost = {}, NEW k \in 1..Len(mods), NEW t, NEW m, t \in net.switches,
             mods[k][1] = t, mods[k][2].match = m
      PROVE  Holding(tables'[t], wire'[t], m)
  <2>1. OnWire(For(mods, t), m)
    BY <1>5, ForHas DEF Holds, OnWire
  <2>2. CASE t = s
    <3>1. tables'[t] = Added(tables[t], For(mods, t))
      BY <1>1, <1>5, <2>2
    <3> QED BY <1>2, <1>5, <2>1, <3>1 DEF Has, Holding
  <2>3. CASE t # s
    <3>1. wire'[t] = wire[t] \o For(mods, t)
      BY <1>1, <1>5, <2>3
    <3> QED BY <1>3, <1>5, <2>1, <3>1 DEF Has, Holding
  <2> QED BY <2>2, <2>3
<1> QED BY <1>4, <1>5
\* The path between two hosts leads to S1, unless they are hosts 3 and 4.
LEMMA WayThroughS1 ==
  ASSUME NEW W \in Ways, ~({3, 4} \subseteq {W[1], W[Len(W)]})
  PROVE  1 \in ToSet(W) /\ (W[1] # 3 \/ W[2] # 4)
<1>1. \E i \in DOMAIN W : W[i] = 1
  BY DEF Ways
<1>2. W[1] # 3 \/ W[2] # 4
  BY DEF Ways
<1> QED BY <1>1, <1>2 DEF ToSet

\* What a handler sends for two hosts, all of it, is what they need.
LEMMA SentIsNeeded ==
  ASSUME NEW src \in Hosted, NEW dst \in Hosted, src # dst, ~({3, 4} \subseteq {src, dst}),
         NEW ports, \A h \in {src, dst} : ports[h] \in {None, HostPort}
  PROVE  LET todo == ToSend(src, dst, ports)
         IN  /\ Len(todo.mods) \in Nat
             /\ \A k \in 1..Len(todo.mods) : ~AwayFromChain(todo.mods[k][2]) /\ todo.mods[k][1] \in Dpids
             /\ todo.complete => \A h \in {src, dst} : \A n \in Needed(h) :
                  \E k \in 1..Len(todo.mods) : n = <<todo.mods[k][1], todo.mods[k][2].match>>
<1> DEFINE R == Path[src][dst]
           B == Reverse(R)
           r1 == Rules(src, R, ports[src], Edge)
           r2 == Rules(dst, B, ports[dst], Edge)
           todo == ToSend(src, dst, ports)
           mods == todo.mods
<1>1. /\ R \in Ways /\ R[1] = src /\ B \in Ways /\ B[1] = dst
      /\ R[Len(R)] = dst /\ B[Len(B)] = src
  BY WayBetween
<1>2. AreSent(mods, todo.complete, r1, r2)
  BY EdgeIs, SentAreRules
<1>3. AreRules(r1, src, ports[src]) /\ AreRules(r2, dst, ports[dst])
  BY EdgeIs, RulesOfBoth
<1> HIDE DEF R, B, todo
<1>4. /\ 1 \in ToSet(R) /\ (R[1] # 3 \/ R[2] # 4)
      /\ 1 \in ToSet(B) /\ (B[1] # 3 \/ B[2] # 4)
  BY <1>1, WayThroughS1
<1>5. \A m \in ToSet(r1) \cup ToSet(r2) : m[2].out # None => ~AwayFromChain(m[2])
  <2>1. ASSUME NEW m \in ToSet(Rules(R[1], R, ports[src], Edge)), m[2].out # None
        PROVE  ~AwayFromChain(m[2])
    BY <1>1, <1>4, <2>1, EdgeIs, RulesToChain
  <2>2. ASSUME NEW m \in ToSet(Rules(B[1], B, ports[dst], Edge)), m[2].out # None
        PROVE  ~AwayFromChain(m[2])
    BY <1>1, <1>4, <2>2, EdgeIs, RulesToChain
  <2> QED BY <1>1, <2>1, <2>2
<1>6. ASSUME ports[src] = HostPort, NEW n \in Needed(src)
      PROVE  \E m : Holds(r1, m) /\ n = <<m[1], m[2].match>>
  <2>1. n \in Needed(R[1])
    BY <1>1
  <2>2. \E m : Holds(Rules(R[1], R, HostPort, Edge), m) /\ n = <<m[1], m[2].match>>
    BY <1>1, <1>4, <2>1, RulesAreNeeded
  <2> QED BY <1>1, <1>6, <2>2
<1>7. ASSUME ports[dst] = HostPort, NEW n \in Needed(dst)
      PROVE  \E m : Holds(r2, m) /\ n = <<m[1], m[2].match>>
  <2>1. n \in Needed(B[1])
    BY <1>1
  <2>2. \E m : Holds(Rules(B[1], B, HostPort, Edge), m) /\ n = <<m[1], m[2].match>>
    BY <1>1, <1>4, <2>1, RulesAreNeeded
  <2> QED BY <1>1, <1>7, <2>2
<1> HIDE DEF r1, r2
<1>8. /\ Len(mods) \in Nat
      /\ \A k \in 1..Len(mods) : mods[k] \in ToSet(r1) \cup ToSet(r2) /\ mods[k][1] \in Dpids
                                 /\ mods[k][2].out # None
      /\ todo.complete => \A m : Holds(r1, m) \/ Holds(r2, m) => Holds(mods, m)
  BY <1>2 DEF AreSent
<1>9. ASSUME todo.complete PROVE ports[src] = HostPort /\ ports[dst] = HostPort
  <2>1. Holds(r1, r1[1]) /\ Holds(r2, r2[1])
    <3>1. 1 \in 1..Len(r1) /\ 1 \in 1..Len(r2)
      <4>1. r1 \in Seq(ToSet(r1)) /\ r2 \in Seq(ToSet(r2)) /\ Len(r1) >= 1 /\ Len(r2) >= 1
        BY <1>3 DEF AreRules
      <4> QED BY <4>1
    <3> QED BY <3>1 DEF Holds
  <2>2. Holds(mods, r1[1]) /\ Holds(mods, r2[1])
    BY <1>8, <1>9, <2>1
  <2>3. r1[1][2].out # None /\ r2[1][2].out # None
    BY <1>8, <2>2 DEF Holds
  <2> QED BY <1>3, <2>3 DEF AreRules
<1>10. ASSUME todo.complete, NEW h \in {src, dst}, NEW n \in Needed(h)
       PROVE  \E k \in 1..Len(mods) : n = <<mods[k][1], mods[k][2].match>>
  <2>1. \E m : (Holds(r1, m) \/ Holds(r2, m)) /\ n = <<m[1], m[2].match>>
    BY <1>6, <1>7, <1>9, <1>10
  <2>2. \E m : Holds(mods, m) /\ n = <<m[1], m[2].match>>
    BY <1>8, <1>10, <2>1
  <2> QED BY <2>2 DEF Holds
<1> QED BY <1>5, <1>8, <1>10 DEF todo
LEMMA InstallServe ==
  ASSUME ChainInv, LearntRight', InstalledInv, ToChainInv, UNCHANGED <<net, live>>,
         ~({3, 4} \subseteq net.hosts), DOMAIN m_mac_to_port' = net.switches,
         NEW p \in packets, p.dst = p.at, NEW out, InstallsAndSends(p, out)
  PROVE  InstalledInv' /\ ToChainInv'
<1> DEFINE src == p.src
           dst == p.dst
           ports == [h \in DOMAIN m_mac_to_port' |-> m_mac_to_port'[h][h]]
           todo == ToSend(src, dst, ports)
           mods == todo.mods
<1>1. /\ src \in Hosted /\ dst \in Hosted /\ src # dst /\ src \in net.hosts /\ dst \in net.hosts
      /\ src \in net.switches /\ dst \in net.switches
      /\ p.at \in net.switches /\ net.switches \subseteq 1..5
  BY HostsHosted, Identifiers DEF ChainInv, PacketsInv, IsSound, Hosted
<1>2. \A h \in {src, dst} : ports[h] \in {None, HostPort}
  <2>1. \A h \in {src, dst} : h \in 1..5 /\ ports[h] = m_mac_to_port'[h][h]
    BY <1>1
  <2>2. \A h \in {src, dst} : m_mac_to_port'[h][h] # None => Toward(h, h, m_mac_to_port'[h][h])
    BY <1>1, <2>1 DEF LearntRight
  <2> QED BY <2>1, <2>2, TowardPorts, Identifiers
<1>3. \/ UNCHANGED <<tables, wire, installed>>
      \/ \E lost : /\ MustLose \subseteq lost /\ Send(mods, p.at, lost)
                   /\ installed' = IF todo.complete /\ lost = {} THEN installed \cup {src, dst}
                                                                 ELSE installed
  BY DEF InstallsAndSends
<1>4. CASE UNCHANGED <<tables, wire, installed>>
  <2>1. InstalledInv'
    BY <1>4 DEF InstalledInv, Has
  <2>2. ToChainInv'
    BY <1>4 DEF ToChainInv
  <2> QED BY <2>1, <2>2
<1> HIDE DEF ports
<1>5. /\ Len(mods) \in Nat
      /\ \A k \in 1..Len(mods) : ~AwayFromChain(mods[k][2]) /\ mods[k][1] \in Dpids
      /\ todo.complete => \A h \in {src, dst} : \A n \in Needed(h) :
           \E k \in 1..Len(mods) : n = <<mods[k][1], mods[k][2].match>>
  BY <1>1, <1>2, SentIsNeeded
<1>6. \A t \in net.switches : For(mods, t) \in Seq(WrittenOf(t))
  <2>1. AreWritten(mods, src, dst, ports)
    BY <1>1, EdgeIs, SentAreWritten
  <2>2. \A h \in {src, dst} : ports[h] \in 1..7 \cup {None}
    BY <1>2, Identifiers
  <2> HIDE DEF todo, src, dst
  <2> QED BY <1>1, <2>1, <2>2, WrittenForSwitch
<1> HIDE DEF todo
<1>7. ASSUME NEW lost, MustLose \subseteq lost, Send(mods, p.at, lost),
             installed' = IF todo.complete /\ lost = {} THEN installed \cup {src, dst} ELSE installed
      PROVE  InstalledInv' /\ ToChainInv'
  <2>1. /\ \A t \in net.switches : \A m : Has(t, m) => Holding(tables'[t], wire'[t], m)
        /\ lost = {} => \A k \in 1..Len(mods) :
             \A t \in net.switches : mods[k][1] = t => Holding(tables'[t], wire'[t], mods[k][2].match)
    BY <1>5, <1>6, <1>7, SendHas DEF ChainInv
  <2>2. ASSUME NEW h \in installed
        PROVE  h \in net.hosts' /\ \A n \in Needed(h) :
                 n[1] \in live' /\ n[1] \in net.switches' /\ Has(n[1], n[2])'
    <3>1. h \in net.hosts /\ \A n \in Needed(h) :
            n[1] \in live /\ n[1] \in net.switches /\ Has(n[1], n[2])
      BY DEF InstalledInv
    <3> QED BY <2>1, <3>1 DEF Has
  <2>3. ASSUME todo.complete, lost = {}, NEW h \in {src, dst}
        PROVE  h \in net.hosts' /\ \A n \in Needed(h) :
                 n[1] \in live' /\ n[1] \in net.switches' /\ Has(n[1], n[2])'
    <3>1. \A t \in Dpids : t \in live /\ t \in net.switches
      <4>1. \A t \in Dpids : t \in live
        BY <1>7, <2>3 DEF MustLose
      <4> QED BY <4>1 DEF ChainInv, NetInv
    <3>2. ASSUME NEW n \in Needed(h)
          PROVE  n[1] \in live' /\ n[1] \in net.switches' /\ Has(n[1], n[2])'
      <4>1. PICK k \in 1..Len(mods) : n = <<mods[k][1], mods[k][2].match>>
        BY <1>5, <2>3
      <4>2. n[1] = mods[k][1] /\ n[2] = mods[k][2].match /\ mods[k][1] \in Dpids
        BY <1>5, <4>1
      <4>3. n[1] \in live /\ n[1] \in net.switches /\ Holding(tables'[n[1]], wire'[n[1]], n[2])
        BY <2>1, <2>3, <3>1, <4>2
      <4> QED BY <4>3 DEF Has
    <3> QED BY <1>1, <3>2
  <2>4. InstalledInv'
    BY <1>7, <2>2, <2>3 DEF InstalledInv
  <2>5. ASSUME NEW t \in net.switches
        PROVE  /\ \A f \in tables'[t] : ~AwayFromChain(f)
               /\ \A k \in 1..Len(wire'[t]) : ~AwayFromChain(wire'[t][k])
    <3>1. For(mods, t) \in Seq({f \in {mods[k][2] : k \in 1..Len(mods)} : ~AwayFromChain(f)})
      <4> DEFINE D == {f \in {mods[k][2] : k \in 1..Len(mods)} : ~AwayFromChain(f)}
      <4>1. \A k \in 1..Len(mods) : mods[k][2] \in D
        BY <1>5
      <4> HIDE DEF D
      <4>2. For(mods, t) \in Seq(D)
        BY <1>5, <4>1, ForIn
      <4> QED BY <4>2 DEF D
    <3>2. \A k \in DOMAIN For(mods, t) : ~AwayFromChain(For(mods, t)[k])
      BY <3>1
    <3>3. tables'[t] = tables[t] \/ tables'[t] = Added(tables[t], For(mods, t))
      BY <1>7 DEF Send, ChainInv, TablesInv
    <3>4. \A f \in tables[t] : ~AwayFromChain(f)
      BY DEF ToChainInv
    <3>5. \A f \in tables'[t] : ~AwayFromChain(f)
      BY <3>2, <3>3, <3>4 DEF Added
    <3>6. \A k \in 1..Len(wire[t]) : ~AwayFromChain(wire[t][k])
      BY DEF ToChainInv
    <3>7. wire'[t] = wire[t] \/ wire'[t] = wire[t] \o For(mods, t)
      BY <1>7 DEF Send, ChainInv, TablesInv
    <3>8. ASSUME NEW k \in 1..Len(wire[t] \o For(mods, t)) PROVE ~AwayFromChain((wire[t] \o For(mods, t))[k])
      <4> DEFINE S == WrittenOf(t)  a == wire[t]  b == For(mods, t)
      <4>1. a \in Seq(S) /\ b \in Seq(S)
        BY <1>6 DEF ChainInv, TablesInv
      <4>2. /\ \A i \in 1..Len(a) : ~AwayFromChain(a[i])
            /\ \A i \in DOMAIN b : ~AwayFromChain(b[i])
        BY <3>2, <3>6
      <4> HIDE DEF S, a, b
      <4>3. \/ k \in 1..Len(a) /\ (a \o b)[k] = a[k]
            \/ k - Len(a) \in DOMAIN b /\ (a \o b)[k] = b[k - Len(a)]
        <5>1. k \in 1..Len(a \o b)
          BY DEF a, b
        <5> QED BY <4>1, <5>1
      <4> QED BY <4>2, <4>3 DEF a, b
    <3> QED BY <3>5, <3>6, <3>7, <3>8
  <2>6. ToChainInv'
    BY <2>5 DEF ToChainInv
  <2> QED BY <2>4, <2>6
<1> QED BY <1>3, <1>4, <1>7
LEMMA InitServe == Init => ServeInv
<1> SUFFICES ASSUME Init PROVE ServeInv
  OBVIOUS
<1>1. InstalledInv
  BY DEF Init, InstalledInv
<1>2. ASSUME NEW s \in net.switches PROVE /\ \A f \in tables[s] : ~AwayFromChain(f)
                                         /\ \A k \in 1..Len(wire[s]) : ~AwayFromChain(wire[s][k])
  <2>1. tables[s] = StaticRules(s) /\ wire[s] = <<>>
    BY DEF Init
  <2>2. Len(<<>>) = 0
    OBVIOUS
  <2>3. \A f \in StaticRules(s) : ~AwayFromChain(f)
    BY StaticMatch, Identifiers DEF AwayFromChain
  <2> QED BY <2>1, <2>2, <2>3
<1> QED BY <1>1, <1>2 DEF ServeInv, ToChainInv

LEMMA NextServe == ChainInv /\ OrderInv' /\ ServeInv /\ [Next]_vars => ServeInv'
<1> SUFFICES ASSUME ChainInv, OrderInv', ServeInv, [Next]_vars PROVE ServeInv'
  OBVIOUS
<1>1. UNCHANGED net
  BY DEF Next, vars
<1>2. ASSUME UNCHANGED <<live, tables, wire, strayed, installed>> PROVE ServeInv'
  BY <1>1, <1>2 DEF ServeInv, InstalledInv, ToChainInv, Has
<1>3. ASSUME NEW s \in net.switches, SwitchUp(s) \/ SwitchDown(s) \/ Deliver(s) PROVE ServeInv'
  BY <1>1, <1>3, SwitchUpServe, SwitchDownServe, DeliverServe
<1>4. ASSUME NEW p \in packets, _packet_in_handler(p) PROVE ServeInv'
  <2>1. /\ UNCHANGED live /\ strayed' = (strayed \/ p.tags # <<>>)
        /\ DOMAIN m_mac_to_port' = DOMAIN m_mac_to_port
    BY <1>4 DEF _packet_in_handler, discoVars
  <2> SUFFICES ASSUME ~strayed', ~({3, 4} \subseteq net.hosts') PROVE InstalledInv' /\ ToChainInv'
    BY DEF ServeInv
  <2>2. InstalledInv /\ ToChainInv /\ LearntRight' /\ ~({3, 4} \subseteq net.hosts)
    BY <1>1, <2>1 DEF ServeInv, OrderInv, RightInv
  <2>3. UNCHANGED <<tables, wire, installed>> \/ \E out : p.dst = p.at /\ InstallsAndSends(p, out)
    BY <1>4 DEF _packet_in_handler
  <2>4. CASE UNCHANGED <<tables, wire, installed>>
    BY <1>1, <2>1, <2>2, <2>4 DEF InstalledInv, ToChainInv, Has
  <2>5. ASSUME NEW out, p.dst = p.at, InstallsAndSends(p, out) PROVE InstalledInv' /\ ToChainInv'
    <3>1. DOMAIN m_mac_to_port' = net.switches
      BY <2>1 DEF ChainInv, LearntInv
    <3> QED BY <1>1, <2>1, <2>2, <2>5, <3>1, InstallServe
  <2> QED BY <2>3, <2>4, <2>5
<1>5. ASSUME NEW p \in packets, Forward(p) PROVE ServeInv'
  BY <1>2, <1>5 DEF Forward, discoVars
<1>6. CASE Topology
  BY <1>2, <1>6 DEF Topology, update_topology_switchEnter, update_topology_switchLeave, SwitchLeaveFails,
                    update_topology_linkAdd, update_topology_hostAdd, dataVars, discoVars
<1>7. CASE \/ \E s, t \in net.switches : LinkSeen(s, t)
           \/ \E h \in net.hosts : HostSeen(h)
           \/ \E h \in net.hosts : \E dst \in (net.hosts \cup {Broadcast}) \ {h} : HostSends(h, dst)
  BY <1>2, <1>7 DEF LinkSeen, HostSeen, HostSends, dataVars, discoVars
<1>8. CASE UNCHANGED vars
  BY <1>2, <1>8 DEF vars, dataVars, discoVars
<1> QED BY <1>3, <1>4, <1>5, <1>6, <1>7, <1>8 DEF Next, Transit, Network

----------------------------------------------------------------------------
(* The way of a packet by the entries alone.                               *)

Hops(P) == UNION {UNION {Sent(Tagged(p, f.action), f.out) :
                           f \in {g \in tables[p.at] : Matches(g, p)}} : p \in P}

\* The copies that a packet of a becomes after n steps, as in Route.
First(a, b) == [src |-> a, dst |-> b, at |-> a, port |-> HostPort, tags |-> <<>>,
                trail |-> <<>>, entered |-> FALSE, asked |-> FALSE, late |-> FALSE]

After(a, b) ==
  LET after[n \in 0..12] ==
        IF n = 0 THEN {First(a, b)}
        ELSE UNION {UNION {Sent(Tagged(p, f.action), f.out) :
                             f \in {g \in tables[p.at] : Matches(g, p)}} : p \in after[n - 1]}
  IN  after

LEMMA AfterSteps ==
  ASSUME NEW a, NEW b
  PROVE  /\ After(a, b)[0] = {First(a, b)}
         /\ \A n \in 0..11 : After(a, b)[n + 1] = Hops(After(a, b)[n])
<1> DEFINE body(g) == [n \in 0..12 |-> IF n = 0 THEN {First(a, b)} ELSE Hops(g[n - 1])]
           after == CHOOSE g : g = body(g)
<1>1. After(a, b) = after
  BY DEF After, Hops
<1>2. \E g : g = body(g)
  <2> DEFINE P0 == {First(a, b)}
             P1 == Hops(P0)  P2 == Hops(P1)  P3 == Hops(P2)  P4 == Hops(P3)
             P5 == Hops(P4)  P6 == Hops(P5)  P7 == Hops(P6)  P8 == Hops(P7)
             P9 == Hops(P8)  P10 == Hops(P9)  P11 == Hops(P10)  P12 == Hops(P11)
             g == [n \in 0..12 |->
                     CASE n = 0 -> P0 [] n = 1 -> P1 [] n = 2 -> P2 [] n = 3 -> P3 [] n = 4 -> P4
                       [] n = 5 -> P5 [] n = 6 -> P6 [] n = 7 -> P7 [] n = 8 -> P8 [] n = 9 -> P9
                       [] n = 10 -> P10 [] n = 11 -> P11 [] n = 12 -> P12]
  <2>1. /\ P1 = Hops(P0) /\ P2 = Hops(P1) /\ P3 = Hops(P2) /\ P4 = Hops(P3) /\ P5 = Hops(P4)
        /\ P6 = Hops(P5) /\ P7 = Hops(P6) /\ P8 = Hops(P7) /\ P9 = Hops(P8) /\ P10 = Hops(P9)
        /\ P11 = Hops(P10) /\ P12 = Hops(P11)
    OBVIOUS
  <2> HIDE DEF P1, P2, P3, P4, P5, P6, P7, P8, P9, P10, P11, P12
  <2>2. /\ g[0] = P0 /\ g[1] = P1 /\ g[2] = P2 /\ g[3] = P3 /\ g[4] = P4 /\ g[5] = P5
        /\ g[6] = P6 /\ g[7] = P7 /\ g[8] = P8 /\ g[9] = P9 /\ g[10] = P10 /\ g[11] = P11
        /\ g[12] = P12
    OBVIOUS
  <2>3. g = [n \in 0..12 |-> g[n]]
    OBVIOUS
  <2> HIDE DEF g
  <2>4. \A n \in 0..12 : g[n] = IF n = 0 THEN P0 ELSE Hops(g[n - 1])
    BY <2>1, <2>2
  <2>5. g = [n \in 0..12 |-> IF n = 0 THEN P0 ELSE Hops(g[n - 1])]
    BY <2>3, <2>4
  <2> QED BY <2>5
<1>3. after = body(after)
  <2> HIDE DEF body
  <2> QED BY <1>2
<1> HIDE DEF after
<1>4. after[0] = {First(a, b)}
  BY <1>3
<1>5. ASSUME NEW n \in 0..11 PROVE after[n + 1] = Hops(after[n])
  <2>1. n + 1 \in 0..12 /\ n + 1 # 0 /\ (n + 1) - 1 = n
    OBVIOUS
  <2> QED BY <1>3, <2>1
<1> QED BY <1>1, <1>4, <1>5

LEMMA RouteIsAfter ==
  ASSUME NEW a, NEW b, NEW n \in 0..12, NEW p \in After(a, b)[n]
  PROVE  p \in Route(a, b)
BY DEF Route, After, First
LEMMA MatchFields ==
  ASSUME NEW p, NEW f, NEW src \in {None, p.src}, NEW dst \in {None, p.dst},
         NEW port \in {None, p.port}, NEW vid, vid = None \/ p.tags = <<vid>>,
         f.match = Fields(src, dst, port, vid)
  PROVE  Matches(f, p)
BY DEF Matches, Fields

\* Host h is connected, and the switches have what it needs.
HostReady(h) == /\ h \in Hosted /\ h \in net.hosts /\ h \in live
                /\ \A n \in Needed(h) : InTable(tables[n[1]], n[2])

ChainReady == NetInv /\ TablesInv /\ EntriesRight /\ ToChainInv /\ {1, 2, 3} \subseteq live

LEMMA StaticReady ==
  ASSUME ChainReady, NEW p, p.at \in live, NEW f \in StaticRules(p.at), Matches(f, p)
  PROVE  \E g \in tables[p.at] : Matches(g, p)
<1>1. p.at \in net.switches
  BY DEF ChainReady, NetInv
<1>2. f \in tables[p.at]
  BY <1>1 DEF ChainReady, TablesInv
<1> QED BY <1>2

LEMMA NeededReady ==
  ASSUME NEW h, HostReady(h), NEW p, NEW m, <<p.at, m>> \in Needed(h),
         \A f : f.match = m => Matches(f, p)
  PROVE  \E g \in tables[p.at] : Matches(g, p)
<1>1. InTable(tables[p.at], m)
  BY DEF HostReady
<1> QED BY <1>1 DEF InTable

LEMMA InsideReady ==
  ASSUME ChainReady, NEW a, NEW b, HostReady(a), HostReady(b),
         NEW p \in PacketSet, p.src = a, p.dst = b, NEW v \in Ids, p.tags = <<v>>,
         InPlace(v, a, b, p.at, p.port, p.trail), a # 3 \/ p.at # 4
  PROVE  \E f \in tables[p.at] : Matches(f, p)
<1>1. /\ Head(<<v>>) = v /\ <<v>> # <<>> /\ {1, 2, 3} \subseteq live
      /\ a \in {1, 3, 4, 5} /\ b \in {1, 3, 4, 5} /\ b \in live
  BY DEF ChainReady, HostReady, Hosted
<1>2. CASE v \in {MB1, MB2, TUNNEL}
  <2>1. \/ v = MB1 /\ p.at = 1 /\ p.port = 4
        \/ v = TUNNEL /\ <<p.at, p.port>> \in {<<2, 1>>, <<3, 2>>, <<2, 2>>, <<1, 2>>}
        \/ v = MB2 /\ p.at = 3 /\ p.port = 4
    BY <1>2, Identifiers DEF InPlace
  <2>2. CASE v = MB1 /\ p.at = 1 /\ p.port = 4
    <3>1. Within(4, MB1, TUNNEL, 2) \in StaticRules(p.at) /\ Matches(Within(4, MB1, TUNNEL, 2), p)
      BY <1>1, <2>2 DEF StaticRules, Within, Entry, Fields, Matches
    <3> QED BY <1>1, <2>2, <3>1, StaticReady
  <2>3. CASE v = TUNNEL /\ p.at = 2 /\ p.port = 1
    <3>1. Between(1, 2) \in StaticRules(p.at) /\ Matches(Between(1, 2), p)
      BY <1>1, <2>3 DEF StaticRules, Between, Entry, Fields, Matches
    <3> QED BY <1>1, <2>3, <3>1, StaticReady
  <2>4. CASE v = TUNNEL /\ p.at = 3 /\ p.port = 2
    <3>1. Within(2, TUNNEL, MB2, 3) \in StaticRules(p.at) /\ Matches(Within(2, TUNNEL, MB2, 3), p)
      BY <1>1, <2>4 DEF StaticRules, Within, Entry, Fields, Matches
    <3> QED BY <1>1, <2>4, <3>1, StaticReady
  <2>5. CASE v = TUNNEL /\ p.at = 2 /\ p.port = 2
    <3>1. Between(2, 1) \in StaticRules(p.at) /\ Matches(Between(2, 1), p)
      BY <1>1, <2>5 DEF StaticRules, Between, Entry, Fields, Matches
    <3> QED BY <1>1, <2>5, <3>1, StaticReady
  <2>6. CASE v = TUNNEL /\ p.at = 1 /\ p.port = 2
    <3>1. Within(2, TUNNEL, MB3, 5) \in StaticRules(p.at) /\ Matches(Within(2, TUNNEL, MB3, 5), p)
      BY <1>1, <2>6 DEF StaticRules, Within, Entry, Fields, Matches
    <3> QED BY <1>1, <2>6, <3>1, StaticReady
  <2>7. CASE v = MB2 /\ p.at = 3 /\ p.port = 4
    <3>1. Within(4, MB2, TUNNEL, 2) \in StaticRules(p.at) /\ Matches(Within(4, MB2, TUNNEL, 2), p)
      BY <1>1, <2>7 DEF StaticRules, Within, Entry, Fields, Matches
    <3> QED BY <1>1, <2>7, <3>1, StaticReady
  <2> QED BY <2>1, <2>2, <2>3, <2>4, <2>5, <2>6, <2>7
<1>3. CASE v = APPLY_SERVICE_CHAIN
  <2>1. <<a, p.at, p.port>> \in {<<3, 2, 2>>, <<3, 1, 2>>, <<4, 3, 5>>, <<4, 2, 2>>, <<4, 1, 2>>, <<5, 1, 7>>}
    BY <1>3, Identifiers DEF InPlace
  <2>2. CASE p.at = 2 /\ p.port = 2
    <3>1. Between(2, 1) \in StaticRules(p.at) /\ Matches(Between(2, 1), p)
      BY <1>1, <2>2 DEF StaticRules, Between, Entry, Fields, Matches
    <3> QED BY <1>1, <2>2, <3>1, StaticReady
  <2>3. CASE p.at = 1 /\ a # 1
    <3>1. <<p.at, FromHost(a, APPLY_SERVICE_CHAIN)>> \in Needed(a)
      BY <2>3 DEF Needed
    <3>2. \A f : f.match = FromHost(a, APPLY_SERVICE_CHAIN) => Matches(f, p)
      BY <1>3, MatchFields DEF FromHost
    <3> QED BY <3>1, <3>2, NeededReady
  <2>4. CASE p.at = 3 /\ a = 4
    <3>1. <<p.at, FromHost(a, APPLY_SERVICE_CHAIN)>> \in Needed(a)
      BY <2>4 DEF Needed
    <3>2. \A f : f.match = FromHost(a, APPLY_SERVICE_CHAIN) => Matches(f, p)
      BY <1>3, MatchFields DEF FromHost
    <3> QED BY <3>1, <3>2, NeededReady
  <2> QED BY <2>1, <2>2, <2>3, <2>4
<1>4. CASE v = MB3
  <2>1. p.at = 1
    BY <1>4, Identifiers DEF InPlace
  <2>2. <<p.at, ToHost(b, MB3)>> \in Needed(b)
    BY <2>1 DEF Needed
  <2>3. \A f : f.match = ToHost(b, MB3) => Matches(f, p)
    BY <1>4, MatchFields DEF ToHost
  <2> QED BY <2>2, <2>3, NeededReady
<1>5. CASE v = POLICY_COMPLETE
  <2>1. <<b, p.at, p.port>> \in {<<3, 2, 1>>, <<3, 3, 2>>, <<4, 2, 1>>, <<4, 3, 2>>, <<4, 4, 2>>, <<5, 5, 2>>}
    BY <1>5, Identifiers DEF InPlace
  <2>2. CASE p.at = 2 /\ p.port = 1
    <3>1. Between(1, 2) \in StaticRules(p.at) /\ Matches(Between(1, 2), p)
      BY <1>1, <2>2 DEF StaticRules, Between, Entry, Fields, Matches
    <3> QED BY <1>1, <2>2, <3>1, StaticReady
  <2>3. CASE (p.at = b /\ b # 1) \/ (p.at = 3 /\ b = 4)
    <3>1. <<p.at, ToHost(b, POLICY_COMPLETE)>> \in Needed(b)
      BY <2>3 DEF Needed
    <3>2. \A f : f.match = ToHost(b, POLICY_COMPLETE) => Matches(f, p)
      BY <1>5, MatchFields DEF ToHost
    <3> QED BY <3>1, <3>2, NeededReady
  <2> QED BY <2>1, <2>2, <2>3
<1> QED BY <1>2, <1>3, <1>4, <1>5 DEF InPlace
\* What leaves switch s through the port comes to switch t at port r.
Leads(s, port, trail, t, r, next) ==
  \/ Cable(s, port, t, r) /\ t \in live /\ next = trail
  \/ \E m \in 1..3 : Box(s, port, r, m) /\ t = s /\ next = Append(trail, m)

LEMMA SentSomewhere ==
  ASSUME NEW q, NEW port, port # q.port, NEW t, NEW r, NEW next, Leads(q.at, port, q.trail, t, r, next)
  PROVE  \E c : c \in Sent(q, port)
<1> DEFINE end == <<q.at, port>>
<1>1. CASE Cable(q.at, port, t, r) /\ t \in live
  <2>1. <<t, r>> \in Across(end) /\ <<t, r>>[1] \in live
    BY <1>1, CableAcross
  <2> DEFINE Copy(e) == [q EXCEPT !.at = e[1], !.port = e[2]]
             A == {Copy(e) : e \in {f \in Across(end) : f[1] \in live}}
  <2>2. A \subseteq Sent(q, port)
    BY DEF Sent
  <2>3. Copy(<<t, r>>) \in A
    <3> HIDE DEF Copy
    <3> QED BY <2>1
  <2> HIDE DEF A, Copy
  <2> QED BY <2>2, <2>3
<1>2. ASSUME NEW m \in 1..3, Box(q.at, port, r, m) PROVE \E c : c \in Sent(q, port)
  <2>1. m \in DOMAIN Middleboxes /\ end \in Middleboxes[m] /\ <<q.at, r>> \in Middleboxes[m] \ {end}
    BY <1>2 DEF Box, Middleboxes
  <2> DEFINE Copies(k) == {[q EXCEPT !.port = e[2], !.trail = Append(@, k)] : e \in Middleboxes[k] \ {end}}
             Boxes == {k \in DOMAIN Middleboxes : end \in Middleboxes[k]}
             A == UNION {Copies(k) : k \in Boxes}
  <2>2. A \subseteq Sent(q, port)
    BY DEF Sent
  <2>3. \E c : c \in Copies(m)
    BY <2>1
  <2>4. m \in Boxes
    BY <2>1
  <2> HIDE DEF Copies, Boxes
  <2> QED BY <2>2, <2>3, <2>4
<1> QED BY <1>1, <1>2 DEF Leads

LEMMA LeadsOneWay ==
  ASSUME NEW q, NEW port, NEW c, Moved(q, port, c),
         NEW t, NEW r, NEW next, Leads(q.at, port, q.trail, t, r, next)
  PROVE  c.at = t /\ c.port = r /\ c.trail = next
<1>1. CASE Cable(q.at, port, t, r) /\ next = q.trail
  <2>1. \A x, m : ~Box(q.at, port, x, m)
    BY <1>1 DEF Cable, Box
  <2>2. \A x, y : Cable(q.at, port, x, y) => x = t /\ y = r
    BY <1>1 DEF Cable
  <2> QED BY <1>1, <2>1, <2>2 DEF Moved
<1>2. ASSUME NEW m \in 1..3, Box(q.at, port, r, m), t = q.at, next = Append(q.trail, m)
      PROVE  c.at = t /\ c.port = r /\ c.trail = next
  <2>1. \A x, y : ~Cable(q.at, port, x, y)
    BY <1>2 DEF Cable, Box
  <2>2. \A x, k : Box(q.at, port, x, k) => x = r /\ k = m
    BY <1>2 DEF Box
  <2> QED BY <1>2, <2>1, <2>2 DEF Moved
<1> QED BY <1>1, <1>2 DEF Leads

\* After n steps of a packet from a to b a copy has the one tag v and is there.
Comes(a, b, n, v, s, port, trail) ==
  \E p \in After(a, b)[n] : /\ p \in PacketSet /\ p.src = a /\ p.dst = b /\ p.tags = <<v>>
                           /\ p.at = s /\ p.port = port /\ p.trail = trail /\ p.at \in live

\* The entry that takes it on.
LEMMA InsideDoes ==
  ASSUME ChainReady, NEW a, NEW b, HostReady(a), HostReady(b), a # b,
         NEW p \in PacketSet, p.src = a, p.dst = b, p.at \in live, NEW v \in Ids, p.tags = <<v>>,
         InPlace(v, a, b, p.at, p.port, p.trail), a # 3 \/ p.at # 4
  PROVE  \E f \in tables[p.at] : Matches(f, p) /\ <<f.action, f.out>> = Does(v, p.at, p.port, b)
<1>1. PICK f \in tables[p.at] : Matches(f, p)
  BY InsideReady
<1>2. IsRight(p.at, f)
  BY IsRightIn DEF ChainReady, NetInv
<1>3. <<f.action, f.out>> = Does(v, p.at, p.port, p.dst)
  BY <1>1, <1>2, InsideStatic, InsideWritten DEF IsRight, RightFor
<1> QED BY <1>1, <1>3

LEMMA StepInside ==
  ASSUME ChainReady, NEW a, NEW b, HostReady(a), HostReady(b), a # b,
         NEW n \in 0..11, NEW v \in Ids, NEW s, NEW port, NEW trail, Comes(a, b, n, v, s, port, trail),
         InPlace(v, a, b, s, port, trail), a # 3 \/ s # 4,
         NEW w \in Ids, NEW action, NEW out, Does(v, s, port, b) = <<action, out>>,
         action = Set(w) \/ (action = Keep /\ w = v), out # port,
         NEW t, NEW r, NEW next, Leads(s, out, trail, t, r, next)
  PROVE  Comes(a, b, n + 1, w, t, r, next)
<1>1. PICK p \in After(a, b)[n] : /\ p \in PacketSet /\ p.src = a /\ p.dst = b /\ p.tags = <<v>>
                                 /\ p.at = s /\ p.port = port /\ p.trail = trail /\ p.at \in live
  BY DEF Comes
<1>2. PICK f \in tables[p.at] : Matches(f, p) /\ <<f.action, f.out>> = Does(v, p.at, p.port, b)
  BY <1>1, InsideDoes
<1>3. f.action = action /\ f.out = out
  BY <1>1, <1>2
<1> DEFINE q == Tagged(p, f.action)
<1>4. Retagged(p, q) /\ q.tags = <<w>>
  BY <1>1, <1>3, OneTag
<1> HIDE DEF q
<1>5. q.at = s /\ q.port = port /\ q.trail = trail /\ q \in PacketSet /\ q.src = a /\ q.dst = b
  BY <1>1, <1>4 DEF Retagged
<1>6. PICK c : c \in Sent(q, out)
  BY <1>5, SentSomewhere
<1>7. Moved(q, out, c)
  BY <1>5, <1>6, SentIsMoved
<1>8. c.at = t /\ c.port = r /\ c.trail = next
  BY <1>5, <1>7, LeadsOneWay
<1>9. c \in PacketSet /\ c.src = a /\ c.dst = b /\ c.tags = <<w>>
  BY <1>4, <1>5, <1>7 DEF Moved
<1>10. c.at \in live
  BY <1>1, <1>8 DEF Leads
<1>11. c \in After(a, b)[n + 1]
  BY <1>1, <1>2, <1>3, <1>6, AfterSteps DEF Hops, q
<1> QED BY <1>8, <1>9, <1>10, <1>11 DEF Comes

\* The host gets it.
Arrives(a, b) ==
  \E p \in Route(a, b) : \E f \in tables[p.at] :
    Matches(f, p) /\ Accepts(Tagged(p, f.action), f.out) /\ p.trail = <<1, 3, 2>>

LEMMA Arriving ==
  ASSUME ChainReady, NEW a, NEW b, HostReady(a), HostReady(b), a # b,
         NEW n \in 0..12, NEW v \in Ids, NEW port, Comes(a, b, n, v, b, port, <<1, 3, 2>>),
         InPlace(v, a, b, b, port, <<1, 3, 2>>), a # 3 \/ b # 4,
         Does(v, b, port, b) = <<Pop, 1>>, port # 1
  PROVE  Arrives(a, b)
<1>1. PICK p \in After(a, b)[n] : /\ p \in PacketSet /\ p.src = a /\ p.dst = b /\ p.tags = <<v>>
                                 /\ p.at = b /\ p.port = port /\ p.trail = <<1, 3, 2>> /\ p.at \in live
  BY DEF Comes
<1>2. PICK f \in tables[p.at] : Matches(f, p) /\ <<f.action, f.out>> = Does(v, p.at, p.port, b)
  BY <1>1, InsideDoes
<1>3. f.action = Pop /\ f.out = 1
  BY <1>1, <1>2
<1> DEFINE q == Tagged(p, f.action)
<1>4. Retagged(p, q) /\ q.tags = <<>>
  BY <1>1, <1>3, OneTag
<1> HIDE DEF q
<1>5. Accepts(q, f.out)
  BY <1>1, <1>3, <1>4, Identifiers DEF Accepts, Retagged, HostReady
<1>6. p \in Route(a, b)
  BY RouteIsAfter
<1> QED BY <1>1, <1>2, <1>5, <1>6 DEF Arrives, q
LEMMA StepIn ==
  ASSUME ChainReady, NEW a, NEW b, HostReady(a), HostReady(b), a # b,
         NEW t, NEW r, NEW next, Leads(a, IF a = 1 THEN 3 ELSE 2, <<>>, t, r, next)
  PROVE  Comes(a, b, 1, IF a = 1 THEN MB1 ELSE APPLY_SERVICE_CHAIN, t, r, next)
<1> DEFINE p == First(a, b)
           v == IF a = 1 THEN MB1 ELSE APPLY_SERVICE_CHAIN
           out == IF a = 1 THEN 3 ELSE 2
<1>1. a \in {1, 3, 4, 5} /\ b \in {1, 3, 4, 5} /\ a \in live /\ a \in net.switches
  BY DEF HostReady, Hosted, ChainReady, NetInv
<1>2. /\ p \in PacketSet /\ p.src = a /\ p.dst = b /\ p.at = a /\ p.port = HostPort
      /\ p.tags = <<>> /\ p.trail = <<>> /\ p.entered = FALSE
  <2>1. <<>> \in Seq(Ids) /\ <<>> \in Seq(1..3)
    OBVIOUS
  <2> QED BY <1>1, <2>1, Identifiers DEF First, PacketSet, Hosted
<1>3. p \in After(a, b)[0]
  BY AfterSteps
<1> HIDE DEF p
<1>4. PICK f \in tables[a] : f.match = Fields(a, None, HostPort, None)
  <2>1. <<a, Fields(a, None, HostPort, None)>> \in Needed(a)
    BY DEF Needed
  <2> QED BY <2>1 DEF HostReady, InTable
<1>5. Matches(f, p)
  BY <1>2, <1>4, MatchFields
<1>6. IsRight(p.at, f) /\ ~AwayFromChain(f)
  BY <1>1, <1>2, IsRightIn DEF ChainReady, ToChainInv
<1>7. Outside(p)
  BY <1>1, <1>2, Identifiers DEF Outside, Toward
<1>8. f.action = Push(v) /\ f.out = out
  <2>1. f.out \in Doors(a) /\ f.action = Push(v)
    BY <1>1, <1>2, <1>5, <1>6, <1>7, OutsideEntries
  <2>2. f.match.src = a /\ f.match.port # None
    BY <1>4, Identifiers DEF Fields
  <2>3. f.out = out
    BY <1>1, <1>6, <2>1, <2>2 DEF Doors, AwayFromChain
  <2> QED BY <2>1, <2>3
<1> DEFINE q == Tagged(p, f.action)
<1>9. Retagged(p, q) /\ q.tags = <<v>>
  <2>1. v \in Ids
    BY IdsIn
  <2>2. Retagged(p, Tagged(p, Push(v))) /\ Tagged(p, Push(v)).tags = <<v>> \o <<>>
    BY <1>2, <2>1, TagPushed
  <2>3. <<v>> \o <<>> = <<v>>
    BY <2>1
  <2> QED BY <1>8, <2>2, <2>3
<1> HIDE DEF q, v, out
<1>10. q.at = a /\ q.port = 1 /\ q.trail = <<>> /\ q \in PacketSet /\ q.src = a /\ q.dst = b
  BY <1>2, <1>9, Identifiers DEF Retagged
<1>11. Leads(q.at, out, q.trail, t, r, next) /\ out # q.port
  BY <1>10 DEF out
<1>12. PICK c : c \in Sent(q, out)
  BY <1>11, SentSomewhere
<1>13. Moved(q, out, c)
  BY <1>10, <1>12, SentIsMoved
<1>14. c.at = t /\ c.port = r /\ c.trail = next
  BY <1>11, <1>13, LeadsOneWay
<1>15. c \in PacketSet /\ c.src = a /\ c.dst = b /\ c.tags = <<v>>
  BY <1>9, <1>10, <1>13 DEF Moved
<1>16. c.at \in live
  BY <1>1, <1>10, <1>11, <1>14 DEF Leads
<1>17. c \in After(a, b)[1]
  <2>1. After(a, b)[0 + 1] = Hops(After(a, b)[0])
    BY AfterSteps
  <2> QED BY <1>2, <1>3, <1>5, <1>8, <1>12, <2>1 DEF Hops, q
<1> QED BY <1>14, <1>15, <1>16, <1>17 DEF Comes, v

\* To S1, and through M1.
LEMMA ToMiddlebox1 ==
  ASSUME ChainReady, NEW a, NEW b, HostReady(a), HostReady(b), a # b
  PROVE  \E n \in 1..4 : /\ Comes(a, b, n, MB1, 1, 4, <<1>>)
                         /\ a # 4 => n <= 3
<1>1. a \in {1, 3, 4, 5} /\ {1, 2, 3} \subseteq live /\ {7, 1} \subseteq Ids
  BY DEF HostReady, Hosted, ChainReady, Ids
<1>2. ASSUME NEW n \in 0..11, NEW port, Comes(a, b, n, 7, 1, port, <<>>), <<a, port>> \in {<<3, 2>>, <<4, 2>>, <<5, 7>>}
      PROVE  Comes(a, b, n + 1, 1, 1, 4, <<1>>)
  <2>1. InPlace(7, a, b, 1, port, <<>>)
    BY <1>2, Identifiers DEF InPlace
  <2>2. Does(7, 1, port, b) = <<Set(1), 3>>
    BY Identifiers DEF Does
  <2>3. Leads(1, 3, <<>>, 1, 4, <<1>>)
    BY Trails DEF Leads, Box
  <2>4. 3 # port
    BY <1>2
  <2> QED BY <1>1, <1>2, <2>1, <2>2, <2>3, <2>4, StepInside
<1>3. ASSUME NEW n \in 0..11, Comes(a, b, n, 7, 2, 2, <<>>), a \in {3, 4}
      PROVE  Comes(a, b, n + 1, 7, 1, 2, <<>>)
  <2>1. InPlace(7, a, b, 2, 2, <<>>)
    BY <1>3, Identifiers DEF InPlace
  <2>2. Does(7, 2, 2, b) = <<Keep, 1>>
    BY Identifiers DEF Does
  <2>3. Leads(2, 1, <<>>, 1, 2, <<>>)
    BY <1>1 DEF Leads, Cable
  <2> QED BY <1>1, <1>3, <2>1, <2>2, <2>3, StepInside
<1>4. ASSUME NEW n \in 0..11, Comes(a, b, n, 7, 3, 5, <<>>), a = 4
      PROVE  Comes(a, b, n + 1, 7, 2, 2, <<>>)
  <2>1. InPlace(7, a, b, 3, 5, <<>>)
    BY <1>4, Identifiers DEF InPlace
  <2>2. Does(7, 3, 5, b) = <<Keep, 2>>
    BY Identifiers DEF Does
  <2>3. Leads(3, 2, <<>>, 2, 2, <<>>)
    BY <1>1 DEF Leads, Cable
  <2> QED BY <1>1, <1>4, <2>1, <2>2, <2>3, StepInside
<1>5. CASE a = 1
  <2>1. Leads(1, 3, <<>>, 1, 4, <<1>>)
    BY Trails DEF Leads, Box
  <2>2. Comes(a, b, 1, MB1, 1, 4, <<1>>)
    BY <1>5, <2>1, StepIn
  <2> QED BY <1>5, <2>2
<1>6. CASE a = 5
  <2>1. Leads(5, 2, <<>>, 1, 7, <<>>)
    BY <1>1 DEF Leads, Cable
  <2>2. Comes(a, b, 1, 7, 1, 7, <<>>)
    BY <1>6, <2>1, StepIn, Identifiers
  <2>3. Comes(a, b, 1 + 1, 1, 1, 4, <<1>>)
    BY <1>2, <1>6, <2>2
  <2> QED BY <1>6, <2>3, Identifiers
<1>7. CASE a = 3
  <2>1. Leads(3, 2, <<>>, 2, 2, <<>>)
    BY <1>1 DEF Leads, Cable
  <2>2. Comes(a, b, 1, 7, 2, 2, <<>>)
    BY <1>7, <2>1, StepIn, Identifiers
  <2>3. Comes(a, b, 1 + 1, 7, 1, 2, <<>>)
    BY <1>3, <1>7, <2>2
  <2>4. Comes(a, b, 2 + 1, 1, 1, 4, <<1>>)
    BY <1>2, <1>7, <2>3
  <2> QED BY <1>7, <2>4, Identifiers
<1>8. CASE a = 4
  <2>1. Leads(4, 2, <<>>, 3, 5, <<>>)
    BY <1>1 DEF Leads, Cable
  <2>2. Comes(a, b, 1, 7, 3, 5, <<>>)
    BY <1>8, <2>1, StepIn, Identifiers
  <2>3. Comes(a, b, 1 + 1, 7, 2, 2, <<>>)
    BY <1>4, <1>8, <2>2
  <2>4. Comes(a, b, 2 + 1, 7, 1, 2, <<>>)
    BY <1>3, <1>8, <2>3
  <2>5. Comes(a, b, 3 + 1, 1, 1, 4, <<1>>)
    BY <1>2, <1>8, <2>4
  <2> QED BY <1>8, <2>5, Identifiers
<1> QED BY <1>1, <1>5, <1>6, <1>7, <1>8

\* From M1 to M3, and back to M2.
LEMMA ToMiddlebox2 ==
  ASSUME ChainReady, NEW a, NEW b, HostReady(a), HostReady(b), a # b,
         NEW n \in 1..4, Comes(a, b, n, MB1, 1, 4, << 1 >>)
  PROVE  Comes(a, b, n + 6, MB3, 1, 6, <<1, 3, 2>>)
<1>0. {1, 2, 3} \subseteq live /\ {1, 2, 3, 4} \subseteq Ids
  BY DEF ChainReady, Ids
<1>1. Comes(a, b, n + 1, 4, 2, 1, <<1>>)
  <2> DEFINE k == n
  <2>1. k \in 0..11 /\ k + 1 = n + 1
    OBVIOUS
  <2>2. Comes(a, b, k, 1, 1, 4, <<1>>) /\ InPlace(1, a, b, 1, 4, <<1>>)
    BY Identifiers DEF InPlace
  <2>3. Does(1, 1, 4, b) = <<Set(4), 2>>
    BY Identifiers DEF Does
  <2>4. Leads(1, 2, <<1>>, 2, 1, <<1>>)
    BY <1>0 DEF Leads, Cable
  <2> HIDE DEF k
  <2> QED BY <1>0, <2>1, <2>2, <2>3, <2>4, StepInside
<1>2. Comes(a, b, n + 2, 4, 3, 2, <<1>>)
  <2> DEFINE k == n + 1
  <2>1. k \in 0..11 /\ k + 1 = n + 2
    OBVIOUS
  <2>2. Comes(a, b, k, 4, 2, 1, <<1>>) /\ InPlace(4, a, b, 2, 1, <<1>>)
    BY <1>1, Identifiers DEF InPlace
  <2>3. Does(4, 2, 1, b) = <<Keep, 2>>
    BY Identifiers DEF Does
  <2>4. Leads(2, 2, <<1>>, 3, 2, <<1>>)
    BY <1>0 DEF Leads, Cable
  <2> HIDE DEF k
  <2> QED BY <1>0, <2>1, <2>2, <2>3, <2>4, StepInside
<1>3. Comes(a, b, n + 3, 2, 3, 4, <<1, 3>>)
  <2> DEFINE k == n + 2
  <2>1. k \in 0..11 /\ k + 1 = n + 3
    OBVIOUS
  <2>2. Comes(a, b, k, 4, 3, 2, <<1>>) /\ InPlace(4, a, b, 3, 2, <<1>>)
    BY <1>2, Identifiers DEF InPlace
  <2>3. Does(4, 3, 2, b) = <<Set(2), 3>>
    BY Identifiers DEF Does
  <2>4. Leads(3, 3, <<1>>, 3, 4, <<1, 3>>)
    BY <1>0, Trails DEF Leads, Box
  <2> HIDE DEF k
  <2> QED BY <1>0, <2>1, <2>2, <2>3, <2>4, StepInside
<1>4. Comes(a, b, n + 4, 4, 2, 2, <<1, 3>>)
  <2> DEFINE k == n + 3
  <2>1. k \in 0..11 /\ k + 1 = n + 4
    OBVIOUS
  <2>2. Comes(a, b, k, 2, 3, 4, <<1, 3>>) /\ InPlace(2, a, b, 3, 4, <<1, 3>>)
    BY <1>3, Identifiers DEF InPlace
  <2>3. Does(2, 3, 4, b) = <<Set(4), 2>>
    BY Identifiers DEF Does
  <2>4. Leads(3, 2, <<1, 3>>, 2, 2, <<1, 3>>)
    BY <1>0 DEF Leads, Cable
  <2> HIDE DEF k
  <2> QED BY <1>0, <2>1, <2>2, <2>3, <2>4, StepInside
<1>5. Comes(a, b, n + 5, 4, 1, 2, <<1, 3>>)
  <2> DEFINE k == n + 4
  <2>1. k \in 0..11 /\ k + 1 = n + 5
    OBVIOUS
  <2>2. Comes(a, b, k, 4, 2, 2, <<1, 3>>) /\ InPlace(4, a, b, 2, 2, <<1, 3>>)
    BY <1>4, Identifiers DEF InPlace
  <2>3. Does(4, 2, 2, b) = <<Keep, 1>>
    BY Identifiers DEF Does
  <2>4. Leads(2, 1, <<1, 3>>, 1, 2, <<1, 3>>)
    BY <1>0 DEF Leads, Cable
  <2> HIDE DEF k
  <2> QED BY <1>0, <2>1, <2>2, <2>3, <2>4, StepInside
<1>6. Comes(a, b, n + 6, 3, 1, 6, <<1, 3, 2>>)
  <2> DEFINE k == n + 5
  <2>1. k \in 0..11 /\ k + 1 = n + 6
    OBVIOUS
  <2>2. Comes(a, b, k, 4, 1, 2, <<1, 3>>) /\ InPlace(4, a, b, 1, 2, <<1, 3>>)
    BY <1>5, Identifiers DEF InPlace
  <2>3. Does(4, 1, 2, b) = <<Set(3), 5>>
    BY Identifiers DEF Does
  <2>4. Leads(1, 5, <<1, 3>>, 1, 6, <<1, 3, 2>>)
    BY <1>0, Trails DEF Leads, Box
  <2> HIDE DEF k
  <2> QED BY <1>0, <2>1, <2>2, <2>3, <2>4, StepInside
<1> QED BY <1>6, Identifiers

\* From M2 to the host.
LEMMA FromMiddlebox2 ==
  ASSUME ChainReady, NEW a, NEW b, HostReady(a), HostReady(b), a # b,
         ~({3, 4} \subseteq net.hosts),
         NEW n \in 7..10, a # 4 => n <= 9, Comes(a, b, n, MB3, 1, 6, <<1, 3, 2>>)
  PROVE  Arrives(a, b)
<1>1. /\ a \in {1, 3, 4, 5} /\ b \in {1, 3, 4, 5} /\ {1, 2, 3} \subseteq live /\ b \in live
      /\ {3, 5} \subseteq Ids /\ ~(a = 3 /\ b = 4)
  BY DEF HostReady, Hosted, ChainReady, Ids
<1>2. InPlace(3, a, b, 1, 6, <<1, 3, 2>>) /\ Comes(a, b, n, 3, 1, 6, <<1, 3, 2>>)
  BY Identifiers DEF InPlace
<1>3. CASE b = 1
  <2>1. Does(3, 1, 6, b) = <<Pop, 1>>
    BY <1>3, Identifiers DEF Does
  <2> QED BY <1>1, <1>2, <1>3, <2>1, Arriving
<1>4. CASE b = 5
  <2>1. Does(3, 1, 6, b) = <<Set(5), 7>> /\ Does(5, 5, 2, b) = <<Pop, 1>>
    BY <1>4, Identifiers DEF Does
  <2>2. Leads(1, 7, <<1, 3, 2>>, 5, 2, <<1, 3, 2>>)
    BY <1>1, <1>4 DEF Leads, Cable
  <2>3. Comes(a, b, n + 1, 5, 5, 2, <<1, 3, 2>>)
    BY <1>1, <1>2, <2>1, <2>2, StepInside
  <2>4. InPlace(5, a, b, 5, 2, <<1, 3, 2>>)
    BY <1>4, Identifiers DEF InPlace
  <2> QED BY <1>1, <1>4, <2>1, <2>3, <2>4, Arriving
<1>5. CASE b \in {3, 4}
  <2>1. /\ Does(3, 1, 6, b) = <<Set(5), 2>> /\ Does(5, 2, 1, b) = <<Keep, 2>>
        /\ b = 3 => Does(5, 3, 2, b) = <<Pop, 1>>
        /\ b = 4 => Does(5, 3, 2, b) = <<Keep, 5>> /\ Does(5, 4, 2, b) = <<Pop, 1>>
    BY <1>5, Identifiers DEF Does
  <2>2. /\ InPlace(5, a, b, 2, 1, <<1, 3, 2>>) /\ InPlace(5, a, b, 3, 2, <<1, 3, 2>>)
        /\ b = 4 => InPlace(5, a, b, 4, 2, <<1, 3, 2>>)
    BY <1>5, Identifiers DEF InPlace
  <2>3. Comes(a, b, n + 1, 5, 2, 1, <<1, 3, 2>>)
    <3>1. Leads(1, 2, <<1, 3, 2>>, 2, 1, <<1, 3, 2>>)
      BY <1>1 DEF Leads, Cable
    <3> QED BY <1>1, <1>2, <2>1, <3>1, StepInside
  <2>4. Comes(a, b, n + 2, 5, 3, 2, <<1, 3, 2>>)
    <3>1. Leads(2, 2, <<1, 3, 2>>, 3, 2, <<1, 3, 2>>)
      BY <1>1 DEF Leads, Cable
    <3>2. n + 1 \in 0..11 /\ (n + 1) + 1 = n + 2
      OBVIOUS
    <3> QED BY <1>1, <2>1, <2>2, <2>3, <3>1, <3>2, StepInside
  <2>5. CASE b = 3
    <3>1. n + 2 \in 0..12
      OBVIOUS
    <3> QED BY <1>1, <2>1, <2>2, <2>4, <2>5, <3>1, Arriving
  <2>6. CASE b = 4
    <3>1. Leads(3, 5, <<1, 3, 2>>, 4, 2, <<1, 3, 2>>)
      BY <1>1, <2>6 DEF Leads, Cable
    <3>2. n + 2 \in 0..11 /\ n + 3 \in 0..12 /\ (n + 2) + 1 = n + 3 /\ a # 3
      BY <1>1, <2>6
    <3>3. Comes(a, b, n + 3, 5, 4, 2, <<1, 3, 2>>)
      BY <1>1, <2>1, <2>2, <2>4, <2>6, <3>1, <3>2, StepInside
    <3> QED BY <1>1, <2>1, <2>2, <2>6, <3>2, <3>3, Arriving
  <2> QED BY <1>5, <2>5, <2>6
<1> QED BY <1>1, <1>3, <1>4, <1>5

LEMMA ReadyIsServed ==
  ASSUME ChainReady, NEW a, NEW b, HostReady(a), HostReady(b), a # b,
         ~({3, 4} \subseteq net.hosts)
  PROVE  Arrives(a, b)
<1>1. PICK n \in 1..4 : Comes(a, b, n, MB1, 1, 4, <<1>>) /\ (a # 4 => n <= 3)
  BY ToMiddlebox1
<1>2. Comes(a, b, n + 6, MB3, 1, 6, <<1, 3, 2>>)
  BY <1>1, ToMiddlebox2
<1>3. n + 6 \in 7..10 /\ (a # 4 => n + 6 <= 9)
  BY <1>1
<1> QED BY <1>2, <1>3, FromMiddlebox2

\* When the rules of two hosts have all been sent and have arrived, none of them was
\* lost, and the switches of the chain are connected, the entries alone take a packet
\* from one to the other, over M1, M3 and M2: whichever partners the rules were
\* written for, in whatever order, and with whatever others (install_flow_rules).
THEOREM RulesServe == Spec => []Served
<1>1. ServiceInv /\ ServeInv => Served
  <2> SUFFICES ASSUME ServiceInv, ServeInv, ~strayed, {1, 2, 3} \subseteq live,
                      ~({3, 4} \subseteq net.hosts), \A s \in net.switches : wire[s] = <<>>,
                      NEW a \in installed, NEW b \in installed, a # b
               PROVE  Arrives(a, b)
    BY DEF Served, Arrives
  <2>1. ChainReady /\ InstalledInv
    BY DEF ServiceInv, ServeInv, ChainReady, ChainInv, OrderInv, RightInv
  <2>2. ASSUME NEW h \in installed PROVE HostReady(h)
    <3>1. h \in net.hosts /\ \A n \in Needed(h) : n[1] \in live /\ n[1] \in net.switches /\ Has(n[1], n[2])
      BY <2>1 DEF InstalledInv
    <3>2. ASSUME NEW n \in Needed(h) PROVE InTable(tables[n[1]], n[2])
      <4>1. n[1] \in net.switches /\ Has(n[1], n[2])
        BY <3>1
      <4>2. ~OnWire(<<>>, n[2])
        BY DEF OnWire
      <4> QED BY <4>1, <4>2 DEF Has, Holding
    <3>3. h \in live
      <4>1. <<h, Fields(h, None, HostPort, None)>> \in Needed(h)
        BY DEF Needed
      <4>2. <<h, Fields(h, None, HostPort, None)>>[1] \in live
        BY <3>1, <4>1
      <4> QED BY <4>2
    <3> QED BY <2>1, <3>1, <3>2, <3>3, HostsHosted DEF HostReady, ChainReady
  <2> QED BY <2>1, <2>2, ReadyIsServed
<1>2. Init => ServeInv
  BY InitServe
<1>3. ServiceInv /\ ServiceInv' /\ ServeInv /\ [Next]_vars => ServeInv'
  BY NextServe DEF ServiceInv
<1> QED BY <1>1, <1>2, <1>3, AlwaysService, PTL DEF Spec

----------------------------------------------------------------------------
(* The tree of a part of the network, when its links are known.            *)

\* The switches on the side of s, when the cable from s to t is cut.
Side(s, t) == CASE <<s, t>> = <<1, 2>> -> {1, 5}
                [] <<s, t>> = <<2, 1>> -> {2, 3, 4}
                [] <<s, t>> = <<2, 3>> -> {1, 2, 5}
                [] <<s, t>> = <<3, 2>> -> {3, 4}
                [] <<s, t>> = <<3, 4>> -> {1, 2, 3, 5}
                [] <<s, t>> = <<4, 3>> -> {4}
                [] <<s, t>> = <<1, 5>> -> {1, 2, 3, 4}
                [] OTHER -> {5}

LEMMA CableCuts ==
  ASSUME NEW s \in 1..5, NEW t \in 1..5, Cabled(s, t)
  PROVE  /\ Side(s, t) \subseteq 1..5 /\ s \in Side(s, t) /\ t \notin Side(s, t)
         /\ \A u \in Side(s, t), w \in (1..5) \ Side(s, t) : Cabled(u, w) => u = s /\ w = t
<1>1. <<s, t>> \in Neighbours
  BY CabledNeighbours
<1>2. Side(s, t) \subseteq 1..5 /\ s \in Side(s, t) /\ t \notin Side(s, t)
  BY <1>1 DEF Side, Neighbours
<1>3. ASSUME NEW u \in Side(s, t), NEW w \in (1..5) \ Side(s, t), <<u, w>> \in Neighbours
      PROVE  u = s /\ w = t
  BY <1>1, <1>3 DEF Side, Neighbours
<1>4. \A u \in Side(s, t), w \in (1..5) \ Side(s, t) : Cabled(u, w) => <<u, w>> \in Neighbours
  BY <1>2, CabledNeighbours
<1> QED BY <1>2, <1>3, <1>4

LEMMA CabledBack ==
  ASSUME NEW s \in 1..5, NEW t \in 1..5, Cabled(s, t)
  PROVE  Cabled(t, s) /\ s # t
BY CabledNeighbours DEF Neighbours

EdgesOf(E, V) == DOMAIN E = V /\ \A s \in V : E[s] = Beside(s, V)

\* What spans V has every cable within V, because each of them alone joins two parts.
LEMMA SpanningHasAll ==
  ASSUME NEW V \in SUBSET (1..5), Joined(V), NEW E, EdgesOf(E, V),
         NEW tree, DOMAIN tree = V, Symmetric(tree), \A s \in V : tree[s] \subseteq Beside(s, V),
         NEW root \in V, Spans(tree, E, root)
  PROVE  \A s \in V : tree[s] = Beside(s, V)
<1>1. PICK C \in SUBSET V :
        /\ root \in C
        /\ \A u \in C : E[u] \subseteq C
        /\ \A S \in (SUBSET C) \ {C} :
             root \in S => \E u \in S : tree[u] \cap (C \ S) # {}
  BY DEF Spans, EdgesOf
<1>2. C = V
  <2> SUFFICES ASSUME C # V PROVE FALSE
    OBVIOUS
  <2>1. PICK s \in C, t \in V \ C : Cabled(s, t)
    BY <1>1 DEF Joined
  <2>2. t \in E[s]
    BY <2>1 DEF EdgesOf, Beside
  <2> QED BY <1>1, <2>1, <2>2
<1>3. ASSUME NEW s \in V, NEW t \in V, Cabled(s, t), root \in Side(s, t) PROVE t \in tree[s]
  <2> DEFINE S == V \cap Side(s, t)
  <2>1. S \in (SUBSET V) \ {V} /\ root \in S
    BY <1>3, CableCuts
  <2>2. PICK u \in S : tree[u] \cap (V \ S) # {}
    BY <1>1, <1>2, <2>1
  <2>3. PICK w \in V \ S : w \in tree[u] /\ Cabled(u, w)
    BY <2>2 DEF Beside
  <2>4. u = s /\ w = t
    BY <1>3, <2>3, CableCuts
  <2> QED BY <2>3, <2>4
<1>4. ASSUME NEW s \in V, NEW t \in V, Cabled(s, t) PROVE t \in tree[s]
  <2>1. CASE root \in Side(s, t)
    BY <1>3, <1>4, <2>1
  <2>2. CASE root \notin Side(s, t)
    <3>1. Cabled(t, s) /\ root \in Side(t, s)
      <4>1. Cabled(t, s) /\ <<s, t>> \in Neighbours
        BY <1>4, CabledBack, CabledNeighbours
      <4>2. root \in Side(s, t) \/ root \in Side(t, s)
        BY <4>1 DEF Side, Neighbours
      <4> QED BY <2>2, <4>1, <4>2
    <3>2. s \in tree[t]
      BY <1>3, <3>1
    <3> QED BY <3>2 DEF Symmetric
  <2> QED BY <2>1, <2>2
<1> QED BY <1>4 DEF Beside

LEMMA TreeOfPart ==
  ASSUME NEW V \in SUBSET (1..5), V # {}, NEW E, NEW order \in Orders
  PROVE  LET tree == prim_spanningTree(V, E, order)
         IN  /\ DOMAIN tree = V
             /\ (\A s \in DOMAIN E : \A t \in E[s] : t \in 1..5 /\ Cabled(s, t)) /\ DOMAIN E \subseteq 1..5
                  => \A s \in V : tree[s] \subseteq Beside(s, V)
             /\ EdgesOf(E, V) /\ Joined(V) => \A s \in V : tree[s] = Beside(s, V)
<1> DEFINE tree == prim_spanningTree(V, E, order)
<1>1. V \in SUBSET Switches
  BY ChainAssumption
<1>2. /\ tree \in [V -> SUBSET V] /\ Symmetric(tree)
      /\ \A s \in V : \A t \in tree[s] : s # t /\ Known(E, s, t)
  BY <1>1, SearchBuildsForest
<1> HIDE DEF tree
<1>3. ASSUME \A s \in DOMAIN E : \A t \in E[s] : t \in 1..5 /\ Cabled(s, t), DOMAIN E \subseteq 1..5
      PROVE  \A s \in V : tree[s] \subseteq Beside(s, V)
  <2> SUFFICES ASSUME NEW s \in V, NEW t \in tree[s] PROVE t \in Beside(s, V)
    OBVIOUS
  <2>1. t \in V /\ Known(E, s, t)
    BY <1>2
  <2>2. Cabled(s, t)
    BY <1>3, <2>1, CabledBack DEF Known
  <2> QED BY <2>1, <2>2 DEF Beside
<1>4. ASSUME EdgesOf(E, V), Joined(V) PROVE \A s \in V : tree[s] = Beside(s, V)
  <2>1. \A s \in V : tree[s] \subseteq Beside(s, V)
    <3>1. \A s \in DOMAIN E : \A t \in E[s] : t \in 1..5 /\ Cabled(s, t)
      BY <1>4 DEF EdgesOf, Beside
    <3>2. DOMAIN E \subseteq 1..5
      BY <1>4 DEF EdgesOf
    <3> QED BY <1>3, <3>1, <3>2
  <2>2. PICK root \in V : Spans(tree, E, root)
    <3>1. DOMAIN E = V /\ \A s \in V : E[s] \subseteq V
      BY <1>4 DEF EdgesOf, Beside
    <3> QED BY <1>1, <3>1, SearchSpans DEF tree
  <2> QED BY <1>2, <1>4, <2>1, <2>2, SpanningHasAll
<1> QED BY <1>2, <1>3, <1>4 DEF tree

----------------------------------------------------------------------------
(* The events that wait. *)

Waits(q, type) == \E i \in 1..Len(q) : q[i].type = type

\* Every event of type a has one of type b behind it.
Followed(q, a, b) ==
  \A i \in 1..Len(q) : q[i].type = a => \E j \in (i + 1)..Len(q) : q[j].type = b

OneLeave(q) == \E i \in 1..Len(q) : \A j \in 1..Len(q) : q[j].type = "leave" <=> j = i

LinkEventOf(l) == [type |-> "link", src |-> l[1], dst |-> l[2]]

\* The link's event waits, and its switch has an entry or gets one before.
LinkWaits(q, l, known) ==
  \E i \in 1..Len(q) : /\ q[i] = LinkEventOf(l)
                       /\ known \/ \E j \in 1..(i - 1) : q[j].type = "enter"

LEMMA Reported ==
  ASSUME NEW E, NEW q \in Seq(E), NEW e \in E
  PROVE  LET r == Append(q, e)
         IN  /\ \A type : Waits(r, type) <=> Waits(q, type) \/ e.type = type
             /\ \A a, b : a # b /\ e.type = b => Followed(r, a, b)
             /\ \A a, b : Followed(q, a, b) /\ e.type # a => Followed(r, a, b)
             /\ ~Waits(q, "leave") /\ e.type = "leave" => OneLeave(r)
             /\ OneLeave(q) /\ e.type # "leave" => OneLeave(r)
             /\ \A l, known : LinkWaits(q, l, known) => LinkWaits(r, l, known)
             /\ \A l : e = LinkEventOf(l) /\ Waits(q, "enter") => LinkWaits(r, l, FALSE)
             /\ \A l : e = LinkEventOf(l) => LinkWaits(r, l, TRUE)
<1> DEFINE r == Append(q, e)
           n == Len(q)
<1>1. /\ n \in Nat /\ Len(r) = n + 1 /\ r[n + 1] = e
      /\ \A i \in 1..n : r[i] = q[i]
  OBVIOUS
<1> HIDE DEF r
<1>2. 1..Len(r) = (1..n) \cup {n + 1}
  BY <1>1
<1>3. \A i \in 1..n : n + 1 \in (i + 1)..Len(r) /\ (i + 1)..n \subseteq (i + 1)..Len(r)
  BY <1>1
<1>4. \A i \in 1..n : n + 1 # i
  BY <1>1
<1>5. (n + 1) - 1 = n
  BY <1>1
<1> HIDE DEF n
<1>6. \A type : Waits(r, type) <=> Waits(q, type) \/ e.type = type
  BY <1>1, <1>2 DEF Waits, n
<1>7. \A a, b : a # b /\ e.type = b => Followed(r, a, b)
  BY <1>1, <1>2, <1>3 DEF Followed, n
<1>8. \A a, b : Followed(q, a, b) /\ e.type # a => Followed(r, a, b)
  <2> SUFFICES ASSUME NEW a, NEW b, Followed(q, a, b), e.type # a, NEW i \in 1..Len(r), r[i].type = a
               PROVE  \E j \in (i + 1)..Len(r) : r[j].type = b
    BY DEF Followed
  <2>1. i \in 1..n /\ q[i].type = a
    BY <1>1, <1>2
  <2>2. PICK j \in (i + 1)..n : q[j].type = b
    BY <2>1 DEF Followed, n
  <2>3. j \in 1..n /\ j \in (i + 1)..Len(r)
    BY <1>1, <1>3, <2>1, <2>2
  <2> QED BY <1>1, <2>2, <2>3
<1>9. ~Waits(q, "leave") /\ e.type = "leave" => OneLeave(r)
  BY <1>1, <1>2, <1>4 DEF Waits, OneLeave, n
<1>10. OneLeave(q) /\ e.type # "leave" => OneLeave(r)
  <2> SUFFICES ASSUME NEW k \in 1..n, \A j \in 1..n : q[j].type = "leave" <=> j = k, e.type # "leave"
               PROVE  OneLeave(r)
    BY DEF OneLeave, n
  <2>1. \A j \in 1..Len(r) : r[j].type = "leave" <=> j = k
    BY <1>1, <1>2, <1>4
  <2> QED BY <1>2, <2>1 DEF OneLeave
<1>11. \A l, known : LinkWaits(q, l, known) => LinkWaits(r, l, known)
  <2> SUFFICES ASSUME NEW l, NEW known, NEW i \in 1..n, q[i] = LinkEventOf(l),
                      known \/ \E j \in 1..(i - 1) : q[j].type = "enter"
               PROVE  LinkWaits(r, l, known)
    BY DEF LinkWaits, n
  <2>1. \A j \in 1..(i - 1) : j \in 1..n
    BY <1>1
  <2> QED BY <1>1, <1>2, <2>1 DEF LinkWaits
<1>12. \A l : e = LinkEventOf(l) /\ Waits(q, "enter") => LinkWaits(r, l, FALSE)
  BY <1>1, <1>2, <1>5 DEF LinkWaits, Waits, n
<1>13. \A l : e = LinkEventOf(l) => LinkWaits(r, l, TRUE)
  BY <1>1, <1>2 DEF LinkWaits
<1> QED BY <1>6, <1>7, <1>8, <1>9, <1>10, <1>11, <1>12, <1>13 DEF r

LEMMA Handled ==
  ASSUME NEW E, NEW q \in Seq(E), q # <<>>
  PROVE  LET r == Tail(q)
             type == Head(q).type
         IN  /\ \A a : Waits(q, a) <=> type = a \/ Waits(r, a)
             /\ \A a, b : Followed(q, a, b) => Followed(r, a, b) /\ (type = a => Waits(r, b))
             /\ OneLeave(q) /\ type = "leave" => ~Waits(r, "leave")
             /\ OneLeave(q) /\ type # "leave" => OneLeave(r)
             /\ \A l : LinkWaits(q, l, TRUE) => Head(q) = LinkEventOf(l) \/ LinkWaits(r, l, TRUE)
             /\ \A l : LinkWaits(q, l, FALSE) =>
                  IF type = "enter" THEN LinkWaits(r, l, TRUE) ELSE LinkWaits(r, l, FALSE)
<1> DEFINE r == Tail(q)
           n == Len(q)
<1>1. /\ n \in Nat \ {0} /\ Len(r) = n - 1 /\ Head(q) = q[1]
      /\ \A i \in 1..(n - 1) : r[i] = q[i + 1]
  OBVIOUS
<1> HIDE DEF r
<1>2. \A i \in 2..n : i - 1 \in 1..Len(r) /\ r[i - 1] = q[i]
  BY <1>1
<1>3. \A i \in 1..Len(r) : i + 1 \in 2..n /\ r[i] = q[i + 1]
  BY <1>1
<1>4. 1..n = {1} \cup (2..n) /\ 1 \notin 2..n
  BY <1>1
<1>5. \A i \in 2..n : i \in 1..n
  BY <1>1
<1> HIDE DEF n
<1>6. \A a : Waits(q, a) <=> Head(q).type = a \/ Waits(r, a)
  BY <1>1, <1>2, <1>3, <1>4 DEF Waits, n
<1>7. ASSUME NEW a, NEW b, Followed(q, a, b)
      PROVE  Followed(r, a, b) /\ (Head(q).type = a => Waits(r, b))
  <2>1. ASSUME NEW i \in 1..Len(r), r[i].type = a PROVE \E j \in (i + 1)..Len(r) : r[j].type = b
    <3>1. PICK j \in ((i + 1) + 1)..n : q[j].type = b
      BY <1>3, <1>5, <1>7, <2>1 DEF Followed, n
    <3>2. j \in 2..n /\ j - 1 \in (i + 1)..Len(r)
      BY <1>1, <2>1, <3>1
    <3> QED BY <1>2, <3>1, <3>2
  <2>2. ASSUME Head(q).type = a PROVE Waits(r, b)
    <3>1. PICK j \in (1 + 1)..n : q[j].type = b
      BY <1>1, <1>4, <1>7, <2>2 DEF Followed, n
    <3> QED BY <1>2, <3>1 DEF Waits
  <2> QED BY <2>1, <2>2 DEF Followed
<1>8. OneLeave(q) /\ Head(q).type = "leave" => ~Waits(r, "leave")
  BY <1>1, <1>3, <1>4, <1>5 DEF OneLeave, Waits, n
<1>9. OneLeave(q) /\ Head(q).type # "leave" => OneLeave(r)
  <2> SUFFICES ASSUME NEW k \in 1..n, \A j \in 1..n : q[j].type = "leave" <=> j = k,
                      Head(q).type # "leave"
               PROVE  OneLeave(r)
    BY DEF OneLeave, n
  <2>1. k \in 2..n
    BY <1>1, <1>4
  <2>2. \A j \in 1..Len(r) : j + 1 = k <=> j = k - 1
    BY <1>1, <2>1
  <2>3. k - 1 \in 1..Len(r)
    BY <1>2, <2>1
  <2>4. ASSUME NEW j \in 1..Len(r) PROVE r[j].type = "leave" <=> j = k - 1
    <3>1. j + 1 \in 1..n /\ r[j] = q[j + 1]
      BY <1>3, <1>5
    <3>2. q[j + 1].type = "leave" <=> j + 1 = k
      BY <3>1
    <3> QED BY <2>2, <3>1, <3>2
  <2> QED BY <2>3, <2>4 DEF OneLeave
<1>10. ASSUME NEW l, LinkWaits(q, l, TRUE) PROVE Head(q) = LinkEventOf(l) \/ LinkWaits(r, l, TRUE)
  BY <1>1, <1>2, <1>4, <1>10 DEF LinkWaits, n
<1>11. ASSUME NEW l, LinkWaits(q, l, FALSE)
       PROVE  IF Head(q).type = "enter" THEN LinkWaits(r, l, TRUE) ELSE LinkWaits(r, l, FALSE)
  <2>0. PICK i \in 1..n : q[i] = LinkEventOf(l) /\ \E j \in 1..(i - 1) : q[j].type = "enter"
    BY <1>11 DEF LinkWaits, n
  <2>1. PICK j \in 1..(i - 1) : q[i] = LinkEventOf(l) /\ q[j].type = "enter"
    BY <2>0
  <2>2. i \in 2..n /\ (j = 1 \/ (j \in 2..n /\ j - 1 \in 1..((i - 1) - 1)))
    BY <1>1, <2>1
  <2>3. i - 1 \in 1..Len(r) /\ r[i - 1] = LinkEventOf(l)
    BY <1>2, <2>1, <2>2
  <2>4. LinkWaits(r, l, TRUE)
    BY <2>3 DEF LinkWaits
  <2>5. ASSUME Head(q).type # "enter" PROVE LinkWaits(r, l, FALSE)
    <3>1. j \in 2..n /\ j - 1 \in 1..((i - 1) - 1)
      BY <1>1, <2>1, <2>2, <2>5
    <3>2. r[j - 1].type = "enter"
      BY <1>2, <2>1, <3>1
    <3> QED BY <2>3, <3>1, <3>2 DEF LinkWaits
  <2> QED BY <2>4, <2>5
<1> QED BY <1>6, <1>7, <1>8, <1>9, <1>10, <1>11 DEF r

----------------------------------------------------------------------------
(* What the controller knows, and what the waiting events will tell it.    *)

FullTree(V) ==
  Joined(V) => \A s \in V : s \in DOMAIN m_treeLinks /\ m_treeLinks[s] = Beside(s, V)
TreeWithin(V) == \A s \in DOMAIN m_treeLinks : m_treeLinks[s] \subseteq Beside(s, V)

EventsHere == {e \in Events : e.type = "link" => e.src \in net.switches /\ e.dst \in net.switches}

HereInv == /\ events \in Seq(EventsHere)
           /\ \A s \in DOMAIN edges : edges[s] \subseteq net.switches
           /\ DOMAIN m_treeLinks \subseteq net.switches /\ TreeWithin(net.switches)
           /\ net.switches # {} => DOMAIN m_treeLinks # {}

\* A reported link is in edges, or its event waits.
LinkKept(l) == \/ /\ l[1] \in DOMAIN edges
                  /\ l[2] \in edges[l[1]] \/ LinkWaits(events, l, TRUE)
               \/ LinkWaits(events, l, FALSE)

ReportedInv == /\ \A l \in links : /\ l \in Cabling /\ l[1] \in live /\ l[2] \in live
                                   /\ LinkKept(l)
               /\ \A s \in live : s \in DOMAIN edges \/ Waits(events, "enter")

\* When all switches are connected, the last of them to come has an event behind
\* every leave, and its links have theirs behind that.
EnterInv == live = net.switches =>
  /\ Followed(events, "leave", "enter")
  /\ Waits(events, "enter") \/ \A s \in live : <<s, life[s]>> \in switches

TreeLastInv ==
  live = net.switches /\ Joined(net.switches) /\ Cabling # {} /\ Cabling \subseteq links =>
  /\ Followed(events, "enter", "link")
  /\ Waits(events, "link") \/ FullTree(net.switches)

\* Until a switch comes back after the first that went.
NoReturn == downs = 0 \/ (downs = 1 /\ live # net.switches)

KnownAs(V) == switches = {<<s, life[s]>> : s \in V} /\ EdgesOf(edges, V)

Before == live = net.switches /\ KnownAs(net.switches) /\ ~Waits(events, "leave")
Leaving == KnownAs(net.switches) /\ OneLeave(events)
Left == KnownAs(live) /\ ~Waits(events, "leave") /\ (live # {} => FullTree(live) /\ TreeWithin(live))

FirstInv == NoReturn =>
  /\ \A l \in Cabling : l[1] \in live /\ l[2] \in live => l \in links
  /\ ~Waits(events, "enter") /\ ~Waits(events, "link")
  /\ \/ downs = 0 /\ Before
     \/ downs = 1 /\ (\E x \in net.switches : live = net.switches \ {x}) /\ (Leaving \/ Left)

KnownInv == HereInv /\ ReportedInv /\ EnterInv /\ TreeLastInv /\ FirstInv

LEMMA InitKnown == Init => KnownInv
<1> SUFFICES ASSUME Init PROVE KnownInv
  OBVIOUS
<1>1. NetInv /\ net.switches \subseteq 1..5
  BY InitSound, HostsHosted DEF ChainInv
<1>2. /\ DOMAIN edges = net.switches /\ m_treeLinks = edges /\ events = <<>> /\ downs = 0
      /\ live = net.switches /\ links = Cabling /\ switches = {<<s, 0>> : s \in net.switches}
      /\ \A s \in net.switches : edges[s] = Beside(s, net.switches) /\ life[s] = 0
  BY DEF Init, Beside
<1>3. \A type : ~Waits(events, type)
  BY <1>2 DEF Waits
<1>4. \A a, b : Followed(events, a, b)
  BY <1>2 DEF Followed
<1>5. HereInv
  BY <1>2 DEF HereInv, TreeWithin, Beside
<1>6. ReportedInv
  BY <1>2 DEF ReportedInv, LinkKept, Cabling, Beside
<1>7. EnterInv
  BY <1>2, <1>4 DEF EnterInv
<1>8. TreeLastInv
  BY <1>2, <1>4 DEF TreeLastInv, FullTree
<1>9. KnownAs(net.switches)
  BY <1>2 DEF KnownAs, EdgesOf
<1>10. FirstInv
  BY <1>2, <1>3, <1>9 DEF FirstInv, Before
<1> QED BY <1>5, <1>6, <1>7, <1>8, <1>10 DEF KnownInv

LEMMA KnownFollows == NetInv /\ GraphInv /\ KnownInv => NetworkKnown
<1> SUFFICES ASSUME NetInv, GraphInv, KnownInv, events = <<>>,
                    {l \in Cabling : {l[1], l[2]} \subseteq live} \subseteq links,
                    downs <= 1 \/ live = net.switches, NEW s \in live
             PROVE  /\ <<s, life[s]>> \in switches
                    /\ s \in DOMAIN m_treeLinks => m_treeLinks[s] \subseteq Beside(s, live)
                    /\ Joined(live) => s \in DOMAIN m_treeLinks /\ m_treeLinks[s] = Beside(s, live)
  BY DEF NetworkKnown
<1>1. \A type : ~Waits(events, type)
  BY DEF Waits
<1>2. ~OneLeave(events)
  BY DEF OneLeave
<1>3. CASE live = net.switches
  <2>1. <<s, life[s]>> \in switches
    BY <1>1, <1>3 DEF KnownInv, EnterInv
  <2>2. TreeWithin(live)
    BY <1>3 DEF KnownInv, HereInv
  <2>3. ASSUME Joined(live) PROVE s \in DOMAIN m_treeLinks /\ m_treeLinks[s] = Beside(s, live)
    <3>1. CASE Cabling # {}
      <4>1. Cabling \subseteq links
        BY <1>3 DEF Cabling
      <4> QED BY <1>1, <1>3, <2>3, <3>1, <4>1 DEF KnownInv, TreeLastInv, FullTree
    <3>2. CASE Cabling = {}
      <4>1. ASSUME NEW u \in live, NEW w \in live PROVE ~Cabled(u, w)
        <5>1. <<u, w>>[1] = u /\ <<u, w>>[2] = w /\ <<u, w>> \in net.switches \X net.switches
          BY <1>3
        <5> QED BY <3>2, <5>1 DEF Cabling
      <4>2. live = {s}
        <5> SUFFICES ASSUME live # {s} PROVE FALSE
          OBVIOUS
        <5>1. {s} \in (SUBSET live) \ {{}, live}
          OBVIOUS
        <5>2. PICK u \in {s}, w \in live \ {s} : Cabled(u, w)
          BY <2>3, <5>1 DEF Joined
        <5> QED BY <4>1, <5>2
      <4>3. s \in DOMAIN m_treeLinks
        BY <1>3, <4>2 DEF KnownInv, HereInv
      <4> QED BY <2>2, <4>1, <4>3 DEF TreeWithin, Beside
    <3> QED BY <3>1, <3>2
  <2> QED BY <2>1, <2>2, <2>3 DEF TreeWithin
<1>4. CASE live # net.switches
  <2>1. downs \in Nat /\ downs <= 1
    BY <1>4 DEF GraphInv, LivesInv, NetInv, IsNetwork
  <2>2. NoReturn
    BY <1>4, <2>1 DEF NoReturn
  <2>3. Left
    BY <1>2, <1>4, <2>2 DEF KnownInv, FirstInv, Before, Leaving
  <2> QED BY <2>3 DEF Left, KnownAs, FullTree, TreeWithin
<1> QED BY <1>3, <1>4

----------------------------------------------------------------------------
(* Switches and links that come and go, and what is reported of it. *)

LEMMA KindsDiffer ==
  ASSUME NEW e \in Events
  PROVE  /\ e.type \in {"enter", "leave", "link", "host"}
         /\ \A l : e = LinkEventOf(l) => e.type = "link" /\ e.src = l[1] /\ e.dst = l[2]
<1>1. CASE e \in {[type |-> "enter"], [type |-> "leave"]}
  BY <1>1 DEF LinkEventOf
<1>2. CASE \E l \in (1..5) \X (1..5) : e = [type |-> "link", src |-> l[1], dst |-> l[2]]
  BY <1>2 DEF LinkEventOf
<1>3. CASE \E h \in 1..5 : e = [type |-> "host", dpid |-> h]
  BY <1>3 DEF LinkEventOf
<1> QED BY <1>1, <1>2, <1>3 DEF Events

LEMMA ReportedEvents ==
  ASSUME KnownInv, NEW e \in EventsHere, Report(e)
  PROVE  /\ events' \in Seq(EventsHere)
         /\ \A type : Waits(events', type) <=> Waits(events, type) \/ e.type = type
         /\ \A a, b : a # b /\ e.type = b => Followed(events', a, b)
         /\ \A a, b : Followed(events, a, b) /\ e.type # a => Followed(events', a, b)
         /\ ~Waits(events, "leave") /\ e.type = "leave" => OneLeave(events')
         /\ OneLeave(events) /\ e.type # "leave" => OneLeave(events')
         /\ \A l, known : LinkWaits(events, l, known) => LinkWaits(events', l, known)
         /\ \A l : e = LinkEventOf(l) /\ Waits(events, "enter") => LinkWaits(events', l, FALSE)
         /\ \A l : e = LinkEventOf(l) => LinkWaits(events', l, TRUE)
<1>1. events \in Seq(EventsHere) /\ events' = Append(events, e)
  BY DEF KnownInv, HereInv, Report
<1>2. events' \in Seq(EventsHere)
  BY <1>1
<1> QED BY <1>1, <1>2, Reported

LEMMA SwitchUpKnown ==
  ASSUME NetInv, GraphInv, KnownInv, UNCHANGED net, NEW x \in net.switches, SwitchUp(x)
  PROVE  KnownInv'
<1> DEFINE e == [type |-> "enter"]
<1>1. /\ x \notin live /\ live' = live \cup {x} /\ Report(e)
      /\ UNCHANGED <<switches, edges, m_treeLinks, links, downs>>
      /\ e \in EventsHere /\ e.type = "enter"
  BY DEF SwitchUp, graphVars, EventsHere, Events
<1> HIDE DEF e
<1>2. /\ events' \in Seq(EventsHere) /\ Waits(events', "enter")
      /\ Followed(events', "leave", "enter")
      /\ \A l, known : LinkWaits(events, l, known) => LinkWaits(events', l, known)
  BY <1>1, ReportedEvents
<1>3. HereInv'
  BY <1>1, <1>2 DEF KnownInv, HereInv, TreeWithin, EventsHere
<1>4. ReportedInv'
  BY <1>1, <1>2 DEF KnownInv, ReportedInv, LinkKept, Cabling
<1>5. EnterInv'
  BY <1>2 DEF EnterInv
<1>6. TreeLastInv'
  <2> SUFFICES ASSUME Joined(net.switches), Cabling # {}, Cabling \subseteq links PROVE FALSE
    BY <1>1 DEF TreeLastInv, Cabling
  <2>1. PICK y \in net.switches : Cabled(x, y)
    <3>1. PICK l \in net.switches \X net.switches : Cabled(l[1], l[2])
      BY DEF Cabling
    <3>2. l[1] # l[2]
      BY <3>1, CabledBack, HostsHosted
    <3>3. {x} \in (SUBSET net.switches) \ {{}, net.switches}
      BY <3>1, <3>2
    <3> QED BY <3>3 DEF Joined
  <2>2. <<x, y>> \in Cabling
    <3>1. <<x, y>>[1] = x /\ <<x, y>>[2] = y /\ <<x, y>> \in net.switches \X net.switches
      OBVIOUS
    <3> QED BY <2>1, <3>1 DEF Cabling
  <2>3. <<x, y>>[1] \in live
    BY <2>2 DEF KnownInv, ReportedInv
  <2> QED BY <1>1, <2>3
<1>7. FirstInv'
  <2>1. ~NoReturn'
    <3> SUFFICES ASSUME NoReturn, downs = 0 \/ live' # net.switches PROVE FALSE
      BY <1>1 DEF NoReturn
    <3>1. downs = 0 => live = net.switches
      BY DEF KnownInv, FirstInv, Before, NoReturn
    <3>2. downs = 1 /\ \E y \in net.switches : live = net.switches \ {y}
      BY <1>1, <3>1 DEF KnownInv, FirstInv, Before
    <3>3. live' = net.switches
      BY <1>1, <3>2
    <3> QED BY <3>2, <3>3
  <2> QED BY <2>1 DEF FirstInv
<1> QED BY <1>3, <1>4, <1>5, <1>6, <1>7 DEF KnownInv

LEMMA SwitchDownKnown ==
  ASSUME NetInv, GraphInv, KnownInv, UNCHANGED net, NEW x \in net.switches, SwitchDown(x)
  PROVE  KnownInv'
<1> DEFINE e == [type |-> "leave"]
<1>1. /\ x \in live /\ live' = live \ {x} /\ downs' = downs + 1 /\ Report(e)
      /\ links' = {l \in links : x \notin {l[1], l[2]}}
      /\ UNCHANGED <<switches, edges, m_treeLinks, life>>
      /\ e \in EventsHere /\ e.type = "leave"
  BY DEF SwitchDown, graphVars, EventsHere, Events
<1> HIDE DEF e
<1>2. /\ events' \in Seq(EventsHere)
      /\ \A type : Waits(events', type) <=> Waits(events, type) \/ type = "leave"
      /\ ~Waits(events, "leave") => OneLeave(events')
      /\ \A l, known : LinkWaits(events, l, known) => LinkWaits(events', l, known)
  BY <1>1, ReportedEvents
<1>3. HereInv'
  BY <1>1, <1>2 DEF KnownInv, HereInv, TreeWithin, EventsHere
<1>4. ReportedInv'
  BY <1>1, <1>2 DEF KnownInv, ReportedInv, LinkKept, Cabling
<1>5. live' # net.switches
  BY <1>1
<1>6. EnterInv' /\ TreeLastInv'
  BY <1>5 DEF EnterInv, TreeLastInv
<1>7. FirstInv'
  <2> SUFFICES ASSUME downs' = 0 \/ downs' = 1 PROVE FirstInv'
    BY DEF FirstInv, NoReturn
  <2>1. downs = 0 /\ downs' = 1
    BY <1>1 DEF GraphInv, LivesInv, NetInv, IsNetwork
  <2>2. /\ \A l \in Cabling : l[1] \in live /\ l[2] \in live => l \in links
        /\ ~Waits(events, "enter") /\ ~Waits(events, "link") /\ Before
    BY <2>1 DEF KnownInv, FirstInv, NoReturn
  <2>3. Leaving'
    BY <1>1, <1>2, <2>2 DEF Before, Leaving, KnownAs, EdgesOf
  <2>4. live' = net.switches \ {x}
    BY <1>1, <2>2 DEF Before
  <2>5. \A l \in Cabling : l[1] \in live' /\ l[2] \in live' => l \in links'
    BY <1>1, <2>2
  <2> QED BY <1>2, <2>1, <2>2, <2>3, <2>4, <2>5 DEF FirstInv, Cabling
<1> QED BY <1>3, <1>4, <1>6, <1>7 DEF KnownInv

LEMMA LinkSeenKnown ==
  ASSUME NetInv, GraphInv, KnownInv, UNCHANGED net, NEW s, NEW t, LinkSeen(s, t)
  PROVE  KnownInv'
<1> DEFINE l == <<s, t>>
           e == LinkEventOf(l)
<1>1. /\ l \in Cabling \ links /\ s \in live /\ t \in live /\ links' = links \cup {l}
      /\ e = [type |-> "link", src |-> s, dst |-> t] /\ Report(e)
      /\ UNCHANGED <<switches, edges, m_treeLinks, live, life, downs>>
      /\ l[1] = s /\ l[2] = t
  BY DEF LinkSeen, graphVars, discoVars, LinkEventOf
<1>2. e \in EventsHere /\ e.type = "link"
  <2>1. s \in net.switches /\ t \in net.switches /\ Cabled(s, t) /\ s \in 1..5 /\ t \in 1..5
    BY <1>1, HostsHosted DEF Cabling
  <2>2. l \in {k \in (1..5) \X (1..5) : Cabled(k[1], k[2])}
    BY <2>1
  <2>3. e \in Events
    BY <2>2 DEF Events, LinkEventOf
  <2>4. e.src = s /\ e.dst = t /\ e.type = "link"
    BY <1>1
  <2> QED BY <2>1, <2>3, <2>4 DEF EventsHere
<1> HIDE DEF e
<1>3. /\ events' \in Seq(EventsHere)
      /\ \A type : Waits(events', type) <=> Waits(events, type) \/ type = "link"
      /\ Followed(events', "enter", "link")
      /\ Followed(events, "leave", "enter") => Followed(events', "leave", "enter")
      /\ \A k, known : LinkWaits(events, k, known) => LinkWaits(events', k, known)
      /\ LinkWaits(events', l, TRUE)
      /\ Waits(events, "enter") => LinkWaits(events', l, FALSE)
  BY <1>1, <1>2, ReportedEvents DEF e
<1> HIDE DEF l
<1>4. HereInv'
  BY <1>1, <1>3 DEF KnownInv, HereInv, TreeWithin, EventsHere
<1>5. ReportedInv'
  <2>1. LinkKept(l)'
    BY <1>1, <1>3 DEF KnownInv, ReportedInv, LinkKept
  <2>2. \A k \in links : LinkKept(k)'
    BY <1>1, <1>3 DEF KnownInv, ReportedInv, LinkKept
  <2> QED BY <1>1, <1>3, <2>1, <2>2 DEF KnownInv, ReportedInv, Cabling
<1>6. EnterInv'
  BY <1>1, <1>3 DEF KnownInv, EnterInv
<1>7. TreeLastInv'
  BY <1>3 DEF TreeLastInv
<1>8. ~NoReturn
  BY <1>1 DEF KnownInv, FirstInv
<1>9. FirstInv'
  BY <1>1, <1>8 DEF FirstInv, NoReturn
<1> QED BY <1>4, <1>5, <1>6, <1>7, <1>9 DEF KnownInv

LEMMA HostSeenKnown ==
  ASSUME NetInv, GraphInv, KnownInv, UNCHANGED net, NEW h, HostSeen(h)
  PROVE  KnownInv'
<1> DEFINE e == [type |-> "host", dpid |-> h]
<1>1. /\ Report(e) /\ e.type = "host"
      /\ UNCHANGED <<switches, edges, m_treeLinks, live, life, links, downs>>
  BY DEF HostSeen, graphVars
<1>2. e \in EventsHere
  <2>1. h \in 1..5
    BY HostsHosted DEF HostSeen
  <2>2. e \in Events
    BY <2>1 DEF Events
  <2> QED BY <1>1, <2>2 DEF EventsHere
<1> HIDE DEF e
<1>3. /\ events' \in Seq(EventsHere)
      /\ \A type : Waits(events', type) <=> Waits(events, type) \/ type = "host"
      /\ \A a, b : Followed(events, a, b) /\ a # "host" => Followed(events', a, b)
      /\ OneLeave(events) => OneLeave(events')
      /\ \A k, known : LinkWaits(events, k, known) => LinkWaits(events', k, known)
  BY <1>1, <1>2, ReportedEvents
<1>4. HereInv'
  BY <1>1, <1>3 DEF KnownInv, HereInv, TreeWithin, EventsHere
<1>5. ReportedInv'
  BY <1>1, <1>3 DEF KnownInv, ReportedInv, LinkKept, Cabling
<1>6. EnterInv'
  BY <1>1, <1>3 DEF KnownInv, EnterInv
<1>7. TreeLastInv'
  BY <1>1, <1>3 DEF KnownInv, TreeLastInv, FullTree, Cabling
<1>8. FirstInv'
  BY <1>1, <1>3 DEF KnownInv, FirstInv, NoReturn, Cabling, Before, Leaving, Left, KnownAs, EdgesOf,
                    FullTree, TreeWithin
<1> QED BY <1>4, <1>5, <1>6, <1>7, <1>8 DEF KnownInv

----------------------------------------------------------------------------
(* The handlers of the topology events. *)

LEMMA HandledEvents ==
  ASSUME KnownInv, NEW type, Handles(type)
  PROVE  /\ events' \in Seq(EventsHere) /\ Head(events) \in EventsHere /\ Head(events).type = type
         /\ \A a : Waits(events, a) <=> type = a \/ Waits(events', a)
         /\ \A a, b : Followed(events, a, b) => Followed(events', a, b)
         /\ \A b : Followed(events, type, b) => Waits(events', b)
         /\ OneLeave(events) => IF type = "leave" THEN ~Waits(events', "leave") ELSE OneLeave(events')
         /\ \A l : LinkWaits(events, l, TRUE) =>
              \/ type = "link" /\ Head(events).src = l[1] /\ Head(events).dst = l[2]
              \/ LinkWaits(events', l, TRUE)
         /\ \A l : LinkWaits(events, l, FALSE) =>
              IF type = "enter" THEN LinkWaits(events', l, TRUE) ELSE LinkWaits(events', l, FALSE)
<1>1. /\ events \in Seq(EventsHere) /\ events # <<>> /\ events' = Tail(events)
      /\ Head(events).type = type
  BY DEF KnownInv, HereInv, Handles
<1>2. events' \in Seq(EventsHere) /\ Head(events) \in EventsHere
  BY <1>1
<1>3. \A l : Head(events) = LinkEventOf(l) =>
        type = "link" /\ Head(events).src = l[1] /\ Head(events).dst = l[2]
  BY <1>1, <1>2, KindsDiffer DEF EventsHere
<1> QED BY <1>1, <1>2, <1>3, Handled

LEMMA RecomputedTree ==
  ASSUME NetInv, GraphInv', UNCHANGED net, NEW order \in Orders, Recompute(order), NEW V,
         V = {dp[1] : dp \in switches'}
  PROVE  /\ V = {} => m_treeLinks' = m_treeLinks
         /\ V # {} => /\ DOMAIN m_treeLinks' = V
                      /\ \A s \in V : m_treeLinks'[s] \subseteq Beside(s, V)
                      /\ EdgesOf(edges', V) /\ Joined(V) =>
                           \A s \in V : m_treeLinks'[s] = Beside(s, V)
         /\ V \subseteq net.switches
<1>1. V \subseteq net.switches /\ net.switches \subseteq 1..5
  <2>1. \A dp \in switches' : dp[1] \in net.switches
    BY DEF GraphInv, LivesInv
  <2> QED BY <2>1, HostsHosted
<1>2. CASE switches' = {}
  BY <1>1, <1>2 DEF Recompute
<1>3. CASE switches' # {}
  <2>1. V # {}
    BY <1>3
  <2>2. m_treeLinks' = prim_spanningTree(V, edges', order)
    BY <1>3 DEF Recompute
  <2>3. /\ \A s \in DOMAIN edges' : \A t \in edges'[s] : t \in 1..5 /\ Cabled(s, t)
        /\ DOMAIN edges' \subseteq 1..5
    BY <1>1 DEF GraphInv, LinksInv, SavedInv
  <2>4. LET tree == prim_spanningTree(V, edges', order)
        IN  /\ DOMAIN tree = V
            /\ \A s \in V : tree[s] \subseteq Beside(s, V)
            /\ EdgesOf(edges', V) /\ Joined(V) => \A s \in V : tree[s] = Beside(s, V)
    <3>1. V \in SUBSET (1..5) /\ V # {}
      BY <1>1, <2>1
    <3> DEFINE E == edges'
    <3>2. /\ \A s \in DOMAIN E : \A t \in E[s] : t \in 1..5 /\ Cabled(s, t)
          /\ DOMAIN E \subseteq 1..5
      BY <2>3
    <3> HIDE DEF E
    <3>3. LET tree == prim_spanningTree(V, E, order)
          IN  /\ DOMAIN tree = V
              /\ \A s \in V : tree[s] \subseteq Beside(s, V)
              /\ EdgesOf(E, V) /\ Joined(V) => \A s \in V : tree[s] = Beside(s, V)
      BY <3>1, <3>2, TreeOfPart
    <3> QED BY <3>3 DEF E
  <2> QED BY <1>1, <2>1, <2>2, <2>4
<1> QED BY <1>2, <1>3

LEMMA RecomputedHere ==
  ASSUME NetInv, GraphInv', KnownInv, UNCHANGED net, NEW order \in Orders, Recompute(order)
  PROVE  /\ DOMAIN m_treeLinks' \subseteq net.switches
         /\ \A s \in DOMAIN m_treeLinks' : m_treeLinks'[s] \subseteq Beside(s, net.switches)
         /\ net.switches # {} => DOMAIN m_treeLinks' # {}
<1> DEFINE V == {dp[1] : dp \in switches'}
<1>1. /\ V = {} => m_treeLinks' = m_treeLinks
      /\ V # {} => /\ DOMAIN m_treeLinks' = V
                   /\ \A s \in V : m_treeLinks'[s] \subseteq Beside(s, V)
      /\ V \subseteq net.switches
  BY RecomputedTree
<1> HIDE DEF V
<1>2. CASE V = {}
  BY <1>1, <1>2 DEF KnownInv, HereInv, TreeWithin
<1>3. CASE V # {}
  BY <1>1, <1>3 DEF Beside
<1> QED BY <1>2, <1>3

\* All switches are connected and no link's event waits: then what is known is right.
LEMMA RecomputedFull ==
  ASSUME NetInv, GraphInv', UNCHANGED net, NEW order \in Orders, Recompute(order),
         HereInv', ReportedInv', EnterInv', live' = net.switches, Joined(net.switches),
         Cabling \subseteq links', Followed(events', "enter", "link"), ~Waits(events', "link"),
         net.switches # {}
  PROVE  FullTree(net.switches)'
<1>1. ~Waits(events', "enter")
  BY DEF Waits, Followed, HereInv
<1>2. \A s \in net.switches : <<s, life'[s]>> \in switches'
  BY <1>1 DEF EnterInv
<1>3. DOMAIN edges' = net.switches
  BY <1>1 DEF ReportedInv, GraphInv, SavedInv
<1>4. ASSUME NEW s \in net.switches, NEW t \in net.switches, Cabled(s, t) PROVE t \in edges'[s]
  <2> DEFINE l == <<s, t>>
  <2>1. l[1] = s /\ l[2] = t /\ l \in net.switches \X net.switches
    OBVIOUS
  <2>2. l \in links'
    BY <1>4, <2>1 DEF Cabling
  <2>3. ~LinkWaits(events', l, TRUE) /\ ~LinkWaits(events', l, FALSE)
    BY DEF LinkWaits, Waits, LinkEventOf
  <2> HIDE DEF l
  <2> QED BY <2>1, <2>2, <2>3 DEF ReportedInv, LinkKept
<1>5. EdgesOf(edges', net.switches)
  BY <1>3, <1>4 DEF EdgesOf, Beside, HereInv, GraphInv, LinksInv
<1>6. net.switches = {dp[1] : dp \in switches'}
  <2>1. \A dp \in switches' : dp[1] \in net.switches
    BY DEF GraphInv, LivesInv
  <2>2. \A s \in net.switches : <<s, life'[s]>>[1] = s
    OBVIOUS
  <2> QED BY <1>2, <2>1, <2>2
<1>7. DOMAIN m_treeLinks' = net.switches
      /\ \A s \in net.switches : m_treeLinks'[s] = Beside(s, net.switches)
  BY <1>5, <1>6, RecomputedTree
<1> QED BY <1>7 DEF FullTree

LEMMA EnterKnown ==
  ASSUME NetInv, GraphInv, GraphInv', KnownInv, UNCHANGED net, update_topology_switchEnter
  PROVE  KnownInv'
<1>1. /\ UNCHANGED <<m_treeLinks, live, life, links, downs>> /\ Handles("enter")
      /\ switches' = switches \cup {<<s, life[s]>> : s \in live}
      /\ edges' = [s \in DOMAIN edges \cup live |-> IF s \in DOMAIN edges THEN edges[s] ELSE {}]
  BY DEF update_topology_switchEnter, discoVars
<1>2. /\ events' \in Seq(EventsHere)
      /\ Waits(events, "enter")
      /\ \A a, b : Followed(events, a, b) => Followed(events', a, b)
      /\ \A b : Followed(events, "enter", b) => Waits(events', b)
      /\ \A l : LinkWaits(events, l, TRUE) => LinkWaits(events', l, TRUE)
      /\ \A l : LinkWaits(events, l, FALSE) => LinkWaits(events', l, TRUE)
  <2>1. /\ events' \in Seq(EventsHere) /\ Waits(events, "enter")
        /\ \A a, b : Followed(events, a, b) => Followed(events', a, b)
        /\ \A b : Followed(events, "enter", b) => Waits(events', b)
    BY <1>1, HandledEvents
  <2>2. ASSUME NEW l, LinkWaits(events, l, TRUE) PROVE LinkWaits(events', l, TRUE)
    <3>1. \/ "enter" = "link" /\ Head(events).src = l[1] /\ Head(events).dst = l[2]
          \/ LinkWaits(events', l, TRUE)
      BY <1>1, <2>2, HandledEvents
    <3> QED BY <3>1
  <2>3. \A l : LinkWaits(events, l, FALSE) => LinkWaits(events', l, TRUE)
    BY <1>1, HandledEvents
  <2> QED BY <2>1, <2>2, <2>3
<1>3. HereInv'
  BY <1>1, <1>2 DEF KnownInv, HereInv, TreeWithin, EventsHere
<1>4. ReportedInv'
  BY <1>1, <1>2 DEF KnownInv, ReportedInv, LinkKept, Cabling
<1>5. EnterInv'
  BY <1>1, <1>2 DEF KnownInv, EnterInv
<1>6. TreeLastInv'
  BY <1>1, <1>2 DEF KnownInv, TreeLastInv, Cabling
<1>7. FirstInv'
  BY <1>1, <1>2 DEF KnownInv, FirstInv, NoReturn
<1> QED BY <1>3, <1>4, <1>5, <1>6, <1>7 DEF KnownInv

LEMMA LeaveKnown ==
  ASSUME NetInv, GraphInv, GraphInv', KnownInv, UNCHANGED net, update_topology_switchLeave
  PROVE  KnownInv'
<1>1. PICK order \in Orders, dp \in switches :
        /\ dp[1] \notin live /\ switches' = switches \ {dp}
        /\ edges' = [s \in DOMAIN edges \ {dp[1]} |-> edges[s] \ {dp[1]}]
        /\ Recompute(order) /\ Handles("leave")
        /\ UNCHANGED <<live, life, links, downs>>
  BY DEF update_topology_switchLeave, discoVars
<1>2. /\ events' \in Seq(EventsHere) /\ Waits(events, "leave")
      /\ \A a : Waits(events', a) => Waits(events, a)
      /\ OneLeave(events) => ~Waits(events', "leave")
  BY <1>1, HandledEvents
<1>3. ASSUME NEW l, LinkWaits(events, l, TRUE) PROVE LinkWaits(events', l, TRUE)
  <2>1. \/ "leave" = "link" /\ Head(events).src = l[1] /\ Head(events).dst = l[2]
        \/ LinkWaits(events', l, TRUE)
    BY <1>1, <1>3, HandledEvents
  <2> QED BY <2>1
<1>4. ASSUME NEW l, LinkWaits(events, l, FALSE) PROVE LinkWaits(events', l, FALSE)
  <2>1. IF "leave" = "enter" THEN LinkWaits(events', l, TRUE) ELSE LinkWaits(events', l, FALSE)
    BY <1>1, <1>4, HandledEvents
  <2> QED BY <2>1
<1>5. HereInv'
  <2>1. /\ DOMAIN m_treeLinks' \subseteq net.switches
        /\ \A s \in DOMAIN m_treeLinks' : m_treeLinks'[s] \subseteq Beside(s, net.switches)
        /\ net.switches # {} => DOMAIN m_treeLinks' # {}
    BY <1>1, RecomputedHere
  <2>2. \A s \in DOMAIN edges' : edges'[s] \subseteq net.switches
    BY <1>1 DEF KnownInv, HereInv
  <2> QED BY <1>2, <2>1, <2>2 DEF HereInv, TreeWithin, EventsHere
<1>6. ReportedInv'
  <2>1. ASSUME NEW l \in links PROVE LinkKept(l)'
    BY <1>1, <1>3, <1>4 DEF KnownInv, ReportedInv, LinkKept
  <2>2. ASSUME NEW a, a # "leave", Waits(events, a) PROVE Waits(events', a)
    <3>1. "leave" = a \/ Waits(events', a)
      BY <1>1, <2>2, HandledEvents
    <3> QED BY <2>2, <3>1
  <2> QED BY <1>1, <2>1, <2>2 DEF KnownInv, ReportedInv, Cabling
<1>7. live' # net.switches
  BY <1>1 DEF GraphInv, LivesInv
<1>8. EnterInv' /\ TreeLastInv'
  BY <1>7 DEF EnterInv, TreeLastInv
<1>9. FirstInv'
  <2> SUFFICES ASSUME NoReturn PROVE FirstInv'
    BY <1>1 DEF FirstInv, NoReturn
  <2>1. PICK x \in net.switches : live = net.switches \ {x} /\ Leaving /\ downs = 1
    BY <1>2 DEF KnownInv, FirstInv, Before, Left
  <2>2. KnownAs(net.switches) /\ ~Waits(events', "leave")
    BY <1>2, <2>1 DEF Leaving
  <2>3. dp = <<x, life[x]>>
    BY <1>1, <2>1, <2>2 DEF KnownAs
  <2>4. switches' = {<<s, life[s]>> : s \in live}
    BY <1>1, <2>1, <2>2, <2>3 DEF KnownAs
  <2>5. EdgesOf(edges', live)
    BY <1>1, <2>1, <2>2, <2>3 DEF KnownAs, EdgesOf, Beside
  <2>6. live = {p[1] : p \in switches'}
    <3>1. \A s \in live : <<s, life[s]>>[1] = s
      OBVIOUS
    <3> QED BY <2>4, <3>1
  <2>7. live # {} => /\ DOMAIN m_treeLinks' = live
                     /\ \A s \in live : m_treeLinks'[s] \subseteq Beside(s, live)
                     /\ Joined(live) => \A s \in live : m_treeLinks'[s] = Beside(s, live)
    BY <1>1, <2>5, <2>6, RecomputedTree
  <2>8. Left'
    BY <1>1, <2>2, <2>4, <2>5, <2>7 DEF Left, KnownAs, FullTree, TreeWithin
  <2> QED BY <1>1, <1>2, <2>1, <2>8 DEF KnownInv, FirstInv, NoReturn, Cabling
<1> QED BY <1>5, <1>6, <1>8, <1>9 DEF KnownInv

LEMMA LeaveFailsKnown ==
  ASSUME NetInv, GraphInv, GraphInv', KnownInv, UNCHANGED net, SwitchLeaveFails
  PROVE  KnownInv'
<1>1. /\ Handles("leave") /\ Dpids \subseteq live
      /\ UNCHANGED <<edges, m_treeLinks, live, life, links, downs>>
  BY DEF SwitchLeaveFails, discoVars
<1>2. /\ events' \in Seq(EventsHere) /\ Waits(events, "leave")
      /\ \A a, b : Followed(events, a, b) => Followed(events', a, b)
      /\ \A b : Followed(events, "leave", b) => Waits(events', b)
  BY <1>1, HandledEvents
<1>3. ASSUME NEW l, LinkWaits(events, l, TRUE) PROVE LinkWaits(events', l, TRUE)
  <2>1. \/ "leave" = "link" /\ Head(events).src = l[1] /\ Head(events).dst = l[2]
        \/ LinkWaits(events', l, TRUE)
    BY <1>1, <1>3, HandledEvents
  <2> QED BY <2>1
<1>4. ASSUME NEW l, LinkWaits(events, l, FALSE) PROVE LinkWaits(events', l, FALSE)
  <2>1. IF "leave" = "enter" THEN LinkWaits(events', l, TRUE) ELSE LinkWaits(events', l, FALSE)
    BY <1>1, <1>4, HandledEvents
  <2> QED BY <2>1
<1>5. ASSUME NEW a, a # "leave", Waits(events, a) PROVE Waits(events', a)
  <2>1. "leave" = a \/ Waits(events', a)
    BY <1>1, <1>5, HandledEvents
  <2> QED BY <1>5, <2>1
<1>6. HereInv'
  BY <1>1, <1>2 DEF KnownInv, HereInv, TreeWithin, EventsHere
<1>7. ReportedInv'
  <2>1. ASSUME NEW l \in links PROVE LinkKept(l)'
    BY <1>1, <1>3, <1>4 DEF KnownInv, ReportedInv, LinkKept
  <2> QED BY <1>1, <1>5, <2>1 DEF KnownInv, ReportedInv, Cabling
<1>8. EnterInv'
  BY <1>1, <1>2 DEF KnownInv, EnterInv
<1>9. TreeLastInv'
  BY <1>1, <1>2, <1>5 DEF KnownInv, TreeLastInv, FullTree, Cabling
<1>10. ~NoReturn
  <2> SUFFICES ASSUME NoReturn PROVE FALSE
    OBVIOUS
  <2>1. PICK x \in net.switches : live = net.switches \ {x} /\ KnownAs(net.switches)
    BY <1>2 DEF KnownInv, FirstInv, Before, Leaving, Left
  <2>2. <<x, life[x]>> \in switches /\ <<x, life[x]>>[1] = x
    BY <2>1 DEF KnownAs
  <2> QED BY <1>1, <2>1, <2>2 DEF Dpids
<1>11. FirstInv'
  BY <1>1, <1>10 DEF FirstInv, NoReturn
<1> QED BY <1>6, <1>7, <1>8, <1>9, <1>11 DEF KnownInv

LEMMA LinkKnown ==
  ASSUME NetInv, GraphInv, GraphInv', KnownInv, UNCHANGED net, update_topology_linkAdd
  PROVE  KnownInv'
<1> DEFINE src == Head(events).src
           dst == Head(events).dst
           known == src \in DOMAIN edges
           Gets(s) == CASE s = src -> {dst}
                        [] s = dst /\ known -> {src}
                        [] OTHER -> {}
<1>1. PICK order \in Orders :
        /\ Handles("link")
        /\ edges' = [s \in DOMAIN edges |-> edges[s] \cup Gets(s)]
        /\ \/ switches' = switches /\ Recompute(order)
           \/ /\ UNCHANGED <<switches, m_treeLinks>>
              /\ ~({src, dst} \subseteq DOMAIN edges)
        /\ UNCHANGED <<live, life, links, downs>>
  BY DEF update_topology_linkAdd, discoVars
<1>2. /\ events' \in Seq(EventsHere) /\ Head(events) \in EventsHere /\ Head(events).type = "link"
      /\ Waits(events, "link")
      /\ \A a, b : Followed(events, a, b) => Followed(events', a, b)
  BY <1>1, HandledEvents
<1>3. src \in net.switches /\ dst \in net.switches
  BY <1>2 DEF EventsHere
<1>4. ASSUME NEW l, LinkWaits(events, l, TRUE)
      PROVE  (src = l[1] /\ dst = l[2]) \/ LinkWaits(events', l, TRUE)
  BY <1>1, <1>4, HandledEvents
<1>5. ASSUME NEW l, LinkWaits(events, l, FALSE) PROVE LinkWaits(events', l, FALSE)
  <2>1. IF "link" = "enter" THEN LinkWaits(events', l, TRUE) ELSE LinkWaits(events', l, FALSE)
    BY <1>1, <1>5, HandledEvents
  <2> QED BY <2>1
<1>6. ASSUME NEW a, a # "link", Waits(events, a) PROVE Waits(events', a)
  <2>1. "link" = a \/ Waits(events', a)
    BY <1>1, <1>6, HandledEvents
  <2> QED BY <1>6, <2>1
<1>7. HereInv'
  <2>1. /\ DOMAIN m_treeLinks' \subseteq net.switches
        /\ \A s \in DOMAIN m_treeLinks' : m_treeLinks'[s] \subseteq Beside(s, net.switches)
        /\ net.switches # {} => DOMAIN m_treeLinks' # {}
    <3>1. CASE Recompute(order)
      BY <3>1, RecomputedHere
    <3>2. CASE m_treeLinks' = m_treeLinks
      BY <3>2 DEF KnownInv, HereInv, TreeWithin
    <3> QED BY <1>1, <3>1, <3>2
  <2>2. \A s \in DOMAIN edges' : edges'[s] \subseteq net.switches
    BY <1>1, <1>3 DEF KnownInv, HereInv
  <2> QED BY <1>2, <2>1, <2>2 DEF HereInv, TreeWithin, EventsHere
<1>8. ReportedInv'
  <2>1. ASSUME NEW l \in links PROVE LinkKept(l)'
    <3>1. LinkKept(l)
      BY DEF KnownInv, ReportedInv
    <3>2. CASE LinkWaits(events, l, FALSE)
      BY <1>5, <3>2 DEF LinkKept
    <3>3. CASE l[1] \in DOMAIN edges /\ l[2] \in edges[l[1]]
      BY <1>1, <3>3 DEF LinkKept
    <3>4. CASE l[1] \in DOMAIN edges /\ LinkWaits(events, l, TRUE)
      <4>1. src = l[1] /\ dst = l[2] => l[2] \in edges'[l[1]]
        BY <1>1, <3>4
      <4> QED BY <1>1, <1>4, <3>4, <4>1 DEF LinkKept
    <3> QED BY <3>1, <3>2, <3>3, <3>4 DEF LinkKept
  <2>2. DOMAIN edges' = DOMAIN edges
    BY <1>1
  <2> QED BY <1>1, <1>6, <2>1, <2>2 DEF KnownInv, ReportedInv, Cabling
<1>9. EnterInv'
  BY <1>1, <1>2, <1>6 DEF KnownInv, EnterInv
<1>10. TreeLastInv'
  <2> SUFFICES ASSUME live = net.switches, Joined(net.switches), Cabling # {}, Cabling \subseteq links,
                      ~Waits(events', "link")
               PROVE  Followed(events', "enter", "link") /\ FullTree(net.switches)'
    BY <1>1, <1>2 DEF KnownInv, TreeLastInv, Cabling
  <2>1. Followed(events', "enter", "link")
    BY <1>2 DEF KnownInv, TreeLastInv
  <2>2. ~Waits(events', "enter")
    BY <2>1, <1>7 DEF Waits, Followed, HereInv
  <2>3. \A s \in live : s \in DOMAIN edges
    BY <1>6, <2>2 DEF KnownInv, ReportedInv
  <2>4. Recompute(order)
    BY <1>1, <1>3, <2>3
  <2> QED BY <1>1, <1>3, <1>7, <1>8, <1>9, <2>1, <2>4, RecomputedFull
<1>11. FirstInv'
  BY <1>1, <1>2 DEF KnownInv, FirstInv, NoReturn
<1> QED BY <1>7, <1>8, <1>9, <1>10, <1>11 DEF KnownInv

LEMMA HostKnown ==
  ASSUME NetInv, GraphInv, GraphInv', KnownInv, UNCHANGED net, update_topology_hostAdd
  PROVE  KnownInv'
<1>1. PICK order \in Orders :
        /\ Handles("host") /\ edges' = edges /\ switches' = switches
        /\ Recompute(order) \/ m_treeLinks' = m_treeLinks
        /\ UNCHANGED <<live, life, links, downs>>
  BY DEF update_topology_hostAdd, discoVars
<1>2. /\ events' \in Seq(EventsHere)
      /\ \A a : Waits(events', a) => Waits(events, a)
      /\ \A a, b : Followed(events, a, b) => Followed(events', a, b)
  BY <1>1, HandledEvents
<1>3. OneLeave(events) => OneLeave(events')
  <2>1. OneLeave(events) =>
          IF "host" = "leave" THEN ~Waits(events', "leave") ELSE OneLeave(events')
    BY <1>1, HandledEvents
  <2> QED BY <2>1
<1>4. ASSUME NEW l, LinkWaits(events, l, TRUE) PROVE LinkWaits(events', l, TRUE)
  <2>1. \/ "host" = "link" /\ Head(events).src = l[1] /\ Head(events).dst = l[2]
        \/ LinkWaits(events', l, TRUE)
    BY <1>1, <1>4, HandledEvents
  <2> QED BY <2>1
<1>5. ASSUME NEW l, LinkWaits(events, l, FALSE) PROVE LinkWaits(events', l, FALSE)
  <2>1. IF "host" = "enter" THEN LinkWaits(events', l, TRUE) ELSE LinkWaits(events', l, FALSE)
    BY <1>1, <1>5, HandledEvents
  <2> QED BY <2>1
<1>6. ASSUME NEW a, a # "host", Waits(events, a) PROVE Waits(events', a)
  <2>1. "host" = a \/ Waits(events', a)
    BY <1>1, <1>6, HandledEvents
  <2> QED BY <1>6, <2>1
<1>7. HereInv'
  <2>1. /\ DOMAIN m_treeLinks' \subseteq net.switches
        /\ \A s \in DOMAIN m_treeLinks' : m_treeLinks'[s] \subseteq Beside(s, net.switches)
        /\ net.switches # {} => DOMAIN m_treeLinks' # {}
    <3>1. CASE Recompute(order)
      BY <3>1, RecomputedHere
    <3>2. CASE m_treeLinks' = m_treeLinks
      BY <3>2 DEF KnownInv, HereInv, TreeWithin
    <3> QED BY <1>1, <3>1, <3>2
  <2> QED BY <1>1, <1>2, <2>1 DEF KnownInv, HereInv, TreeWithin, EventsHere
<1>8. ReportedInv'
  <2>1. ASSUME NEW l \in links PROVE LinkKept(l)'
    BY <1>1, <1>4, <1>5 DEF KnownInv, ReportedInv, LinkKept
  <2> QED BY <1>1, <1>6, <2>1 DEF KnownInv, ReportedInv, Cabling
<1>9. EnterInv'
  BY <1>1, <1>2, <1>6 DEF KnownInv, EnterInv
<1>10. TreeLastInv'
  <2> SUFFICES ASSUME live = net.switches, Joined(net.switches), Cabling # {}, Cabling \subseteq links
               PROVE  /\ Followed(events', "enter", "link")
                      /\ Waits(events', "link") \/ FullTree(net.switches)'
    BY <1>1 DEF TreeLastInv, Cabling
  <2>1. /\ Followed(events', "enter", "link")
        /\ Waits(events', "link") \/ FullTree(net.switches)
    BY <1>2, <1>6 DEF KnownInv, TreeLastInv
  <2>2. CASE m_treeLinks' = m_treeLinks
    BY <2>1, <2>2 DEF FullTree
  <2>3. CASE Recompute(order) /\ ~Waits(events', "link")
    <3>1. net.switches # {}
      BY DEF Cabling
    <3> QED BY <1>1, <1>7, <1>8, <1>9, <2>1, <2>3, <3>1, RecomputedFull
  <2> QED BY <1>1, <2>1, <2>2, <2>3
<1>11. FirstInv'
  <2> SUFFICES ASSUME NoReturn PROVE FirstInv'
    BY <1>1 DEF FirstInv, NoReturn
  <2>1. Before => Before'
    BY <1>1, <1>2 DEF Before, KnownAs, EdgesOf
  <2>2. Leaving => Leaving'
    BY <1>1, <1>3 DEF Leaving, KnownAs, EdgesOf
  <2>3. ASSUME Left PROVE Left'
    <3>1. KnownAs(live)' /\ ~Waits(events', "leave")
      BY <1>1, <1>2, <2>3 DEF Left, KnownAs, EdgesOf
    <3>2. CASE m_treeLinks' = m_treeLinks
      BY <1>1, <2>3, <3>1, <3>2 DEF Left, FullTree, TreeWithin
    <3>3. CASE Recompute(order)
      <4>1. live = {p[1] : p \in switches'}
        <5>1. \A s \in live : <<s, life[s]>>[1] = s
          OBVIOUS
        <5>2. switches' = {<<s, life[s]>> : s \in live}
          BY <1>1, <2>3 DEF Left, KnownAs
        <5> QED BY <5>1, <5>2
      <4>2. EdgesOf(edges', live)
        BY <1>1, <2>3 DEF Left, KnownAs
      <4>3. live # {} => /\ DOMAIN m_treeLinks' = live
                         /\ \A s \in live : m_treeLinks'[s] \subseteq Beside(s, live)
                         /\ Joined(live) => \A s \in live : m_treeLinks'[s] = Beside(s, live)
        BY <3>3, <4>1, <4>2, RecomputedTree
      <4> QED BY <1>1, <3>1, <4>3 DEF Left, FullTree, TreeWithin
    <3> QED BY <1>1, <3>2, <3>3
  <2> QED BY <1>1, <1>2, <2>1, <2>2, <2>3 DEF KnownInv, FirstInv, NoReturn, Cabling
<1> QED BY <1>7, <1>8, <1>9, <1>10, <1>11 DEF KnownInv

LEMMA NextKnown ==
  ASSUME NetInv, GraphInv, GraphInv', KnownInv, [Next]_vars
  PROVE  KnownInv'
<1>1. ASSUME UNCHANGED <<net, switches, edges, m_treeLinks, live, life, links, downs, events>>
      PROVE  KnownInv'
  <2>1. HereInv'
    BY <1>1 DEF KnownInv, HereInv, EventsHere, TreeWithin
  <2>2. ReportedInv'
    BY <1>1 DEF KnownInv, ReportedInv, LinkKept, Cabling
  <2>3. EnterInv' /\ TreeLastInv'
    BY <1>1 DEF KnownInv, EnterInv, TreeLastInv, FullTree, Cabling
  <2>4. (Before <=> Before') /\ (Leaving <=> Leaving') /\ (Left <=> Left')
    BY <1>1 DEF Before, Leaving, Left, KnownAs, FullTree, TreeWithin
  <2>5. FirstInv'
    BY <1>1, <2>4 DEF KnownInv, FirstInv, NoReturn, Cabling
  <2> QED BY <2>1, <2>2, <2>3, <2>5 DEF KnownInv
<1>2. CASE UNCHANGED vars
  BY <1>1, <1>2 DEF vars, graphVars, discoVars
<1>3. CASE Topology /\ UNCHANGED net
  BY <1>3, EnterKnown, LeaveKnown, LeaveFailsKnown, LinkKnown, HostKnown DEF Topology
<1>4. CASE Transit /\ UNCHANGED net
  BY <1>1, <1>4 DEF Transit, Forward, _packet_in_handler, graphVars, discoVars
<1>5. CASE Network /\ UNCHANGED net
  <2>1. ASSUME NEW s \in net.switches, Deliver(s) PROVE KnownInv'
    BY <1>1, <1>5, <2>1 DEF Deliver, graphVars, discoVars
  <2>2. ASSUME NEW h, NEW dst, HostSends(h, dst) PROVE KnownInv'
    BY <1>1, <1>5, <2>2 DEF HostSends, graphVars, discoVars
  <2> QED BY <1>5, <2>1, <2>2, SwitchUpKnown, SwitchDownKnown, LinkSeenKnown, HostSeenKnown DEF Network
<1> QED BY <1>2, <1>3, <1>4, <1>5 DEF Next

\* When the handlers have dealt with all events, and the links of the connected switches
\* are reported, each of these is known by its present connection and the tree has all
\* their links if they are joined, for any number of restarts and in whatever order the
\* events came: unless two switches went down and one is still away.
THEOREM GraphRecovers == Spec => []NetworkKnown
<1>1. ServiceInv /\ ServiceInv' /\ KnownInv /\ [Next]_vars => KnownInv'
  BY NextKnown DEF ServiceInv, ChainInv
<1>2. ServiceInv /\ KnownInv => NetworkKnown
  BY KnownFollows DEF ServiceInv, ChainInv
<1> QED BY InitKnown, <1>1, <1>2, AlwaysService, PTL DEF Spec
=============================================================================
