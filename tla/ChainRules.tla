----------------------------- MODULE ChainRules -----------------------------
(***************************************************************************)
(* The table entries of serviceChain_demo.py, and the network they are     *)
(* written for (serviceChainTopo-Scenario2.py; Scenario1 is its part with  *)
(* the switches 1 to 3).                                                   *)
(*                                                                         *)
(* Host h is attached to port 1 of switch h.  All cables together form a   *)
(* tree, so two switches have one path between them.  A middlebox hands    *)
(* what enters one of its ports out of the other; it is external.          *)
(***************************************************************************)
EXTENDS SpanningTree, SequencesExt

CONSTANTS None       \* no key, no port, or a field a match leaves open

ASSUME ChainAssumption == 1..5 \subseteq Switches /\ None \notin 0..7

HostPort == 1
Broadcast == 0

\* The VLAN ids of the code.
MB1 == 1
MB2 == 2
MB3 == 3
TUNNEL == 4
POLICY_COMPLETE == 5
APPLY_SERVICE_CHAIN == 7

\* A cable joins two ports, each a pair of a switch and a number.
Cables == {{<<1, 2>>, <<2, 1>>}, {<<2, 2>>, <<3, 2>>}, {<<3, 5>>, <<4, 2>>}, {<<1, 7>>, <<5, 2>>}}

Middleboxes == <<{<<1, 3>>, <<1, 4>>}, {<<1, 5>>, <<1, 6>>}, {<<3, 3>>, <<3, 4>>}>>

\* The ports on the other side of end.
Across(end) == UNION {c \ {end} : c \in {d \in Cables : end \in d}}

Cabled(s, t) == \E c \in Cables : {e[1] : e \in c} = {s, t}

PortTo(s, t) == CHOOSE q \in 1..7 : \E e \in Across(<<s, q>>) : e[1] = t

Routes == UNION {[1..n -> 1..5] : n \in 1..5}

IsPath(R, s, t) == /\ R[1] = s /\ R[Len(R)] = t
                   /\ \A i \in 1..(Len(R) - 1) : Cabled(R[i], R[i + 1])
                   /\ \A i, j \in DOMAIN R : R[i] = R[j] => i = j

\* Path[s][t]: the switches from s to t.
Path == [s \in 1..5 |-> [t \in 1..5 |-> CHOOSE R \in Routes : IsPath(R, s, t)]]

----------------------------------------------------------------------------
(* Entries: what they match, what they do to the tags, and where they send *)
(* the packet.  All have priority 0.                                       *)

\* A field that is left open is None.
Fields(src, dst, port, vid) == [src |-> src, dst |-> dst, port |-> port, vid |-> vid]

Entry(match, action, out) == [match |-> match, action |-> action, out |-> out]

Keep == [type |-> "keep"]
Pop == [type |-> "pop"]
Set(vid) == [type |-> "set", vid |-> vid]
Push(vid) == [type |-> "push", vid |-> vid]

Within(port, vid, newVid, out) ==
  Entry(Fields(None, None, port, vid), Set(newVid), out)

Between(port, out) == Entry(Fields(None, None, port, None), Keep, out)

\* Mutant of StaticRules: the two halves of the way through S1 are swapped.
MutStaticRules(s) ==
  CASE s = 1 -> {Within(4, MB1, MB3, 5), Within(2, TUNNEL, TUNNEL, 2)}
    [] s = 2 -> {Between(1, 2), Between(2, 1)}
    [] s = 3 -> {Within(2, TUNNEL, MB2, 3), Within(4, MB2, TUNNEL, 2)}
    [] OTHER -> {}

\* What a switch gets when it connects.
StaticRules(s) ==
  CASE s = 1 -> {Within(4, MB1, TUNNEL, 2), Within(2, TUNNEL, MB3, 5)}
    [] s = 2 -> {Between(1, 2), Between(2, 1)}
    [] s = 3 -> {Within(2, TUNNEL, MB2, 3), Within(4, MB2, TUNNEL, 2)}
    [] OTHER -> {}

\* Adding entries one after the other: one with the match of another replaces it.
Added(table, new) ==
  {f \in table : \A k \in DOMAIN new : new[k].match # f.match}
  \cup {new[k] : k \in {i \in DOMAIN new :
                         \A j \in DOMAIN new : j > i => new[j].match # new[i].match}}

Matches(f, p) == /\ f.match.src \in {None, p.src}
                 /\ f.match.dst \in {None, p.dst}
                 /\ f.match.port \in {None, p.port}
                 /\ \/ f.match.vid = None
                    \/ p.tags # <<>> /\ f.match.vid = Head(p.tags)

Tagged(p, action) ==
  CASE action.type = "keep" -> p
    [] action.type = "pop"  -> [p EXCEPT !.tags = IF @ = <<>> THEN @ ELSE Tail(@)]
    [] action.type = "set"  -> [p EXCEPT !.tags = <<action.vid>> \o Tail(@)]
    [] action.type = "push" -> [p EXCEPT !.tags = <<action.vid>> \o @, !.entered = TRUE]

----------------------------------------------------------------------------
(* install_flow_rules for a host, as a sequence of switches and entries in *)
(* the order in which they are sent.  R is the flow path from the host's   *)
(* own switch on, learnt the port of mac_to_port for it; the two in-place  *)
(* reversals of the code come to that orientation each time.  An entry     *)
(* whose port is None is one at which the handler raises an exception.     *)

ToHost(host, vid) == Fields(None, host, None, vid)
FromHost(host, vid) == Fields(host, None, None, vid)

\* Mutant of Delivery: the tag of hosts away from S1 is matched on S1 as well.
MutDelivery(host, R, learnt) ==
  <<R[1], Entry(ToHost(host, POLICY_COMPLETE), Pop, learnt)>>

\* Rule 1a.
Delivery(host, R, learnt) ==
  <<R[1], Entry(ToHost(host, IF R[1] = 1 THEN MB3 ELSE POLICY_COMPLETE), Pop, learnt)>>

\* Rule 1b, and for a host on S1 rule 3.II.
Ingress(host, R, learnt, out) ==
  <<R[1], Entry(Fields(host, None, learnt, None),
                Push(IF R[1] = 1 THEN MB1 ELSE APPLY_SERVICE_CHAIN), out)>>

\* Mutant of Inward: the tag is not matched.
MutInward(host, s, out) == <<s, Entry(FromHost(host, None), Keep, out)>>

\* Rules 2a and 2b, for a switch between the host's and S1.
Inward(host, s, out) ==
  <<s, Entry(FromHost(host, APPLY_SERVICE_CHAIN), Keep, out)>>
Outward(host, s, out) ==
  <<s, Entry(ToHost(host, POLICY_COMPLETE), Keep, out)>>

\* Rule 3.I and rule 4, on S1.
ChainStarts(host) ==
  <<1, Entry(FromHost(host, APPLY_SERVICE_CHAIN), Set(MB1), 3)>>
ChainEnds(host, out) ==
  <<1, Entry(ToHost(host, MB3), Set(POLICY_COMPLETE), out)>>

\* edge[s][t] is the port of edges[s][t], or None.
Rules(host, R, learnt, edge) ==
  LET at == CHOOSE k \in DOMAIN R : R[k] = 1 \/ (k = Len(R) /\ 1 \notin ToSet(R))
      middle == [k \in 1..(2 * (at - 2)) |->
                   LET j == (k + 3) \div 2
                   IN  IF k % 2 = 1 THEN Inward(host, R[j], edge[R[j]][R[j + 1]])
                                    ELSE Outward(host, R[j], edge[R[j]][R[j - 1]])]
  IN  IF R[1] = 1
      THEN << Delivery(host, R, learnt), Ingress(host, R, learnt, 3) >>
      ELSE << Delivery(host, R, learnt), Ingress(host, R, learnt, edge[R[1]][R[2]]) >>
           \o middle
           \o << ChainStarts(host) >>
           \o IF R[at] = 1 THEN << ChainEnds(host, edge[1][R[at - 1]]) >> ELSE <<>>

\* The entries for switch s, in order.
For(mods, s) ==
  LET first[n \in 0..Len(mods)] ==
        IF n = 0 THEN <<>>
        ELSE IF mods[n][1] = s THEN Append(first[n - 1], mods[n][2])
        ELSE first[n - 1]
  IN  first[Len(mods)]
=============================================================================
