----------------------------- MODULE StormProofs -----------------------------
(***************************************************************************)
(* The properties of StormController, for every network, every order in    *)
(* which Python may go through a set, and any number of events, restarts   *)
(* and packets.                                                            *)
(*                                                                         *)
(* TypeOK and TreeIsForest are inductive as they stand.  The other two     *)
(* invariants speak of the copies that are under way, and need to say of   *)
(* each that what lies behind it is cut off from it by the way it came.    *)
(***************************************************************************)
EXTENDS StormController, TreeProofs

(* What the copies carry. *)

LEMMA SentCopies ==
  ASSUME NEW p \in Packets, NEW on, live \subseteq Switches, NEW q \in Sent(p, on)
  PROVE  /\ q \in Packets
         /\ q.src = p.src /\ q.dst = p.dst /\ q.visited = p.visited
         /\ q.tree = p.tree /\ q.steady = p.steady
         /\ q.in_port = p.at /\ q.at \in (on \ {p.in_port}) \cap live
         /\ {p.at, q.at} \in net.cables
<1>1. PICK t \in (on \ {p.in_port}) \cap live :
        /\ q = [p EXCEPT !.at = t, !.in_port = p.at, !.asked = Misses(t, p.at, p.dst)]
        /\ {p.at, t} \in net.cables
  BY DEF Sent
<1>2. t \in Switches /\ p.at \in Ports
  BY DEF Packets, Ports
<1>3. q \in Packets
  BY <1>1, <1>2 DEF Packets, Misses
<1>4. /\ q.src = p.src /\ q.dst = p.dst /\ q.visited = p.visited
      /\ q.tree = p.tree /\ q.steady = p.steady /\ q.in_port = p.at /\ q.at = t
  BY <1>1 DEF Packets
<1> QED BY <1>1, <1>3, <1>4

LEMMA UnicastCopy ==
  ASSUME NEW p \in Packets
  PROVE  /\ Unicast(p) \in Packets /\ Unicast(p).src = p.src /\ Unicast(p).dst = p.dst
         /\ Unicast(p).at = p.at /\ Unicast(p).in_port = p.in_port
         /\ Unicast(p).steady = FALSE
  BY DEF Unicast, Packets

\* The copy q of p goes on to another switch, through one of these ports.
GoesOn(p, q, on) ==
  /\ q.src = p.src /\ q.in_port = p.at /\ q.at \in Switches
  /\ q.at \in on /\ q.at # p.in_port /\ {p.at, q.at} \in net.cables

LEMMA UnicastSent ==
  ASSUME NEW p, p \in Packets, live \subseteq Switches, NEW on, NEW q, q \in Sent(Unicast(p), on)
  PROVE  q \in Packets /\ q.steady = FALSE /\ GoesOn(p, q, on)
<1> DEFINE u == Unicast(p)
<1>1. /\ u \in Packets /\ u.src = p.src /\ u.at = p.at /\ u.in_port = p.in_port
      /\ u.steady = FALSE
  BY UnicastCopy
<1> HIDE DEF u
<1>2. q \in Sent(u, on)
  BY DEF u
<1> QED BY <1>1, <1>2, SentCopies DEF GoesOn

LEMMA FloodedCopy ==
  ASSUME NEW p \in Packets, treeLinks \in Trees
  PROVE  /\ Flooded(p) \in Packets /\ Flooded(p).src = p.src /\ Flooded(p).dst = p.dst
         /\ Flooded(p).at = p.at /\ Flooded(p).in_port = p.in_port
         /\ Flooded(p).visited = p.visited \cup {p.at} /\ Flooded(p).tree = treeLinks
         /\ Flooded(p).steady => p.steady /\ (p.visited = {} \/ p.tree = treeLinks)
  BY DEF Flooded, Packets

\* What a copy that is flooded on remembers.
Remembers(p, q) ==
  /\ q.visited = p.visited \cup {p.at} /\ q.tree = treeLinks
  /\ q.steady => p.steady /\ (p.visited = {} \/ p.tree = treeLinks)

LEMMA FloodedSent ==
  ASSUME NEW p, p \in Packets, live \subseteq Switches, treeLinks \in Trees,
         NEW on, NEW q, q \in Sent(Flooded(p), on)
  PROVE  q \in Packets /\ Remembers(p, q) /\ GoesOn(p, q, on)
<1> DEFINE f == Flooded(p)
<1>1. /\ f \in Packets /\ f.src = p.src /\ f.at = p.at /\ f.in_port = p.in_port
      /\ f.visited = p.visited \cup {p.at} /\ f.tree = treeLinks
      /\ f.steady => p.steady /\ (p.visited = {} \/ p.tree = treeLinks)
  BY FloodedCopy
<1> HIDE DEF f
<1>2. q \in Sent(f, on)
  BY DEF f
<1> QED BY <1>1, <1>2, SentCopies DEF GoesOn, Remembers

LEMMA LateCopy ==
  ASSUME NEW p \in Packets
  PROVE  LET q == [p EXCEPT !.late = TRUE]
         IN  /\ q \in Packets /\ q.src = p.src /\ q.dst = p.dst /\ q.at = p.at
             /\ q.in_port = p.in_port /\ q.visited = p.visited /\ q.tree = p.tree
             /\ q.steady = p.steady
  BY DEF Packets

LEMMA NoTree == <<>> \in Trees
<1>1. <<>> \in [{} -> SUBSET {}]
  OBVIOUS
<1> QED BY <1>1 DEF Trees

----------------------------------------------------------------------------
(* TypeOK. *)

LEMMA NetworkFacts ==
  ASSUME net \in Networks
  PROVE  /\ net.hosts \subseteq Hosts /\ net.maxEvents \in Nat
         /\ net.maxDowns \in Nat /\ net.maxSends \in Nat
         /\ \A c \in net.cables : \E s, t \in Switches : s # t /\ c = {s, t}
  BY NetworkAssumption DEF IsNetwork

\* Recompute gives a tree of known switches.
LEMMA RecomputeType ==
  ASSUME NEW order \in Orders, DOMAIN edges' \subseteq Switches, treeLinks \in Trees,
         Recompute(order)
  PROVE  treeLinks' \in Trees
<1>1. CASE DOMAIN edges' = {}
  BY <1>1 DEF Recompute
<1>2. CASE DOMAIN edges' # {}
  <2>1. treeLinks' = prim_spanningTree(DOMAIN edges', edges', order)
    BY <1>2 DEF Recompute
  <2>2. treeLinks' \in [DOMAIN edges' -> SUBSET DOMAIN edges']
    BY <1>2, <2>1, SearchBuildsForest
  <2> QED BY <2>2 DEF Trees
<1> QED BY <1>1, <1>2

LEMMA ReportType ==
  ASSUME NEW e \in Events, events \in Seq(Events), Report(e)
  PROVE  events' \in Seq(Events)
  BY DEF Report

LEMMA HandlesType ==
  ASSUME NEW type, events \in Seq(Events), Handles(type)
  PROVE  events' \in Seq(Events) /\ Head(events) \in Events /\ Head(events).type = type
  BY DEF Handles

LEMMA TopologyType ==
  ASSUME TypeOK, Topology, net' = net
  PROVE  TypeOK'
<1> USE DEF TypeOK
<1>1. CASE update_topology_switchEnter
  <2>1. GraphTypes'
    BY <1>1 DEF GraphTypes, DiscoTypes, update_topology_switchEnter
  <2>2. DiscoTypes'
    BY <1>1, HandlesType DEF DiscoTypes, discoVars, update_topology_switchEnter
  <2>3. DataTypes'
    BY <1>1 DEF DataTypes, dataVars, update_topology_switchEnter
  <2> QED BY <2>1, <2>2, <2>3
<1>2. CASE update_topology_switchLeave
  <2>1. PICK order \in Orders :
          LET missing == DOMAIN edges \ live
              dpid == FirstOf(missing, order)
          IN  /\ missing # {}
              /\ Handles("leave")
              /\ edges' = [s \in DOMAIN edges \ {dpid} |-> edges[s] \ {dpid}]
              /\ hosts' = [s \in DOMAIN edges \ {dpid} |-> hosts[s]]
              /\ mac_to_port' = [mac_to_port EXCEPT ![dpid] = NoKeys]
              /\ Recompute(order)
              /\ UNCHANGED <<discoVars, dataVars>>
    BY <1>2 DEF update_topology_switchLeave
  <2>2. DOMAIN edges' \subseteq Switches /\ treeLinks \in Trees
    BY <2>1 DEF GraphTypes
  <2>3. treeLinks' \in Trees
    BY <2>1, <2>2, RecomputeType
  <2>4. GraphTypes'
    BY <2>1, <2>3 DEF GraphTypes
  <2>5. DiscoTypes'
    BY <2>1, HandlesType DEF DiscoTypes, discoVars
  <2>6. DataTypes'
    BY <2>1 DEF DataTypes, dataVars, NoKeys
  <2> QED BY <2>4, <2>5, <2>6
<1>3. CASE SwitchLeaveFails
  <2>1. GraphTypes' /\ DataTypes'
    BY <1>3 DEF GraphTypes, DataTypes, graphVars, dataVars, SwitchLeaveFails
  <2>2. DiscoTypes'
    BY <1>3, HandlesType DEF DiscoTypes, discoVars, SwitchLeaveFails
  <2> QED BY <2>1, <2>2
<1>4. CASE update_topology_linkAdd
  <2>1. Head(events).src \in Switches /\ Head(events).dst \in Switches
    <3>1. Head(events) \in Events /\ Head(events).type = "link"
      BY <1>4, HandlesType DEF DiscoTypes, update_topology_linkAdd
    <3> QED BY <3>1 DEF Events
  <2>2. /\ DOMAIN edges' = DOMAIN edges
        /\ \A s \in DOMAIN edges : edges'[s] \subseteq edges[s] \cup {Head(events).src, Head(events).dst}
    BY <1>4 DEF update_topology_linkAdd
  <2>3. GraphTypes'
    BY <1>4, <2>1, <2>2 DEF GraphTypes, update_topology_linkAdd
  <2>4. DiscoTypes'
    BY <1>4, HandlesType DEF DiscoTypes, discoVars, update_topology_linkAdd
  <2>5. DataTypes'
    BY <1>4 DEF DataTypes, dataVars, update_topology_linkAdd
  <2> QED BY <2>3, <2>4, <2>5
<1>5. CASE update_topology_hostAdd
  <2> DEFINE dpid == SwitchOf[Head(events).host]
             listed == {h \in seen : SwitchOf[h] = dpid}
             others == listed \ OnPort1
  <2>1. PICK order \in Orders :
          /\ Handles("host")
          /\ \E saved \in {listed \cap OnPort1} \cup (IF others = {} THEN {} ELSE {{}}) :
               hosts' = [s \in DOMAIN edges |-> IF s = dpid THEN hosts[s] \cup saved
                                                            ELSE hosts[s]]
          /\ IF dpid \in DOMAIN edges /\ others = {}
             THEN edges' = edges /\ Recompute(order)
             ELSE UNCHANGED <<edges, treeLinks>>
          /\ UNCHANGED <<mac_to_port, discoVars, dataVars>>
    BY <1>5 DEF update_topology_hostAdd
  <2>2. edges' = edges
    BY <2>1
  <2>3. treeLinks' \in Trees
    <3>1. CASE Recompute(order)
      BY <2>2, <3>1, RecomputeType DEF GraphTypes
    <3>2. CASE UNCHANGED treeLinks
      BY <3>2 DEF GraphTypes
    <3> QED BY <2>1, <3>1, <3>2
  <2>4. PICK saved \in SUBSET (listed \cap OnPort1) :
          hosts' = [s \in DOMAIN edges |-> IF s = dpid THEN hosts[s] \cup saved ELSE hosts[s]]
    BY <2>1
  <2>5. DOMAIN hosts' = DOMAIN edges /\ \A s \in DOMAIN edges :
          hosts'[s] \subseteq {h \in OnPort1 : SwitchOf[h] = s}
    <3>1. saved \subseteq {h \in OnPort1 : SwitchOf[h] = dpid}
      OBVIOUS
    <3> HIDE DEF dpid, listed
    <3> QED BY <2>4, <3>1 DEF GraphTypes
  <2>6. GraphTypes'
    BY <2>2, <2>3, <2>5 DEF GraphTypes
  <2>7. DiscoTypes'
    BY <2>1, HandlesType DEF DiscoTypes, discoVars
  <2>8. DataTypes'
    BY <2>1 DEF DataTypes, dataVars
  <2> QED BY <2>6, <2>7, <2>8
<1> QED BY <1>1, <1>2, <1>3, <1>4, <1>5 DEF Topology

LEMMA NetworkType ==
  ASSUME TypeOK, Network, net' = net
  PROVE  TypeOK'
<1> USE DEF TypeOK
<1>1. CASE \E s \in Switches : SwitchUp(s)
  <2>1. PICK s \in Switches : SwitchUp(s)
    BY <1>1
  <2>2. events' \in Seq(Events)
    <3>1. [type |-> "enter", switch |-> s] \in Events
      BY DEF Events
    <3> QED BY <2>1, <3>1, ReportType DEF SwitchUp, DiscoTypes
  <2>3. GraphTypes'
    BY <2>1 DEF SwitchUp, GraphTypes, graphVars
  <2>4. DiscoTypes'
    BY <2>1, <2>2 DEF SwitchUp, DiscoTypes
  <2>5. DataTypes'
    BY <2>1 DEF SwitchUp, DataTypes, dataVars
  <2> QED BY <2>3, <2>4, <2>5
<1>2. CASE \E s \in Switches : SwitchDown(s)
  <2>1. PICK s \in Switches : SwitchDown(s)
    BY <1>2
  <2>2. events' \in Seq(Events)
    <3>1. [type |-> "leave", switch |-> s] \in Events
      BY DEF Events
    <3> QED BY <2>1, <3>1, ReportType DEF SwitchDown, DiscoTypes
  <2>3. GraphTypes'
    BY <2>1 DEF SwitchDown, GraphTypes, graphVars
  <2>4. DiscoTypes'
    <3>1. downs' \in 0..net.maxDowns
      BY <2>1, NetworkFacts DEF SwitchDown, DiscoTypes
    <3>2. links' \subseteq live' \X live' /\ live' \subseteq Switches
      BY <2>1 DEF SwitchDown, DiscoTypes
    <3> QED BY <2>1, <2>2, <3>1, <3>2 DEF SwitchDown, DiscoTypes
  <2>5. DataTypes'
    <3>1. packets' \subseteq Packets
      BY <2>1, LateCopy DEF SwitchDown, DataTypes
    <3>2. flows' = [flows EXCEPT ![s] = {}] /\ mac_to_port' = mac_to_port
      BY <2>1 DEF SwitchDown
    <3>3. flows' \in [Switches -> SUBSET Entries]
      BY <3>2 DEF DataTypes
    <3>4. \A r \in Switches : \A f, g \in flows'[r] :
            f.in_port = g.in_port /\ f.dst = g.dst => f = g
      BY <3>2 DEF DataTypes
    <3> QED BY <3>1, <3>2, <3>3, <3>4 DEF DataTypes
  <2> QED BY <2>3, <2>4, <2>5
<1>3. CASE \E s, t \in Switches : LinkSeen(s, t)
  <2>1. PICK s \in Switches, t \in Switches : LinkSeen(s, t)
    BY <1>3
  <2>2. events' \in Seq(Events)
    <3>1. [type |-> "link", src |-> s, dst |-> t] \in Events
      BY DEF Events
    <3> QED BY <2>1, <3>1, ReportType DEF LinkSeen, DiscoTypes
  <2>3. GraphTypes'
    BY <2>1 DEF LinkSeen, GraphTypes, graphVars
  <2>4. DiscoTypes'
    BY <2>1, <2>2 DEF LinkSeen, DiscoTypes
  <2>5. DataTypes'
    BY <2>1 DEF LinkSeen, DataTypes, dataVars
  <2> QED BY <2>3, <2>4, <2>5
<1>4. CASE \E h \in net.hosts : HostSeen(h)
  <2>1. PICK h \in net.hosts : HostSeen(h)
    BY <1>4
  <2>2. h \in Hosts
    BY NetworkFacts DEF DiscoTypes
  <2>3. events' \in Seq(Events)
    <3>1. [type |-> "host", host |-> h] \in Events
      BY <2>2 DEF Events
    <3> QED BY <2>1, <3>1, ReportType DEF HostSeen, DiscoTypes
  <2>4. GraphTypes'
    BY <2>1 DEF HostSeen, GraphTypes, graphVars
  <2>5. DiscoTypes'
    BY <2>1, <2>2, <2>3 DEF HostSeen, DiscoTypes
  <2>6. DataTypes'
    BY <2>1 DEF HostSeen, DataTypes, dataVars
  <2> QED BY <2>4, <2>5, <2>6
<1>5. CASE \E h \in net.hosts : \E dst \in (net.hosts \cup {Broadcast}) \ {h} : HostSends(h, dst)
  <2>1. PICK h \in net.hosts, dst \in net.hosts \cup {Broadcast} : HostSends(h, dst)
    BY <1>5
  <2>2. h \in Hosts /\ dst \in Hosts \cup {Broadcast} /\ net.maxSends \in Nat
    BY NetworkFacts DEF DiscoTypes
  <2>3. GraphTypes'
    BY <2>1 DEF HostSends, GraphTypes, graphVars
  <2>4. DiscoTypes'
    BY <2>1, <2>2 DEF HostSends, DiscoTypes
  <2>5. packets' \subseteq Packets
    <3> DEFINE p == [src |-> h, dst |-> dst, at |-> SwitchOf[h], in_port |-> h,
                     asked |-> Misses(SwitchOf[h], h, dst), late |-> FALSE,
                     visited |-> {}, tree |-> <<>>, steady |-> TRUE]
    <3>1. p \in Packets
      BY <2>2, NoTree, NetworkAssumption DEF Packets, Ports, Misses
    <3>2. packets' = packets \cup {p}
      BY <2>1 DEF HostSends
    <3> HIDE DEF p
    <3> QED BY <3>1, <3>2 DEF DataTypes
  <2>6. DataTypes'
    BY <2>1, <2>5 DEF HostSends, DataTypes
  <2> QED BY <2>3, <2>4, <2>6
<1> QED BY <1>1, <1>2, <1>3, <1>4, <1>5 DEF Network

LEMMA TransitType ==
  ASSUME TypeOK, Transit, net' = net
  PROVE  TypeOK'
<1> USE DEF TypeOK
<1>1. PICK p \in packets : Forward(p) \/ _packet_in_handler(p)
  BY DEF Transit
<1>2. p \in Packets /\ live \subseteq Switches /\ treeLinks \in Trees
  BY DEF DataTypes, DiscoTypes, GraphTypes
<1>3. \A on : Sent(Unicast(p), on) \subseteq Packets /\ Sent(Flooded(p), on) \subseteq Packets
  BY <1>2, SentCopies, UnicastCopy, FloodedCopy
<1>4. CASE Forward(p)
  <2>1. GraphTypes' /\ DiscoTypes'
    BY <1>4 DEF Forward, GraphTypes, DiscoTypes, graphVars, discoVars
  <2>2. packets' \subseteq Packets
    BY <1>3, <1>4 DEF Forward, DataTypes
  <2>3. DataTypes'
    BY <1>4, <2>2 DEF Forward, DataTypes
  <2> QED BY <2>1, <2>3
<1>5. CASE _packet_in_handler(p)
  <2> DEFINE s == p.at
             learnt == [mac_to_port[s] EXCEPT ![p.src] = p.in_port]
             local == p.dst \in Hosts /\ learnt[p.dst] # None
  <2>1. GraphTypes' /\ DiscoTypes'
    BY <1>5 DEF _packet_in_handler, GraphTypes, DiscoTypes, graphVars, discoVars
  <2>2. packets' \subseteq Packets
    BY <1>3, <1>5 DEF _packet_in_handler, DataTypes
  <2>3. s \in Switches /\ p.src \in Hosts /\ p.in_port \in Ports
    BY <1>2 DEF Packets
  <2>4. learnt \in [Hosts -> Ports \cup {None}]
    BY <2>3 DEF DataTypes
  <2>5. mac_to_port' = [mac_to_port EXCEPT ![s] = learnt]
    BY <1>5 DEF _packet_in_handler
  <2>6. flows' = IF local /\ ~p.late
                 THEN [flows EXCEPT ![s] = Added(@, Entry(p, learnt))] ELSE flows
    BY <1>5 DEF _packet_in_handler
  <2> HIDE DEF learnt
  <2>8. mac_to_port' \in [Switches -> [Hosts -> Ports \cup {None}]]
    BY <2>3, <2>4, <2>5 DEF DataTypes
  <2>9. CASE local /\ ~p.late
    <3> DEFINE e == Entry(p, learnt)
    <3>1. e \in Entries /\ e.in_port = p.in_port /\ e.dst = p.dst
      BY <2>3, <2>4, <2>9 DEF Entry, Entries
    <3> HIDE DEF e
    <3>2. flows' = [flows EXCEPT ![s] = Added(flows[s], e)]
      BY <2>6, <2>9 DEF e
    <3>3. flows' \in [Switches -> SUBSET Entries]
      BY <2>3, <3>1, <3>2 DEF DataTypes, Added
    <3>4. ASSUME NEW r \in Switches, NEW f \in flows'[r], NEW g \in flows'[r],
                 f.in_port = g.in_port, f.dst = g.dst
          PROVE  f = g
      <4>1. CASE r # s
        BY <2>3, <3>2, <3>4, <4>1 DEF DataTypes
      <4>2. CASE r = s
        <5>1. f \in Added(flows[s], e) /\ g \in Added(flows[s], e)
          BY <2>3, <3>2, <4>2 DEF DataTypes
        <5>2. f \in flows[s] /\ g \in flows[s] => f = g
          BY <2>3, <3>4 DEF DataTypes
        <5> QED BY <3>4, <5>1, <5>2 DEF Added
      <4> QED BY <4>1, <4>2
    <3> QED BY <2>1, <2>2, <2>8, <3>3, <3>4 DEF DataTypes
  <2>10. CASE ~(local /\ ~p.late)
    BY <2>1, <2>2, <2>6, <2>8, <2>10 DEF DataTypes
  <2> QED BY <2>1, <2>9, <2>10
<1> QED BY <1>1, <1>4, <1>5

LEMMA StutterType ==
  ASSUME TypeOK, UNCHANGED vars
  PROVE  TypeOK'
BY DEF TypeOK, GraphTypes, DiscoTypes, DataTypes, vars, graphVars, discoVars, dataVars

LEMMA InitType ==
  ASSUME Init
  PROVE  TypeOK
<1>1. GraphTypes
  <2>1. DOMAIN <<>> = {}
    OBVIOUS
  <2> QED BY <2>1, NoTree DEF Init, GraphTypes
<1>2. DiscoTypes
  BY NetworkFacts DEF Init, DiscoTypes
<1>3. DataTypes
  BY DEF Init, DataTypes, NoKeys
<1> QED BY <1>1, <1>2, <1>3 DEF TypeOK

\* Every variable keeps its type, and a table has one entry for an in_port and
\* a destination, though packets that came before it may install it again.
THEOREM TypeCorrect == Spec => []TypeOK
<1>1. Init => TypeOK
  BY InitType
<1>2. TypeOK /\ [Next]_vars => TypeOK'
  BY TopologyType, TransitType, NetworkType, StutterType DEF Next
<1> QED BY <1>1, <1>2, PTL DEF Spec

----------------------------------------------------------------------------
(* The tree. *)

LEMMA RecomputeForest ==
  ASSUME NEW order \in Orders, DOMAIN edges' \subseteq Switches, DOMAIN edges' # {},
         Recompute(order)
  PROVE  TreeIsForest'
<1>1. treeLinks' = prim_spanningTree(DOMAIN edges', edges', order)
  BY DEF Recompute
<1> DEFINE tree == treeLinks'
           known == edges'
<1>2. /\ tree \in [DOMAIN known -> SUBSET DOMAIN known]
      /\ Symmetric(tree) /\ Acyclic(tree)
      /\ \A s \in DOMAIN known : \A t \in tree[s] : s # t /\ Known(known, s, t)
  BY <1>1, SearchBuildsForest
<1>3. \A s \in DOMAIN tree : \A t \in tree[s] :
        s # t /\ {s, t} \subseteq DOMAIN known /\ (t \in known[s] \/ s \in known[t])
  BY <1>2 DEF Known
<1> QED BY <1>2, <1>3 DEF TreeIsForest

\* With no switch left the old tree stays, and has no link.
LEMMA LeaveForest ==
  ASSUME TypeOK, TreeIsForest, update_topology_switchLeave
  PROVE  TreeIsForest'
<1>1. PICK order \in Orders :
        LET dpid == FirstOf(DOMAIN edges \ live, order)
        IN  /\ edges' = [s \in DOMAIN edges \ {dpid} |-> edges[s] \ {dpid}]
            /\ Recompute(order)
  BY DEF update_topology_switchLeave
<1> DEFINE dpid == FirstOf(DOMAIN edges \ live, order)
<1>2. DOMAIN edges' = DOMAIN edges \ {dpid} /\ DOMAIN edges \subseteq Switches
  BY <1>1 DEF TypeOK, GraphTypes
<1>3. CASE DOMAIN edges' # {}
  BY <1>1, <1>2, <1>3, RecomputeForest
<1>4. CASE DOMAIN edges' = {}
  <2>1. treeLinks' = treeLinks
    BY <1>1, <1>4 DEF Recompute
  <2> HIDE DEF dpid
  <2>2. \A s \in DOMAIN treeLinks : treeLinks[s] = {}
    BY <1>2, <1>4 DEF TreeIsForest
  <2> QED BY <2>1, <2>2 DEF TreeIsForest
<1> QED BY <1>3, <1>4

LEMMA ForestStep ==
  ASSUME TypeOK, TreeIsForest, [Next]_vars
  PROVE  TreeIsForest'
<1>1. CASE UNCHANGED <<edges, treeLinks>>
  BY <1>1 DEF TreeIsForest
<1>2. CASE update_topology_switchEnter
  <2>1. /\ treeLinks' = treeLinks /\ DOMAIN edges \subseteq DOMAIN edges'
        /\ \A s \in DOMAIN edges : edges'[s] = edges[s]
    BY <1>2 DEF update_topology_switchEnter
  <2> QED BY <2>1 DEF TreeIsForest
<1>3. CASE update_topology_switchLeave
  BY <1>3, LeaveForest
<1>4. CASE update_topology_linkAdd
  <2>1. /\ treeLinks' = treeLinks /\ DOMAIN edges' = DOMAIN edges
        /\ \A s \in DOMAIN edges : edges[s] \subseteq edges'[s]
    BY <1>4 DEF update_topology_linkAdd
  <2> QED BY <2>1 DEF TreeIsForest
<1>5. CASE update_topology_hostAdd
  <2>1. UNCHANGED <<edges, treeLinks>> \/ \E order \in Orders :
          edges' = edges /\ DOMAIN edges # {} /\ Recompute(order)
    BY <1>5 DEF update_topology_hostAdd
  <2>2. ASSUME NEW order \in Orders, edges' = edges, DOMAIN edges # {}, Recompute(order)
        PROVE  TreeIsForest'
    BY <2>2, RecomputeForest DEF TypeOK, GraphTypes
  <2> QED BY <1>1, <2>1, <2>2
<1>6. CASE SwitchLeaveFails \/ Transit \/ Network \/ UNCHANGED vars
  <2>1. UNCHANGED <<edges, treeLinks>>
    BY <1>6 DEF SwitchLeaveFails, Transit, Forward, _packet_in_handler, Network, SwitchUp,
                SwitchDown, LinkSeen, HostSeen, HostSends, vars, graphVars
  <2> QED BY <1>1, <2>1
<1> QED BY <1>2, <1>3, <1>4, <1>5, <1>6 DEF Next, Topology

\* The tree is a forest along known links, whichever handlers failed half way,
\* ran late or did not recompute it.
THEOREM TreeStaysForest == Spec => []TreeIsForest
<1>1. Init => TreeIsForest
  <2>1. DOMAIN <<>> = {}
    OBVIOUS
  <2> QED BY <2>1 DEF Init, TreeIsForest, Symmetric, Acyclic
<1>2. TypeOK /\ TreeIsForest /\ [Next]_vars => TreeIsForest'
  BY ForestStep
<1> QED BY <1>1, <1>2, TypeCorrect, PTL DEF Spec

LEMMA RecomputeSpans ==
  ASSUME NEW order \in Orders, DOMAIN edges' \subseteq Switches, Recompute(order),
         treeLinks' # treeLinks, \A s \in DOMAIN edges' : edges'[s] \subseteq DOMAIN edges'
  PROVE  \E root \in DOMAIN edges' : Spans(treeLinks', edges', root)
<1>1. /\ DOMAIN edges' # {}
      /\ treeLinks' = prim_spanningTree(DOMAIN edges', edges', order)
  BY DEF Recompute
<1> QED BY <1>1, SearchSpans

\* A handler that changes the tree makes it span all that the known links
\* connect to the switch where the search starts.
THEOREM NewTreesSpan == Spec => NewTreeSpans
<1> DEFINE Step == treeLinks' # treeLinks /\ (\A s \in DOMAIN edges' : edges'[s] \subseteq DOMAIN edges')
                     => \E root \in DOMAIN edges' : Spans(treeLinks', edges', root)
<1>1. TypeOK /\ TypeOK' /\ [Next]_vars => [Step]_vars
  <2> SUFFICES ASSUME TypeOK, TypeOK', [Next]_vars, treeLinks' # treeLinks,
                      \A s \in DOMAIN edges' : edges'[s] \subseteq DOMAIN edges'
               PROVE  \E root \in DOMAIN edges' : Spans(treeLinks', edges', root)
    OBVIOUS
  <2>1. \E order \in Orders : Recompute(order)
    <3>1. update_topology_switchLeave \/ update_topology_hostAdd
      BY DEF Next, Topology, Transit, Forward, _packet_in_handler, Network, SwitchUp,
             SwitchDown, LinkSeen, HostSeen, HostSends, vars, graphVars, SwitchLeaveFails,
             update_topology_linkAdd, update_topology_switchEnter
    <3> QED BY <3>1 DEF update_topology_switchLeave, update_topology_hostAdd
  <2>2. DOMAIN edges' \subseteq Switches
    BY DEF TypeOK, GraphTypes
  <2> QED BY <2>1, <2>2, RecomputeSpans
<1>2. Spec => [][Step]_vars
  BY <1>1, TypeCorrect, PTL DEF Spec
<1> QED BY <1>2 DEF NewTreeSpans

----------------------------------------------------------------------------
(* NoStorm. *)

\* What a flooded copy has visited is cut off, along the tree of the flood,
\* from the switch it is at by the link it came over.
IsCutOff(p) ==
  /\ Symmetric(p.tree) /\ Acyclic(p.tree)
  /\ \A s \in DOMAIN p.tree : s \notin p.tree[s]
  /\ {p.in_port, p.at} \subseteq DOMAIN p.tree
  /\ \E B \in SUBSET DOMAIN p.tree : p.visited \subseteq B /\ Cuts(B, p.tree, p.in_port, p.at)

FloodsCutOff == \A p \in packets : p.steady /\ p.visited # {} => IsCutOff(p)

LEMMA FloodOnward ==
  ASSUME TypeOK, TreeIsForest, NEW p \in packets,
         p.steady /\ p.visited # {} => IsCutOff(p),
         NEW q \in Sent(Flooded(p), FloodPorts(p.at, p.in_port)), q.steady
  PROVE  IsCutOff(q)
<1> DEFINE a == p.at
           t == q.at
           nodes == DOMAIN treeLinks
<1>1. /\ p \in Packets /\ live \subseteq Switches /\ treeLinks \in Trees
  BY DEF TypeOK, GraphTypes, DiscoTypes, DataTypes
<1>2. /\ q.visited = p.visited \cup {a} /\ q.tree = treeLinks /\ q.in_port = a
      /\ t \in FloodPorts(a, p.in_port) \ {p.in_port} /\ t \in Switches
      /\ p.steady /\ (p.visited = {} \/ p.tree = treeLinks)
  <2>1. Remembers(p, q) /\ GoesOn(p, q, FloodPorts(a, p.in_port))
    BY <1>1, FloodedSent
  <2> QED BY <2>1 DEF Remembers, GoesOn
<1>3. /\ treeLinks \in [nodes -> SUBSET nodes] /\ IsFiniteSet(nodes)
      /\ Symmetric(treeLinks) /\ Acyclic(treeLinks)
      /\ \A s \in nodes : s \notin treeLinks[s]
  <2>1. treeLinks \in [nodes -> SUBSET nodes] /\ nodes \subseteq Switches
    BY <1>1 DEF Trees
  <2> QED BY <2>1, OrdersAssumption, FS_Subset DEF TreeIsForest
<1>4. t \in nodes /\ a \in treeLinks[t]
  <2>1. a \in DOMAIN edges /\ hosts[a] \subseteq Hosts
    <3>1. a \in DOMAIN edges
      BY <1>2 DEF FloodPorts
    <3> QED BY <3>1, NetworkAssumption DEF TypeOK, GraphTypes
  <2>2. t \notin hosts[a]
    BY <1>2, <2>1, NetworkAssumption
  <2> QED BY <1>2, <2>1, <2>2 DEF FloodPorts
<1>5. a \in nodes /\ t \in treeLinks[a] /\ a # t
  BY <1>3, <1>4 DEF Symmetric
<1> HIDE DEF a, t, nodes
<1>6. \E B \in SUBSET nodes : p.visited \cup {a} \subseteq B /\ Cuts(B, treeLinks, a, t)
  <2>1. CASE p.visited = {}
    <3>1. PICK B \in SUBSET nodes : Cuts(B, treeLinks, a, t)
      BY <1>3, <1>5, Bridge
    <3> QED BY <2>1, <3>1 DEF Cuts
  <2>2. CASE p.visited # {}
    <3>1. IsCutOff(p) /\ p.tree = treeLinks
      BY <1>2, <2>2
    <3>2. PICK S \in SUBSET nodes : p.visited \subseteq S /\ Cuts(S, treeLinks, p.in_port, a)
      BY <3>1 DEF IsCutOff, nodes, a
    <3>3. p.in_port \in nodes /\ t # p.in_port
      BY <1>2, <3>1 DEF IsCutOff, nodes
    <3>4. PICK B \in SUBSET nodes : S \subseteq B /\ Cuts(B, treeLinks, a, t)
      BY <1>3, <1>5, <3>2, <3>3, CutOnward
    <3> QED BY <3>2, <3>4 DEF Cuts
  <2> QED BY <2>1, <2>2
<1> QED BY <1>2, <1>3, <1>4, <1>5, <1>6 DEF IsCutOff, nodes, a, t

LEMMA FloodsStep ==
  ASSUME TypeOK, TreeIsForest, FloodsCutOff, [Next]_vars
  PROVE  FloodsCutOff'
<1>1. packets \subseteq Packets /\ live \subseteq Switches
  BY DEF TypeOK, DataTypes, DiscoTypes
<1>2. CASE UNCHANGED packets
  BY <1>2 DEF FloodsCutOff, IsCutOff
<1>3. CASE \E s \in Switches : SwitchDown(s)
  <2>1. \A q \in packets' : q \in packets \/ \E p \in packets : q = [p EXCEPT !.late = TRUE]
    BY <1>3 DEF SwitchDown
  <2>2. ASSUME NEW q \in packets', q.steady, q.visited # {} PROVE IsCutOff(q)
    <3>1. CASE q \in packets
      BY <2>2, <3>1 DEF FloodsCutOff
    <3>2. CASE q \notin packets
      <4>1. PICK p \in packets : q = [p EXCEPT !.late = TRUE]
        BY <2>1, <3>2
      <4>2. /\ q.at = p.at /\ q.in_port = p.in_port /\ q.visited = p.visited
            /\ q.tree = p.tree /\ q.steady = p.steady
        BY <1>1, <4>1, LateCopy
      <4>3. IsCutOff(p)
        BY <2>2, <4>2 DEF FloodsCutOff
      <4> QED BY <4>2, <4>3 DEF IsCutOff
    <3> QED BY <3>1, <3>2
  <2> QED BY <2>2 DEF FloodsCutOff, IsCutOff
<1>4. CASE \E h \in net.hosts, dst \in (net.hosts \cup {Broadcast}) : HostSends(h, dst)
  <2>1. \A q \in packets' : q \in packets \/ q.visited = {}
    BY <1>4 DEF HostSends
  <2> QED BY <2>1 DEF FloodsCutOff, IsCutOff
<1>5. ASSUME NEW p \in packets, Forward(p) PROVE FloodsCutOff'
  <2>1. ASSUME NEW on, NEW q \in Sent(Unicast(p), on) PROVE q.steady = FALSE
    BY <1>1, UnicastSent
  <2>2. \A q \in packets' : q \in packets \/ q.steady = FALSE
    BY <1>5, <2>1 DEF Forward
  <2> QED BY <2>2 DEF FloodsCutOff, IsCutOff
<1>6. ASSUME NEW p \in packets, _packet_in_handler(p) PROVE FloodsCutOff'
  <2>1. ASSUME NEW on, NEW q \in Sent(Unicast(p), on) PROVE q.steady = FALSE
    BY <1>1, UnicastSent
  <2>2. \A q \in packets' : \/ q \in packets \/ \E on : q \in Sent(Unicast(p), on)
                            \/ q \in Sent(Flooded(p), FloodPorts(p.at, p.in_port))
    BY <1>6 DEF _packet_in_handler
  <2>3. ASSUME NEW q \in packets', q.steady, q.visited # {} PROVE IsCutOff(q)
    <3>1. p.steady /\ p.visited # {} => IsCutOff(p)
      BY DEF FloodsCutOff
    <3> QED BY <2>1, <2>2, <2>3, <3>1, FloodOnward DEF FloodsCutOff
  <2> QED BY <2>3 DEF FloodsCutOff, IsCutOff
<1>7. CASE Topology \/ UNCHANGED vars
  <2>1. UNCHANGED packets
    BY <1>7 DEF Topology, vars, dataVars, update_topology_switchEnter, SwitchLeaveFails,
                update_topology_switchLeave, update_topology_linkAdd, update_topology_hostAdd
  <2> QED BY <1>2, <2>1
<1>8. CASE Network
  <2>1. \/ UNCHANGED packets
        \/ \E s \in Switches : SwitchDown(s)
        \/ \E h \in net.hosts, dst \in (net.hosts \cup {Broadcast}) : HostSends(h, dst)
    BY <1>8 DEF Network, SwitchUp, LinkSeen, HostSeen, dataVars
  <2> QED BY <1>2, <1>3, <1>4, <2>1
<1> QED BY <1>5, <1>6, <1>7, <1>8 DEF Next, Transit

\* Whatever the cables, a packet that every switch floods, along one tree, comes
\* to no switch twice.
THEOREM FloodsEnd == Spec => []NoStorm
<1>1. Init => FloodsCutOff
  BY DEF Init, FloodsCutOff
<1>2. TypeOK /\ TreeIsForest /\ FloodsCutOff /\ [Next]_vars => FloodsCutOff'
  BY FloodsStep
<1>3. FloodsCutOff => NoStorm
  BY DEF FloodsCutOff, IsCutOff, Cuts, NoStorm
<1> QED BY <1>1, <1>2, <1>3, TypeCorrect, TreeStaysForest, PTL DEF Spec

----------------------------------------------------------------------------
(* LearntPortsLead. *)

LEMMA CabledFacts ==
  ASSUME net \in Networks
  PROVE  /\ Cabled \in [Switches -> SUBSET Switches] /\ Symmetric(Cabled)
         /\ IsFiniteSet(Switches) /\ \A s \in Switches : s \notin Cabled[s]
<1>1. Cabled \in [Switches -> SUBSET Switches]
  BY DEF Cabled
<1>2. ASSUME NEW s \in Switches, NEW t \in Cabled[s] PROVE t \in Switches /\ s \in Cabled[t]
  <2>1. {t, s} = {s, t}
    OBVIOUS
  <2> QED BY <2>1 DEF Cabled
<1>3. ASSUME NEW s \in Switches, s \in Cabled[s] PROVE FALSE
  <2>1. {s, s} \in net.cables
    BY <1>3 DEF Cabled
  <2>2. PICK a, b \in Switches : a # b /\ {s, s} = {a, b}
    BY <2>1, NetworkFacts
  <2> QED BY <2>2
<1> QED BY <1>1, <1>2, <1>3, OrdersAssumption DEF Symmetric

\* What lies on the side of a, seen from t.
LEMMA CutWay ==
  ASSUME net \in Networks, NEW B \in SUBSET Switches, NEW a \in Switches, NEW t \in Switches,
         Cuts(B, Cabled, a, t), NEW h \in Hosts, SwitchOf[h] \in B
  PROVE  OnlyWay(t, a, h)
<1>1. B \in SUBSET (Switches \ {t}) /\ {a, SwitchOf[h]} \subseteq B
  BY DEF Cuts
<1>2. ASSUME NEW c \in net.cables, c \cap B # {}, c \ B # {} PROVE c = {t, a}
  <2>1. PICK x, y \in Switches : c = {x, y}
    BY NetworkFacts
  <2>2. ASSUME NEW u \in Switches, NEW v \in Switches, c = {u, v}, u \in B, v \notin B
        PROVE  c = {t, a}
    <3>1. v \in Cabled[u] \ B
      BY <2>2 DEF Cabled
    <3>2. u = a /\ v = t
      BY <2>2, <3>1 DEF Cuts
    <3> QED BY <2>2, <3>2
  <2>3. (x \in B /\ y \notin B) \/ (y \in B /\ x \notin B)
    BY <1>2, <2>1
  <2>4. c = {y, x}
    BY <2>1
  <2> QED BY <2>1, <2>2, <2>3, <2>4
<1> QED BY <1>1, <1>2 DEF OnlyWay

\* Where a copy came from leads to its sender also at the next switch.
LEMMA LeadsOnward ==
  ASSUME net \in Networks, Acyclic(Cabled), NEW a \in Switches, NEW port \in Ports,
         NEW h \in Hosts, Leads(a, port, h), NEW t \in Switches, {a, t} \in net.cables, t # port
  PROVE  Leads(t, a, h)
<1>1. t \in Cabled[a] /\ t # a
  BY CabledFacts DEF Cabled
<1>2. \E B \in SUBSET Switches : Cuts(B, Cabled, a, t) /\ SwitchOf[h] \in B
  <2>1. CASE port \in Hosts
    <3>1. PICK B \in SUBSET Switches : Cuts(B, Cabled, a, t)
      BY <1>1, CabledFacts, Bridge
    <3>2. SwitchOf[h] = a /\ a \in B
      BY <2>1, <3>1 DEF Leads, Cuts
    <3> QED BY <3>1, <3>2
  <2>2. CASE port \notin Hosts
    <3>1. port \in Switches
      BY <2>2 DEF Ports
    <3>2. PICK S \in SUBSET (Switches \ {a}) :
            /\ {port, SwitchOf[h]} \subseteq S
            /\ \A c \in net.cables : c \cap S # {} /\ c \ S # {} => c = {a, port}
      BY <2>2 DEF Leads, OnlyWay
    <3>3. ASSUME NEW x \in S, NEW y \in Cabled[x] \ S PROVE x = port /\ y = a
      <4>1. {x, y} \in net.cables /\ {x, y} \cap S # {} /\ {x, y} \ S # {}
        BY DEF Cabled
      <4>2. {x, y} = {a, port}
        BY <3>2, <4>1
      <4> QED BY <4>2
    <3>4. Cuts(S, Cabled, port, a)
      BY <3>2, <3>3 DEF Cuts
    <3>5. PICK B \in SUBSET Switches : S \subseteq B /\ Cuts(B, Cabled, a, t)
      BY <1>1, <3>1, <3>4, CabledFacts, CutOnward
    <3> QED BY <3>2, <3>5
  <2> QED BY <2>1, <2>2
<1>3. OnlyWay(t, a, h)
  BY <1>2, CutWay
<1>4. a \notin Hosts
  BY NetworkAssumption
<1> QED BY <1>3, <1>4 DEF Leads

CopiesLead == Acyclic(Cabled) => \A p \in packets : Leads(p.at, p.in_port, p.src)

LEMMA CopiesStep ==
  ASSUME TypeOK, CopiesLead, [Next]_vars
  PROVE  CopiesLead'
<1> SUFFICES ASSUME Acyclic(Cabled)', NEW q \in packets' PROVE Leads(q.at, q.in_port, q.src)'
  BY DEF CopiesLead
<1>1. /\ packets \subseteq Packets /\ live \subseteq Switches /\ net \in Networks
      /\ treeLinks \in Trees
  BY DEF TypeOK, DataTypes, DiscoTypes, GraphTypes
<1>2. net' = net
  BY DEF Next, vars
<1>3. Acyclic(Cabled) /\ \A p \in packets : Leads(p.at, p.in_port, p.src)
  BY <1>2 DEF CopiesLead, Cabled
<1>4. SUFFICES Leads(q.at, q.in_port, q.src)
  BY <1>2 DEF Leads, OnlyWay
<1>5. CASE q \in packets
  BY <1>3, <1>5
<1>6. CASE \E s \in Switches : SwitchDown(s)
  <2>1. q \in packets \/ \E p \in packets : q = [p EXCEPT !.late = TRUE]
    BY <1>6 DEF SwitchDown
  <2> QED BY <1>1, <1>3, <2>1, LateCopy
<1>7. CASE \E h \in net.hosts, dst \in (net.hosts \cup {Broadcast}) : HostSends(h, dst)
  <2>1. PICK h \in net.hosts, dst \in (net.hosts \cup {Broadcast}) : HostSends(h, dst)
    BY <1>7
  <2>2. q \in packets \/ (q.at = SwitchOf[h] /\ q.in_port = h /\ q.src = h)
    BY <2>1 DEF HostSends
  <2>3. h \in Hosts
    BY <1>1, NetworkFacts
  <2> QED BY <1>5, <2>2, <2>3 DEF Leads
<1>8. ASSUME NEW p \in packets, q.src = p.src, q.in_port = p.at, q.at # p.in_port,
             q.at \in Switches, {p.at, q.at} \in net.cables
      PROVE  Leads(q.at, q.in_port, q.src)
  <2>1. p.at \in Switches /\ p.in_port \in Ports /\ p.src \in Hosts
    BY <1>1 DEF Packets
  <2> QED BY <1>1, <1>3, <1>8, <2>1, LeadsOnward
<1>9. ASSUME NEW p \in packets, NEW on, q \in Sent(Unicast(p), on)
      PROVE  Leads(q.at, q.in_port, q.src)
  <2>1. GoesOn(p, q, on)
    BY <1>1, <1>9, UnicastSent
  <2> QED BY <1>8, <2>1 DEF GoesOn
<1>10. ASSUME NEW p \in packets, NEW on, q \in Sent(Flooded(p), on)
       PROVE  Leads(q.at, q.in_port, q.src)
  <2>1. GoesOn(p, q, on)
    BY <1>1, <1>10, FloodedSent
  <2> QED BY <1>8, <2>1 DEF GoesOn
<1>11. \/ q \in packets
       \/ \E s \in Switches : SwitchDown(s)
       \/ \E h \in net.hosts, dst \in (net.hosts \cup {Broadcast}) : HostSends(h, dst)
       \/ \E p \in packets : \E on : q \in Sent(Unicast(p), on) \/ q \in Sent(Flooded(p), on)
  <2>1. CASE Topology \/ UNCHANGED vars
    BY <2>1 DEF Topology, vars, dataVars, update_topology_switchEnter, SwitchLeaveFails,
                update_topology_switchLeave, update_topology_linkAdd, update_topology_hostAdd
  <2>2. CASE Network
    BY <2>2 DEF Network, SwitchUp, LinkSeen, HostSeen, dataVars
  <2>3. CASE Transit
    BY <2>3 DEF Transit, Forward, _packet_in_handler
  <2> QED BY <2>1, <2>2, <2>3 DEF Next
<1> QED BY <1>5, <1>6, <1>7, <1>9, <1>10, <1>11

\* What is learnt, and the entry that is installed, at the switch of a copy.
LEMMA LearntStep ==
  ASSUME TypeOK, CopiesLead, LearntPortsLead, Acyclic(Cabled),
         NEW p \in packets, _packet_in_handler(p), NEW s \in Switches
  PROVE  /\ \A h \in Hosts : mac_to_port'[s][h] # None => Leads(s, mac_to_port'[s][h], h)
         /\ \A f \in flows'[s] : Leads(s, f.out, f.dst)
<1> DEFINE a == p.at
           learnt == [mac_to_port[a] EXCEPT ![p.src] = p.in_port]
           local == p.dst \in Hosts /\ learnt[p.dst] # None
<1>1. /\ a \in Switches /\ p.src \in Hosts /\ p.in_port \in Ports
      /\ mac_to_port \in [Switches -> [Hosts -> Ports \cup {None}]]
      /\ flows \in [Switches -> SUBSET Entries]
  BY DEF TypeOK, DataTypes, Packets
<1>2. Leads(a, p.in_port, p.src)
  BY DEF CopiesLead
<1>3. /\ mac_to_port' = [mac_to_port EXCEPT ![a] = learnt]
      /\ flows' = IF local /\ ~p.late
                  THEN [flows EXCEPT ![a] = Added(@, Entry(p, learnt))] ELSE flows
  BY DEF _packet_in_handler
<1>4. \A h \in Hosts : learnt[h] = IF h = p.src THEN p.in_port ELSE mac_to_port[a][h]
  BY <1>1
<1>5. \A h \in Hosts : learnt[h] # None => Leads(a, learnt[h], h)
  BY <1>1, <1>2, <1>4 DEF LearntPortsLead
<1> HIDE DEF a, learnt
<1>6. \A h \in Hosts : mac_to_port'[s][h] # None => Leads(s, mac_to_port'[s][h], h)
  <2>1. CASE s = a
    BY <1>1, <1>3, <1>5, <2>1
  <2>2. CASE s # a
    BY <1>1, <1>3, <2>2 DEF LearntPortsLead
  <2> QED BY <2>1, <2>2
<1>7. ASSUME NEW f \in flows'[s] PROVE Leads(s, f.out, f.dst)
  <2>1. f \in flows[s] \/ (s = a /\ local /\ f = Entry(p, learnt))
    BY <1>1, <1>3 DEF Added
  <2>2. CASE f \in flows[s]
    BY <2>2 DEF LearntPortsLead
  <2>3. CASE s = a /\ local /\ f = Entry(p, learnt)
    <3>1. f.out = learnt[p.dst] /\ f.dst = p.dst
      BY <2>3 DEF Entry
    <3> QED BY <1>5, <2>3, <3>1
  <2> QED BY <2>1, <2>2, <2>3
<1> QED BY <1>6, <1>7

LEMMA LeadStep ==
  ASSUME TypeOK, CopiesLead, LearntPortsLead, [Next]_vars
  PROVE  LearntPortsLead'
<1>1. net' = net
  BY DEF Next, vars
<1> SUFFICES ASSUME Acyclic(Cabled), NEW s \in Switches
             PROVE  /\ \A h \in Hosts : mac_to_port'[s][h] # None => Leads(s, mac_to_port'[s][h], h)
                    /\ \A f \in flows'[s] : Leads(s, f.out, f.dst)
  BY <1>1 DEF LearntPortsLead, Cabled, Leads, OnlyWay
<1>2. /\ mac_to_port \in [Switches -> [Hosts -> Ports \cup {None}]]
      /\ flows \in [Switches -> SUBSET Entries]
  BY DEF TypeOK, DataTypes
<1>3. CASE mac_to_port'[s] \in {mac_to_port[s], NoKeys} /\ flows'[s] \subseteq flows[s]
  <2>1. \A h \in Hosts : mac_to_port'[s][h] # None => mac_to_port'[s][h] = mac_to_port[s][h]
    BY <1>3 DEF NoKeys
  <2> QED BY <1>3, <2>1 DEF LearntPortsLead
<1>4. CASE \E p \in packets : _packet_in_handler(p)
  BY <1>4, LearntStep
<1>5. CASE \E r \in Switches : SwitchDown(r)
  <2>1. mac_to_port'[s] = mac_to_port[s] /\ flows'[s] \subseteq flows[s]
    BY <1>2, <1>5 DEF SwitchDown
  <2> QED BY <1>3, <2>1
<1>6. CASE update_topology_switchLeave
  <2>1. flows' = flows /\ \E dpid : mac_to_port' = [mac_to_port EXCEPT ![dpid] = NoKeys]
    BY <1>6 DEF update_topology_switchLeave, dataVars
  <2>2. mac_to_port'[s] \in {mac_to_port[s], NoKeys}
    BY <1>2, <2>1
  <2> QED BY <1>3, <2>1, <2>2
<1>7. CASE UNCHANGED <<mac_to_port, flows>>
  BY <1>3, <1>7
<1>8. \/ UNCHANGED <<mac_to_port, flows>>
      \/ update_topology_switchLeave
      \/ \E r \in Switches : SwitchDown(r)
      \/ \E p \in packets : _packet_in_handler(p)
  <2>1. CASE Topology \/ UNCHANGED vars
    BY <2>1 DEF Topology, vars, dataVars, update_topology_switchEnter, SwitchLeaveFails,
                update_topology_linkAdd, update_topology_hostAdd
  <2>2. CASE Network
    BY <2>2 DEF Network, SwitchUp, LinkSeen, HostSeen, HostSends, dataVars
  <2>3. CASE Transit
    BY <2>3 DEF Transit, Forward
  <2> QED BY <2>1, <2>2, <2>3 DEF Next
<1> QED BY <1>4, <1>5, <1>6, <1>7, <1>8

\* Without redundant cables, what a switch has learnt and what its table says
\* leads to the host, across restarts and packet-ins that come late.
THEOREM LearntPortsStayRight == Spec => []LearntPortsLead
<1>1. Init => CopiesLead /\ LearntPortsLead
  <2> SUFFICES ASSUME Init PROVE LearntPortsLead
    BY DEF Init, CopiesLead
  <2>1. ASSUME NEW s \in Switches
        PROVE  flows[s] = {} /\ \A h \in Hosts : mac_to_port[s][h] = None
    BY DEF Init, NoKeys
  <2> QED BY <2>1 DEF LearntPortsLead
<1>2. TypeOK /\ CopiesLead /\ LearntPortsLead /\ [Next]_vars => (CopiesLead /\ LearntPortsLead)'
  BY CopiesStep, LeadStep
<1> QED BY <1>1, <1>2, TypeCorrect, PTL DEF Spec
=============================================================================
