---------------------------- MODULE ServiceChain ----------------------------
(***************************************************************************)
(* The controller of "2 - Service Chaining" (serviceChain_demo.py) with    *)
(* the switches it controls.  As in StormController a handler is one step, *)
(* its topology events come through a queue, and a handler that raises an  *)
(* exception is abandoned where it stands.                                 *)
(*                                                                         *)
(* A flow-mod for the switch of a packet-in is carried out before the      *)
(* packet-out that follows it on the same connection; one for another      *)
(* switch is under way in wire.  m_graph['switches'] holds datapath        *)
(* objects, one per connection of a switch: <<dpid, life>>.                *)
(*                                                                         *)
(* The model starts with every switch connected and every link known.      *)
(***************************************************************************)
EXTENDS ChainRules

\* A network: its switches and hosts, the hosts saved at the start, and the
\* bounds: waiting events, times a switch goes down, packets that are sent,
\* copies in the network when a host sends, middleboxes that a copy passes.  A copy has at most two tags.
CONSTANTS Networks

IsNetwork(n) ==
  /\ n.saved \subseteq n.hosts /\ n.hosts \subseteq n.switches \ {2} /\ n.switches \subseteq 1..5
  /\ {n.maxEvents, n.maxDowns, n.maxSends, n.maxCopies, n.maxTrail} \subseteq Nat

ASSUME NetworkAssumption == \A n \in Networks : IsNetwork(n)

VARIABLES
  net,                          \* the network, which never changes
  switches, edges, hosts, m_treeLinks,     \* m_graph and m_treeLinks
  m_mac_to_port,                \* m_mac_to_port[s][h]: a port, or None
  m_mac_to_dpid,                \* the hosts with a key
  live, life,                   \* connected switches; connections so far
  links, seen,                  \* what discovery has reported
  events,                       \* reported events, not yet handled
  downs, sends,
  tables, wire,                 \* entries of a switch; flow-mods under way to it
  packets,                      \* copies, each at a switch that has received it
  inbox,                        \* history: the middleboxes, in order, that a copy
                                \* which was given a tag had passed when a host got it
  strayed,                      \* history: a tagged copy came to the controller
  installed                     \* history: hosts all of whose rules were sent and none
                                \* of whose rules has been lost with a switch

graphVars == <<switches, edges, hosts, m_treeLinks>>
learntVars == <<m_mac_to_port, m_mac_to_dpid>>
discoVars == <<live, life, links, seen, downs>>
dataVars == <<tables, wire, packets, inbox, strayed, installed>>
vars == <<net, graphVars, learntVars, discoVars, events, sends, dataVars>>

NoKeys == [h \in 1..5 |-> None]

Cabling == {l \in net.switches \X net.switches : Cabled(l[1], l[2])}

Init == /\ net \in Networks
        /\ switches = {<<s, 0>> : s \in net.switches}
        /\ edges = [s \in net.switches |-> {t \in net.switches : Cabled(s, t)}]
        /\ hosts = [s \in net.switches |-> {s} \cap net.saved]
        /\ m_treeLinks = edges
        /\ m_mac_to_port = [s \in net.switches |-> NoKeys]
        /\ m_mac_to_dpid = net.saved
        /\ live = net.switches /\ life = [s \in net.switches |-> 0]
        /\ links = Cabling /\ seen = net.saved
        /\ events = <<>> /\ downs = 0 /\ sends = 0
        /\ tables = [s \in net.switches |-> StaticRules(s)]
        /\ wire = [s \in net.switches |-> <<>>]
        /\ packets = {} /\ inbox = {} /\ strayed = FALSE /\ installed = {}

----------------------------------------------------------------------------
(* The network, and Ryu's discovery of it. *)

Report(e) == /\ Len(events) < net.maxEvents
             /\ events' = Append(events, e)

\* switch_features_handler comes with the connection.
SwitchUp(s) ==
  /\ s \in net.switches \ live
  /\ live' = live \cup {s} /\ life' = [life EXCEPT ![s] = @ + 1]
  /\ tables' = [tables EXCEPT ![s] = StaticRules(s)]
  /\ Report([type |-> "enter"])
  /\ UNCHANGED <<graphVars, learntVars, links, seen, downs, sends,
                 wire, packets, inbox, strayed, installed>>

LinkSeen(s, t) ==
  /\ <<s, t>> \in Cabling \ links /\ {s, t} \subseteq live
  /\ links' = links \cup {<<s, t>>}
  /\ Report([type |-> "link", src |-> s, dst |-> t])
  /\ UNCHANGED <<graphVars, learntVars, live, life, seen, downs, sends, dataVars>>

HostSeen(h) ==
  /\ h \in (net.hosts \cap live) \ seen
  /\ seen' = seen \cup {h}
  /\ Report([type |-> "host", dpid |-> h])
  /\ UNCHANGED <<graphVars, learntVars, live, life, links, downs, sends, dataVars>>

\* Its table, what is under way to it and the copies it holds are lost, but for
\* packet-ins that the controller has or will get.
SwitchDown(s) ==
  /\ s \in live /\ downs < net.maxDowns
  /\ live' = live \ {s}
  /\ links' = {l \in links : s \notin {l[1], l[2]}}
  /\ downs' = downs + 1
  /\ Report([type |-> "leave"])
  /\ tables' = [tables EXCEPT ![s] = {}] /\ wire' = [wire EXCEPT ![s] = <<>>]
  /\ \E late \in SUBSET {p \in packets : p.at = s /\ p.asked} :
       packets' = {p \in packets : p.at # s} \cup {[p EXCEPT !.late = TRUE] : p \in late}
  /\ installed' = {}
  /\ UNCHANGED <<graphVars, learntVars, life, seen, sends, inbox, strayed>>

\* A copy that comes to a switch and matches no entry becomes a packet-in message.
Arrived(p, table) == [p EXCEPT !.asked = ~\E f \in table : Matches(f, p)]

HostSends(h, dst) ==
  /\ h \in net.hosts \cap live /\ sends < net.maxSends /\ Cardinality(packets) <= net.maxCopies
  /\ sends' = sends + 1
  /\ LET p == [src |-> h, dst |-> dst, at |-> h, port |-> HostPort, tags |-> <<>>,
                trail |-> <<>>, entered |-> FALSE, asked |-> FALSE, late |-> FALSE]
     IN  packets' = packets \cup {Arrived(p, tables[h])}
  /\ UNCHANGED <<graphVars, learntVars, discoVars, events, tables, wire, inbox,
                 strayed, installed>>

Deliver(s) ==
  /\ wire[s] # <<>>
  /\ tables' = [tables EXCEPT ![s] = Added(@, <<Head(wire[s])>>)]
  /\ wire' = [wire EXCEPT ![s] = Tail(@)]
  /\ UNCHANGED <<graphVars, learntVars, discoVars, events, sends, packets, inbox,
                 strayed, installed>>

\* The copies that leave through the port and come to a switch.  A switch does
\* not send a packet out where it came in.
Sent(p, port) ==
  LET end == <<p.at, port>>
      Boxes == {m \in DOMAIN Middleboxes : end \in Middleboxes[m]}
  IN  IF port = p.port THEN {}
      ELSE {[p EXCEPT !.at = e[1], !.port = e[2]] : e \in {f \in Across(end) : f[1] \in live}}
           \cup UNION {{[p EXCEPT !.port = e[2], !.trail = Append(@, m)] :
                          e \in Middleboxes[m] \ {end}} : m \in Boxes}

\* The host on the port takes the packet: it is meant for it and has no tag.
Accepts(p, port) == /\ port = HostPort /\ p.port # HostPort
                    /\ p.dst \in {p.at, Broadcast} /\ p.at \in net.hosts
                    /\ p.tags = <<>>

\* Sending the copies q through the ports, in place of p, once the flow-mods of the
\* step are carried out.
Onward(p, q, ports) ==
  LET sent == UNION {Sent(q, port) : port \in ports}
      kept == {c \in sent : Len(c.trail) <= net.maxTrail /\ Len(c.tags) <= 2}
  IN  /\ packets' = (packets \ {p}) \cup {Arrived(c, tables'[c.at]) : c \in kept}
      /\ inbox' = IF q.entered /\ \E port \in ports : Accepts(q, port)
                  THEN inbox \cup {q.trail} ELSE inbox

\* Also of a copy that had no entry when it set out for the switch.
Forward(p) ==
  /\ ~p.late
  /\ UNCHANGED <<graphVars, learntVars, discoVars, events, sends, tables, wire,
                 strayed, installed>>
  /\ \E f \in tables[p.at] : Matches(f, p) /\ Onward(p, Tagged(p, f.action), {f.out})

----------------------------------------------------------------------------
(* The handlers of the topology events. *)

Dpids == {dp[1] : dp \in switches}

Handles(type) == events # <<>> /\ Head(events).type = type /\ events' = Tail(events)

Recompute(order) ==
  m_treeLinks' = IF switches' = {} THEN m_treeLinks
                 ELSE prim_spanningTree({dp[1] : dp \in switches'}, edges', order)

\* Mutant of update_topology_switchEnter: a switch that has an entry is not
\* added again.
MutSwitchEnter ==
  /\ Handles("enter")
  /\ LET known == DOMAIN edges
     IN  /\ switches' = switches \cup {<<s, life[s]>> : s \in live \ known}
         /\ edges' = [s \in known \cup live |-> IF s \in known THEN edges[s] ELSE {}]
         /\ hosts' = [s \in known \cup live |-> IF s \in known THEN hosts[s] ELSE {}]
  /\ UNCHANGED <<m_treeLinks, learntVars, discoVars, sends, dataVars>>

\* All that get_switch returns now are added, as the objects they have now.
update_topology_switchEnter ==
  /\ Handles("enter")
  /\ LET known == DOMAIN edges
     IN  /\ switches' = switches \cup {<<s, life[s]>> : s \in live}
         /\ edges' = [s \in known \cup live |-> IF s \in known THEN edges[s] ELSE {}]
         /\ hosts' = [s \in known \cup live |-> IF s \in known THEN hosts[s] ELSE {}]
  /\ UNCHANGED <<m_treeLinks, learntVars, discoVars, sends, dataVars>>

\* Mutant of update_topology_switchLeave: the saved hosts stay.
MutSwitchLeave == \E order \in Orders :
  /\ Handles("leave")
  /\ \E dp \in switches :
       LET dpid == dp[1]
       IN  /\ dpid \notin live
           /\ switches' = switches \ {dp}
           /\ edges' = [s \in DOMAIN edges \ {dpid} |-> edges[s] \ {dpid}]
           /\ m_mac_to_port' = [m_mac_to_port EXCEPT ![dpid] = NoKeys]
  /\ Recompute(order)
  /\ UNCHANGED <<hosts, m_mac_to_dpid, discoVars, sends, dataVars>>

\* One of the objects whose switch is not connected, whichever event this is.
update_topology_switchLeave == \E order \in Orders :
  /\ Handles("leave")
  /\ \E dp \in switches :
       LET dpid == dp[1]
       IN  /\ dpid \notin live
           /\ switches' = switches \ {dp}
           /\ edges' = [s \in DOMAIN edges \ {dpid} |-> edges[s] \ {dpid}]
           /\ hosts' = [s \in DOMAIN edges \ {dpid} |-> hosts[s]]
           /\ m_mac_to_port' = [m_mac_to_port EXCEPT ![dpid] = NoKeys]
  /\ Recompute(order)
  /\ UNCHANGED <<m_mac_to_dpid, discoVars, sends, dataVars>>

\* All are connected: the object looked at last is removed before dpid is read
\* without a value.
SwitchLeaveFails ==
  /\ Handles("leave")
  /\ Dpids \subseteq live
  /\ \/ switches = {} /\ UNCHANGED switches
     \/ \E dp \in switches : switches' = switches \ {dp}
  /\ UNCHANGED <<edges, hosts, m_treeLinks, learntVars, discoVars, sends, dataVars>>

\* One assignment per direction; each needs its first key.
update_topology_linkAdd == \E order \in Orders :
  /\ Handles("link")
  /\ LET src == Head(events).src
         dst == Head(events).dst
         known == src \in DOMAIN edges
         Gets(s) == CASE s = src -> {dst}
                      [] s = dst /\ known -> {src}
                      [] OTHER -> {}
     IN  /\ edges' = [s \in DOMAIN edges |-> edges[s] \cup Gets(s)]
         /\ IF {src, dst} \subseteq DOMAIN edges
            THEN switches' = switches /\ Recompute(order)
            ELSE UNCHANGED <<switches, m_treeLinks>>
  /\ UNCHANGED <<hosts, learntVars, discoVars, sends, dataVars>>

\* A middlebox that get_host lists ends the handler, before or after the host.
update_topology_hostAdd == \E order \in Orders, stranger \in BOOLEAN :
  LET dpid == Head(events).dpid
      listed == {dpid} \cap seen
      known == dpid \in DOMAIN edges
  IN  /\ Handles("host")
      /\ stranger => \E m \in DOMAIN Middleboxes : \E end \in Middleboxes[m] : end[1] = dpid
      /\ \E saved \in IF stranger THEN {listed, {}} ELSE {listed} :
           /\ hosts' = [s \in DOMAIN edges |-> IF s = dpid THEN hosts[s] \cup saved ELSE hosts[s]]
           /\ m_mac_to_dpid' = IF known THEN m_mac_to_dpid \cup saved ELSE m_mac_to_dpid
      /\ IF known /\ ~stranger
         THEN edges' = edges /\ switches' = switches /\ Recompute(order)
         ELSE UNCHANGED <<edges, switches, m_treeLinks>>
      /\ UNCHANGED <<m_mac_to_port, discoVars, sends, dataVars>>

----------------------------------------------------------------------------
(* Packet-in. *)

\* m_graph['edges'][s][t], or None where Python raises KeyError.
Edge == [s \in 1..5 |-> [t \in 1..5 |->
           IF s \in DOMAIN edges /\ t \in edges[s] THEN PortTo(s, t) ELSE None]]

TreeLink(s, t) == s \in DOMAIN edges /\ t \in edges[s] /\ t \in DOMAIN m_treeLinks /\ s \in m_treeLinks[t]

\* DFS_visit follows the tree; a switch that is no longer in 'switches' has no
\* colour, and raises KeyError when the search meets it, on the path or off it.
PathFound(R) == \A i \in 1..(Len(R) - 1) : TreeLink(R[i], R[i + 1]) /\ R[i + 1] \in Dpids

MayMeetUnknown == \E s \in DOMAIN edges : \E t \in edges[s] : TreeLink(s, t) /\ t \notin Dpids

\* What the handler sends for the rules of src, then of dst, in order, before
\* the first that raises an exception.
ToSend(src, dst, ports) ==
  LET R == Path[src][dst]
      all == Rules(src, R, ports[src], Edge) \o Rules(dst, Reverse(R), ports[dst], Edge)
      Fine(k) == all[k][1] \in Dpids /\ all[k][2].out # None
      fine == {n \in 0..Len(all) : \A k \in 1..n : Fine(k)}
  IN  [mods |-> SubSeq(all, 1, Max(fine)), complete |-> Max(fine) = Len(all)]

\* The ports of switch s along the tree, and to its saved hosts.
FloodPorts(s, in_port) ==
  IF s \notin DOMAIN edges THEN {}
  ELSE {PortTo(s, t) : t \in {u \in edges[s] : TreeLink(s, u)}}
       \cup (IF hosts[s] = {} THEN {} ELSE {HostPort} \ {in_port})

\* The flow-mods for the switch of p are carried out, those for others are on
\* their way, and those for an object of a former connection are lost.
Send(mods, s, lost) ==
  /\ tables' = [tables EXCEPT ![s] = IF s \in lost THEN @ ELSE Added(@, For(mods, s))]
  /\ wire' = [t \in DOMAIN wire |->
                IF t \in lost \cup {s} THEN wire[t] ELSE wire[t] \o For(mods, t)]

\* The switches for which getDatapath finds, or may find, a former object.
MayLose == {s \in Dpids : s \notin live \/ \E dp \in switches : dp[1] = s /\ dp[2] < life[s]}
MustLose == {s \in Dpids : s \notin live \/ <<s, life[s]>> \notin switches}

\* Before the first packet-out: rules for both ends when dst is on the switch.
InstallsAndSends(p, out) == \E lost \in SUBSET MayLose :
  LET s == p.at
      ports == [h \in DOMAIN m_mac_to_port' |-> m_mac_to_port'[h][h]]
      R == Path[p.src][p.dst]
      todo == ToSend(p.src, p.dst, ports)
      Nothing == UNCHANGED <<tables, wire, installed>> /\ Onward(p, p, {})
  IN  /\ MustLose \subseteq lost
      /\ \/ /\ p.src \in m_mac_to_dpid /\ PathFound(R)
            /\ Send(todo.mods, s, lost)
            /\ installed' = IF todo.complete /\ lost = {} THEN installed \cup {p.src, p.dst}
                                                          ELSE installed
            /\ Onward(p, p, IF todo.complete THEN out ELSE {})
         \/ /\ p.src \notin m_mac_to_dpid \/ ~PathFound(R) \/ MayMeetUnknown
            /\ Nothing

\* A packet that matched no entry when it came to the switch, though one may have
\* been added since.  A tagged one is learnt from as any other.
_packet_in_handler(p) ==
  LET s == p.at
      learnt == [m_mac_to_port[s] EXCEPT ![p.src] = p.port]
      known == p.dst # Broadcast /\ learnt[p.dst] # None
      Out(ports) == IF p.late THEN {} ELSE ports
  IN  /\ p.asked
      /\ m_mac_to_port' = [m_mac_to_port EXCEPT ![s] = learnt]
      /\ strayed' = (strayed \/ p.tags # <<>>)
      /\ IF known /\ p.dst = s /\ p.dst \in m_mac_to_dpid
         THEN InstallsAndSends(p, Out({learnt[p.dst]}))
         ELSE /\ UNCHANGED <<tables, wire, installed>>
              /\ Onward(p, p, CASE ~known -> Out(FloodPorts(s, p.port))
                                [] known /\ p.dst \in m_mac_to_dpid -> Out({learnt[p.dst]})
                                [] OTHER -> {})
      /\ UNCHANGED <<graphVars, m_mac_to_dpid, discoVars, events, sends>>

Topology == \/ update_topology_switchEnter
            \/ update_topology_switchLeave
            \/ SwitchLeaveFails
            \/ update_topology_linkAdd
            \/ update_topology_hostAdd

Transit == \E p \in packets : Forward(p) \/ _packet_in_handler(p)

Network == \/ \E s \in net.switches : SwitchUp(s) \/ SwitchDown(s) \/ Deliver(s)
           \/ \E s, t \in net.switches : LinkSeen(s, t)
           \/ \E h \in net.hosts : HostSeen(h)
           \/ \E h \in net.hosts : \E dst \in (net.hosts \cup {Broadcast}) \ {h} : HostSends(h, dst)

Next == (Topology \/ Transit \/ Network) /\ UNCHANGED net

Spec == Init /\ [][Next]_vars

----------------------------------------------------------------------------
IsPacket(p) == /\ p.src \in net.hosts /\ p.dst \in net.hosts \cup {Broadcast}
               /\ p.at \in net.switches /\ p.port \in 1..7
               /\ p.tags \in Seq(1..7) /\ p.trail \in Seq(DOMAIN Middleboxes)

\* Every variable has its type, and the saved hosts are the ones with a dpid,
\* but for those whose switch has left (update_topology_hostAdd and
\* update_topology_switchLeave).
TypeOK ==
  /\ switches \subseteq {<<s, n>> : s \in net.switches, n \in 0..net.maxDowns}
  /\ DOMAIN edges \subseteq net.switches /\ DOMAIN hosts = DOMAIN edges
  /\ \A s \in DOMAIN edges : /\ \A t \in edges[s] : Cabled(s, t)
                            /\ hosts[s] \subseteq {s} \cap m_mac_to_dpid
  /\ \A s \in DOMAIN m_treeLinks : m_treeLinks[s] \subseteq DOMAIN m_treeLinks
  /\ m_mac_to_port \in [net.switches -> [1..5 -> 1..7 \cup {None}]]
  /\ live \subseteq net.switches /\ m_mac_to_dpid \subseteq seen
  /\ \A p \in packets : IsPacket(p)

\* M1, then M3, then M2 have been passed, and others perhaps before or between.
Through(trail) == \E i, j, k \in DOMAIN trail : /\ i < j /\ j < k
                                               /\ trail[i] = 1 /\ trail[j] = 3 /\ trail[k] = 2

\* A packet that was given a tag reaches a host without one only after it has
\* passed M1, M3 and M2 in this order (the rules of switch_features_handler and
\* install_flow_rules together), whatever entries are under way or lost and
\* whatever ports the controller has learnt.
NothingSkipsTheChain == \A trail \in inbox : Through(trail)

\* Such a packet has passed each of them once; stated as long as no tagged packet
\* has come to the controller, which may then learn the port of a middlebox for
\* a host and send packets for it there (_packet_in_handler).
ChainInOrder == ~strayed => inbox \subseteq {<<1, 3, 2>>}

Hop(p, f) == <<Tagged(p, f.action), f.out>>

\* All entries have priority 0, so which of two that match is used is not
\* defined; as long as no tagged packet has come to the controller they do the
\* same (add_flow).
Unambiguous ==
  ~strayed => \A p \in packets : \A f, g \in tables[p.at] :
    Matches(f, p) /\ Matches(g, p) => Hop(p, f) = Hop(p, g)

\* The copies that a packet of a becomes after n steps, by entries alone.
Route(a, b) ==
  LET first == [src |-> a, dst |-> b, at |-> a, port |-> HostPort, tags |-> <<>>,
                trail |-> <<>>, entered |-> FALSE, asked |-> FALSE, late |-> FALSE]
      after[n \in 0..12] ==
        IF n = 0 THEN {first}
        ELSE UNION {UNION {Sent(Tagged(p, f.action), f.out) :
                             f \in {g \in tables[p.at] : Matches(g, p)}} : p \in after[n - 1]}
  IN  UNION {after[n] : n \in 0..12}

\* When the rules of two hosts have arrived and the switches of the chain are
\* connected, packets between them go through the chain by the entries alone, though
\* the rules were written for other partners and at different times
\* (install_flow_rules).  The path between 3 and 4 does not pass S1, for which the
\* code is not meant.
Served ==
  /\ ~strayed /\ {1, 2, 3} \subseteq live /\ ~({3, 4} \subseteq net.hosts)
  /\ \A s \in net.switches : wire[s] = <<>>
  => \A a, b \in installed : a # b =>
       \E p \in Route(a, b) : \E f \in tables[p.at] :
         Matches(f, p) /\ Accepts(Tagged(p, f.action), f.out) /\ p.trail = <<1, 3, 2>>

\* The switches of V that a cable joins to s; and whether the cables join all of V.
Beside(s, V) == {t \in V : Cabled(s, t)}
Joined(V) == \A A \in (SUBSET V) \ {{}, V} : \E s \in A, t \in V \ A : Cabled(s, t)

\* When all events are handled and all links are reported, every connected
\* switch is known by the connection it has, and the tree is its network; unless
\* two switches went down and one of them is still away (the removal in
\* update_topology_switchLeave that hits a switch that did not leave is made
\* good by the enter event that follows).  Where the switches that are left are
\* not joined, prim_spanningTree covers the part it starts in.
NetworkKnown ==
  /\ events = <<>> /\ {l \in Cabling : {l[1], l[2]} \subseteq live} \subseteq links
  /\ (downs <= 1 \/ live = net.switches)
  => \A s \in live :
       /\ <<s, life[s]>> \in switches
       /\ s \in DOMAIN m_treeLinks => m_treeLinks[s] \subseteq Beside(s, live)
       /\ Joined(live) => s \in DOMAIN m_treeLinks /\ m_treeLinks[s] = Beside(s, live)
=============================================================================
