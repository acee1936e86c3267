--------------------------- MODULE StormController ---------------------------
(***************************************************************************)
(* The controller of "1 - Handle Broadcast Storm" (sourceCode.py) with the *)
(* switches it controls.                                                   *)
(*                                                                         *)
(* The controller runs one handler at a time, so a handler is one step.    *)
(* Its topology events come through a queue: when one is handled, what     *)
(* get_switch and get_host return may already be newer.  A handler that    *)
(* raises an exception is abandoned where it stands, and the controller    *)
(* goes on with the next event.                                            *)
(*                                                                         *)
(* The port of a switch that leads to switch t is named t, and the port to *)
(* host h is named h.  The dictionaries 'edges' and 'hosts' and the set    *)
(* 'switches' get and lose a key in the same handlers, so DOMAIN edges     *)
(* stands for all three.                                                   *)
(***************************************************************************)
EXTENDS SpanningTree

CONSTANTS Hosts,
          SwitchOf,     \* SwitchOf[h]: the switch h is attached to
          OnPort1,      \* the hosts that are attached to port 1
          Networks,     \* the networks to run in, see IsNetwork
          None,
          Broadcast     \* a destination that is no host

\* cables are pairs {s, t} of switches.  The rest are bounds: topology events
\* that wait, times that a switch goes down, packets that the hosts send.
IsNetwork(n) ==
  /\ n.hosts \subseteq Hosts
  /\ \A c \in n.cables : \E s, t \in Switches : s # t /\ c = {s, t}
  /\ {n.maxEvents, n.maxDowns, n.maxSends} \subseteq Nat

ASSUME NetworkAssumption ==
  /\ SwitchOf \in [Hosts -> Switches] /\ OnPort1 \subseteq Hosts
  /\ \A h, g \in OnPort1 : SwitchOf[h] = SwitchOf[g] => h = g
  /\ \A n \in Networks : IsNetwork(n)
  /\ Switches \cap Hosts = {} /\ Broadcast \notin Hosts
  /\ None \notin Hosts \cup Switches

Ports == Switches \cup Hosts

VARIABLES
  net,                       \* the network, which never changes
  edges, hosts, treeLinks,   \* _graph and treeLinks; hosts[s]: the hosts saved
  mac_to_port,               \* mac_to_port[s][h]: a port, or None for no key
  live,                      \* switches connected to the controller
  links,                     \* directed links that discovery has reported
  seen,                      \* hosts that discovery has reported
  events,                    \* reported events, not yet handled
  downs, sends,              \* how many times a switch went down, a host sent
  flows,                     \* flows[s]: the entries in the table of switch s
  packets                    \* copies, each at a switch that has received it

graphVars == <<edges, hosts, treeLinks>>
discoVars == <<live, links, seen, downs, sends>>
dataVars == <<flows, packets>>
vars == <<net, graphVars, mac_to_port, discoVars, events, dataVars>>

NoKeys == [h \in Hosts |-> None]

Init == /\ net \in Networks
        /\ edges = <<>> /\ hosts = <<>> /\ treeLinks = <<>>
        /\ mac_to_port = [s \in Switches |-> NoKeys]
        /\ live = {} /\ links = {} /\ seen = {}
        /\ downs = 0 /\ sends = 0
        /\ events = <<>>
        /\ flows = [s \in Switches |-> {}]
        /\ packets = {}

----------------------------------------------------------------------------
(* The network, and Ryu's discovery of it. *)

Report(e) == /\ Len(events) < net.maxEvents
             /\ events' = Append(events, e)

SwitchUp(s) ==
  /\ s \in UNION net.cables \ live
  /\ live' = live \cup {s}
  /\ Report([type |-> "enter", switch |-> s])
  /\ UNCHANGED <<graphVars, mac_to_port, links, seen, downs, sends, dataVars>>

\* Each direction of a link is reported by itself.
LinkSeen(s, t) ==
  /\ {s, t} \in net.cables /\ {s, t} \subseteq live /\ <<s, t>> \notin links
  /\ links' = links \cup {<<s, t>>}
  /\ Report([type |-> "link", src |-> s, dst |-> t])
  /\ UNCHANGED <<graphVars, mac_to_port, live, seen, downs, sends, dataVars>>

HostSeen(h) ==
  /\ SwitchOf[h] \in live /\ h \notin seen
  /\ seen' = seen \cup {h}
  /\ Report([type |-> "host", host |-> h])
  /\ UNCHANGED <<graphVars, mac_to_port, live, links, downs, sends, dataVars>>

\* Its table is lost, and so are the copies it holds but for those that the
\* controller has, or will get, in a packet-in message.
SwitchDown(s) ==
  /\ s \in live /\ downs < net.maxDowns
  /\ live' = live \ {s}
  /\ links' = {l \in links : s \notin {l[1], l[2]}}
  /\ downs' = downs + 1
  /\ Report([type |-> "leave", switch |-> s])
  /\ flows' = [flows EXCEPT ![s] = {}]
  /\ \E late \in SUBSET {p \in packets : p.at = s /\ p.asked} :
       packets' = {p \in packets : p.at # s} \cup {[p EXCEPT !.late = TRUE] : p \in late}
  /\ UNCHANGED <<graphVars, mac_to_port, seen, sends>>

\* No entry matches a copy that comes to switch s now, so that it becomes a
\* packet-in message.
Misses(s, in_port, dst) == ~\E f \in flows[s] : f.in_port = in_port /\ f.dst = dst

HostSends(h, dst) ==
  /\ SwitchOf[h] \in live /\ sends < net.maxSends
  /\ sends' = sends + 1
  /\ packets' = packets \cup {[src |-> h, dst |-> dst, at |-> SwitchOf[h],
                               in_port |-> h, asked |-> Misses(SwitchOf[h], h, dst),
                               late |-> FALSE,
                               visited |-> {}, tree |-> <<>>, steady |-> TRUE]}
  /\ UNCHANGED <<graphVars, mac_to_port, live, links, seen, downs, events, flows>>

\* The copies that leave switch s through ports and arrive at another switch.
\* A switch does not send a packet out where it came in.
Sent(p, ports) ==
  {[p EXCEPT !.at = t, !.in_port = p.at, !.asked = Misses(t, p.at, p.dst)] :
     t \in {q \in (ports \ {p.in_port}) \cap live : {p.at, q} \in net.cables}}

\* History: the copy takes a way that is not that of a flood.
Unicast(p) == [p EXCEPT !.steady = FALSE]

\* Also of a copy that had none when it set out for the switch.
Forward(p) ==
  /\ ~p.late
  /\ \E f \in flows[p.at] :
       /\ f.in_port = p.in_port /\ f.dst = p.dst
       /\ packets' = (packets \ {p}) \cup Sent(Unicast(p), {f.out})
  /\ UNCHANGED <<graphVars, mac_to_port, discoVars, events, flows>>

----------------------------------------------------------------------------
(* The handlers of the controller. *)

Handles(type) == events # <<>> /\ Head(events).type = type /\ events' = Tail(events)

Recompute(order) ==
  treeLinks' = IF DOMAIN edges' = {} THEN treeLinks ELSE prim_spanningTree(DOMAIN edges', edges', order)

update_topology_switchEnter ==
  /\ Handles("enter")
  /\ edges' = [s \in DOMAIN edges \cup live |-> IF s \in DOMAIN edges THEN edges[s] ELSE {}]
  /\ hosts' = [s \in DOMAIN edges \cup live |-> IF s \in DOMAIN edges THEN hosts[s] ELSE {}]
  /\ UNCHANGED <<treeLinks, mac_to_port, discoVars, dataVars>>

\* Mutant of update_topology_switchLeave: the saved hosts stay.
MutSwitchLeave == \E order \in Orders :
  LET missing == DOMAIN edges \ live
      dpid == FirstOf(missing, order)
  IN  /\ missing # {}
      /\ Handles("leave")
      /\ edges' = [s \in DOMAIN edges \ {dpid} |-> edges[s] \ {dpid}]
      /\ mac_to_port' = [mac_to_port EXCEPT ![dpid] = NoKeys]
      /\ Recompute(order)
      /\ UNCHANGED <<hosts, discoVars, dataVars>>

\* The first known switch that is not connected, whichever event this is.
update_topology_switchLeave == \E order \in Orders :
  LET missing == DOMAIN edges \ live
      dpid == FirstOf(missing, order)
  IN  /\ missing # {}
      /\ Handles("leave")
      /\ edges' = [s \in DOMAIN edges \ {dpid} |-> edges[s] \ {dpid}]
      /\ hosts' = [s \in DOMAIN edges \ {dpid} |-> hosts[s]]
      /\ mac_to_port' = [mac_to_port EXCEPT ![dpid] = NoKeys]
      /\ Recompute(order)
      /\ UNCHANGED <<discoVars, dataVars>>

\* With none missing, dpid is read without a value.
SwitchLeaveFails ==
  /\ DOMAIN edges \subseteq live
  /\ Handles("leave")
  /\ UNCHANGED <<graphVars, mac_to_port, discoVars, dataVars>>

\* One assignment per direction; each needs its first key.
update_topology_linkAdd ==
  /\ Handles("link")
  /\ LET src == Head(events).src
         dst == Head(events).dst
         known == src \in DOMAIN edges
         Gets(s) == CASE s = src -> {dst}
                      [] s = dst /\ known -> {src}
                      [] OTHER -> {}
     IN  edges' = [s \in DOMAIN edges |-> edges[s] \cup Gets(s)]
  /\ UNCHANGED <<hosts, treeLinks, mac_to_port, discoVars, dataVars>>

\* The hosts that get_host lists on the switch are saved up to the first that
\* is not on port 1, which ends the handler.
update_topology_hostAdd == \E order \in Orders :
  LET dpid == SwitchOf[Head(events).host]
      listed == {h \in seen : SwitchOf[h] = dpid}
      others == listed \ OnPort1
      known == dpid \in DOMAIN edges
  IN  /\ Handles("host")
      /\ \E saved \in {listed \cap OnPort1} \cup (IF others = {} THEN {} ELSE {{}}) :
           hosts' = [s \in DOMAIN edges |-> IF s = dpid THEN hosts[s] \cup saved
                                                        ELSE hosts[s]]
      /\ IF known /\ others = {}
         THEN /\ edges' = edges
              /\ Recompute(order)
         ELSE UNCHANGED <<edges, treeLinks>>
      /\ UNCHANGED <<mac_to_port, discoVars, dataVars>>

\* Mutant of FloodPorts: the tree is not looked at.
MutFloodPorts(s, in_port) ==
  IF s \notin DOMAIN edges THEN {} ELSE edges[s] \cup (hosts[s] \ {in_port})

\* The ports of switch s along the tree, and to its saved hosts.
FloodPorts(s, in_port) ==
  IF s \notin DOMAIN edges THEN {}
  ELSE {t \in edges[s] : t \in DOMAIN treeLinks /\ s \in treeLinks[t]}
       \cup (hosts[s] \ {in_port})

\* Mutant of Entry: the port of the sender is taken for the receiver's.
MutEntry(p, learnt) == [in_port |-> p.in_port, dst |-> p.dst, out |-> learnt[p.src]]

Entry(p, learnt) == [in_port |-> p.in_port, dst |-> p.dst, out |-> learnt[p.dst]]

\* add_flow: an entry for the same match is replaced.
Added(table, e) == {f \in table : f.in_port # e.in_port \/ f.dst # e.dst} \cup {e}

\* History: the switches that have flooded the copy, the tree the last one
\* used, and whether each switch on its way has flooded it, along one tree.
Flooded(p) == [p EXCEPT !.visited = @ \cup {p.at}, !.tree = treeLinks,
                        !.steady = @ /\ (p.visited = {} \/ p.tree = treeLinks)]

\* A packet that matched no entry when it came to the switch, though one may have
\* been added since.
_packet_in_handler(p) ==
  LET s == p.at
      learnt == [mac_to_port[s] EXCEPT ![p.src] = p.in_port]
      local == p.dst \in Hosts /\ learnt[p.dst] # None
      onward == IF local THEN Sent(Unicast(p), {learnt[p.dst]})
                         ELSE Sent(Flooded(p), FloodPorts(s, p.in_port))
  IN  /\ p.asked
      /\ mac_to_port' = [mac_to_port EXCEPT ![s] = learnt]
      /\ flows' = IF local /\ ~p.late
                  THEN [flows EXCEPT ![s] = Added(@, Entry(p, learnt))] ELSE flows
      /\ packets' = (packets \ {p}) \cup (IF p.late THEN {} ELSE onward)
      /\ UNCHANGED <<graphVars, discoVars, events>>

Topology == \/ update_topology_switchEnter
            \/ update_topology_switchLeave
            \/ SwitchLeaveFails
            \/ update_topology_linkAdd
            \/ update_topology_hostAdd

Transit == \E p \in packets : Forward(p) \/ _packet_in_handler(p)

Network == \/ \E s \in Switches : SwitchUp(s) \/ SwitchDown(s)
           \/ \E s, t \in Switches : LinkSeen(s, t)
           \/ \E h \in net.hosts : HostSeen(h)
           \/ \E h \in net.hosts : \E dst \in (net.hosts \cup {Broadcast}) \ {h} : HostSends(h, dst)

Next == (Topology \/ Transit \/ Network) /\ UNCHANGED net

Spec == Init /\ [][Next]_vars

----------------------------------------------------------------------------
Events == [type : {"enter", "leave"}, switch : Switches]
          \cup [type : {"link"}, src : Switches, dst : Switches]
          \cup [type : {"host"}, host : Hosts]

Trees == UNION {[nodes -> SUBSET nodes] : nodes \in SUBSET Switches}

Packets == [src : Hosts, dst : Hosts \cup {Broadcast}, at : Switches, in_port : Ports,
            asked : BOOLEAN, late : BOOLEAN, visited : SUBSET Switches, tree : Trees, steady : BOOLEAN]

Entries == [in_port : Ports, dst : Hosts, out : Ports]

GraphTypes ==
  /\ DOMAIN edges \subseteq Switches /\ DOMAIN hosts = DOMAIN edges
  /\ \A s \in DOMAIN edges : /\ edges[s] \subseteq Switches
                            /\ hosts[s] \subseteq {h \in OnPort1 : SwitchOf[h] = s}
  /\ treeLinks \in Trees

DiscoTypes ==
  /\ net \in Networks /\ events \in Seq(Events)
  /\ live \subseteq Switches /\ seen \subseteq Hosts /\ links \subseteq live \X live
  /\ downs \in 0..net.maxDowns /\ sends \in 0..net.maxSends

DataTypes ==
  /\ mac_to_port \in [Switches -> [Hosts -> Ports \cup {None}]]
  /\ packets \subseteq Packets /\ flows \in [Switches -> SUBSET Entries]
  /\ \A s \in Switches : \A f, g \in flows[s] :
       f.in_port = g.in_port /\ f.dst = g.dst => f = g

\* Every variable has its type; one table entry per in_port and destination.
TypeOK == GraphTypes /\ DiscoTypes /\ DataTypes

\* The tree the controller floods along has no cycle and goes along links it
\* knows in one direction at least, whatever came late, failed or broke off
\* before (prim_spanningTree, and the handlers that do and do not call it).
TreeIsForest == /\ Symmetric(treeLinks) /\ Acyclic(treeLinks)
                /\ \A s \in DOMAIN treeLinks : \A t \in treeLinks[s] :
                     /\ s # t /\ {s, t} \subseteq DOMAIN edges
                     /\ t \in edges[s] \/ s \in edges[t]

\* A new tree spans all that the known links connect to some switch, unless a
\* link names a switch that is not known.
NewTreeSpans ==
  [][treeLinks' # treeLinks /\ (\A s \in DOMAIN edges' : edges'[s] \subseteq DOMAIN edges')
       => \E root \in DOMAIN edges' : Spans(treeLinks', edges', root)]_vars

\* No storm: a packet that every switch floods, along one tree, comes to no
\* switch twice, though the cables may have cycles (_packet_in_handler).
NoStorm == \A p \in packets : p.steady => p.at \notin p.visited

Cabled == [s \in Switches |-> {t \in Switches : {s, t} \in net.cables}]

\* The cable from s to t is the only way from s to the switch of h.
OnlyWay(s, t, h) ==
  \E S \in SUBSET (Switches \ {s}) :
    /\ {t, SwitchOf[h]} \subseteq S
    /\ \A c \in net.cables : c \cap S # {} /\ c \ S # {} => c = {s, t}

Leads(s, port, h) ==
  IF port \in Hosts THEN port = h /\ SwitchOf[h] = s ELSE OnlyWay(s, port, h)

\* In a network with no redundant cable every learnt port and every entry of
\* a switch table leads to its host, after restarts and with packet-ins that
\* come late as well (_packet_in_handler, update_topology_switchLeave).
LearntPortsLead ==
  Acyclic(Cabled) => \A s \in Switches :
    /\ \A h \in Hosts : mac_to_port[s][h] # None => Leads(s, mac_to_port[s][h], h)
    /\ \A f \in flows[s] : Leads(s, f.out, f.dst)

----------------------------------------------------------------------------
\* What the header says ("an OpenFlow 1.0 spanning tree implementation") and
\* the handlers do not achieve: when every switch, link and host has been
\* reported and every event handled, the tree spans the network.
TreeSpansNetwork ==
  LET tree == [s \in Switches |-> IF s \in DOMAIN treeLinks THEN treeLinks[s] ELSE {}]
  IN  /\ live = UNION net.cables /\ seen = net.hosts /\ events = <<>>
      /\ \A s \in Switches : \A t \in Cabled[s] : <<s, t>> \in links
      => \E root \in Switches : Spans(tree, Cabled, root)
=============================================================================
