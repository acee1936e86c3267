# Verification of Topics-In-Networks

TLA+ modules, TLC configurations and TLAPS proofs for the programs of this
repository: two OpenFlow controllers (Python, Ryu) and four client/server pairs
over TCP (C). They share no code; each directory of the repository is a system
of its own.

## 1. Inventory

| Part | Source | State it keeps | Operations |
|---|---|---|---|
| Chat server | `3 - Socket Programming/Part_B_Chat_Program/server.c` | `clientInfo[32]` indexed by descriptor (`valid`, `busy`, `username`, `sockfd`), `orgSockSet`, `loopRunning` | select round, accept + blocking recv of the user name, REQUEST, CONNECT, bye, text, end of stream, keyboard stop |
| Chat client | `.../client.c` | the socket, `pthread_comm.finish` | main thread (name, welcome, receive loop), stdin thread (commands, texts, bye) |
| Broadcast storm controller | `1 - Handle Broadcast Storm/sourceCode.py` | `_graph` (switches, edges, hosts), `treeLinks`, `mac_to_port`, table entries it installs in switches | switchEnter, switchLeave, linkAdd, hostAdd, packet-in, `prim_spanningTree` |
| Service chain controller | `2 - Service Chaining/Source Code/ryu/serviceChain_demo.py` | the same graph and tree, a set of datapath objects, `m_mac_to_dpid`, static `m_dpid` rules | switch features, the same events, packet-in, `get_flow_path` (DFS), `install_flow_rules` |
| Case reverse, SQL, protocol independent servers | `3 - Socket Programming/Part_A*`, `Part_C*` | `orgSockSet`, `loopRunning`, descriptors that are never closed | select loop, accept, transform or query and reply, keyboard stop |
| Their clients | `caseclient.c`, `sqlclient.c`, `Part_C*/client.c` | what is missing of a reply | connect, send a line, receive (until all bytes are there, or once) |
| Mininet scripts | `mininetScript.py`, `serviceChainTopo-*.py` | none | build a static topology |

How they interact. The chat clients and server exchange messages over one TCP
connection each; the clients of a chat meet only in the server's table. Inside a
client two threads share the socket and one flag. A controller shares nothing
with its switches but messages; Ryu's discovery tells it of switches, links and
hosts through an event queue, and answers `get_switch`/`get_host` with what is
known *now*, which may be newer than the event.

What is hard:

* **Chat server.** One thread, but the ready set of a round is computed before
  the handlers run that may close or re-pair the descriptors in it. Pairing is
  four assignments, undone in three places. Descriptors, hence slots, are reused
  at once. A client may go at any moment, with data unread (reset, `recv` fails)
  or not; sends to it fail or raise SIGPIPE. A chunk of the stream may hold
  several messages. The blocking `recv` of the user name stops everybody.
* **Chat client.** Two threads close the same descriptor; the flag is
  initialised after the thread that sets it has started.
* **Echo servers.** Three programs with one loop. A stream divides requests and
  replies as it likes; only the case client counts bytes. No descriptor is closed
  before the end of `main`, and any failed call ends the server for everybody.
* **Service chain.** A host's rules lie on several switches and arrive in any
  order; packets, with their VLAN tags, travel meanwhile. All entries have
  priority 0, so two that match with different effects would be ambiguous. The
  handler may break off between two rules. The set of datapath objects may hold
  those of former connections.
* **Both controllers.** Events that are stale when handled; handlers that raise
  `KeyError` or `UnboundLocalError` half way (Ryu logs it and goes on, what was
  assigned stays); floods under way while the tree changes; learnt ports and
  table entries without a timeout.

`PROJECT.json` lists each hazard at its line with the properties that would notice it
going wrong. Where a property leaves the hazard out by its premise or its fairness, or
the model fixes the outcome, the hazard lists none and has a note.

## 2. Modules

| Module | Models | Kind |
|---|---|---|
| `ChatNet` | the TCP connections of the client/server pairs, from both ends (external) | component |
| `ChatServer` | `server.c` | component, EXTENDS `ChatNet` |
| `ChatSystem` | server + clients as the server sees them, all chat properties | composition |
| `Pairing` | what the chat promises: join, connect one-to-one, leave | abstract specification |
| `ChatProofs` | TLAPS proofs about the table of `ChatSystem`, and its refinement of `Pairing` | proofs |
| `ChatTypeProofs` | TLAPS proofs about its messages and types, and about a round of the scan | proofs |
| `ChatScreenProofs` | TLAPS proofs about what users see, EXTENDS `ChatTypeProofs` | proofs |
| `ChatClient` | the two threads of `client.c` | component |
| `ClientLife` | a client on its connection: name, then messages, then bye, then close | abstract specification |
| `ClientProofs` | TLAPS proofs about `ChatClient`, and its refinement of `ClientLife` | proofs |
| `EchoServer` | `caseserver.c`, `sqlserver.c` and `Part_C` `server.c` | component, EXTENDS `ChatNet` |
| `EchoSystem` | these servers with their clients, and all their properties | composition |
| `EchoProofs` | TLAPS proofs about `EchoSystem` | proofs |
| `SpanningTree` | `prim_spanningTree` as operators, and what a spanning tree is | pure algorithm |
| `TreeProofs` | TLAPS proofs about `SpanningTree` | proofs |
| `StormController` | `sourceCode.py` with switches, hosts and discovery | component |
| `StormProofs` | TLAPS proofs about `StormController`, EXTENDS `TreeProofs` | proofs |
| `ChainRules` | the table entries of `serviceChain_demo.py`, and the network of the Mininet scripts | pure operators |
| `ServiceChain` | `serviceChain_demo.py` with switches, hosts, middleboxes and discovery | component, EXTENDS `ChainRules` |
| `ChainProofs` | TLAPS proofs about `ChainRules` and `ServiceChain`, EXTENDS `TreeProofs` | proofs |
| `MCChat`, `MCEcho`, `MCStorm`, `MCChain` | the constants of the runs | instances |

### Chat server and system

`valid` and `busy` are the sets of slots with that flag; `username` and `sockfd`
are functions of the slot; `conn[f]` is the client behind descriptor `f`.
`currSockSet` is the part of the round still to be scanned and `pc` says where
the thread is: in select, scanning, blocked in `SaveUserNameOfClient`, at the end
of `main`, or gone. Each branch of `HandleMessage` is an action that holds
everything from the `recv` to the return, with the sends and the way each may
fail: `SendsDone` and `DiesSending` are the two endings of a handler that sends.

*Why a handler is one step.* The server has one thread and its table is private.
A handler receives from one descriptor and sends at most one message to each of
two clients; a client's own steps touch its end of its own connections only and
commute with those sends, except that a close between two sends changes whether
the second fails - which is the same as the close coming before the handler.

*Links.* `fin`, `finsent`, `rst` are what Linux does: a client that closes with
everything read makes `recv` return 0; the first send to it succeeds and is
answered by a reset, after which a send raises SIGPIPE (nothing in `server.c`
ignores it, so the process dies); a client that closes with data unread resets
the connection at once, so `recv` fails with ECONNRESET and `LOG_ERROR` calls
`exit(-1)`.

*Undefined behaviour.* `GetUserFDByNameFromDB` has no return when no name
matches. The function's last loop value, `MAXPENDING`, is what the caller finds
in the builds we looked at (the shipped binary and gcc builds), and it is
the value the caller tests for; the model uses it. A write behind
`clientInfo[31]` is not modelled: `AtUsername` stops there, and
`chat_capacity` shows that it is reached.

*Data.* Messages are records of a kind and the names they carry. The user names
are model values with a prefix relation given as a constant, because
`ValidateUsername` compares prefixes. When the process ends its variables are
reset (`ProcessEnds`), because no one can see them any more.

*Clients in ChatSystem* type anything their program lets them, in any order, at
any moment. `screen[c]` is a history variable: the partner the user was last told
of. A text records the screen of its author, which lets `TextReachesIntended`
say what "to" means.

### Chat client

Every lock/unlock pair of `client.c` guards one read or one write of `finish`, so
each is one step; everything else the threads do is one step per system call.
`early` and `badRecvs` are history. `LivesAsClientLife` shows that a client, with
all interleavings of its threads, behaves towards its server as `ClientLife`,
which is the form `ChatSystem` builds on: name, welcome, messages, bye, close.

*The loss of the server* comes in two forms (`server`). An end that had read everything
closes: `recv` returns 0 behind the data, and a send succeeds but is answered by a
reset, after which sends raise SIGPIPE. An end that goes with data of the client
unread, or before it has accepted it, resets the connection: once the data is taken,
the next call that fails returns ECONNRESET, and only one does (`sockErr`); after
it `recv` returns 0 and a send raises SIGPIPE. This is what Linux does over loopback,
a send being one of the calls that may return the error. The code does not treat these
alike. In the loop of `main` a negative `recv` is reported and the loop goes on
(`client.c:127`, `RecvReset`), a `recv` of 0 is `exit(-1)`; in `SendUsernname` a
failed send is only reported (`SendUsernameFails`), a failed `recv` is not
survived; in the stdin thread a failed send is `exit(-1)` (`SendFails`) but for
`GetActiveListofOtherClients`, which only reports it (`RequestFails`). So either thread may
use up the error without ending, and `ServerLossEnds` says that the
program ends all the same.
A user name read at the end of stdin (`buffer[-1]`) is not modelled.

### Echo servers and their clients

The three `main`s have the same loop, line for line, so `EchoServer` has one set of
loop actions; `setup.program` says which program runs and selects its
`HandleMessage` and its client. A request is `Pieces` pieces, each marked with its
client, the number of the request and its place; a piece's `form` says what the
server did to it. `OperateOnQuery` reverses the case of every piece, the SQL
server answers a whole request with its result and a divided one with an error
message (piece 0), the `Part_C` server writes a NUL over the last piece. `whole`
says whether the stream happens to deliver each message in one `recv`. The servers
call `select` with a zero timeout and spin; a call that finds nothing changes
nothing. Descriptors are not closed, so the i-th client accepted keeps descriptor
`servSock + i`, and `setup.fdLimit` clients fit. `accept` of the `Part_C` server may
fail by itself (`AcceptInvalid`: an uninitialised length). `due` is
`echoStringLen - totalRecvLen` of `caseclient.c`.

### Storm controller

`edges` is `_graph['edges']` with the port to a neighbour named after the
neighbour; its domain stands for the keys of all three dictionaries, which the
handlers add and remove together. A switch has at most one cable to another, as
in the rings and meshes of `mininetScript.py`; which network a behaviour runs in is
chosen in `Init` (`net`) and never changes. `update_topology_linkAdd` has the
two assignments with the `KeyError` each may raise; `SwitchLeaveFails` is the
handler that reads `dpid` without a value; `prim_spanningTree` breaks off where a
neighbour is no known switch and leaves the tree built so far. The iteration
order of Python's sets and dictionaries is the parameter `order`.
A copy of a packet sits at a switch until the switch forwards it by its table or
the controller handles its packet-in. A switch that goes down loses its table;
packet-ins it had sent may still be handled (`late`). Whether a copy becomes a
packet-in is decided when it comes to the switch (`asked`, by `Misses`); the handler runs even if an
entry for it has been added meanwhile. Such a copy may also be forwarded by that
entry, for it may still have been on its way when the entry came. A new entry replaces one
with the same match (`Added`). A flow-mod takes effect in the step of its handler: it is for the
switch of the packet-in and precedes the packet-out on the same connection. What is
lost with this is a copy that comes to that switch in between because of a later
handler, and a switch that goes down in between. `visited`, `tree` and
`steady` are history: `steady` says that every switch on a copy's way flooded it,
and all along one tree; a switch that sends it to one port clears it. Outputs to the port of arrival are dropped by the switch,
as OpenFlow 1.0 says. A link that goes down between two live switches is not
modelled: no handler of the code listens to it.

### Service chain controller

Here the ports matter: the static rules name them. `ChainRules` has the cables,
the middleboxes (which hand what enters one port out of the other) and the
entries as records of a match, an action on the tags and a port; `Rules` is
`install_flow_rules` as the sequence of entries it sends, an entry with port
`None` being one at which Python raises an exception. The in-place reversals of
`flowpath` come to the orientation "from the host's own switch" each time, which
is how `Rules` takes its path. Two switches have one path between them, so
`get_flow_path` finds that path or breaks off (`PathFound`, `MayMeetUnknown`).

`ServiceChain` starts with every switch connected and every link known. `switches`
is the set of datapath objects `<<dpid, life>>`. `ToSend` cuts the rules of both
hosts at the first that fails; `Send` carries out those for the switch of the
packet-in (they precede its packet-out on the same connection), puts the others in
`wire`, and loses those sent through the object of a former connection.
`update_topology_linkAdd` recomputes the tree here, `update_topology_switchEnter`
adds all objects `get_switch` returns, and `SwitchLeaveFails` removes some object before
it reads `dpid` without a value. A middlebox that discovery takes for a host may
end `update_topology_hostAdd` early. Tables have no miss entry, so a packet without
a match is taken to come as a packet-in. As in the storm controller that is decided when
the copy comes to the switch, by the table as it is after the flow-mods of the step
(`Arrived`, `asked`), and an entry that is added before the packet-in is handled does not
stop the handler. `inbox`, `strayed` and
`installed` are history: the middleboxes a delivered copy has passed, whether a
tagged packet has come to the controller, and the hosts all of whose rules were
sent. Pairs of hosts whose path does not pass S1 are left out, as the header of
the file says, and so are hosts at S2, where the scripts have none ("Assuming all the Service chain middleboxes lies within the
flowpath of the packets"). Ryu's host tracker may move a host it sees on a
middlebox port; that is left out.

## 3. Runs

| Run | Instance | Properties | Result |
|---|---|---|---|
| `chat_safety` | 3 clients, 3 usable slots (descriptors 4-6), 2 messages in flight when a user types, server chunks up to 2 | `TypeOK`, `PairingSound`, `SlotLifecycle`, `RoundStaysReady`, `ScreenFollowsTable`, `TextsMatchScreen`, `NeverStolen`, `Pairing` | hold, 1.3 million states |
| `chat_liveness` | 2 clients, operator may stop the server, fairness | `TurnComes`, `LeaverForgotten`, `NoGhostPartner` | hold |
| `chat_reset` | as safety | `OtherStaysInside` | violated |
| `chat_misdelivery` | 3 clients | `TextReachesIntended` | violated |
| `chat_capacity` | 3 clients, MAXPENDING 5 | `EveryClientHasSlot` | violated |
| `chat_prefix` | one name a prefix of another | `KnownUserAccepted` | violated |
| `client` | up to 3 messages besides the name, 2 waiting, a server that closes or resets | `TypeOK`, `CleanExit`, `OneBadRecv`, `LateByeEnds`, `ServerLossEnds`, `LivesAsClientLife` | hold, 25,000 states |
| `client_bye` | the same | `ByeEnds` | violated |
| `echo` | each program, 2 clients with 2 requests of 2 pieces, 1 or 2 descriptors, divided or whole streams, fairness | `TypeOK`, `InStep`, `OnlyBrokenExchangesCrash`, `AnswerComes` | hold, 250,000 states |
| `storm` | ring of 3 switches, 2 waiting events, 2 failures of switches, 1 flood; and 2 switches, 3 hosts (one not on port 1), 3 packets, 1 failure; two iteration orders | `TypeOK`, `TreeIsForest`, `NoStorm`, `LearntPortsLead`, `NewTreeSpans` | hold, 4.4 million states |
| `chain` | seven networks, see below | `TypeOK`, `NothingSkipsTheChain`, `ChainInOrder`, `Unambiguous`, `Served`, `NetworkKnown` | hold, 970,000 states |
| `storm_span` | ring of 3 | `TreeSpansNetwork` | violated |

**Bounds.** Three clients are the fewest with a chat and an outsider who may be
refused, take the place of one who left, or be given a reused descriptor; each
starts once, and a descriptor is reused because clients leave. Two messages in
flight are the fewest that can be coalesced or overtaken. `MaxFd` is one below
`MAXPENDING` so that every descriptor has a slot, except in `chat_capacity`.
In the line of `storm` three sends are needed for an entry to be installed and
used. Two clients of an echo server are the fewest of which one can be ended by
the other; two pieces the fewest that can be divided. Symmetry over clients is used in the safety runs only.
`MaxClientChunk` is 1: a client recognises `bye` only at the start of a chunk
and prints only up to a NUL (`client.c:137`), so with larger chunks a notice may
be lost on the screen, and `ScreenFollowsTable` and `NoGhostPartner` would speak
of that and of nothing else.

The networks of `chain`: Scenario 1 where switches go down twice and five events
wait; two switches that go down three times (the fewest for the controller to forget
all); four switches of which one goes down, after which the others may be in two parts;
Scenario 1 with hosts not yet seen and four packets one at a time, which is
enough for a flood, an answer, an install and a tagged packet that comes to the
controller; the same with three packets at any time; Scenario 1 with a switch
that restarts while three packets are sent; Scenario 2 with three hosts, so that rules
are written for several partners. A copy passes at most four middleboxes and has at
most two tags, one more than the chain needs.

*What the premises of `storm` leave out.* `NoStorm` is about floods whose copies meet one
tree; a flood that meets two may come to a switch again. `NewTreeSpans` leaves
out a search that breaks off at an unknown switch, after a half-done
`update_topology_linkAdd` (`sourceCode.py:196`): the tree does not span then, and
`TreeIsForest` is what still holds. `LearntPortsLead` is for networks without redundant
cables. There the port by which a packet arrives leads to its sender for good, so it
holds whether or not `mac_to_port` is ever popped; it is about which port an entry
is given, in every order of packets, late packet-ins and restarts, and says nothing of ports that go
stale in a ring (`sourceCode.py:112`, `229`, `249`).

*What the premises of `chain` leave out.* Once a tagged packet matches no entry
(a broadcast from a host with rules does so, after M2) the controller learns a
middlebox port for its sender, and rules written later use it: `Unambiguous`,
`Served` and `ChainInOrder` then fail, and are stated up to that point (`strayed`). They
say nothing of what follows, nor of the hazards that end in it (`serviceChain_demo.py:300`,
and `139` and `310` where a tagged packet comes to the controller before its rules).
For `ChainInOrder` that takes more steps than the run has: hosts 1 and 3 have
rules, a broadcast of host 1 comes back to S1 behind M2 and the controller learns
port 6 for host 1; S1 restarts and forgets its rules; a tagged packet from 3 to 1 is sent out of port 6,
passes M2 and then the whole chain, and comes out by rules that were installed
meanwhile. What holds even then is `NothingSkipsTheChain`: no tagged packet
reaches a host without having passed M1, M3 and M2 in this order. `Served` also needs S1,
S2 and S3 connected: the path of hosts 1 and 5 passes neither S2 nor S3, so their rules can be
sent while those are away and the chain is broken; and it excludes a network with
both host 3 and host 4, whose path does not pass S1. `NetworkKnown` excludes two leaves of which the second
is still away: the handler of the first removes the second, the handler of the second
then removes a connected switch (line 457), and no enter event brings it back. And it claims the
whole tree only where the connected switches are joined (`Joined`): `prim_spanningTree` starts from
one switch, so when a leave cuts the network in two, the links of the other part drop out of the
tree, though not out of `edges`, and no path within that part is found any more.

**Deadlock** is not checked: the chat system stops when the server has ended or
all clients have gone, a client when its process ends, and the controller models when
their bounds are used up. An echo server stops likewise.

**Fairness.** `Working` is weakly fair: the server's process is scheduled. It is
`ServerStep` without the rounds for which only the operator's keyboard is
the reason, for nothing forces an operator to type.
`Receive`, `Close`, `LoseServer` are steps of a client's program. `TypeName` is
fair too: a user who is asked for a name gives one or leaves. Without it no
liveness holds, for the server waits in `recv` of the name for ever - that is a
weakness of the code (`server.c:406`), not of the model. Nothing is assumed of
what users type later, of new clients or of the operator. In `ChatClient` the two
threads are weakly fair except for `ReadLine`, which waits for a user. In
`EchoSystem` the server is fair in the same way, and so is a client whose `recv` can
return; typing and leaving are not.

**Findings** (runs marked violated). A client that resets its connection ends the
server and its partner's session (`ReadMe.txt:10`). A text typed to one partner
may be delivered to the next (`ReadMe.txt:9`). 28 clients fit, not 30
(`ReadMe.txt:33`). A CONNECT to an existing user may be refused, depending on
who else is inside (`ReadMe.txt:8`). A `bye` typed before `threadInitializeVar`
is forgotten and the client never ends (`ReadMe.txt:15`). Links reported after
the last host are not in the tree (`sourceCode.py:4`).

## 4. Proofs

About `ChatSystem`, for any number of clients, names and slots, any chunk sizes
and no bound on messages, under `TableFits == MaxFd < MAXPENDING` (every
descriptor the kernel hands out has a slot; `chat_capacity` shows what happens
otherwise) and the named assumptions on the constants.

| Theorem | States |
|---|---|
| `TableInvariant` | `Spec => [](TableInv /\ ScanInv)` |
| `PairingIsSound` | `Spec => []PairingSound` |
| `SlotsFollowDescriptors` | `Spec => []SlotLifecycle` |
| `ServerImplementsPairing` | `Spec => Pairing` |
| `NobodyIsStolen` | `Spec => NeverStolen` |
| `TypesAreKept` (`ChatTypeProofs`) | `Spec => []TypeOK` |
| `ScanNeverBlocks` (`ChatTypeProofs`) | `Spec => []RoundStaysReady` |
| `ScreensFollowTable` (`ChatScreenProofs`) | `Spec => []ScreenFollowsTable`, assuming `OneAtATime` |
| `TextsArriveInTheirChat` (`ChatScreenProofs`) | `Spec => []TextsMatchScreen`, assuming `OneAtATime` |

`OneAtATime == MaxClientChunk = 1` is the bound under which the runs check the two
last ones too: with larger chunks a client overlooks notices (`client.c:137`).

About `EchoSystem`, for any number of clients, requests, pieces and descriptors and all
three programs:

| Theorem | States |
|---|---|
| `EchoTypes` (`EchoProofs`) | `Spec => []TypeOK` |
| `EchoInStep` (`EchoProofs`) | `Spec => []InStep` |
| `OnlyBrokenExchangesEndIt` (`EchoProofs`) | `Spec => OnlyBrokenExchangesCrash` |

About `ChatClient`, for any bounds on the messages sent and waiting:

| Theorem | States |
|---|---|
| `ClientInvariant` (`ClientProofs`) | `Spec => []IInv` |
| `ClientTypes` (`ClientProofs`) | `Spec => []TypeOK` |
| `ExitsCleanly` (`ClientProofs`) | `Spec => []CleanExit` |
| `AtMostOneBadRecv` (`ClientProofs`) | `Spec => []OneBadRecv` |
| `ClientImplementsLife` (`ClientProofs`) | `Spec => LivesAsClientLife` |

About `prim_spanningTree`, for any finite set of switches, any edges and any iteration
order:

| Theorem | States |
|---|---|
| `SearchBuildsForest` (`TreeProofs`) | the result is symmetric, has no cycle, lies along the edges and names only the switches it was given |
| `SearchSpans` (`TreeProofs`) | when no edge leads to a switch that is not given, two switches that the edges connect are connected by the result |

About `StormController`, for any networks, switches, hosts and bounds:

| Theorem | States |
|---|---|
| `TypeCorrect` (`StormProofs`) | `Spec => []TypeOK` |
| `TreeStaysForest` (`StormProofs`) | `Spec => []TreeIsForest` |
| `NewTreesSpan` (`StormProofs`) | `Spec => NewTreeSpans` |
| `FloodsEnd` (`StormProofs`) | `Spec => []NoStorm` |
| `LearntPortsStayRight` (`StormProofs`) | `Spec => []LearntPortsLead` |

About `ServiceChain`, for every part of the network of the scripts and any bounds on
packets, events and restarts:

| Theorem | States |
|---|---|
| `TypesAreKept` (`ChainProofs`) | `Spec => []TypeOK` |
| `NothingSkips` (`ChainProofs`) | `Spec => []NothingSkipsTheChain` |
| `ChainKeepsOrder` (`ChainProofs`) | `Spec => []ChainInOrder` |
| `EntriesAgree` (`ChainProofs`) | `Spec => []Unambiguous` |
| `RulesServe` (`ChainProofs`) | `Spec => []Served` |
| `GraphRecovers` (`ChainProofs`) | `Spec => []NetworkKnown` |

The argument. `PairingSound` alone is not inductive: CONNECT writes
`sockfd[other]`, and that the slot found by name is valid, is another one and has
no partner needs the types of the table; and a slot is filled for `newfd`, which
must not already be in use, which needs `SlotLifecycle` and the state of the
select loop. `TableInv` is the conjunction of the table's types (`TableType`),
where the loop is (`LoopInv`), who waits for accept (`NetInv`: a client is in the
backlog once, or behind one descriptor), `SlotLifecycle` and `PairingSound`. A second,
simpler invariant (`ScanInv`) says that only watched descriptors are scanned.
There is one lemma per kind of step: those that leave the table alone, pair two
users, clear a slot, fill a slot, accept, or end the process, and
`ServerKeepsTable` puts them together. For the refinement the lemmas about
`Online` and `Couples` map each kind of step to `Join`, `Connect`, `Leave`,
`Shutdown` or a stutter of `Pairing`.

`TypeOK` needs more than the table. The server takes the first message of a
client for the user name without looking at it, so the types hold only because
that message is the name: `NewcomerInv` says that a client without a slot has
been sent nothing and has sent nothing else, and `OffInv` that nothing waits for
a client that has not started. `TypeInv` is these two and the types of the data;
it is inductive together with `TableInv` and `ScanInv`.

`RoundStaysReady` is about the scan alone, and the scan pauses in the blocking
`recv` of `SaveUserNameOfClient`: `RoundInv` extends it over that pause, where
`ListenInv` says that the listening socket is the one being handled. The
induction rests on `SlotLifecycle`: a handler takes from, or closes, the client
of its own descriptor, and no other descriptor leads to that client.

`InStep` says what lies between a client and its server: the replies followed by
the requests are exactly what the client still waits for. It is not inductive by
itself. That a `recv` takes a prefix of it and a reply puts it back at the end of
the other half needs the types of the pieces and, for a server that may not divide
a message, that a whole request or nothing is under way (`StreamInv`); the three
programs then differ only in what a reply is made of. The induction is over
`TypeOK /\ InStep /\ StreamInv`, with one lemma per handler and per step of a client.

`CleanExit` and `OneBadRecv` depend on where both threads of a client are.
`ThreadInv` says what each thread's place means for the other: the flag, and main
having left its loop, imply that the stdin thread has passed a "bye" and stands at
its own close, and the descriptor is closed only from there on. `FlagInv` says that
the flag, unless `threadInitializeVar` has wiped it out, is there before the
descriptor is closed, so that main leaves after its first bad `recv`; `SentInv`
keeps room for the last message and says that nothing comes from the server before the
name has gone out. Each thread relies on the other's part, so the
induction is over all of them with `TypeOK`. The same invariant maps each step of
the threads to a step or a stutter of `ClientLife`.

What a user sees lags the table by the messages that are under way to him, so
`ScreenFollowsTable` is a case of an invariant about the whole queue: reading what
is under way to a client, one message after the other, brings its screen to the
partner the table has. Beside it the induction needs that nothing is under
way to a client that has no screen yet (`BlankInv`) and what is left when the
server has ended or a link is broken (`DownInv`). A handler that changes a pair
sends the notices in the same step, so both sides of the invariant move together.
`TextsMatchScreen` follows from it: a text is put behind the notice of the chat it
belongs to, and the server forwards only along pairs.

`OnlyBrokenExchangesCrash` rests on `BrokenInv`: while client and server are in step
(`Reliable`), a connection is in a state in which a call of the server can fail only if
its client stopped with a request unanswered; no step of the server, and no
other step of a client, spoils one.

`prim_spanningTree` is a `while` loop over a queue; TLC evaluates it, and a
proof needs induction over its turns, done with least natural numbers (a set of
naturals that holds 0 and is closed under successor has no least missing
element), because the library's induction theorems cannot be instantiated here.
Its invariants: `IsForest` (what is built is symmetric, without a cycle and along
edges, and a switch that is not black has no link) and `Spanning` (a black switch is
connected to the root, and waits in the queue or has only black neighbours; `Growing` is its form
within a turn), with
`Cardinality(black \cup {root})` equal to the turns done plus the queue's length, which
bounds the turns.

For the storm controller the tree is a forest whenever it is recomputed, whatever the
handlers left in the graph, and no handler changes it otherwise. `NoStorm` is
about copies that travel while the tree changes: a link of a forest cuts it in two
(`Bridge`), and what a copy flooded along one tree has visited lies beyond the link it came
over (`FloodsCutOff`, kept along the next link by `CutOnward`), so it never comes back.
`LearntPortsLead` is for networks that are themselves without cycles; there
the same two lemmas say that a packet's port of arrival is towards its source
(`CopiesLead`), learnt ports are ports of arrival, and entries are learnt ports.

For the service chain the network of the scripts becomes finite tables (`Cable`,
`Box`, `Ways`), and `RulesAreWritten` says what `install_flow_rules` writes for a
host along any path, wherever it breaks off. Then there are two invariants. The first, `ChainInv`,
does not look at learnt ports at all: the outermost tag of a packet vouches for
middleboxes it has passed (`Vouches`: MB1 for nothing before M1, MB2 for M1, the
tunnel for M1 or M1 and M3 depending on where it is, MB3 and POLICY_COMPLETE for
the whole chain), every entry keeps that, static or written, and a tag is taken off only under MB3 or
POLICY_COMPLETE. What the controller sends on itself keeps it too: a packet-in matched no static entry when
it came to its switch, and static entries stay in a table as long as the switch is
connected (`IsSound`, `ArrivedUnmatched`). The second, `OrderInv`, holds until a tagged packet comes to the
controller: learnt ports are those towards the hosts (`Toward`), entries are
those for the right ports (`RightFor`), and a packet is either untagged on its way
from its host (`Outside`) or at one of the fourteen places of the chain with the
trail that belongs there (`InPlace`). What every right entry does at such a place is a
function of the place (`Does`), which gives `Unambiguous` inside the chain;
outside, entries that match have the same match, and a table keeps one entry for a
match (`SoleMatches`). `TypeOK` needs what is known of
links, saved hosts, restarts and the events under way (`GraphInv`), and
`SearchBuildsForest`.

Those say what no entry may do; `Served` says that the right ones are there.
`Needed(h)` is what must be matched, at which switch, for the packets from and to
`h`; `RulesToChain` shows that `install_flow_rules` never sends host 3 away from the
chain, and `SentIsNeeded` that a handler that sends all its rules sends what both
hosts need. By `InstalledInv` each needed match of an installed host is in the table
of a connected switch or on the wire to it; an entry added later with the
same match replaces it (`AddedHolds`), and `RightFor` says what it does. Once the wires are
empty there is thus an entry at every place a packet comes to, with a known effect,
and `Route` is unrolled along the places (`After`, up to twelve steps: to M1, M3, M2
and the other host).

`NetworkKnown` is about a moment when no event waits; `KnownInv` says what holds
before it, of what the controller knows and what the waiting events will tell it. A reported
link is in `edges`, or its event waits behind the enter event of its switch. When all
switches are connected an enter event stands behind every leave, so that what a
leave removed by mistake is put back (`EnterInv`); and a link event stands behind every enter
event, because a switch that came back had lost its links, so that the tree is
recomputed with what is then known (`TreeLastInv`). Until the first switch that went comes back
(`FirstInv`) there is one leave event, and its handler can only choose that switch. That the tree
then has every link and not only spans is because the cables form a tree: each of them alone
joins its two sides (`CableCuts`, `SpanningHasAll`).

Model-checked only. All liveness, because TLAPS 1.4.5 has neither fairness nor
ENABLED: `TurnComes`, `LeaverForgotten`, `NoGhostPartner`, `LateByeEnds`,
`ServerLossEnds`, `AnswerComes`. Every invariant that a passing run checks is proved.

## 5. Plan

Done: all components of the inventory; the proofs above.

1. Chat clients that receive larger chunks: what still holds of screens.
2. Hosts that move and links that go down between live switches, if the controllers
   get handlers for them.

## 6. Not modelled

A full send buffer and short sends; the texts of messages and the layout of output;
the MySQL database and the length of its results (`sqlserver.c:252` appends to a
buffer of fixed size); writes outside an array (`server.c:414` behind the table,
`Part_C` `server.c:141` before the buffer) beyond showing that the first is
reached; LLDP, ARP and ICMP contents; priorities and timeouts of entries, which the
code does not use.
