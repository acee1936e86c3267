----------------------------- MODULE ChatSystem -----------------------------
(***************************************************************************)
(* The chat server with its clients and their users.  A client is seen     *)
(* here as its server sees it: the two threads of client.c, which share    *)
(* one socket, are modelled in ChatClient; here a client types, receives,  *)
(* and closes in any order that module allows.                             *)
(*                                                                         *)
(* screen[c] is what the user at c has last been told: the name of the     *)
(* partner, or NoName.  It is a history variable, read by no step of the   *)
(* programs.  A text records the screen of its author.                     *)
(***************************************************************************)
EXTENDS ChatServer, FiniteSetsExt

CONSTANT MaxInFlight   \* bound: messages in all queues when a user types

VARIABLES phase, screen

clientVars == <<phase, screen>>
vars == <<netVars, serverVars, clientVars>>

Phase == {"off",        \* not started
          "naming",     \* connected, waiting for the user name to be typed
          "greeting",   \* user name sent, waiting for the welcome
          "chatting",
          "leaving",    \* "bye" sent, socket not yet closed
          "gone",       \* process ended by its user
          "dropped"}    \* process ended because the server did

\* The names a user may ask for.
Names == {NameOf[c] : c \in Clients}

InFlight == MapThenSumSet(LAMBDA c : Len(c2s[c]) + Len(s2c[c]), Clients)

Init == /\ NetInit
        /\ ServerInit
        /\ phase = [c \in Clients |-> "off"]
        /\ screen = [c \in Clients |-> NoName]

ServerStep == ServerNext /\ UNCHANGED clientVars

----------------------------------------------------------------------------
(* client.c main and SendUsernname. *)

Start(c) == /\ phase[c] = "off" /\ Up
            /\ ConnectLink(c)
            /\ phase' = [phase EXCEPT ![c] = "naming"]
            /\ UNCHANGED <<serverVars, screen>>

TypeName(c) == /\ phase[c] = "naming" /\ Up
               /\ ClientSend(c, [kind |-> "name", name |-> NameOf[c]])
               /\ phase' = [phase EXCEPT ![c] = "greeting"]
               /\ UNCHANGED <<serverVars, screen>>

\* What a chunk that is printed tells the user.  "bye" counts only at its
\* beginning, a text ends the output (its NUL is sent with it), and the rest
\* is printed in order.
Told(now, chunk) ==
  LET texts == {i \in DOMAIN chunk : chunk[i].kind = "text"}
      shown == {i \in DOMAIN chunk : \A j \in texts : i <= j}
      named == {i \in shown : chunk[i].kind = "connected"}
  IN  IF Head(chunk).kind = "bye" THEN NoName
      ELSE IF named = {} THEN now
      ELSE chunk[CHOOSE i \in named : \A j \in named : i >= j].name

\* One recv and its output: the welcome, and every later message.
Receive(c) == /\ phase[c] \in {"greeting", "chatting", "leaving"} /\ Up
              /\ \E k \in 1..Len(s2c[c]) :
                   /\ ClientRecv(c, k)
                   /\ screen' = [screen EXCEPT
                                   ![c] = Told(@, SubSeq(s2c[c], 1, k))]
              /\ phase' = [phase EXCEPT ![c] = IF @ = "greeting" THEN "chatting"
                                                                 ELSE @]
              /\ UNCHANGED serverVars

----------------------------------------------------------------------------
(* client.c HandleStdinBuffer: what a user may type. *)

CanType(c) == phase[c] = "chatting" /\ Up /\ InFlight < MaxInFlight

TypeRequest(c) == /\ CanType(c)
                  /\ ClientSend(c, [kind |-> "request"])
                  /\ UNCHANGED <<serverVars, clientVars>>

TypeConnect(c) == /\ CanType(c)
                  /\ \E n \in Names : ClientSend(c, [kind |-> "connect", name |-> n])
                  /\ UNCHANGED <<serverVars, clientVars>>

TypeText(c) == /\ CanType(c)
               /\ ClientSend(c, [kind |-> "text", to |-> screen[c]])
               /\ UNCHANGED <<serverVars, clientVars>>

TypeBye(c) == /\ CanType(c)
              /\ ClientSend(c, [kind |-> "bye"])
              /\ phase' = [phase EXCEPT ![c] = "leaving"]
              /\ UNCHANGED <<serverVars, screen>>

EndClient(c, how) == /\ phase' = [phase EXCEPT ![c] = how]
                     /\ screen' = [screen EXCEPT ![c] = NoName]

\* The close that follows "bye".
Close(c) == /\ phase[c] = "leaving" /\ Up
            /\ ClientClose(c)
            /\ EndClient(c, "gone")
            /\ UNCHANGED serverVars

\* Ctrl-C: the kernel closes the socket.
Interrupt(c) == /\ phase[c] \in {"naming", "greeting", "chatting"} /\ Up
                /\ ClientClose(c)
                /\ EndClient(c, "gone")
                /\ UNCHANGED serverVars

\* The server's process has ended: recv returns 0 or fails, and the client
\* calls exit(-1).
LoseServer(c) == /\ ~Up
                 /\ phase[c] \in {"naming", "greeting", "chatting", "leaving"}
                 /\ EndClient(c, "dropped")
                 /\ UNCHANGED <<netVars, serverVars>>

ClientNext(c) ==
  \/ Start(c) \/ TypeName(c) \/ Receive(c)
  \/ TypeRequest(c) \/ TypeConnect(c) \/ TypeText(c) \/ TypeBye(c)
  \/ Close(c) \/ Interrupt(c) \/ LoseServer(c)

Next == ServerStep \/ \E c \in Clients : ClientNext(c)

Spec == Init /\ [][Next]_vars

\* The server's process runs, and so does a client's main loop; a user who is
\* asked for a name gives one or quits, and the close after "bye" comes.
\* Nothing is assumed of what a user types later, of new clients or of the
\* operator, whose line is no reason for select to return.
Working == ServerStep /\ (pc = "select" => STDIN \notin currSockSet')

Fairness == /\ WF_vars(Working)
            /\ \A c \in Clients : /\ WF_vars(TypeName(c))
                                  /\ WF_vars(Receive(c))
                                  /\ WF_vars(Close(c))
                                  /\ WF_vars(LoseServer(c))

FairSpec == Spec /\ Fairness

----------------------------------------------------------------------------
(* The invariants of clientInfo and of the select loop. *)

ClientMsg == [kind : {"name", "connect"}, name : Name]
             \cup [kind : {"request", "bye"}]
             \cup [kind : {"text"}, to : Name]

ServerMsg == [kind : {"welcome", "list"}, names : SUBSET Name]
             \cup [kind : {"connected"}, name : Name]
             \cup [kind : {"error"}, text : {"Invalid User.", "Invalid Operation.",
                                              "User is busy."}]
             \cup [kind : {"bye"}]
             \cup [kind : {"text"}, from : Name, to : Name]

\* Every variable has its type.
TypeOK == /\ NetTypeOK(ClientMsg, ServerMsg)
          /\ ServerTypeOK
          /\ phase \in [Clients -> Phase]
          /\ screen \in [Clients -> Name]

\* A chat has two distinct live users, each the other's partner, and the busy
\* flag is up for exactly those: the four assignments of CONNECT and the
\* three places that undo them (bye, end of stream, memset) agree.
PairingSound ==
  /\ busy = {f \in Slot : sockfd[f] # 0}
  /\ \A f \in busy : /\ {f, sockfd[f]} \subseteq valid
                     /\ sockfd[f] # f
                     /\ sockfd[sockfd[f]] = f

\* A slot is written only for a watched descriptor and is blank otherwise, so
\* a client that accept gives a used descriptor inherits nothing; and no two
\* descriptors lead to the same client.
SlotLifecycle ==
  /\ valid \subseteq orgSockSet \cap Fd
  /\ \A f \in Slot \ valid : username[f] = NoName /\ sockfd[f] = 0
  /\ \A f \in Fd : conn[f] # None <=> f \in orgSockSet \/ f = newfd
  /\ \A f, g \in Fd : conn[f] = conn[g] /\ conn[f] # None => f = g

\* Whatever earlier handlers of a round did, a descriptor that select reported
\* is still open and still has something to return when the scan reaches it:
\* no recv or accept of the round can block the server.
RoundStaysReady ==
  pc = "scan" =>
    /\ currSockSet # {}
    /\ \A f \in currSockSet \cap Fd : conn[f] # None /\ Readable(conn[f])
    /\ servSock \in currSockSet => backlog # <<>>

----------------------------------------------------------------------------
(* What users are told, against what the server holds. *)

PartnerName(f) == IF sockfd[f] = 0 THEN NoName ELSE username[sockfd[f]]

\* The screen of c once it has received the first n messages that wait for it,
\* one at a time.
ScreenAfter(c, n) ==
  LET news == {i \in 1..n : s2c[c][i].kind \in {"bye", "connected"}}
      last == s2c[c][CHOOSE i \in news : \A j \in news : i >= j]
  IN  IF news = {} THEN screen[c]
      ELSE IF last.kind = "bye" THEN NoName ELSE last.name

\* When everything sent has been received, a user's screen names the partner
\* in the table: no notice is missing, doubled or late behind a newer one.
\* (For clients that receive one message at a time: see the README.)
ScreenFollowsTable ==
  \A f \in valid : link[conn[f]] = "open" =>
    ScreenAfter(conn[f], Len(s2c[conn[f]])) = PartnerName(f)

\* A text comes from the user the screen shows when it arrives: it overtakes
\* neither the notice that opens its chat nor the one that closes it.
TextsMatchScreen ==
  \A c \in Clients : \A i \in DOMAIN s2c[c] :
    s2c[c][i].kind = "text" => s2c[c][i].from = ScreenAfter(c, i - 1)

\* No step gives a user who is in a chat another partner: the first chat is
\* closed, with its notice, before.
NeverStolen ==
  [][\A f \in valid : sockfd[f] # 0 /\ sockfd'[f] # 0 => sockfd'[f] = sockfd[f]]_vars

\* The server implements Pairing.  A user is online from the step that fills
\* the slot to the one that zeroes it.
Chats == INSTANCE Pairing WITH
  Users  <- Clients,
  online <- {conn[f] : f \in valid},
  pairs  <- {<<conn[f], conn[sockfd[f]]>> : f \in busy}

Pairing == Chats!Spec

----------------------------------------------------------------------------
(* Liveness, under Fairness. *)

\* A client with something to receive gets its turn, however much the others
\* send: a round of the scan is finite and takes every ready descriptor.
TurnComes == \A f \in Fd :
  (f \in orgSockSet /\ Readable(conn[f])) ~> (Scanning(f) \/ ~Up)

\* A client that is gone, at whatever moment, is closed by the server.
LeaverForgotten == \A c \in Clients : (phase[c] = "gone") ~> (link[c] = "closed")

\* The partner of a user who has gone does not go on seeing the chat open.
NoGhostPartner == \A c \in Clients : \A d \in Clients \ {c} :
  (phase[c] = "gone" /\ screen[d] = NameOf[c]) ~> (screen[d] # NameOf[c])

----------------------------------------------------------------------------
(* What ReadMe.txt says, and the code does not do. *)

\* Feature 4: when a user leaves, the other client stays inside.  A client in
\* a chat loses the server only when the operator stops it.
OtherStaysInside ==
  [][\A c \in Clients : phase[c] = "chatting" /\ screen[c] # NoName
                        /\ phase'[c] = "dropped" => pc = "exit"]_vars

\* Feature 3: two users chat with one another.  A text typed to a partner
\* reaches that partner or nobody.
TextReachesIntended ==
  \A c \in Clients : \A i \in DOMAIN s2c[c] :
    s2c[c][i].kind = "text" => s2c[c][i].to \in {NoName, NameOf[c]}

\* Feature 2: a user may choose one of the other clients.  While a valid user
\* has a name, a CONNECT to that name is not answered "Invalid User.".
KnownUserAccepted ==
  [][\A f \in valid :
       /\ pc = "scan" /\ pc' # "crash" /\ Scanning(f)
       /\ Receives(f, "connect")
       /\ \E g \in valid \ {f} : username[g] = Head(c2s[conn[f]]).name
       => [kind |-> "error", text |-> "Invalid User."] \notin
            {s2c'[conn[f]][i] : i \in (Len(s2c[conn[f]]) + 1)..Len(s2c'[conn[f]])}
    ]_vars

\* Constraints: at most 30 clients are supported at once.  That many clients,
\* two fewer than MAXPENDING, all have a slot.
EveryClientHasSlot ==
  Cardinality(Clients) <= MAXPENDING - 2 => \A f \in Fd : conn[f] # None => f \in Slot
=============================================================================
