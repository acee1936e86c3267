----------------------------- MODULE EchoSystem -----------------------------
(***************************************************************************)
(* The servers of EchoServer with their clients: caseclient.c, sqlclient.c *)
(* and client.c of Part_C.  A client asks one request at a time.  The case *)
(* client receives until it has as many bytes as it sent (due counts what  *)
(* is missing); the other two take whatever one recv returns.              *)
(***************************************************************************)
EXTENDS EchoServer

CONSTANT MaxRequests   \* bound: lines a user types

ASSUME MaxRequestsAssumption == MaxRequests \in Nat

VARIABLES user, asked, due

clientVars == <<user, asked, due>>
vars == <<netVars, serverVars, clientVars>>

User == {"off",      \* not started
         "typing",
         "waiting",  \* a request sent, its reply not received
         "starved",  \* waiting for a reply to no bytes at all
         "left",     \* ended by its user between two requests
         "broke",    \* ended by its user with a request unanswered
         "lost"}     \* ended by exit(-1)

Init == /\ NetInit
        /\ ServerInit
        /\ user = [c \in Clients |-> "off"]
        /\ asked = [c \in Clients |-> 0]
        /\ due = [c \in Clients |-> 0]

ServerStep == ServerNext /\ UNCHANGED clientVars

Becomes(c, state) == user' = [user EXCEPT ![c] = state]

----------------------------------------------------------------------------
\* connect is refused when no server listens.
Connect(c) ==
  /\ user[c] = "off"
  /\ \/ Up /\ ConnectLink(c) /\ Becomes(c, "typing")
     \/ ~Up /\ UNCHANGED netVars /\ Becomes(c, "lost")
  /\ UNCHANGED <<serverVars, asked, due>>

\* The addresses of getaddrinfo in turn; with none that answers, exit(-1).
\* The server listens on all of its own addresses.
ConnectToAny(c) == Connect(c) \/ (/\ user[c] = "off"
                                  /\ Becomes(c, "lost")
                                  /\ UNCHANGED <<netVars, serverVars, asked, due>>)

\* A line and its send.  To a server that has ended the first send succeeds.
TypeRequest(c) ==
  /\ user[c] = "typing" /\ asked[c] < MaxRequests
  /\ asked' = [asked EXCEPT ![c] = @ + 1]
  /\ due' = [due EXCEPT ![c] = Pieces]
  /\ Becomes(c, "waiting")
  /\ c2s' = [c2s EXCEPT ![c] = IF link[c] = "open" THEN @ \o Request(c, asked[c] + 1) ELSE @]
  /\ UNCHANGED <<s2c, link, backlog, serverVars>>

\* The input of the program ends.  No bytes are sent; the case client has
\* received enough and asks for the next line, the others call recv.
EndOfInput(c) ==
  /\ user[c] = "typing" /\ setup.program # "case"
  /\ Becomes(c, "starved")
  /\ UNCHANGED <<netVars, serverVars, asked, due>>

SendFailure(c) == /\ user[c] = "typing" /\ link[c] = "closed"
                  /\ Becomes(c, "lost")
                  /\ UNCHANGED <<netVars, serverVars, asked, due>>

Hears(c, k) == ClientRecv(c, k) /\ (setup.whole => k = Len(s2c[c]))

\* Mutant of ReceiveAll: the loop ends one byte early.
MutReceiveAll(c) ==
  /\ user[c] = "waiting"
  /\ \E k \in 1..Len(s2c[c]) :
       /\ Hears(c, k)
       /\ due' = [due EXCEPT ![c] = IF k < @ THEN @ - k ELSE 0]
       /\ Becomes(c, IF k + 1 < due[c] THEN "waiting" ELSE "typing")
  /\ UNCHANGED <<serverVars, asked>>

\* One turn of the receive loop of the case client.
ReceiveAll(c) ==
  /\ user[c] = "waiting"
  /\ \E k \in 1..Len(s2c[c]) :
       /\ Hears(c, k)
       /\ due' = [due EXCEPT ![c] = IF k < @ THEN @ - k ELSE 0]
       /\ Becomes(c, IF k < due[c] THEN "waiting" ELSE "typing")
  /\ UNCHANGED <<serverVars, asked>>

\* The only recv of the other two.
ReceiveOnce(c) ==
  /\ user[c] \in {"waiting", "starved"}
  /\ \E k \in 1..Len(s2c[c]) : Hears(c, k)
  /\ due' = [due EXCEPT ![c] = 0]
  /\ Becomes(c, "typing")
  /\ UNCHANGED <<serverVars, asked>>

\* recv returns 0 or fails: exit(-1).
LoseServer(c) ==
  /\ user[c] \in {"waiting", "starved"} /\ link[c] = "closed" /\ s2c[c] = <<>>
  /\ Becomes(c, "lost")
  /\ UNCHANGED <<netVars, serverVars, asked, due>>

\* "BYE" or "exit", or Ctrl-C at any time: the socket is closed.
Leave(c) ==
  /\ user[c] \in {"typing", "waiting", "starved"}
  /\ Becomes(c, IF user[c] = "waiting" THEN "broke" ELSE "left")
  /\ \/ ClientClose(c)
     \/ /\ link[c] = "closed"
        /\ s2c' = [s2c EXCEPT ![c] = <<>>]
        /\ UNCHANGED <<c2s, link, backlog>>
  /\ UNCHANGED <<serverVars, asked, due>>

Types(c) == TypeRequest(c) \/ EndOfInput(c) \/ SendFailure(c) \/ Leave(c)

CaseClient(c) == Runs("case") /\ (Connect(c) \/ Types(c) \/ ReceiveAll(c) \/ LoseServer(c))
SqlClient(c) == Runs("sql") /\ (Connect(c) \/ Types(c) \/ ReceiveOnce(c) \/ LoseServer(c))
EchoClient(c) == Runs("echo") /\ (ConnectToAny(c) \/ Types(c) \/ ReceiveOnce(c) \/ LoseServer(c))

ClientNext(c) == CaseClient(c) \/ SqlClient(c) \/ EchoClient(c)

Next == ServerStep \/ \E c \in Clients : ClientNext(c)

Spec == Init /\ [][Next]_vars

\* The server's process runs, and so does a client whose recv can return.
\* Nothing forces the operator to type a line that stops the server.
Working == ServerStep /\ (pc = "select" => STDIN \notin currSockSet')

Receives(c) == IF Runs("case") THEN ReceiveAll(c) ELSE ReceiveOnce(c)

Fairness == /\ WF_vars(Working)
            /\ \A c \in Clients : WF_vars(Receives(c)) /\ WF_vars(LoseServer(c))

FairSpec == Spec /\ Fairness

----------------------------------------------------------------------------
\* Every variable has its type, and no more clients are accepted than the
\* limit of descriptors allows.
TypeOK == /\ NetTypeOK(Piece, Piece)
          /\ ServerTypeOK
          /\ user \in [Clients -> User]
          /\ asked \in [Clients -> 0..MaxRequests]
          /\ due \in [Clients -> 0..Pieces]

\* A client and its server stay in step when the client counts what it has
\* received, or the stream happens not to divide a message.
Reliable == Runs("case") \/ setup.whole

\* s is what c has still to receive of the reply to its last request.
Follows(s, c) ==
  /\ Len(s) = due[c]
  /\ \A i \in 1..due[c] : /\ s[i].from = c
                          /\ s[i].req = asked[c]
                          /\ s[i].part = Pieces - due[c] + i

\* The reply a piece belongs to has the form its server gives it.
Answered(p) ==
  CASE Runs("case") -> p.form = "swapped"
    [] Runs("sql")  -> p.form = "result"
    [] Runs("echo") -> p.form = IF p.part = Pieces THEN "cut" ELSE "typed"

ConnectionInStep(c) ==
  /\ Follows(s2c[c] \o c2s[c], c)
  /\ (due[c] = 0) <=> (user[c] # "waiting")
  /\ \A i \in 1..Len(s2c[c]) : Answered(s2c[c][i])
  /\ \A i \in 1..Len(c2s[c]) : c2s[c][i].form = "typed"

\* In step: what is under way on a connection, replies before requests, is
\* exactly what its client waits for, in order - none lost, doubled, or meant
\* for another client, however recv divides it.  A user who may type has
\* received the whole reply to the last line.
InStep == Reliable => \A c \in Clients : link[c] = "open" => ConnectionInStep(c)

\* In step, the server is ended by a client only if that client was stopped
\* with a request unanswered; a client that leaves between two requests, after
\* whatever exchange, does no harm.  The other ways to end are accept's.
OnlyBrokenExchangesCrash ==
  [][Reliable /\ pc \in {"select", "scan", "closing"} /\ pc' = "crash" =>
       \/ \E f \in Fds : Scanning(f) /\ user[Client(f)] = "broke"
       \/ /\ Scanning(servSock)
          /\ Len(accepted) = setup.fdLimit \/ Runs("echo")]_vars

\* A request is answered, or its client learns that the server has ended,
\* also out of step (select loop, HandleMessage, the receive loops).
AnswerComes == \A c \in Clients : (user[c] = "waiting") ~> (user[c] # "waiting")
=============================================================================
