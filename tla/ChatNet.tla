------------------------------ MODULE ChatNet ------------------------------
(***************************************************************************)
(* The TCP connections between the clients and the server of a program of *)
(* "3 - Socket Programming" (the chat program, and those of EchoServer),   *)
(* as the two sides use them.  None of this is code of the repository: it  *)
(* is the kernel's side of send, recv, accept and close.                   *)
(*                                                                         *)
(* A client is one run of its program, so it connects at most once.  Each  *)
(* direction of its connection is a sequence of messages, one per send;    *)
(* the stream keeps no boundary between them, so one recv returns a chunk  *)
(* of one or more of them.  s2c holds what the client has not received,    *)
(* in flight or in its socket buffer.                                      *)
(***************************************************************************)
EXTENDS Naturals, Sequences, FiniteSets

CONSTANTS Clients,          \* runs of the client program
          MaxServerChunk,   \* bound: messages one recv of the server can return
          MaxClientChunk    \* the same for a client

ASSUME ChunkAssumption == {MaxServerChunk, MaxClientChunk} \subseteq Nat \ {0}

VARIABLES c2s,      \* c2s[c]: messages sent by c that the server has not received
          s2c,      \* s2c[c]: messages sent to c that c has not received
          link,     \* link[c]: the connection as the server's kernel has it
          backlog   \* connections that wait for accept, oldest first

netVars == <<c2s, s2c, link, backlog>>

(***************************************************************************)
(* "open"     both ends hold the connection;                               *)
(* "fin"      the client has closed it and had read everything;            *)
(* "finsent"  as "fin", and the server has sent to it since: the reset     *)
(*            that answers makes a later send raise SIGPIPE, while recv    *)
(*            still returns what is queued and then 0;                     *)
(* "rst"      the client closed it with data unread, so its kernel sent a  *)
(*            reset: once the queue is empty recv fails, and so does send; *)
(* "closed"   the server has closed its descriptor.                        *)
(***************************************************************************)
LinkState == {"none", "open", "fin", "finsent", "rst", "closed"}

NetInit == /\ c2s = [c \in Clients |-> <<>>]
           /\ s2c = [c \in Clients |-> <<>>]
           /\ link = [c \in Clients |-> "none"]
           /\ backlog = <<>>

----------------------------------------------------------------------------
(* The client's side. *)

ConnectLink(c) == /\ link[c] = "none"
                  /\ link' = [link EXCEPT ![c] = "open"]
                  /\ backlog' = Append(backlog, c)
                  /\ UNCHANGED <<c2s, s2c>>

ClientSend(c, m) == /\ c2s' = [c2s EXCEPT ![c] = Append(@, m)]
                    /\ UNCHANGED <<s2c, link, backlog>>

\* The first k messages of what waits for c, taken by one recv.
ClientRecv(c, k) == /\ k \in 1..MaxClientChunk
                    /\ k <= Len(s2c[c])
                    /\ s2c' = [s2c EXCEPT ![c] = SubSeq(@, k + 1, Len(@))]
                    /\ UNCHANGED <<c2s, link, backlog>>

\* close, by the program or by the kernel when the process ends.  What is
\* unread may be in the socket buffer (reset at once) or still in flight (the
\* peer has seen a close first).
ClientClose(c) ==
  /\ link[c] = "open"
  /\ \E after \in (IF s2c[c] = <<>> THEN {"fin"} ELSE {"rst", "finsent"}) :
        link' = [link EXCEPT ![c] = after]
  /\ s2c' = [s2c EXCEPT ![c] = <<>>]
  /\ UNCHANGED <<c2s, backlog>>

----------------------------------------------------------------------------
(* The server's side.  A handler of the server receives from at most one   *)
(* client and sends to others; these operators give the new c2s, s2c and   *)
(* link, and the conditions under which a call fails.                      *)

\* select reports the connection of c: recv would not block.
Readable(c) == c2s[c] # <<>> \/ link[c] \in {"fin", "finsent", "rst"}

EndOfStream(c) == c2s[c] = <<>> /\ link[c] \in {"fin", "finsent"}
RecvFails(c) == c2s[c] = <<>> /\ link[c] = "rst"

\* c2s after a recv on the connection of c that returned k messages.
Taken(c, k) == [c2s EXCEPT ![c] = SubSeq(@, k + 1, Len(@))]

Chunks(c) == {k \in 1..MaxServerChunk : k <= Len(c2s[c])}

\* out is a sequence of [to |-> client, msg |-> message], at most one per
\* client: the sends of a handler, in the order it makes them.
SentTo(out, c) == \E i \in DOMAIN out : out[i].to = c
MsgTo(out, c) == out[CHOOSE i \in DOMAIN out : out[i].to = c].msg

SendFails(c) == link[c] = "rst"        \* send returns -1
SendKills(c) == link[c] = "finsent"    \* send may raise SIGPIPE

\* The queues and the links after all of out has been sent.
AfterSends(out) ==
  [queue |-> [c \in Clients |->
               IF SentTo(out, c) /\ link[c] = "open"
               THEN Append(s2c[c], MsgTo(out, c)) ELSE s2c[c]],
   link  |-> [c \in Clients |->
               IF SentTo(out, c) /\ link[c] \in {"fin", "rst"}
               THEN "finsent" ELSE link[c]]]

\* The server's process has ended: its kernel closes what it held, and what
\* was under way is not waited for.
AllClosed == /\ c2s' = [c \in Clients |-> <<>>]
             /\ s2c' = [c \in Clients |-> <<>>]
             /\ link' = [c \in Clients |-> IF link[c] = "none" THEN "none" ELSE "closed"]
             /\ backlog' = <<>>

----------------------------------------------------------------------------
NetTypeOK(Out, In) ==
  /\ c2s \in [Clients -> Seq(Out)]
  /\ s2c \in [Clients -> Seq(In)]
  /\ link \in [Clients -> LinkState]
  /\ backlog \in Seq(Clients)
=============================================================================
