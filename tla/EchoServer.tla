----------------------------- MODULE EchoServer -----------------------------
(***************************************************************************)
(* The three servers that answer every message of a client with one of     *)
(* their own: caseserver.c, sqlserver.c and server.c of Part_C.  The loops *)
(* of their mains are the same text, so one set of definitions stands for  *)
(* them; setup.program says which server runs, and each has its own        *)
(* HandleMessage.                                                          *)
(*                                                                         *)
(* select is called with a zero timeout.  A call that finds nothing ready  *)
(* changes nothing and is left out: the servers spin where the chat server *)
(* waits.  No descriptor of a client is closed before the end of main, so  *)
(* none is given out twice: the i-th client accepted has the descriptor    *)
(* servSock + i.                                                           *)
(***************************************************************************)
EXTENDS ChatNet

CONSTANTS Pieces,     \* bound: the pieces in which a request may be delivered
          FdLimits    \* bounds: how many clients RLIMIT_NOFILE leaves room for

STDIN == 0
servSock == 3
Programs == {"case", "sql", "echo"}

ASSUME EchoAssumption == Pieces \in Nat \ {0} /\ FdLimits \subseteq Nat

\* setup never changes: which program runs, whether the stream happens to
\* deliver every message in one recv (whole), and the limit of descriptors.
VARIABLES setup, orgSockSet, currSockSet, accepted, loopRunning, pc

serverVars == <<setup, orgSockSet, currSockSet, accepted, loopRunning, pc>>

Setups == [program : Programs, whole : BOOLEAN, fdLimit : FdLimits]
Runs(program) == setup.program = program

ServerInit == /\ setup \in Setups
              /\ orgSockSet = {} /\ currSockSet = {}
              /\ accepted = <<>>
              /\ loopRunning = TRUE
              /\ pc = "setup"

Up == pc \in {"select", "scan", "closing"}

Fds == (servSock + 1)..(servSock + Len(accepted))
Client(f) == accepted[f - servSock]

\* exit(-1), SIGPIPE or the end of main.  A reply under way may be lost (the
\* connection is reset when requests are unread) or still arrive.
ServerEnds(how) ==
  /\ pc' = how
  /\ orgSockSet' = {} /\ currSockSet' = {}
  /\ accepted' = <<>>
  /\ loopRunning' = FALSE
  /\ c2s' = [c \in Clients |-> <<>>]
  /\ \E kept \in SUBSET Clients :
       s2c' = [c \in Clients |-> IF c \in kept THEN s2c[c] ELSE <<>>]
  /\ link' = [c \in Clients |-> IF link[c] = "none" THEN "none" ELSE "closed"]
  /\ backlog' = <<>>
  /\ UNCHANGED setup

----------------------------------------------------------------------------
(* main, up to the loop: any of the calls may fail. *)

Listens == /\ pc = "setup"
           /\ orgSockSet' = {STDIN, servSock}
           /\ currSockSet' = {}
           /\ pc' = "select"
           /\ UNCHANGED <<netVars, setup, accepted, loopRunning>>

SetUpCase == Listens \/ (pc = "setup" /\ ServerEnds("crash"))

\* InitializeMYSQL comes first; its socket lies below servSock.
SetUpSql == Listens \/ (pc = "setup" /\ ServerEnds("crash"))

SetUpEcho == Listens \/ (pc = "setup" /\ ServerEnds("crash"))

----------------------------------------------------------------------------
(* The select loop. *)

Resume(rest, running) ==
  /\ currSockSet' = rest
  /\ pc' = IF rest # {} THEN "scan" ELSE IF running THEN "select" ELSE "closing"

ReadySet(key) ==
  {f \in orgSockSet : \/ f = STDIN /\ key
                      \/ f = servSock /\ backlog # <<>>
                      \/ f \in Fds /\ Readable(Client(f))}

Select == \E key \in BOOLEAN :
  /\ pc = "select"
  /\ ReadySet(key) # {}
  /\ currSockSet' = ReadySet(key)
  /\ pc' = "scan"
  /\ UNCHANGED <<netVars, setup, orgSockSet, accepted, loopRunning>>

Scanning(f) == pc = "scan" /\ f \in currSockSet /\ \A g \in currSockSet : f <= g

\* The rest of the round is still handled.
Keyboard == /\ Scanning(STDIN)
            /\ loopRunning' = FALSE
            /\ Resume(currSockSet \ {STDIN}, FALSE)
            /\ UNCHANGED <<netVars, setup, orgSockSet, accepted>>

EndOfProgram == pc = "closing" /\ ServerEnds("exit")

\* Mutant of AcceptTCPConnection: the limit is not met.
MutAccept ==
  /\ Scanning(servSock) /\ backlog # <<>>
  /\ accepted' = Append(accepted, Head(backlog))
  /\ backlog' = Tail(backlog)
  /\ orgSockSet' = orgSockSet \cup {servSock + Len(accepted) + 1}
  /\ Resume(currSockSet \ {servSock}, loopRunning)
  /\ UNCHANGED <<c2s, s2c, link, setup, loopRunning>>

\* accept fails when no descriptor is left: exit(-1).
AcceptTCPConnection ==
  /\ Scanning(servSock) /\ backlog # <<>>
  /\ \/ /\ Len(accepted) < setup.fdLimit
        /\ accepted' = Append(accepted, Head(backlog))
        /\ backlog' = Tail(backlog)
        /\ orgSockSet' = orgSockSet \cup {servSock + Len(accepted) + 1}
        /\ Resume(currSockSet \ {servSock}, loopRunning)
        /\ UNCHANGED <<c2s, s2c, link, setup, loopRunning>>
     \/ /\ Len(accepted) >= setup.fdLimit
        /\ ServerEnds("crash")

\* The length accept is given is read before it is written: a negative value
\* makes the call fail (EINVAL), any other lets it succeed.
AcceptInvalid == Scanning(servSock) /\ ServerEnds("crash")

----------------------------------------------------------------------------
(* HandleMessage.  A request is Pieces pieces of one client; a recv returns *)
(* a chunk of the pieces that wait, and form says what became of a piece.   *)

Request(c, n) ==
  [i \in 1..Pieces |-> [from |-> c, req |-> n, part |-> i, form |-> "typed"]]

Received(c) == {k \in Chunks(c) : setup.whole => k = Len(c2s[c])}

\* Mutant of Replies: the descriptor is cleared after every message.
MutReplies(f, k, reply) ==
  /\ ~SendFails(Client(f))
  /\ c2s' = Taken(Client(f), k)
  /\ s2c' = [s2c EXCEPT ![Client(f)] = IF link[Client(f)] = "open" THEN @ \o reply ELSE @]
  /\ link' = [link EXCEPT ![Client(f)] = IF @ = "fin" THEN "finsent" ELSE @]
  /\ orgSockSet' = orgSockSet \ {f}
  /\ Resume(currSockSet \ {f}, loopRunning)
  /\ UNCHANGED <<backlog, setup, accepted, loopRunning>>

\* One recv and one send on descriptor f.
Replies(f, k, reply) ==
  /\ ~SendFails(Client(f))
  /\ c2s' = Taken(Client(f), k)
  /\ s2c' = [s2c EXCEPT ![Client(f)] = IF link[Client(f)] = "open" THEN @ \o reply ELSE @]
  /\ link' = [link EXCEPT ![Client(f)] = IF @ = "fin" THEN "finsent" ELSE @]
  /\ Resume(currSockSet \ {f}, loopRunning)
  /\ UNCHANGED <<backlog, setup, orgSockSet, accepted, loopRunning>>

ReplyFails(f) == /\ SendFails(Client(f)) \/ SendKills(Client(f))
                 /\ ServerEnds("crash")

RecvFailure(f) == RecvFails(Client(f)) /\ ServerEnds("crash")

\* recv returned 0: main clears the descriptor and leaves it open.
Hangup(f) == /\ EndOfStream(Client(f))
             /\ orgSockSet' = orgSockSet \ {f}
             /\ Resume(currSockSet \ {f}, loopRunning)
             /\ UNCHANGED <<netVars, setup, accepted, loopRunning>>

\* Mutant of OperateOnQuery: the last byte is left out.
MutOperateOnQuery(buffer) ==
  [i \in DOMAIN buffer |-> IF i = Len(buffer) THEN buffer[i]
                                              ELSE [buffer[i] EXCEPT !.form = "swapped"]]

\* The case of every letter is reversed.
OperateOnQuery(buffer) == [i \in DOMAIN buffer |-> [buffer[i] EXCEPT !.form = "swapped"]]

HandleMessageCase(f) ==
  \/ RecvFailure(f)
  \/ Hangup(f)
  \/ \E k \in Received(Client(f)) :
       \/ Replies(f, k, OperateOnQuery(SubSeq(c2s[Client(f)], 1, k)))
       \/ ReplyFails(f)

\* mysql_query reads the buffer up to the NUL that ends a request; what lies
\* behind it is lost.  A whole request gets its result, the second part of a
\* divided one an error message: piece 0.
OperateOnMYSQL(buffer) ==
  LET ends == {i \in DOMAIN buffer : buffer[i].part = Pieces}
      query == IF ends = {} THEN buffer
               ELSE SubSeq(buffer, 1, CHOOSE i \in ends : \A j \in ends : i <= j)
      result == [i \in DOMAIN query |-> [query[i] EXCEPT !.form = "result"]]
  IN  IF Len(query) = Pieces THEN result ELSE <<[result[1] EXCEPT !.part = 0]>>

HandleMessageSql(f) ==
  \/ RecvFailure(f)
  \/ Hangup(f)
  \/ \E k \in Received(Client(f)) :
       \/ Replies(f, k, OperateOnMYSQL(SubSeq(c2s[Client(f)], 1, k)))
       \/ ReplyFails(f)

\* The last byte received becomes NUL.
Terminated(buffer) == [buffer EXCEPT ![Len(buffer)].form = "cut"]

\* The reply to an end of stream is a send of no bytes: it has no effect, but
\* for the signal when the connection has been reset.  buffer[recvLen-1] is then
\* the byte before the buffer; what lies there is not modelled.
HandleMessageEcho(f) ==
  \/ RecvFailure(f)
  \/ Hangup(f)
  \/ EndOfStream(Client(f)) /\ ReplyFails(f)
  \/ \E k \in Received(Client(f)) :
       \/ Replies(f, k, Terminated(SubSeq(c2s[Client(f)], 1, k)))
       \/ ReplyFails(f)

----------------------------------------------------------------------------
Loop == Select \/ Keyboard \/ AcceptTCPConnection \/ EndOfProgram

CaseServer == /\ Runs("case")
              /\ \/ SetUpCase \/ Loop
                 \/ \E f \in Fds : Scanning(f) /\ HandleMessageCase(f)

SqlServer == /\ Runs("sql")
             /\ \/ SetUpSql \/ Loop
                \/ \E f \in Fds : Scanning(f) /\ HandleMessageSql(f)

EchoServer == /\ Runs("echo")
              /\ \/ SetUpEcho \/ Loop \/ AcceptInvalid
                 \/ \E f \in Fds : Scanning(f) /\ HandleMessageEcho(f)

ServerNext == CaseServer \/ SqlServer \/ EchoServer

Piece == [from : Clients, req : Nat, part : 0..Pieces,
          form : {"typed", "swapped", "result", "cut"}]

ServerTypeOK ==
  /\ setup \in Setups
  /\ accepted \in Seq(Clients) /\ Len(accepted) <= setup.fdLimit
  /\ orgSockSet \subseteq {STDIN, servSock} \cup Fds
  /\ currSockSet \subseteq orgSockSet
  /\ loopRunning \in BOOLEAN
  /\ pc \in {"setup", "select", "scan", "closing", "exit", "crash"}
=============================================================================
