----------------------------- MODULE ChatClient -----------------------------
(***************************************************************************)
(* One run of Part_B_Chat_Program/client.c: the main thread, which asks    *)
(* for the user name and then receives, and the thread of                  *)
(* HandleStdinBuffer, which reads lines and sends.  They share the         *)
(* descriptor ownSock and the flag pthread_comm.finish.  The mutex guards  *)
(* single reads and writes of finish, so each of these is one step.        *)
(***************************************************************************)
EXTENDS Integers, Sequences

CONSTANTS MaxSent,    \* bound: messages sent by the client
          MaxInbox    \* bound: messages from the server that wait

ASSUME ClientAssumption == {MaxSent, MaxInbox} \subseteq Nat \ {0}

VARIABLES finish,    \* pthread_comm.finish
          mainPc,    \* next step of main
          inPc,      \* next step of HandleStdinBuffer
          line,      \* what fgets returned to it
          ownSock,   \* "open" or "closed"
          proc,      \* "running", or how the process ended
          inbox,     \* messages received by the kernel, not by main
          server,    \* the other end: "up", "closed" (it had read everything) or "reset"
          sockErr,   \* an ECONNRESET that no call of ours has returned yet
          sent,      \* history: kinds of the messages sent
          early,     \* history: finish was set before threadInitializeVar
          badRecvs   \* history: recv calls on the closed descriptor, up to 2

vars == <<finish, mainPc, inPc, line, ownSock, proc, inbox, server, sockErr, sent,
          early, badRecvs>>

Lines == {"request", "connect", "text", "bye", "EOF"}

Init ==
  /\ finish = FALSE               \* a zeroed global
  /\ mainPc = "name" /\ inPc = "off" /\ line = "none"
  /\ ownSock = "open" /\ proc = "running"
  /\ inbox = 0 /\ server = "up" /\ sockErr = FALSE
  /\ sent = <<>> /\ early = FALSE /\ badRecvs = 0

Running == proc = "running"
Ends(how) == proc' = how

Main(from, to) == Running /\ mainPc = from /\ mainPc' = to
Input(from, to) == Running /\ inPc = from /\ inPc' = to

----------------------------------------------------------------------------
(* The main thread.                                                        *)

\* A send that succeeds.  An end that has closed answers with a reset, which recv
\* does not report behind the end of the stream.
Sends(message) ==
  /\ server # "reset"
  /\ sent' = Append(sent, message)
  /\ server' \in IF server = "closed" THEN {"closed", "reset"} ELSE {server}

\* SendUsernname: the name is read and sent; it fits, or is asked for again.
SendUsername ==
  /\ Main("name", "welcome")
  /\ Sends("name")
  /\ UNCHANGED <<finish, inPc, line, ownSock, proc, inbox, sockErr, early, badRecvs>>

\* ... or send returns the error of a reset, which is reported: recv comes next
\* all the same.
SendUsernameFails ==
  /\ server = "reset"
  /\ Main("name", "welcome")
  /\ sockErr' = FALSE
  /\ UNCHANGED <<finish, inPc, line, ownSock, proc, inbox, server, sent, early, badRecvs>>

\* ... and the blocking recv of the welcome.
RecvWelcome ==
  /\ inbox > 0
  /\ Main("welcome", "create")
  /\ \E k \in 1..inbox : inbox' = inbox - k
  /\ UNCHANGED <<finish, inPc, line, ownSock, proc, server, sockErr, sent, early, badRecvs>>

CreateThread ==
  /\ Main("create", "init")
  /\ inPc' = "read"
  /\ UNCHANGED <<finish, line, ownSock, proc, inbox, server, sockErr, sent, early, badRecvs>>

\* threadInitializeVar, when the thread may already have run.
InitializeVar ==
  /\ Main("init", "check")
  /\ finish' = FALSE
  /\ early' = finish
  /\ UNCHANGED <<inPc, line, ownSock, proc, inbox, server, sockErr, sent, badRecvs>>

\* Mutant of CheckFinish: the loop has no exit.
MutCheckFinish ==
  /\ Main("check", "select")
  /\ UNCHANGED <<finish, inPc, line, ownSock, proc, inbox, server, sockErr,
                 sent, early, badRecvs>>

\* checkOtherThreadIsActive, at the top of the loop.
CheckFinish ==
  /\ mainPc = "check"
  /\ Main("check", IF finish THEN "close" ELSE "select")
  /\ UNCHANGED <<finish, inPc, line, ownSock, proc, inbox, server, sockErr,
                 sent, early, badRecvs>>

\* select: data, the end of the stream or an error is there, or the descriptor is
\* bad (the set is then left as it was) ...
SelectReady ==
  /\ inbox > 0 \/ server # "up" \/ ownSock = "closed"
  /\ Main("select", "recv")
  /\ UNCHANGED <<finish, inPc, line, ownSock, proc, inbox, server, sockErr,
                 sent, early, badRecvs>>

\* ... or the 2 s are over; a select that waits does not see the close of its
\* descriptor by the other thread.
SelectTimeout ==
  /\ ownSock = "closed" \/ (inbox = 0 /\ server = "up")
  /\ Main("select", "check")
  /\ UNCHANGED <<finish, inPc, line, ownSock, proc, inbox, server, sockErr,
                 sent, early, badRecvs>>

\* Mutant of RecvMessage: a full buffer is taken, whatever waits.
MutRecvMessage ==
  /\ ownSock = "open" /\ inbox > 0
  /\ Main("recv", "check")
  /\ inbox' = inbox - MaxInbox
  /\ UNCHANGED <<finish, inPc, line, ownSock, proc, server, sockErr, sent, early, badRecvs>>

RecvMessage ==
  /\ ownSock = "open" /\ inbox > 0
  /\ Main("recv", "check")
  /\ \E k \in 1..inbox : inbox' = inbox - k
  /\ UNCHANGED <<finish, inPc, line, ownSock, proc, server, sockErr, sent, early, badRecvs>>

\* recv < 0 is reported and the loop goes on.  On an open socket the error of a
\* reset comes once, behind the data that has arrived ...
RecvReset ==
  /\ ownSock = "open" /\ inbox = 0 /\ sockErr
  /\ Main("recv", "check")
  /\ sockErr' = FALSE
  /\ UNCHANGED <<finish, inPc, line, ownSock, proc, inbox, server, sent, early, badRecvs>>

\* ... and on the descriptor the other thread has closed every time.
RecvBadDescriptor ==
  /\ ownSock = "closed"
  /\ Main("recv", "check")
  /\ badRecvs' = IF badRecvs < 2 THEN badRecvs + 1 ELSE badRecvs
  /\ UNCHANGED <<finish, inPc, line, ownSock, proc, inbox, server, sockErr, sent, early>>

\* Mutant of RecvEndOfStream: a 0 is treated as an error is.
MutRecvEndOfStream ==
  /\ ownSock = "open" /\ inbox = 0 /\ server # "up" /\ ~sockErr
  /\ Main("recv", "check")
  /\ UNCHANGED <<finish, inPc, line, ownSock, proc, inbox, server, sockErr,
                 sent, early, badRecvs>>

\* recv returns 0, also once the error of a reset has been returned by a call of
\* either thread: exit(-1).  In SendUsernname an error is as fatal as a 0.
RecvEndOfStream ==
  /\ ownSock = "open" /\ inbox = 0 /\ server # "up"
  /\ Running
  /\ mainPc = "welcome" \/ (mainPc = "recv" /\ ~sockErr)
  /\ Ends("exit-1")
  /\ UNCHANGED <<finish, mainPc, inPc, line, ownSock, inbox, server, sockErr,
                 sent, early, badRecvs>>

CloseAfterLoop ==
  /\ Main("close", "inform")
  /\ ownSock' = "closed"
  /\ UNCHANGED <<finish, inPc, line, proc, inbox, server, sockErr, sent, early, badRecvs>>

MainInforms ==
  /\ Main("inform", "return")
  /\ finish' = TRUE
  /\ UNCHANGED <<inPc, line, ownSock, proc, inbox, server, sockErr, sent, early, badRecvs>>

\* return 0 ends the process and with it the other thread.
Return ==
  /\ Running /\ mainPc = "return"
  /\ Ends("exit0")
  /\ UNCHANGED <<finish, mainPc, inPc, line, ownSock, inbox, server, sockErr,
                 sent, early, badRecvs>>

MainStep ==
  \/ RecvWelcome \/ CreateThread \/ InitializeVar \/ CheckFinish
  \/ SelectReady \/ SelectTimeout \/ RecvMessage \/ RecvReset
  \/ RecvBadDescriptor \/ RecvEndOfStream \/ CloseAfterLoop \/ MainInforms \/ Return

----------------------------------------------------------------------------
(* The thread of HandleStdinBuffer.                                        *)

\* fgets blocks until the user types; at the end of stdin it returns at once.
ReadLine ==
  /\ line' \in IF line = "EOF" THEN {"EOF"} ELSE Lines
  /\ Input("read", "check")
  /\ UNCHANGED <<finish, mainPc, ownSock, proc, inbox, server, sockErr, sent, early, badRecvs>>

\* Mutant of CheckBeforeSend: the flag is set before "bye" is sent.
MutCheckBeforeSend ==
  /\ inPc = "check"
  /\ Input("check", IF finish THEN "inform" ELSE IF line = "EOF" THEN "read" ELSE "send")
  /\ finish' = (finish \/ line = "bye")
  /\ UNCHANGED <<mainPc, line, ownSock, proc, inbox, server, sockErr, sent, early, badRecvs>>

CheckBeforeSend ==
  /\ inPc = "check"
  /\ Input("check", IF finish THEN "inform" ELSE IF line = "EOF" THEN "read" ELSE "send")
  /\ UNCHANGED <<finish, mainPc, line, ownSock, proc, inbox, server, sockErr,
                 sent, early, badRecvs>>

\* Mutant of SendLine: "bye" does not end the loop.
MutSendLine ==
  /\ Len(sent) < MaxSent
  /\ Input("send", "read")
  /\ Sends(line)
  /\ UNCHANGED <<finish, mainPc, line, ownSock, proc, inbox, sockErr, early, badRecvs>>

\* The line is sent; after "bye" the loop ends.
SendLine ==
  /\ line = "bye" \/ Len(sent) < MaxSent
  /\ Input("send", IF line = "bye" THEN "inform" ELSE "read")
  /\ Sends(line)
  /\ UNCHANGED <<finish, mainPc, line, ownSock, proc, inbox, sockErr, early, badRecvs>>

\* After a reset send returns the error, if recv has not, and then raises SIGPIPE.
\* GetActiveListofOtherClients only reports the error ...
RequestFails ==
  /\ sockErr /\ line = "request"
  /\ Input("send", "read")
  /\ sockErr' = FALSE
  /\ UNCHANGED <<finish, mainPc, line, ownSock, proc, inbox, server, sent, early, badRecvs>>

\* ... and every other failure ends the process.
SendFails ==
  /\ server = "reset" /\ ~(sockErr /\ line = "request")
  /\ Running /\ inPc = "send"
  /\ Ends(IF sockErr THEN "exit-1" ELSE "killed")
  /\ sockErr' = FALSE
  /\ UNCHANGED <<finish, mainPc, inPc, line, ownSock, inbox, server, sent, early, badRecvs>>

\* Mutant of InputInforms: the descriptor is closed and finish not set.
MutInputInforms ==
  /\ Input("inform", "close")
  /\ UNCHANGED <<finish, mainPc, line, ownSock, proc, inbox, server, sockErr,
                 sent, early, badRecvs>>

InputInforms ==
  /\ Input("inform", "close")
  /\ finish' = TRUE
  /\ UNCHANGED <<mainPc, line, ownSock, proc, inbox, server, sockErr, sent, early, badRecvs>>

InputCloses ==
  /\ Input("close", "ended")
  /\ ownSock' = "closed"
  /\ UNCHANGED <<finish, mainPc, line, proc, inbox, server, sockErr, sent, early, badRecvs>>

InputStep == \/ CheckBeforeSend \/ SendLine \/ RequestFails \/ SendFails
             \/ InputInforms \/ InputCloses

----------------------------------------------------------------------------
(* The user's Ctrl-C, and the server.                                      *)

Interrupt ==
  /\ Running
  /\ Ends("killed")
  /\ UNCHANGED <<finish, mainPc, inPc, line, ownSock, inbox, server, sockErr,
                 sent, early, badRecvs>>

\* The server answers the name with the welcome and sends more later.
ServerSends ==
  /\ Running /\ server = "up" /\ sent # <<>> /\ inbox < MaxInbox
  /\ inbox' = inbox + 1
  /\ UNCHANGED <<finish, mainPc, inPc, line, ownSock, proc, server, sockErr,
                 sent, early, badRecvs>>

\* Its end of the connection goes with everything read ...
ServerCloses ==
  /\ Running /\ server = "up"
  /\ server' = "closed"
  /\ UNCHANGED <<finish, mainPc, inPc, line, ownSock, proc, inbox, sockErr,
                 sent, early, badRecvs>>

\* ... or with data of this client unread, or before it was accepted: a reset.
ServerResets ==
  /\ Running /\ server = "up"
  /\ server' = "reset" /\ sockErr' = TRUE
  /\ UNCHANGED <<finish, mainPc, inPc, line, ownSock, proc, inbox, sent, early, badRecvs>>

Next == \/ SendUsername \/ SendUsernameFails \/ MainStep \/ ReadLine \/ InputStep
        \/ Interrupt \/ ServerSends \/ ServerCloses \/ ServerResets

\* Both threads run; nothing is assumed of the user or of the server.
Spec == Init /\ [][Next]_vars /\ WF_vars(MainStep) /\ WF_vars(InputStep)

----------------------------------------------------------------------------
SaidBye == inPc \in {"inform", "close", "ended"} /\ line = "bye"

\* Every variable has its type.
TypeOK ==
  /\ finish \in BOOLEAN /\ early \in BOOLEAN /\ sockErr \in BOOLEAN
  /\ mainPc \in {"name", "welcome", "create", "init", "check", "select", "recv",
                 "close", "inform", "return"}
  /\ inPc \in {"off", "read", "check", "send", "inform", "close", "ended"}
  /\ line \in Lines \cup {"none"}
  /\ ownSock \in {"open", "closed"} /\ server \in {"up", "closed", "reset"}
  /\ proc \in {"running", "exit0", "exit-1", "killed"}
  /\ inbox \in 0..MaxInbox
  /\ sent \in Seq(Lines \cup {"name"}) /\ Len(sent) <= MaxSent + 1
  /\ badRecvs \in 0..2

\* The stdin thread never sends on the descriptor main has closed, and main
\* leaves its loop, and ends the process with status 0, only for a "bye".
CleanExit ==
  /\ inPc = "send" => ownSock = "open"
  /\ mainPc \in {"close", "inform", "return"} => SaidBye

\* Between the two closes of the descriptor main calls recv on it at most
\* once, when the flag has not been lost to threadInitializeVar.
OneBadRecv == ~early => badRecvs <= 1

\* "bye" ends the program, when it comes after threadInitializeVar.
LateByeEnds == (finish /\ mainPc \notin {"create", "init"}) ~> ~Running

\* The loss of the server ends the program, once the loop runs, though recv may
\* first return an error that does not (client.c:127), or the other thread may be
\* the one that gets it.
ServerLossEnds ==
  (server # "up" /\ mainPc \in {"check", "select", "recv"} /\ ~early) ~> ~Running

\* What the server can know of it.
LifePhase == CASE proc = "killed" /\ ownSock = "open" -> "gone"
               [] proc = "exit-1" /\ ownSock = "open" -> "dropped"
               [] ownSock = "closed" -> "gone"
               [] OTHER -> IF sent = <<>> THEN "naming"
                           ELSE IF mainPc = "welcome" THEN "greeting"
                           ELSE IF SaidBye THEN "leaving" ELSE "chatting"

\* To its server a client is what ClientLife says.
Life == INSTANCE ClientLife WITH phase <- LifePhase
LivesAsClientLife == Life!Spec

\* ReadMe.txt, Feature 6: "bye" leaves the application.
ByeEnds == SaidBye ~> ~Running
=============================================================================
