----------------------------- MODULE ChatServer -----------------------------
(***************************************************************************)
(* The chat server, Part_B_Chat_Program/server.c: one thread that waits in *)
(* select, then handles the ready descriptors in ascending order.          *)
(*                                                                         *)
(* The array clientInfo, indexed by descriptor, is four variables: valid   *)
(* and busy are the sets of slots whose flag is up, username and sockfd    *)
(* are functions of the slot.  A handler is one step: it receives from one *)
(* descriptor and sends at most one message to each of two clients, and    *)
(* what a client does between two of these calls gives the same states     *)
(* before or after the handler.                                            *)
(***************************************************************************)
EXTENDS ChatNet

CONSTANTS MAXPENDING,   \* slots of clientInfo
          MaxFd,        \* bound: the largest descriptor a client is given
          Name,         \* user names, the next two among them
          NoName,       \* the name in a zeroed slot
          LineName,     \* "\n", the name of a client that closed without one
          NameOf,       \* NameOf[c]: the user name typed at client c
          Prefix,       \* <<s, t>>: the name s is a prefix of the name t
          OperatorStops, \* bound: whether a line may be typed at the server
          None          \* no client

STDIN == 0
servSock == 3                        \* 0..2 are the standard streams
Slot == 0..(MAXPENDING - 1)
Fd == (servSock + 1)..MaxFd          \* what accept can return

ASSUME ServerAssumption ==
  /\ MAXPENDING \in Nat /\ MaxFd \in Nat
  /\ MAXPENDING > servSock
  /\ {NoName, LineName} \subseteq Name
  /\ NameOf \in [Clients -> Name]
  /\ Prefix \subseteq Name \X Name
  /\ \A n \in Name : <<n, n>> \in Prefix
  /\ OperatorStops \in BOOLEAN
  /\ None \notin Clients

VARIABLES valid, busy, username, sockfd,   \* clientInfo
          orgSockSet,                      \* descriptors main selects on
          currSockSet,                     \* ready ones still to be scanned
          conn,                            \* the client behind a descriptor, or None
          newfd,                           \* accepted, user name not yet received
          loopRunning,
          pc

tableVars == <<valid, busy, username, sockfd>>
loopVars == <<orgSockSet, currSockSet, conn, newfd, loopRunning, pc>>
serverVars == <<valid, busy, username, sockfd, orgSockSet, currSockSet, conn,
                newfd, loopRunning, pc>>

Up == pc \in {"select", "scan", "username", "closing"}

\* exit(-1), a signal, or the end of main (how): the memory is gone, and the
\* kernel closes every connection.
ProcessEnds(how) ==
  /\ pc' = how
  /\ valid' = {} /\ busy' = {}
  /\ username' = [i \in Slot |-> NoName]
  /\ sockfd' = [i \in Slot |-> 0]
  /\ orgSockSet' = {} /\ currSockSet' = {}
  /\ conn' = [f \in Fd |-> None]
  /\ newfd' = 0
  /\ loopRunning' = FALSE
  /\ AllClosed

ServerInit ==
  /\ valid = {} /\ busy = {}
  /\ username = [i \in Slot |-> NoName]
  /\ sockfd = [i \in Slot |-> 0]
  /\ orgSockSet = {STDIN, servSock}
  /\ currSockSet = {}
  /\ conn = [f \in Fd |-> None]
  /\ newfd = 0
  /\ loopRunning = TRUE
  /\ pc = "select"

----------------------------------------------------------------------------
(* The table: what the helpers of server.c read from it. *)

\* GetClientListFromDB: the names a client is shown.
GetClientListFromDB(self) ==
  {username[i] : i \in {j \in valid : j # self /\ j \notin busy}}

\* ValidateUsername: some user's name is not a prefix of the name asked for.
ValidateUsername(name) == \E i \in valid : <<username[i], name>> \notin Prefix

\* GetUserFDByNameFromDB: the first slot with that name.  With none, the
\* function ends without a return; the compiled code then leaves the loop's
\* final value, MAXPENDING, where the caller looks for the result.
GetUserFDByNameFromDB(name) ==
  LET match == {i \in valid : username[i] = name}
  IN  IF match = {} THEN MAXPENDING
      ELSE CHOOSE i \in match : \A j \in match : i <= j

\* Mutant of ConnectOutcome: a busy user can be connected to.
MutConnectOutcome(self, name) ==
  LET other == GetUserFDByNameFromDB(name)
  IN  CASE ~ValidateUsername(name) \/ other = MAXPENDING -> "Invalid User."
        [] ValidateUsername(name) /\ other = self -> "Invalid Operation."
        [] OTHER -> "connected"

\* The outcome of a CONNECT from an idle client: "connected" or an error text.
ConnectOutcome(self, name) ==
  LET other == GetUserFDByNameFromDB(name)
  IN  CASE ~ValidateUsername(name) \/ other = MAXPENDING -> "Invalid User."
        [] ValidateUsername(name) /\ other = self -> "Invalid Operation."
        [] OTHER -> IF sockfd[other] # 0 THEN "User is busy." ELSE "connected"

\* CloseConnectionIfExists: the partner it finds, and the notice it sends.
Partnered(self) == sockfd[self] # 0 /\ sockfd[self] \in valid

\* Mutant of CloseNotice: the partner is not told.
MutCloseNotice(self) == <<>>

CloseNotice(self) ==
  IF Partnered(self) THEN <<[to |-> conn[sockfd[self]], msg |-> [kind |-> "bye"]]>>
                     ELSE <<>>

----------------------------------------------------------------------------
(* The select loop. *)

\* Mutant of Resume: the scan breaks off after one descriptor.
MutResume(rest, running) ==
  /\ currSockSet' = {}
  /\ pc' = IF running THEN "select" ELSE "closing"

\* The rest of the round; when it is empty, the while condition.
Resume(rest, running) ==
  /\ currSockSet' = rest
  /\ pc' = IF rest # {} THEN "scan" ELSE IF running THEN "select" ELSE "closing"

\* Mutants of ReadySet: the scan tests orgSockSet; or main selects only on
\* the descriptors of valid slots.
MutReadySetAll(key) == orgSockSet \ (IF key THEN {} ELSE {STDIN})

MutReadySetValid(key) ==
  {f \in orgSockSet : \/ f = STDIN /\ key
                      \/ f = servSock /\ backlog # <<>>
                      \/ f \in valid /\ Readable(conn[f])}

ReadySet(key) ==
  {f \in orgSockSet : \/ f = STDIN /\ key
                      \/ f = servSock /\ backlog # <<>>
                      \/ f \in Fd /\ conn[f] # None /\ Readable(conn[f])}

\* select returns everything that is ready; a round with nothing (its 2 s
\* timeout) changes nothing and is left out.  key: the operator typed a line.
Select == \E key \in {FALSE, OperatorStops} :
  /\ pc = "select"
  /\ ReadySet(key) # {}
  /\ currSockSet' = ReadySet(key)
  /\ pc' = "scan"
  /\ UNCHANGED <<netVars, tableVars, orgSockSet, conn, newfd, loopRunning>>

\* The loop over currSock is at f: the lowest ready descriptor left.
Scanning(f) == pc = "scan" /\ f \in currSockSet /\ \A g \in currSockSet : f <= g

Keyboard ==
  /\ Scanning(STDIN)
  /\ loopRunning' = FALSE
  /\ Resume(currSockSet \ {STDIN}, FALSE)
  /\ UNCHANGED <<netVars, tableVars, orgSockSet, conn, newfd>>

\* close(servSock) and the end of main.
EndOfProgram == pc = "closing" /\ ProcessEnds("exit")

\* accept returns the lowest free descriptor; AcceptTCPConnection then blocks
\* in SaveUserNameOfClient.
Accept ==
  /\ Scanning(servSock)
  /\ backlog # <<>>
  /\ newfd' \in Fd
  /\ conn[newfd'] = None
  /\ \A g \in Fd : conn[g] = None => newfd' <= g
  /\ conn' = [conn EXCEPT ![newfd'] = Head(backlog)]
  /\ backlog' = Tail(backlog)
  /\ pc' = "username"
  /\ UNCHANGED <<c2s, s2c, link, tableVars, orgSockSet, currSockSet, loopRunning>>

----------------------------------------------------------------------------
(* What a handler receives, and how one that makes the sends out ends.     *)

\* recv returns a chunk whose first message is of that kind; the rest of the
\* chunk is in the buffer behind it and is not looked at.
Receives(f, kind) ==
  /\ Scanning(f)
  /\ c2s[conn[f]] # <<>>
  /\ Head(c2s[conn[f]]).kind = kind

Take(f) == \E k \in Chunks(conn[f]) : c2s' = Taken(conn[f], k)

\* checked: the handler tests the result of its sends and calls exit(-1).
SendsDone(out, checked) ==
  /\ checked => \A i \in DOMAIN out : ~SendFails(out[i].to)
  /\ s2c' = AfterSends(out).queue
  /\ link' = AfterSends(out).link

DiesSending(out, checked) ==
  /\ \E i \in DOMAIN out :
       SendKills(out[i].to) \/ (checked /\ SendFails(out[i].to))
  /\ ProcessEnds("crash")

\* The scan goes on after f with the table unchanged, ...
KeepTable(f, out, checked) ==
  /\ Take(f)
  /\ SendsDone(out, checked)
  /\ Resume(currSockSet \ {f}, loopRunning)
  /\ UNCHANGED <<backlog, tableVars, orgSockSet, conn, newfd, loopRunning>>

\* Mutant of PairUp: only the asking client is flagged busy.
MutPairUp(self, other, out) ==
  /\ Take(self)
  /\ SendsDone(out, FALSE)
  /\ sockfd' = [sockfd EXCEPT ![self] = other, ![other] = self]
  /\ busy' = busy \cup {self}
  /\ Resume(currSockSet \ {self}, loopRunning)
  /\ UNCHANGED <<backlog, valid, username, orgSockSet, conn, newfd, loopRunning>>

\* ... with self and other paired, ...
PairUp(self, other, out) ==
  /\ Take(self)
  /\ SendsDone(out, FALSE)
  /\ sockfd' = [sockfd EXCEPT ![self] = other, ![other] = self]
  /\ busy' = busy \cup {self, other}
  /\ Resume(currSockSet \ {self}, loopRunning)
  /\ UNCHANGED <<backlog, valid, username, orgSockSet, conn, newfd, loopRunning>>

\* Mutants of ClearSlot: the partner's sockfd gets the value that stands for
\* "no user"; it keeps its sockfd; it is not released at all; or the slot is
\* not zeroed but for its flags.
MutClearSlotSentinel(f) ==
  /\ valid' = valid \ {f}
  /\ busy' = IF Partnered(f) THEN busy \ {f, sockfd[f]} ELSE busy \ {f}
  /\ username' = [username EXCEPT ![f] = NoName]
  /\ sockfd' = IF Partnered(f)
               THEN [sockfd EXCEPT ![sockfd[f]] = MAXPENDING, ![f] = 0]
               ELSE [sockfd EXCEPT ![f] = 0]

MutClearSlotStale(f) ==
  /\ valid' = valid \ {f}
  /\ busy' = IF Partnered(f) THEN busy \ {f, sockfd[f]} ELSE busy \ {f}
  /\ username' = [username EXCEPT ![f] = NoName]
  /\ sockfd' = [sockfd EXCEPT ![f] = 0]

MutClearSlotOwnOnly(f) ==
  /\ valid' = valid \ {f}
  /\ busy' = busy \ {f}
  /\ username' = [username EXCEPT ![f] = NoName]
  /\ sockfd' = [sockfd EXCEPT ![f] = 0]

MutClearSlotFlags(f) ==
  /\ valid' = valid \ {f}
  /\ busy' = IF Partnered(f) THEN busy \ {f, sockfd[f]} ELSE busy \ {f}
  /\ sockfd' = IF Partnered(f) THEN [sockfd EXCEPT ![sockfd[f]] = 0, ![f] = 0]
                               ELSE [sockfd EXCEPT ![f] = 0]
  /\ UNCHANGED username

\* ... or with the partner of f released and the slot of f zeroed.
ClearSlot(f) ==
  /\ valid' = valid \ {f}
  /\ busy' = IF Partnered(f) THEN busy \ {f, sockfd[f]} ELSE busy \ {f}
  /\ username' = [username EXCEPT ![f] = NoName]
  /\ sockfd' = IF Partnered(f) THEN [sockfd EXCEPT ![sockfd[f]] = 0, ![f] = 0]
                               ELSE [sockfd EXCEPT ![f] = 0]

----------------------------------------------------------------------------
(* SaveUserNameOfClient: the blocking recv after accept. *)

\* Only a slot of the table: with more descriptors than slots the code writes
\* past clientInfo, and nothing is said of what follows.
AtUsername == pc = "username" /\ newfd \in Slot

\* The slot is filled and the client welcomed with the list of idle users.
\* Nothing was sent to this client before, so its welcome cannot fail.
SaveUserName(name) ==
  LET welcome == [kind |-> "welcome", names |-> GetClientListFromDB(newfd)]
  IN  /\ SendsDone(<<[to |-> conn[newfd], msg |-> welcome]>>, TRUE)
      /\ username' = [username EXCEPT ![newfd] = name]
      /\ valid' = valid \cup {newfd}
      /\ busy' = busy \ {newfd}
      /\ sockfd' = [sockfd EXCEPT ![newfd] = 0]
      /\ orgSockSet' = orgSockSet \cup {newfd}
      /\ newfd' = 0
      /\ Resume(currSockSet \ {servSock}, loopRunning)
      /\ UNCHANGED <<backlog, conn, loopRunning>>

SaveUserNameOfClient ==
  /\ AtUsername
  /\ c2s[conn[newfd]] # <<>>
  /\ Take(newfd)
  /\ SaveUserName(Head(c2s[conn[newfd]]).name)

SaveUserNameOfGoneClient ==
  /\ AtUsername
  /\ EndOfStream(conn[newfd])
  /\ SaveUserName(LineName)
  /\ UNCHANGED c2s

----------------------------------------------------------------------------
(* HandleMessage, on descriptor f of client conn[f].                       *)

\* recv fails: exit(-1).
RecvFailure == \E f \in Fd :
  /\ Scanning(f)
  /\ RecvFails(conn[f])
  /\ ProcessEnds("crash")

HandleRequest == \E f \in Fd :
  /\ Receives(f, "request")
  /\ LET list == [kind |-> "list", names |-> GetClientListFromDB(f)]
         out == <<[to |-> conn[f], msg |-> list]>>
     IN  KeepTable(f, out, TRUE) \/ DiesSending(out, TRUE)

\* A CONNECT from a client that is in a chat, or has left, is not answered.
HandleConnectIgnored == \E f \in Fd :
  /\ Receives(f, "connect")
  /\ f \notin valid \/ sockfd[f] # 0
  /\ KeepTable(f, <<>>, FALSE)

HandleConnectRefused == \E f \in Fd :
  /\ Receives(f, "connect")
  /\ f \in valid /\ sockfd[f] = 0
  /\ LET outcome == ConnectOutcome(f, Head(c2s[conn[f]]).name)
         out == <<[to |-> conn[f], msg |-> [kind |-> "error", text |-> outcome]]>>
     IN  /\ outcome # "connected"
         /\ KeepTable(f, out, FALSE) \/ DiesSending(out, FALSE)

\* SendConnResponse tells the other client first.
HandleConnectAccepted == \E f \in Fd :
  /\ Receives(f, "connect")
  /\ f \in valid /\ sockfd[f] = 0
  /\ LET name == Head(c2s[conn[f]]).name
         other == GetUserFDByNameFromDB(name)
         connected(i) == [kind |-> "connected", name |-> username[i]]
         out == <<[to |-> conn[other], msg |-> connected(f)],
                  [to |-> conn[f], msg |-> connected(other)]>>
     IN  /\ ConnectOutcome(f, name) = "connected"
         /\ PairUp(f, other, out) \/ DiesSending(out, FALSE)

\* The slot is zeroed; the descriptor stays selected until the end of stream.
HandleBye == \E f \in Fd :
  /\ Receives(f, "bye")
  /\ \/ /\ Take(f)
        /\ SendsDone(CloseNotice(f), TRUE)
        /\ ClearSlot(f)
        /\ Resume(currSockSet \ {f}, loopRunning)
        /\ UNCHANGED <<backlog, orgSockSet, conn, newfd, loopRunning>>
     \/ DiesSending(CloseNotice(f), TRUE)

\* recv returned 0: as for "bye", then main clears and closes the descriptor.
\* The CloseConnectionIfExists of main finds a zeroed slot.
HandleEndOfStream == \E f \in Fd :
  /\ Scanning(f)
  /\ EndOfStream(conn[f])
  /\ LET out == CloseNotice(f)
     IN  \/ /\ \A i \in DOMAIN out : ~SendFails(out[i].to)
            /\ s2c' = AfterSends(out).queue
            /\ link' = [AfterSends(out).link EXCEPT ![conn[f]] = "closed"]
            /\ ClearSlot(f)
            /\ orgSockSet' = orgSockSet \ {f}
            /\ conn' = [conn EXCEPT ![f] = None]
            /\ Resume(currSockSet \ {f}, loopRunning)
            /\ UNCHANGED <<c2s, backlog, newfd, loopRunning>>
         \/ DiesSending(out, TRUE)

\* A text goes to the partner, behind the sender's name; with no partner it is
\* dropped.  to: the partner its author meant, which no message carries.
HandleText == \E f \in Fd :
  /\ Receives(f, "text")
  /\ LET text == [kind |-> "text", from |-> username[f],
                  to |-> Head(c2s[conn[f]]).to]
         out == IF sockfd[f] \in valid
                THEN <<[to |-> conn[sockfd[f]], msg |-> text]>> ELSE <<>>
     IN  KeepTable(f, out, TRUE) \/ DiesSending(out, TRUE)

HandleMessage ==
  \/ RecvFailure
  \/ HandleRequest
  \/ HandleConnectIgnored
  \/ HandleConnectRefused
  \/ HandleConnectAccepted
  \/ HandleBye
  \/ HandleEndOfStream
  \/ HandleText

ServerNext ==
  \/ Select
  \/ Keyboard
  \/ EndOfProgram
  \/ Accept
  \/ SaveUserNameOfClient
  \/ SaveUserNameOfGoneClient
  \/ HandleMessage

----------------------------------------------------------------------------
ServerTypeOK ==
  /\ valid \subseteq Slot /\ busy \subseteq Slot
  /\ username \in [Slot -> Name]
  /\ sockfd \in [Slot -> Slot]
  /\ orgSockSet \subseteq {STDIN, servSock} \cup Fd
  /\ currSockSet \subseteq orgSockSet
  /\ conn \in [Fd -> Clients \cup {None}]
  /\ newfd \in Fd \cup {0}
  /\ loopRunning \in BOOLEAN
  /\ pc \in {"select", "scan", "username", "closing", "exit", "crash"}
=============================================================================
