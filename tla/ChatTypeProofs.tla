--------------------------- MODULE ChatTypeProofs ---------------------------
(***************************************************************************)
(* The proof that every variable of the chat system keeps its type, for    *)
(* any number of clients whose descriptors fit the table.                  *)
(*                                                                         *)
(* TypeOK is not inductive: SaveUserNameOfClient stores whatever the first *)
(* message holds where a name would be, so that message must be the name.  *)
(* It is, because a newcomer, a client without a slot, has been sent       *)
(* nothing and its user can type nothing else before the welcome.          *)
(* The types then give that no call of a round of the scan can block.      *)
(***************************************************************************)
EXTENDS ChatProofs

\* Clients that have connected and have no slot yet.
Newcomers == {backlog[i] : i \in 1..Len(backlog)}
             \cup {c \in Clients : newfd # 0 /\ conn[newfd] = c}

OffInv == \A c \in Clients :
  phase[c] = "off" => link[c] = "none" /\ c2s[c] = <<>> /\ s2c[c] = <<>>

NewcomerInv == \A c \in Newcomers :
  /\ phase[c] \notin {"off", "chatting", "leaving"}
  /\ s2c[c] = <<>>
  /\ \A i \in 1..Len(c2s[c]) : c2s[c][i].kind = "name"

DataType ==
  /\ c2s \in [Clients -> Seq(ClientMsg)]
  /\ s2c \in [Clients -> Seq(ServerMsg)]
  /\ username \in [Slot -> Name]
  /\ loopRunning \in BOOLEAN
  /\ pc \in {"select", "scan", "username", "closing", "exit", "crash"}
  /\ phase \in [Clients -> Phase]
  /\ screen \in [Clients -> Name]

TypeInv == DataType /\ OffInv /\ NewcomerInv

----------------------------------------------------------------------------
(* Messages. *)

LEMMA NameFacts == NoName \in Name /\ LineName \in Name /\ \A c \in Clients : NameOf[c] \in Name
BY ServerAssumption

\* The fields a handler reads from a message are names.
LEMMA ClientMsgFields ==
  ASSUME NEW m \in ClientMsg
  PROVE  /\ m.kind \in {"name", "connect"} => m.name \in Name
         /\ m.kind = "text" => m.to \in Name
<1>1. CASE m \in [kind : {"name", "connect"}, name : Name]
  BY <1>1
<1>2. CASE m \in [kind : {"request", "bye"}]
  BY <1>2
<1>3. CASE m \in [kind : {"text"}, to : Name]
  BY <1>3
<1> QED BY <1>1, <1>2, <1>3 DEF ClientMsg

LEMMA ServerMsgFields ==
  ASSUME NEW m \in ServerMsg, m.kind = "connected"
  PROVE  m.name \in Name
<1>1. CASE m \in [kind : {"welcome", "list"}, names : SUBSET Name]
  BY <1>1
<1>2. CASE m \in [kind : {"connected"}, name : Name]
  BY <1>2
<1>3. CASE m \in [kind : {"error"}, text : {"Invalid User.", "Invalid Operation.",
                                            "User is busy."}]
  BY <1>3
<1>4. CASE m \in [kind : {"bye"}]
  BY <1>4
<1>5. CASE m \in [kind : {"text"}, from : Name, to : Name]
  BY <1>5
<1> QED BY <1>1, <1>2, <1>3, <1>4, <1>5 DEF ServerMsg

\* The new queues after the sends of a handler.
LEMMA AfterSendsQueue ==
  ASSUME s2c \in [Clients -> Seq(ServerMsg)], NEW out,
         \A i \in DOMAIN out : out[i].msg \in ServerMsg
  PROVE  /\ AfterSends(out).queue \in [Clients -> Seq(ServerMsg)]
         /\ \A c \in Clients : link[c] # "open" \/ ~SentTo(out, c)
                                 => AfterSends(out).queue[c] = s2c[c]
<1>1. ASSUME NEW c \in Clients, SentTo(out, c) PROVE MsgTo(out, c) \in ServerMsg
  BY <1>1 DEF SentTo, MsgTo
<1>2. ASSUME NEW c \in Clients
      PROVE  AfterSends(out).queue[c] \in Seq(ServerMsg)
  <2>1. s2c[c] \in Seq(ServerMsg)
    OBVIOUS
  <2>2. CASE SentTo(out, c) /\ link[c] = "open"
    <3>1. Append(s2c[c], MsgTo(out, c)) \in Seq(ServerMsg)
      BY <2>1, <2>2, <1>1, AppendProperties
    <3> QED BY <2>2, <3>1 DEF AfterSends
  <2>3. CASE ~(SentTo(out, c) /\ link[c] = "open")
    BY <2>1, <2>3 DEF AfterSends
  <2> QED BY <2>2, <2>3
<1>3. AfterSends(out).queue = [c \in Clients |-> AfterSends(out).queue[c]]
  BY DEF AfterSends
<1>4. AfterSends(out).queue \in [Clients -> Seq(ServerMsg)]
  BY <1>2, <1>3
<1> QED BY <1>4 DEF AfterSends

LEMMA SubSeqTail ==
  ASSUME NEW S, NEW s \in Seq(S), NEW k \in 1..Len(s)
  PROVE  /\ SubSeq(s, k + 1, Len(s)) \in Seq(S)
         /\ \A i \in 1..Len(SubSeq(s, k + 1, Len(s))) :
              \E j \in 1..Len(s) : SubSeq(s, k + 1, Len(s))[i] = s[j]
<1>1. Len(s) \in Nat /\ k \in Nat /\ k <= Len(s) /\ k >= 1
  BY LenProperties
<1>2. ASSUME NEW i \in (k + 1)..Len(s) PROVE s[i] \in S
  BY <1>1, ElementOfSeq
<1>3. /\ SubSeq(s, k + 1, Len(s)) \in Seq(S)
      /\ Len(SubSeq(s, k + 1, Len(s))) = IF k + 1 <= Len(s) THEN Len(s) - k ELSE 0
      /\ \A i \in 1..(Len(s) - k) : SubSeq(s, k + 1, Len(s))[i] = s[k + i]
  BY <1>1, <1>2, SubSeqProperties
<1>4. ASSUME NEW i \in 1..Len(SubSeq(s, k + 1, Len(s)))
      PROVE  i \in 1..(Len(s) - k) /\ k + i \in 1..Len(s)
  BY <1>1, <1>3, <1>4
<1> QED BY <1>3, <1>4

\* The queues after a recv of the server: typed, and each a part of what it was.
LEMMA TakenQueue ==
  ASSUME c2s \in [Clients -> Seq(ClientMsg)], NEW f, conn[f] \in Clients, Take(f)
  PROVE  /\ c2s' \in [Clients -> Seq(ClientMsg)]
         /\ \A c \in Clients : c2s[c] = <<>> => c2s'[c] = <<>>
         /\ \A c \in Clients : \A i \in 1..Len(c2s'[c]) :
              \E j \in 1..Len(c2s[c]) : c2s'[c][i] = c2s[c][j]
<1>1. PICK k \in Chunks(conn[f]) : c2s' = Taken(conn[f], k)
  BY DEF Take
<1>2. k \in 1..Len(c2s[conn[f]])
  BY <1>1, ChunkAssumption DEF Chunks
<1>3. c2s' = [c2s EXCEPT ![conn[f]] = SubSeq(c2s[conn[f]], k + 1, Len(c2s[conn[f]]))]
  BY <1>1 DEF Taken
<1>4. c2s[conn[f]] # <<>>
  BY <1>2
<1>5. c2s[conn[f]] \in Seq(ClientMsg)
  OBVIOUS
<1>6. /\ c2s'[conn[f]] \in Seq(ClientMsg)
      /\ \A i \in 1..Len(c2s'[conn[f]]) :
           \E j \in 1..Len(c2s[conn[f]]) : c2s'[conn[f]][i] = c2s[conn[f]][j]
  <2>1. c2s'[conn[f]] = SubSeq(c2s[conn[f]], k + 1, Len(c2s[conn[f]]))
    BY <1>3
  <2> QED BY <1>2, <1>5, <2>1, SubSeqTail
<1>7. ASSUME NEW c \in Clients, c # conn[f] PROVE c2s'[c] = c2s[c]
  BY <1>3, <1>7
<1>8. c2s' \in [Clients -> Seq(ClientMsg)]
  BY <1>3, <1>6
<1> QED BY <1>4, <1>6, <1>7, <1>8

----------------------------------------------------------------------------
(* The server. *)

\* A client behind a watched descriptor is no newcomer.
LEMMA WatchedIsOld ==
  ASSUME TableInv, NEW g \in Fd, conn[g] # None, g # newfd
  PROVE  conn[g] \in Clients \ Newcomers
<1>1. conn[g] \in Clients
  BY DEF TableInv, TableType
<1>2. \A i \in 1..Len(backlog) : conn[g] # backlog[i]
  BY DEF TableInv, NetInv
<1>3. newfd # 0 => newfd \in Fd /\ conn[newfd] # conn[g]
  BY DEF TableInv, TableType, SlotLifecycle
<1> QED BY <1>1, <1>2, <1>3 DEF Newcomers

LEMMA EndKeepsTypes ==
  ASSUME TypeInv, NEW how \in {"exit", "crash"}, ProcessEnds(how), UNCHANGED clientVars
  PROVE  TypeInv'
<1> USE DEF TypeInv, ProcessEnds, AllClosed, clientVars
<1>1. DataType'
  <2>1. c2s' \in [Clients -> Seq(ClientMsg)] /\ s2c' \in [Clients -> Seq(ServerMsg)]
    OBVIOUS
  <2>2. username' \in [Slot -> Name] /\ pc' \in {"exit", "crash"} /\ loopRunning' = FALSE
    BY NameFacts
  <2> QED BY <2>1, <2>2 DEF DataType
<1>2. OffInv'
  BY DEF OffInv
<1>3. NewcomerInv'
  BY DEF NewcomerInv, Newcomers
<1> QED BY <1>1, <1>2, <1>3

\* A step of the server that takes a chunk or none, sends out and changes the
\* loop or the table.
LEMMA HandlerKeepsTypes ==
  ASSUME TypeInv, UNCHANGED clientVars, Newcomers' \subseteq Newcomers,
         Newcomers \subseteq Clients,
         UNCHANGED c2s \/ \E f : conn[f] \in Clients /\ Take(f),
         NEW out, s2c' = AfterSends(out).queue,
         \A i \in DOMAIN out : out[i].msg \in ServerMsg /\ out[i].to \notin Newcomers',
         \A c \in Clients : link[c] = "none" => link'[c] = "none",
         username' \in [Slot -> Name], loopRunning' \in BOOLEAN,
         pc' \in {"select", "scan", "username", "closing"}
  PROVE  TypeInv'
<1>1. /\ c2s' \in [Clients -> Seq(ClientMsg)]
      /\ \A c \in Clients : c2s[c] = <<>> => c2s'[c] = <<>>
      /\ \A c \in Clients : \A i \in 1..Len(c2s'[c]) :
           \E j \in 1..Len(c2s[c]) : c2s'[c][i] = c2s[c][j]
  <2>1. c2s \in [Clients -> Seq(ClientMsg)]
    BY DEF TypeInv, DataType
  <2>2. CASE UNCHANGED c2s
    BY <2>1, <2>2
  <2>3. CASE \E f : conn[f] \in Clients /\ Take(f)
    <3>1. PICK f : conn[f] \in Clients /\ Take(f)
      BY <2>3
    <3> QED BY <2>1, <3>1, TakenQueue
  <2> QED BY <2>2, <2>3
<1>2. /\ s2c' \in [Clients -> Seq(ServerMsg)]
      /\ \A c \in Clients : link[c] # "open" \/ ~SentTo(out, c) => s2c'[c] = s2c[c]
  BY AfterSendsQueue DEF TypeInv, DataType
<1>3. DataType'
  BY <1>1, <1>2 DEF TypeInv, DataType, clientVars
<1>4. OffInv'
  BY <1>1, <1>2 DEF TypeInv, OffInv, clientVars
<1>5. NewcomerInv'
  <2> SUFFICES ASSUME NEW c \in Newcomers'
               PROVE  /\ phase'[c] \notin {"off", "chatting", "leaving"}
                      /\ s2c'[c] = <<>>
                      /\ \A i \in 1..Len(c2s'[c]) : c2s'[c][i].kind = "name"
    BY DEF NewcomerInv
  <2>1. c \in Newcomers /\ c \in Clients
    OBVIOUS
  <2>2. /\ phase[c] \notin {"off", "chatting", "leaving"}
        /\ s2c[c] = <<>>
        /\ \A i \in 1..Len(c2s[c]) : c2s[c][i].kind = "name"
    BY <2>1 DEF TypeInv, NewcomerInv
  <2>3. ~SentTo(out, c)
    BY DEF SentTo
  <2>4. s2c'[c] = <<>>
    BY <1>2, <2>1, <2>2, <2>3
  <2>5. ASSUME NEW i \in 1..Len(c2s'[c]) PROVE c2s'[c][i].kind = "name"
    <3>1. PICK j \in 1..Len(c2s[c]) : c2s'[c][i] = c2s[c][j]
      BY <1>1, <2>1
    <3>2. c2s[c][j].kind = "name"
      BY <2>2
    <3> QED BY <3>1, <3>2
  <2> QED BY <2>2, <2>4, <2>5 DEF clientVars
<1> QED BY <1>3, <1>4, <1>5 DEF TypeInv

LEMMA NewcomersAreClients ==
  ASSUME TableInv
  PROVE  Newcomers \subseteq Clients
<1>1. \A i \in 1..Len(backlog) : backlog[i] \in Clients
  BY ElementOfSeq DEF TableInv, NetInv
<1> QED BY <1>1 DEF Newcomers

LEMMA LinksStay ==
  ASSUME NEW out
  PROVE  \A c \in Clients : link[c] = "none" => AfterSends(out).link[c] = "none"
BY DEF AfterSends

\* The handlers run in a scan, when the only newcomers are in the backlog.
LEMMA ScanNewcomers ==
  ASSUME TableFits, TableInv, pc = "scan"
  PROVE  /\ newfd = 0 /\ Newcomers = {backlog[i] : i \in 1..Len(backlog)}
         /\ \A g \in Fd : conn[g] # None => conn[g] \in Clients \ Newcomers
         /\ \A g \in valid : g \in Fd /\ conn[g] # None
<1>1. newfd = 0
  BY DEF TableInv, LoopInv
<1>2. \A g \in Fd : g # newfd
  BY <1>1, FdFacts
<1>3. \A g \in valid : g \in Fd /\ conn[g] # None
  BY DEF TableInv, SlotLifecycle
<1> QED BY <1>1, <1>2, <1>3, WatchedIsOld DEF Newcomers

\* out sends typed messages, and none to a newcomer.
GoodSends(out) ==
  \A i \in DOMAIN out : out[i].msg \in ServerMsg /\ out[i].to \notin Newcomers

LEMMA OneSend ==
  ASSUME NEW c, NEW m, m \in ServerMsg, c \notin Newcomers
  PROVE  GoodSends(<<[to |-> c, msg |-> m]>>)
BY DEF GoodSends

LEMMA TwoSends ==
  ASSUME NEW c, NEW d, NEW m, NEW n, {m, n} \subseteq ServerMsg, {c, d} \cap Newcomers = {}
  PROVE  GoodSends(<<[to |-> c, msg |-> m], [to |-> d, msg |-> n]>>)
BY DEF GoodSends

LEMMA KeepTableKeepsTypes ==
  ASSUME TableFits, TableInv, TypeInv, UNCHANGED clientVars, pc = "scan",
         NEW f \in Fd, conn[f] # None, NEW out, NEW checked, KeepTable(f, out, checked),
         GoodSends(out)
  PROVE  TypeInv'
<1>1. newfd = 0 /\ conn[f] \in Clients
  BY ScanNewcomers
<1>2. Newcomers' = Newcomers
  BY <1>1 DEF KeepTable, Newcomers
<1>3. /\ Take(f) /\ s2c' = AfterSends(out).queue /\ link' = AfterSends(out).link
      /\ username' = username /\ loopRunning' = loopRunning
      /\ pc' \in {"select", "scan", "closing"}
  BY DEF KeepTable, SendsDone, Resume, tableVars
<1>4. username' \in [Slot -> Name] /\ loopRunning' \in BOOLEAN
  BY <1>3 DEF TypeInv, DataType
<1> QED BY <1>1, <1>2, <1>3, <1>4, LinksStay, NewcomersAreClients, HandlerKeepsTypes
   DEF GoodSends

LEMMA DyingKeepsTypes ==
  ASSUME TypeInv, NEW out, NEW checked, DiesSending(out, checked), UNCHANGED clientVars
  PROVE  TypeInv'
BY EndKeepsTypes DEF DiesSending

\* A table change that releases nobody from the backlog: CONNECT and "bye".
LEMMA TableChangeKeepsTypes ==
  ASSUME TableFits, TableInv, TypeInv, UNCHANGED clientVars, pc = "scan",
         NEW f \in Fd, conn[f] # None, Take(f),
         NEW out, NEW checked, SendsDone(out, checked),
         GoodSends(out),
         NEW rest, Resume(rest, loopRunning),
         UNCHANGED <<backlog, newfd, loopRunning>>, username' \in [Slot -> Name]
  PROVE  TypeInv'
<1>1. newfd = 0 /\ conn[f] \in Clients
  BY ScanNewcomers
<1>2. Newcomers' = Newcomers
  BY <1>1 DEF Newcomers
<1>3. /\ s2c' = AfterSends(out).queue /\ link' = AfterSends(out).link
      /\ pc' \in {"select", "scan", "closing"}
  BY DEF SendsDone, Resume
<1>4. loopRunning' \in BOOLEAN
  BY DEF TypeInv, DataType
<1> QED BY <1>1, <1>2, <1>3, <1>4, LinksStay, NewcomersAreClients, HandlerKeepsTypes
   DEF GoodSends

LEMMA ListMsgs ==
  ASSUME TableInv, TypeInv, NEW self, NEW kind \in {"welcome", "list"}
  PROVE  [kind |-> kind, names |-> GetClientListFromDB(self)] \in ServerMsg
<1>1. GetClientListFromDB(self) \subseteq Name
  BY DEF GetClientListFromDB, TableInv, TableType, TypeInv, DataType
<1> QED BY <1>1 DEF ServerMsg

\* The notice of CloseConnectionIfExists, and to whom.
LEMMA NoticeMsgs ==
  ASSUME TableFits, TableInv, pc = "scan", NEW f
  PROVE  GoodSends(CloseNotice(f))
<1>1. [kind |-> "bye"] \in ServerMsg
  BY DEF ServerMsg
<1>2. CASE Partnered(f)
  <2>1. conn[sockfd[f]] \notin Newcomers
    BY <1>2, ScanNewcomers DEF Partnered
  <2>2. CloseNotice(f) = <<[to |-> conn[sockfd[f]], msg |-> [kind |-> "bye"]]>>
    BY <1>2 DEF CloseNotice
  <2> QED BY <1>1, <2>1, <2>2, OneSend
<1>3. CASE ~Partnered(f)
  BY <1>3 DEF CloseNotice, GoodSends
<1> QED BY <1>2, <1>3

LEMMA ClearSlotKeepsNames ==
  ASSUME TypeInv, NEW f, ClearSlot(f)
  PROVE  username' \in [Slot -> Name]
BY NameFacts DEF TypeInv, DataType, ClearSlot

\* The message a handler looks at.
LEMMA HeadMsg ==
  ASSUME TypeInv, NEW c \in Clients, c2s[c] # <<>>
  PROVE  Head(c2s[c]) \in ClientMsg
<1>1. c2s[c] \in Seq(ClientMsg)
  BY DEF TypeInv, DataType
<1> QED BY <1>1, HeadTailProperties

LEMMA AcceptKeepsTypes ==
  ASSUME TableFits, TableInv, TypeInv, UNCHANGED clientVars, Accept
  PROVE  TypeInv'
<1>1. /\ pc = "scan" /\ newfd = 0
  BY ScanNewcomers DEF Accept, Scanning
<1>2. backlog \in Seq(Clients) /\ backlog # <<>>
  BY DEF TableInv, NetInv, Accept
<1>3. \A i \in 1..Len(Tail(backlog)) :
        i + 1 \in 1..Len(backlog) /\ Tail(backlog)[i] = backlog[i + 1]
  BY <1>2, HeadTailProperties, LenProperties
<1>4. Head(backlog) = backlog[1] /\ 1 \in 1..Len(backlog)
  BY <1>2, HeadTailProperties, LenProperties
<1>5. newfd' \in Fd /\ conn'[newfd'] = Head(backlog)
  BY DEF Accept, TableInv, TableType
<1>6. Newcomers' \subseteq Newcomers
  <2>1. ASSUME NEW i \in 1..Len(backlog') PROVE backlog'[i] \in Newcomers
    BY <1>3 DEF Accept, Newcomers
  <2>2. Head(backlog) \in Newcomers
    BY <1>4 DEF Newcomers
  <2> QED BY <2>1, <2>2, <1>5 DEF Newcomers
<1>7. DataType'
  BY DEF Accept, TypeInv, DataType, clientVars, tableVars
<1>8. OffInv'
  BY DEF Accept, TypeInv, OffInv, clientVars
<1>9. NewcomerInv'
  BY <1>6 DEF Accept, TypeInv, NewcomerInv, clientVars
<1> QED BY <1>7, <1>8, <1>9 DEF TypeInv

LEMMA SaveKeepsTypes ==
  ASSUME TableFits, TableInv, TypeInv, UNCHANGED clientVars,
         AtUsername, NEW name \in Name, SaveUserName(name),
         UNCHANGED c2s \/ Take(newfd)
  PROVE  TypeInv'
<1> DEFINE msg == [kind |-> "welcome", names |-> GetClientListFromDB(newfd)]
           out == <<[to |-> conn[newfd], msg |-> msg]>>
<1>1. newfd \in Fd /\ conn[newfd] \in Clients
  BY FdFacts DEF AtUsername, TableInv, TableType, LoopInv
<1>2. newfd' = 0 /\ backlog' = backlog
  BY DEF SaveUserName
<1>3. Newcomers' \subseteq Newcomers /\ conn[newfd] \notin Newcomers'
  BY <1>1, <1>2 DEF Newcomers, TableInv, NetInv
<1>4. msg \in ServerMsg
  BY ListMsgs
<1>5. \A i \in DOMAIN out : out[i].msg \in ServerMsg /\ out[i].to \notin Newcomers'
  BY <1>3, <1>4
<1>6. /\ s2c' = AfterSends(out).queue /\ link' = AfterSends(out).link
      /\ loopRunning' = loopRunning
      /\ pc' \in {"select", "scan", "closing"}
  BY DEF SaveUserName, SendsDone, Resume
<1>7. username' \in [Slot -> Name] /\ loopRunning' \in BOOLEAN
  BY <1>6 DEF SaveUserName, TypeInv, DataType
<1> HIDE DEF out
<1> QED BY <1>1, <1>3, <1>5, <1>6, <1>7, LinksStay, NewcomersAreClients, HandlerKeepsTypes

\* The first message from a newcomer is the user name.
LEMMA NewcomerName ==
  ASSUME TableInv, TypeInv, AtUsername, conn[newfd] # None,
         c2s[conn[newfd]] # <<>>
  PROVE  Head(c2s[conn[newfd]]).name \in Name
<1> DEFINE c == conn[newfd]
<1>1. newfd # 0 /\ c \in Clients
  BY DEF AtUsername, TableInv, TableType, LoopInv
<1>2. c \in Newcomers
  BY <1>1 DEF Newcomers
<1>3. c2s[c] \in Seq(ClientMsg)
  BY <1>1 DEF TypeInv, DataType
<1>4. Head(c2s[c]) \in ClientMsg /\ Head(c2s[c]) = c2s[c][1] /\ 1 \in 1..Len(c2s[c])
  BY <1>3, HeadTailProperties, LenProperties
<1>5. Head(c2s[c]).kind = "name"
  BY <1>2, <1>4 DEF TypeInv, NewcomerInv
<1> QED BY <1>4, <1>5, ClientMsgFields

LEMMA ServerKeepsTypes ==
  ASSUME TableFits, TableInv, ScanInv, TypeInv, ServerNext, UNCHANGED clientVars
  PROVE  TypeInv'
<1> USE DEF HandleMessage
<1>0. ASSUME NEW f \in Fd, Scanning(f)
      PROVE  pc = "scan" /\ conn[f] \in Clients /\ conn[f] # None /\ conn[f] \notin Newcomers
  BY <1>0, ScannedFd, ScanNewcomers DEF ScanInv
<1>1. CASE Select
  <2>1. DataType'
    BY <1>1 DEF Select, TypeInv, DataType, netVars, tableVars, clientVars
  <2>2. OffInv'
    BY <1>1 DEF Select, TypeInv, OffInv, netVars, clientVars
  <2>3. NewcomerInv'
    BY <1>1 DEF Select, TypeInv, NewcomerInv, Newcomers, netVars, clientVars
  <2> QED BY <2>1, <2>2, <2>3 DEF TypeInv
<1>2. CASE Keyboard
  <2>1. DataType'
    BY <1>2 DEF Keyboard, Resume, TypeInv, DataType, netVars, tableVars, clientVars
  <2>2. OffInv'
    BY <1>2 DEF Keyboard, TypeInv, OffInv, netVars, clientVars
  <2>3. NewcomerInv'
    BY <1>2 DEF Keyboard, TypeInv, NewcomerInv, Newcomers, netVars, clientVars
  <2> QED BY <2>1, <2>2, <2>3 DEF TypeInv
<1>3. CASE EndOfProgram \/ RecvFailure
  BY <1>3, EndKeepsTypes DEF EndOfProgram, RecvFailure
<1>4. CASE Accept
  BY <1>4, AcceptKeepsTypes
<1>5. CASE SaveUserNameOfClient
  <2>1. conn[newfd] # None
    BY <1>5 DEF SaveUserNameOfClient, AtUsername, TableInv, LoopInv
  <2>2. Head(c2s[conn[newfd]]).name \in Name
    BY <1>5, <2>1, NewcomerName DEF SaveUserNameOfClient
  <2> QED BY <1>5, <2>2, SaveKeepsTypes DEF SaveUserNameOfClient
<1>6. CASE SaveUserNameOfGoneClient
  BY <1>6, NameFacts, SaveKeepsTypes DEF SaveUserNameOfGoneClient
<1>7. CASE HandleRequest
  <2>1. PICK f \in Fd :
          /\ Receives(f, "request")
          /\ LET list == [kind |-> "list", names |-> GetClientListFromDB(f)]
                 out == <<[to |-> conn[f], msg |-> list]>>
             IN  KeepTable(f, out, TRUE) \/ DiesSending(out, TRUE)
    BY <1>7 DEF HandleRequest
  <2> DEFINE list == [kind |-> "list", names |-> GetClientListFromDB(f)]
             out == <<[to |-> conn[f], msg |-> list]>>
  <2>2. GoodSends(out)
    BY <1>0, <2>1, ListMsgs, OneSend DEF Receives
  <2>3. KeepTable(f, out, TRUE) \/ DiesSending(out, TRUE)
    BY <2>1
  <2>4. pc = "scan" /\ conn[f] # None
    BY <1>0, <2>1 DEF Receives
  <2> HIDE DEF out
  <2> QED BY <2>2, <2>3, <2>4, KeepTableKeepsTypes, DyingKeepsTypes
<1>8. CASE HandleConnectIgnored
  <2>1. PICK f \in Fd : Receives(f, "connect") /\ KeepTable(f, <<>>, FALSE)
    BY <1>8 DEF HandleConnectIgnored
  <2>2. pc = "scan" /\ conn[f] # None
    BY <1>0, <2>1 DEF Receives
  <2>3. GoodSends(<<>>)
    BY DEF GoodSends
  <2> QED BY <2>1, <2>2, <2>3, KeepTableKeepsTypes
<1>9. CASE HandleConnectRefused
  <2>1. PICK f, name :
          /\ f \in Fd
          /\ Receives(f, "connect")
          /\ ConnectOutcome(f, name) # "connected"
          /\ LET out == <<[to |-> conn[f],
                           msg |-> [kind |-> "error", text |-> ConnectOutcome(f, name)]]>>
             IN  KeepTable(f, out, FALSE) \/ DiesSending(out, FALSE)
    BY <1>9 DEF HandleConnectRefused
  <2> DEFINE error == [kind |-> "error", text |-> ConnectOutcome(f, name)]
             out == <<[to |-> conn[f], msg |-> error]>>
  <2>2. ConnectOutcome(f, name) \in {"Invalid User.", "Invalid Operation.", "User is busy."}
    BY <2>1 DEF ConnectOutcome
  <2>3. error \in ServerMsg
    BY <2>2 DEF ServerMsg
  <2>4. pc = "scan" /\ conn[f] # None /\ conn[f] \notin Newcomers
    BY <1>0, <2>1 DEF Receives
  <2>5. GoodSends(out)
    BY <2>3, <2>4, OneSend
  <2>6. KeepTable(f, out, FALSE) \/ DiesSending(out, FALSE)
    BY <2>1
  <2> HIDE DEF out
  <2> QED BY <2>1, <2>4, <2>5, <2>6, KeepTableKeepsTypes, DyingKeepsTypes
<1>10. CASE HandleConnectAccepted
  <2>1. PICK f, g, name :
          /\ f \in Fd /\ f \in valid
          /\ Receives(f, "connect")
          /\ ConnectOutcome(f, name) = "connected" /\ g = GetUserFDByNameFromDB(name)
          /\ LET out == <<[to |-> conn[g], msg |-> [kind |-> "connected", name |-> username[f]]],
                          [to |-> conn[f], msg |-> [kind |-> "connected", name |-> username[g]]]>>
             IN  PairUp(f, g, out) \/ DiesSending(out, FALSE)
    BY <1>10 DEF HandleConnectAccepted
  <2> DEFINE out == <<[to |-> conn[g], msg |-> [kind |-> "connected", name |-> username[f]]],
                      [to |-> conn[f], msg |-> [kind |-> "connected", name |-> username[g]]]>>
  <2>2. valid \subseteq Slot
    BY DEF TableInv, TableType
  <2>3. g \in valid
    BY <2>1, <2>2, ConnectedOther
  <2>4. username[f] \in Name /\ username[g] \in Name
    BY <2>1, <2>2, <2>3 DEF TypeInv, DataType
  <2>5. pc = "scan" /\ conn[f] # None /\ conn[f] \notin Newcomers
    BY <1>0, <2>1 DEF Receives
  <2>6. conn[g] \notin Newcomers
    BY <2>3, <2>5, ScanNewcomers
  <2>7. GoodSends(out)
    <3>1. {[kind |-> "connected", name |-> username[f]],
           [kind |-> "connected", name |-> username[g]]} \subseteq ServerMsg
      BY <2>4 DEF ServerMsg
    <3> QED BY <2>5, <2>6, <3>1, TwoSends
  <2>8. PairUp(f, g, out) \/ DiesSending(out, FALSE)
    BY <2>1
  <2>9. username \in [Slot -> Name]
    BY DEF TypeInv, DataType
  <2> HIDE DEF out
  <2>10. CASE PairUp(f, g, out)
    <3>1. /\ Take(f) /\ SendsDone(out, FALSE) /\ Resume(currSockSet \ {f}, loopRunning)
          /\ UNCHANGED <<backlog, newfd, loopRunning>> /\ username' = username
      BY <2>10 DEF PairUp
    <3>2. username' \in [Slot -> Name]
      BY <2>9, <3>1
    <3> QED BY <2>1, <2>5, <2>7, <3>1, <3>2, TableChangeKeepsTypes
  <2> QED BY <2>8, <2>10, DyingKeepsTypes
<1>11. CASE HandleBye
  <2>1. PICK f \in Fd :
          /\ Receives(f, "bye")
          /\ \/ /\ Take(f)
                /\ SendsDone(CloseNotice(f), TRUE)
                /\ ClearSlot(f)
                /\ Resume(currSockSet \ {f}, loopRunning)
                /\ UNCHANGED <<backlog, orgSockSet, conn, newfd, loopRunning>>
             \/ DiesSending(CloseNotice(f), TRUE)
    BY <1>11 DEF HandleBye
  <2>2. pc = "scan" /\ conn[f] # None
    BY <1>0, <2>1 DEF Receives
  <2>3. CASE DiesSending(CloseNotice(f), TRUE)
    BY <2>3, DyingKeepsTypes
  <2>4. CASE ClearSlot(f)
    BY <2>1, <2>2, <2>3, <2>4, NoticeMsgs, ClearSlotKeepsNames, TableChangeKeepsTypes
  <2> QED BY <2>1, <2>3, <2>4
<1>12. CASE HandleEndOfStream
  <2>1. PICK f \in Fd :
          /\ Scanning(f) /\ EndOfStream(conn[f])
          /\ \/ /\ s2c' = AfterSends(CloseNotice(f)).queue
                /\ link' = [AfterSends(CloseNotice(f)).link EXCEPT ![conn[f]] = "closed"]
                /\ ClearSlot(f)
                /\ Resume(currSockSet \ {f}, loopRunning)
                /\ UNCHANGED <<c2s, backlog, newfd, loopRunning>>
             \/ DiesSending(CloseNotice(f), TRUE)
    BY <1>12 DEF HandleEndOfStream
  <2>2. pc = "scan" /\ conn[f] \in Clients
    BY <1>0, <2>1
  <2>3. CASE DiesSending(CloseNotice(f), TRUE)
    BY <2>3, DyingKeepsTypes
  <2>4. CASE ~DiesSending(CloseNotice(f), TRUE)
    <3>1. newfd = 0 /\ newfd' = newfd /\ backlog' = backlog
      BY <2>1, <2>2, <2>4, ScanNewcomers
    <3>2. Newcomers' = Newcomers
      BY <3>1 DEF Newcomers
    <3>3. pc' \in {"select", "scan", "closing"}
      BY <2>1, <2>4 DEF Resume
    <3>4. \A c \in Clients : link[c] = "none" => link'[c] = "none"
      <4>1. link[conn[f]] # "none"
        BY <2>1 DEF EndOfStream
      <4> QED BY <2>1, <2>4, <4>1 DEF AfterSends
    <3>5. username' \in [Slot -> Name]
      BY <2>1, <2>4, ClearSlotKeepsNames
    <3>6. loopRunning' \in BOOLEAN /\ UNCHANGED c2s
      BY <2>1, <2>4 DEF TypeInv, DataType
    <3> QED BY <2>1, <2>2, <2>4, <3>2, <3>3, <3>4, <3>5, <3>6, NoticeMsgs,
               NewcomersAreClients, HandlerKeepsTypes DEF GoodSends
  <2> QED BY <2>3, <2>4
<1>13. CASE HandleText
  <2>1. PICK f, out :
          /\ f \in Fd
          /\ Receives(f, "text")
          /\ out = IF sockfd[f] \in valid
                   THEN <<[to |-> conn[sockfd[f]],
                           msg |-> [kind |-> "text", from |-> username[f],
                                    to |-> Head(c2s[conn[f]]).to]]>>
                   ELSE <<>>
          /\ KeepTable(f, out, TRUE) \/ DiesSending(out, TRUE)
    BY <1>13 DEF HandleText
  <2>2. /\ pc = "scan" /\ conn[f] \in Clients /\ conn[f] # None
        /\ c2s[conn[f]] # <<>> /\ Head(c2s[conn[f]]).kind = "text"
    BY <1>0, <2>1 DEF Receives
  <2>3. Head(c2s[conn[f]]).to \in Name
    BY <2>2, HeadMsg, ClientMsgFields
  <2>4. username[f] \in Name
    BY <2>1, FdFacts DEF TypeInv, DataType
  <2>5. [kind |-> "text", from |-> username[f], to |-> Head(c2s[conn[f]]).to] \in ServerMsg
    BY <2>3, <2>4 DEF ServerMsg
  <2>6. sockfd[f] \in valid => conn[sockfd[f]] \notin Newcomers
    BY <2>2, ScanNewcomers
  <2>7. GoodSends(out)
    <3>1. CASE sockfd[f] \in valid
      BY <2>1, <2>5, <2>6, <3>1, OneSend
    <3>2. CASE sockfd[f] \notin valid
      BY <2>1, <3>2 DEF GoodSends
    <3> QED BY <3>1, <3>2
  <2> QED BY <2>1, <2>2, <2>7, KeepTableKeepsTypes, DyingKeepsTypes
<1> QED BY <1>1, <1>2, <1>3, <1>4, <1>5, <1>6, <1>7, <1>8, <1>9, <1>10, <1>11,
           <1>12, <1>13 DEF ServerNext

----------------------------------------------------------------------------
(* The clients. *)

LEMMA GreatestOf ==
  ASSUME NEW n \in Nat, NEW S \in SUBSET (1..n), S # {}
  PROVE  \E m \in S : \A j \in S : m >= j
<1> DEFINE Z == {n - i : i \in S}
<1>1. Z # {} /\ Z \subseteq Nat
  <2>1. \A i \in S : i \in 1..n /\ n - i \in Nat
    OBVIOUS
  <2> QED BY <2>1
<1>2. PICK z \in Z : \A y \in Z : ~(<<y, z>> \in OpToRel(<, Nat))
  BY <1>1, NatLessThanWellFounded, WFMin
<1>3. PICK m \in S : z = n - m
  OBVIOUS
<1>4. ASSUME NEW j \in S PROVE m >= j
  <2>1. n - j \in Z /\ n - j \in Nat /\ z \in Nat
    BY <1>1
  <2>2. ~(n - j < z)
    BY <1>2, <2>1 DEF OpToRel
  <2> QED BY <1>3, <2>1, <2>2
<1> QED BY <1>4

\* What a client is told leaves a name on its screen.
LEMMA ToldName ==
  ASSUME NEW now \in Name, NEW chunk, NEW n \in Nat,
         chunk \in [1..n -> ServerMsg]
  PROVE  Told(now, chunk) \in Name
<1> DEFINE texts == {i \in DOMAIN chunk : chunk[i].kind = "text"}
           shown == {i \in DOMAIN chunk : \A j \in texts : i <= j}
           named == {i \in shown : chunk[i].kind = "connected"}
           last == CHOOSE i \in named : \A j \in named : i >= j
<1>1. CASE Head(chunk).kind = "bye" \/ named = {}
  BY <1>1, NameFacts DEF Told
<1>2. CASE ~(Head(chunk).kind = "bye") /\ named # {}
  <2>1. last \in named
    <3>1. named \subseteq 1..n
      OBVIOUS
    <3>2. PICK m \in named : \A j \in named : m >= j
      BY <1>2, <3>1, GreatestOf
    <3> QED BY <3>2
  <2>2. chunk[last] \in ServerMsg /\ chunk[last].kind = "connected"
    BY <2>1
  <2>3. Told(now, chunk) = chunk[last].name
    BY <1>2 DEF Told
  <2> HIDE DEF last
  <2> QED BY <2>2, <2>3, ServerMsgFields
<1> QED BY <1>1, <1>2

LEMMA ReceivedChunk ==
  ASSUME TypeInv, NEW c \in Clients, NEW k \in 1..Len(s2c[c])
  PROVE  /\ Told(screen[c], SubSeq(s2c[c], 1, k)) \in Name
         /\ SubSeq(s2c[c], k + 1, Len(s2c[c])) \in Seq(ServerMsg)
<1>1. s2c[c] \in Seq(ServerMsg) /\ screen[c] \in Name
  BY DEF TypeInv, DataType
<1>2. Len(s2c[c]) \in Nat /\ k \in Nat /\ k <= Len(s2c[c]) /\ k >= 1
  BY <1>1, LenProperties
<1>3. \A i \in 1..k : s2c[c][i] \in ServerMsg
  BY <1>1, <1>2, ElementOfSeq
<1>4. SubSeq(s2c[c], 1, k) \in Seq(ServerMsg) /\ Len(SubSeq(s2c[c], 1, k)) = k
  BY <1>2, <1>3, SubSeqProperties
<1>5. SubSeq(s2c[c], 1, k) \in [1..k -> ServerMsg]
  BY <1>4, LenProperties
<1> QED BY <1>1, <1>2, <1>5, ToldName, SubSeqTail

\* A user types at a client that has a slot.
LEMMA TypingKeepsTypes ==
  ASSUME TableInv, TypeInv, NEW c \in Clients, CanType(c), NEW m \in ClientMsg, ClientSend(c, m),
         phase' = phase \/ phase' = [phase EXCEPT ![c] = "leaving"],
         UNCHANGED <<serverVars, screen>>
  PROVE  TypeInv'
<1>1. phase[c] = "chatting" /\ c \notin Newcomers
  BY DEF CanType, TypeInv, NewcomerInv
<1>2. /\ c2s' = [c2s EXCEPT ![c] = Append(c2s[c], m)] /\ UNCHANGED <<s2c, link, backlog>>
  BY DEF ClientSend
<1>3. Newcomers' = Newcomers
  BY <1>2 DEF Newcomers, serverVars
<1>4. DataType'
  <2>1. Append(c2s[c], m) \in Seq(ClientMsg)
    BY AppendProperties DEF TypeInv, DataType
  <2>2. c2s' \in [Clients -> Seq(ClientMsg)]
    BY <1>2, <2>1 DEF TypeInv, DataType
  <2>3. phase' \in [Clients -> Phase]
    BY DEF TypeInv, DataType, Phase
  <2> QED BY <1>2, <2>2, <2>3 DEF TypeInv, DataType, serverVars
<1>5. OffInv'
  BY <1>1, <1>2 DEF TypeInv, OffInv, DataType
<1>6. NewcomerInv'
  <2> SUFFICES ASSUME NEW d \in Newcomers
               PROVE  /\ phase'[d] \notin {"off", "chatting", "leaving"}
                      /\ s2c'[d] = <<>>
                      /\ \A i \in 1..Len(c2s'[d]) : c2s'[d][i].kind = "name"
    BY <1>3 DEF NewcomerInv
  <2>1. c # d /\ d \in Clients
    BY <1>1, NewcomersAreClients
  <2>2. c2s'[d] = c2s[d] /\ s2c'[d] = s2c[d] /\ phase'[d] = phase[d]
    BY <1>2, <2>1 DEF TypeInv, DataType
  <2> QED BY <2>2 DEF TypeInv, NewcomerInv
<1> QED BY <1>4, <1>5, <1>6 DEF TypeInv

\* A client ends: its user quits, or the server has gone.
LEMMA EndClientKeepsTypes ==
  ASSUME TableInv, TypeInv, NEW c \in Clients, phase[c] # "off",
         NEW how \in {"gone", "dropped"}, EndClient(c, how),
         ClientClose(c) \/ UNCHANGED netVars, UNCHANGED serverVars
  PROVE  TypeInv'
<1>1. /\ phase' = [phase EXCEPT ![c] = how] /\ screen' = [screen EXCEPT ![c] = NoName]
      /\ c2s' = c2s /\ backlog' = backlog
  BY DEF EndClient, ClientClose, netVars
<1>2. s2c' = s2c \/ s2c' = [s2c EXCEPT ![c] = <<>>]
  BY DEF ClientClose, netVars
<1>3. \A d \in Clients : d # c => link'[d] = link[d]
  BY DEF ClientClose, netVars, TableInv, NetInv
<1>4. Newcomers' = Newcomers
  BY <1>1 DEF Newcomers, serverVars
<1>5. DataType'
  <2>1. s2c' \in [Clients -> Seq(ServerMsg)]
    <3>1. <<>> \in Seq(ServerMsg) /\ s2c \in [Clients -> Seq(ServerMsg)]
      BY DEF TypeInv, DataType
    <3> QED BY <1>2, <3>1
  <2>2. phase' \in [Clients -> Phase] /\ screen' \in [Clients -> Name]
    BY <1>1, NameFacts DEF TypeInv, DataType, Phase
  <2> QED BY <1>1, <2>1, <2>2 DEF TypeInv, DataType, serverVars
<1>6. OffInv'
  BY <1>1, <1>2, <1>3 DEF TypeInv, OffInv, DataType
<1>7. NewcomerInv'
  <2> SUFFICES ASSUME NEW d \in Newcomers
               PROVE  phase'[d] \notin {"off", "chatting", "leaving"} /\ s2c'[d] = <<>>
    BY <1>1, <1>4 DEF NewcomerInv, TypeInv
  <2>1. phase[d] \notin {"off", "chatting", "leaving"} /\ s2c[d] = <<>>
    BY DEF TypeInv, NewcomerInv
  <2>2. phase'[d] = phase[d] \/ phase'[d] = how
    BY <1>1 DEF TypeInv, DataType
  <2>3. s2c'[d] = <<>>
    <3>1. d \in Clients /\ s2c \in [Clients -> Seq(ServerMsg)]
      BY NewcomersAreClients DEF TypeInv, DataType
    <3> QED BY <1>2, <2>1, <3>1
  <2> QED BY <2>1, <2>2, <2>3
<1> QED BY <1>5, <1>6, <1>7 DEF TypeInv

LEMMA StartKeepsTypes ==
  ASSUME TableInv, TypeInv, NEW c \in Clients, Start(c)
  PROVE  TypeInv'
<1>1. /\ phase[c] = "off" /\ phase' = [phase EXCEPT ![c] = "naming"]
      /\ link' = [link EXCEPT ![c] = "open"] /\ backlog' = Append(backlog, c)
      /\ UNCHANGED <<c2s, s2c, serverVars, screen>>
  BY DEF Start, ConnectLink
<1>2. Newcomers' \subseteq Newcomers \cup {c}
  <2>1. backlog \in Seq(Clients)
    BY DEF TableInv, NetInv
  <2>2. ASSUME NEW i \in 1..Len(backlog')
        PROVE  backlog'[i] = c \/ (i \in 1..Len(backlog) /\ backlog'[i] = backlog[i])
    BY <1>1, <2>1, AppendProperties
  <2> QED BY <1>1, <2>2 DEF Newcomers, serverVars
<1>3. c2s[c] = <<>> /\ s2c[c] = <<>>
  BY <1>1 DEF TypeInv, OffInv
<1>4. DataType'
  BY <1>1 DEF TypeInv, DataType, serverVars, Phase
<1>5. OffInv'
  BY <1>1 DEF TypeInv, OffInv, DataType, TableInv, NetInv
<1>6. NewcomerInv'
  <2> SUFFICES ASSUME NEW d \in Newcomers'
               PROVE  /\ phase'[d] \notin {"off", "chatting", "leaving"}
                      /\ s2c[d] = <<>>
                      /\ \A i \in 1..Len(c2s[d]) : c2s[d][i].kind = "name"
    BY <1>1 DEF NewcomerInv
  <2>1. CASE d = c
    BY <1>1, <1>3, <2>1 DEF TypeInv, DataType
  <2>2. CASE d # c
    BY <1>1, <1>2, <2>2 DEF TypeInv, DataType, NewcomerInv
  <2> QED BY <2>1, <2>2
<1> QED BY <1>4, <1>5, <1>6 DEF TypeInv

\* The first message of a client is its user's name.
LEMMA TypeNameKeepsTypes ==
  ASSUME TableInv, TypeInv, NEW c \in Clients, TypeName(c)
  PROVE  TypeInv'
<1> DEFINE m == [kind |-> "name", name |-> NameOf[c]]
<1>1. /\ phase[c] = "naming" /\ phase' = [phase EXCEPT ![c] = "greeting"]
      /\ c2s' = [c2s EXCEPT ![c] = Append(c2s[c], m)]
      /\ UNCHANGED <<s2c, link, backlog, serverVars, screen>>
  BY DEF TypeName, ClientSend
<1>2. m \in ClientMsg /\ m.kind = "name"
  BY NameFacts DEF ClientMsg
<1> HIDE DEF m
<1>3. Newcomers' = Newcomers
  BY <1>1 DEF Newcomers, serverVars
<1>4. c2s[c] \in Seq(ClientMsg)
  BY DEF TypeInv, DataType
<1>5. DataType'
  <2>1. Append(c2s[c], m) \in Seq(ClientMsg)
    BY <1>2, <1>4, AppendProperties
  <2>2. c2s' \in [Clients -> Seq(ClientMsg)] /\ phase' \in [Clients -> Phase]
    BY <1>1, <2>1 DEF TypeInv, DataType, Phase
  <2> QED BY <1>1, <2>2 DEF TypeInv, DataType, serverVars
<1>6. OffInv'
  BY <1>1 DEF TypeInv, OffInv, DataType
<1>7. NewcomerInv'
  <2> SUFFICES ASSUME NEW d \in Newcomers
               PROVE  /\ phase'[d] \notin {"off", "chatting", "leaving"}
                      /\ s2c[d] = <<>>
                      /\ \A i \in 1..Len(c2s'[d]) : c2s'[d][i].kind = "name"
    BY <1>1, <1>3 DEF NewcomerInv
  <2>1. /\ phase[d] \notin {"off", "chatting", "leaving"} /\ s2c[d] = <<>>
        /\ \A i \in 1..Len(c2s[d]) : c2s[d][i].kind = "name"
    BY DEF TypeInv, NewcomerInv
  <2>2. phase'[d] \notin {"off", "chatting", "leaving"}
    BY <1>1, <2>1 DEF TypeInv, DataType
  <2>3. ASSUME NEW i \in 1..Len(c2s'[d]) PROVE c2s'[d][i].kind = "name"
    <3>1. CASE d = c
      <4>1. c2s'[d] = Append(c2s[c], m)
        BY <1>1, <3>1 DEF TypeInv, DataType
      <4>2. c2s'[d][i] = m \/ (i \in 1..Len(c2s[c]) /\ c2s'[d][i] = c2s[c][i])
        BY <1>2, <1>4, <4>1, AppendProperties
      <4> QED BY <1>2, <2>1, <3>1, <4>2
    <3>2. CASE d # c
      BY <1>1, <2>1, <3>2 DEF TypeInv, DataType
    <3> QED BY <3>1, <3>2
  <2> QED BY <2>1, <2>2, <2>3
<1> QED BY <1>5, <1>6, <1>7 DEF TypeInv

LEMMA ReceiveKeepsTypes ==
  ASSUME TableInv, TypeInv, NEW c \in Clients, Receive(c)
  PROVE  TypeInv'
<1>1. PICK k \in 1..Len(s2c[c]) :
        /\ s2c' = [s2c EXCEPT ![c] = SubSeq(s2c[c], k + 1, Len(s2c[c]))]
        /\ screen' = [screen EXCEPT ![c] = Told(screen[c], SubSeq(s2c[c], 1, k))]
  BY DEF Receive, ClientRecv, TypeInv, DataType
<1>2. /\ phase[c] # "off" /\ UNCHANGED <<c2s, link, backlog, serverVars>>
      /\ \A d \in Clients : d # c => phase'[d] = phase[d]
      /\ phase'[c] # "off" /\ phase' \in [Clients -> Phase]
  BY DEF Receive, ClientRecv, TypeInv, DataType, Phase
<1>3. Newcomers' = Newcomers /\ c \notin Newcomers
  BY <1>1, <1>2 DEF Newcomers, serverVars, TypeInv, NewcomerInv
<1>4. DataType'
  BY <1>1, <1>2, ReceivedChunk DEF TypeInv, DataType, serverVars
<1>5. OffInv'
  BY <1>1, <1>2 DEF TypeInv, OffInv, DataType
<1>6. NewcomerInv'
  <2> SUFFICES ASSUME NEW d \in Newcomers
               PROVE  phase'[d] = phase[d] /\ s2c'[d] = s2c[d]
    BY <1>2, <1>3 DEF NewcomerInv, TypeInv
  <2>1. d # c /\ d \in Clients
    BY <1>3, NewcomersAreClients
  <2> QED BY <1>1, <1>2, <2>1 DEF TypeInv, DataType
<1> QED BY <1>4, <1>5, <1>6 DEF TypeInv

LEMMA ClientKeepsTypes ==
  ASSUME TableInv, TypeInv, NEW c \in Clients, ClientNext(c)
  PROVE  TypeInv'
<1>1. CASE Start(c) \/ TypeName(c) \/ Receive(c)
  BY <1>1, StartKeepsTypes, TypeNameKeepsTypes, ReceiveKeepsTypes
<1>2. CASE TypeRequest(c) \/ TypeBye(c)
  <2>1. [kind |-> "request"] \in ClientMsg /\ [kind |-> "bye"] \in ClientMsg
    BY DEF ClientMsg
  <2> QED BY <1>2, <2>1, TypingKeepsTypes DEF TypeRequest, TypeBye, clientVars
<1>3. CASE TypeConnect(c)
  <2>1. PICK n \in Names : CanType(c) /\ ClientSend(c, [kind |-> "connect", name |-> n])
    BY <1>3 DEF TypeConnect
  <2>2. [kind |-> "connect", name |-> n] \in ClientMsg
    BY NameFacts DEF Names, ClientMsg
  <2> QED BY <1>3, <2>1, <2>2, TypingKeepsTypes DEF TypeConnect, clientVars
<1>4. CASE TypeText(c)
  <2>1. [kind |-> "text", to |-> screen[c]] \in ClientMsg
    BY DEF TypeInv, DataType, ClientMsg
  <2> QED BY <1>4, <2>1, TypingKeepsTypes DEF TypeText, clientVars
<1>5. CASE Close(c) \/ Interrupt(c) \/ LoseServer(c)
  BY <1>5, EndClientKeepsTypes DEF Close, Interrupt, LoseServer
<1> QED BY <1>1, <1>2, <1>3, <1>4, <1>5 DEF ClientNext

----------------------------------------------------------------------------
LEMMA InitTypes ==
  ASSUME Init
  PROVE  TypeInv
<1>1. DataType
  BY NameFacts DEF Init, NetInit, ServerInit, DataType, Phase
<1>2. OffInv /\ NewcomerInv
  BY DEF Init, NetInit, ServerInit, OffInv, NewcomerInv, Newcomers
<1> QED BY <1>1, <1>2 DEF TypeInv

LEMMA NextKeepsTypes ==
  ASSUME TableFits, TableInv, ScanInv, TypeInv, [Next]_vars
  PROVE  TypeInv'
<1>1. CASE Next
  BY <1>1, ServerKeepsTypes, ClientKeepsTypes DEF Next, ServerStep
<1>2. CASE UNCHANGED vars
  <2> USE <1>2 DEF vars, netVars, serverVars, clientVars
  <2>1. DataType'
    BY DEF TypeInv, DataType
  <2>2. OffInv' /\ NewcomerInv'
    BY DEF TypeInv, OffInv, NewcomerInv, Newcomers
  <2> QED BY <2>1, <2>2 DEF TypeInv
<1> QED BY <1>1, <1>2

\* The inductive invariant behind the next theorem, for the proofs that need
\* more of it than the types (the whole of server.c and of the client's loops).
THEOREM TypeInvariant ==
  ASSUME TableFits
  PROVE  Spec => [](TableInv /\ ScanInv /\ TypeInv)
<1>1. Init => TypeInv
  BY InitTypes
<1>2. TableInv /\ ScanInv /\ TypeInv /\ [Next]_vars => TypeInv'
  BY NextKeepsTypes
<1> QED BY <1>1, <1>2, TableInvariant, PTL DEF Spec

\* Every variable keeps its type: what the server saves as a user name is the
\* first message of its client, which is the name (server.c
\* SaveUserNameOfClient), and every message is one of those the two programs
\* know.
THEOREM TypesAreKept ==
  ASSUME TableFits
  PROVE  Spec => []TypeOK
<1>1. TableInv /\ ScanInv /\ TypeInv => TypeOK
  BY DEF TableInv, TableType, NetInv, ScanInv, TypeInv, DataType, TypeOK,
         NetTypeOK, ServerTypeOK
<1> QED BY <1>1, TypeInvariant, PTL

----------------------------------------------------------------------------
(***************************************************************************)
(* No recv or accept of a round of the scan can block: what select         *)
(* reported still holds when the loop over currSock gets there, whatever   *)
(* the handlers before it did.                                             *)
(*                                                                         *)
(* RoundStaysReady speaks of the scan; the invariant holds through the     *)
(* blocking recv of SaveUserNameOfClient as well, which is a pause of it.  *)
(***************************************************************************)
Ready(f) == conn[f] # None /\ Readable(conn[f])

RoundInv ==
  /\ pc \in {"scan", "username"} => \A f \in currSockSet \cap Fd : Ready(f)
  /\ pc = "scan" => currSockSet # {}
  /\ pc = "scan" /\ servSock \in currSockSet => backlog # <<>>

----------------------------------------------------------------------------
(* The server. *)

LEMMA TakenOther ==
  ASSUME TypeInv, NEW f, conn[f] \in Clients, Take(f),
         NEW d \in Clients, d # conn[f]
  PROVE  c2s'[d] = c2s[d]
<1>1. PICK k \in Chunks(conn[f]) : c2s' = Taken(conn[f], k)
  BY DEF Take
<1> QED BY <1>1 DEF Taken, TypeInv, DataType

LEMMA SendsLink ==
  ASSUME NEW out, NEW d \in Clients
  PROVE  AfterSends(out).link[d] \in {link[d], "finsent"}
BY DEF AfterSends

\* The handler of descriptor f ends and the round goes on without f.
LEMMA HandlerKeepsRound ==
  ASSUME TableInv, ScanInv, TypeInv, RoundInv, pc \in {"scan", "username"},
         NEW f, conn[f] \in Clients, NEW gone \in currSockSet,
         UNCHANGED c2s \/ Take(f),
         NEW out,
         \A d \in Clients \ {conn[f]} : link'[d] = AfterSends(out).link[d],
         \A g \in Fd \ {f} : conn'[g] = conn[g],
         \A g \in currSockSet \ {gone} : g # f,
         f \in Fd,
         NEW running, Resume(currSockSet \ {gone}, running),
         UNCHANGED backlog,
         pc = "username" => gone = servSock
  PROVE  RoundInv'
<1>1. currSockSet' = currSockSet \ {gone} /\ pc' \in {"scan", "select", "closing"}
  BY DEF Resume
<1>2. ASSUME NEW g \in currSockSet' \cap Fd, pc' = "scan" PROVE Ready(g)'
  <2>1. g \in currSockSet \cap Fd /\ g # f /\ Ready(g)
    BY <1>1 DEF RoundInv
  <2>2. conn[g] \in Clients /\ conn[g] # conn[f] /\ conn'[g] = conn[g]
    BY <2>1 DEF Ready, TableInv, TableType, SlotLifecycle
  <2>3. c2s'[conn[g]] = c2s[conn[g]]
    BY <2>2, TakenOther
  <2>4. link'[conn[g]] \in {link[conn[g]], "finsent"}
    BY <2>2, SendsLink
  <2> QED BY <2>1, <2>2, <2>3, <2>4 DEF Ready, Readable
<1>3. pc' = "scan" => currSockSet' # {}
  BY DEF Resume
<1>4. pc' = "scan" /\ servSock \in currSockSet' => backlog' # <<>>
  BY <1>1 DEF RoundInv
<1> QED BY <1>1, <1>2, <1>3, <1>4 DEF RoundInv

LEMMA EndKeepsRound ==
  ASSUME NEW how \in {"exit", "crash"}, ProcessEnds(how)
  PROVE  RoundInv'
BY DEF ProcessEnds, RoundInv

LEMMA DyingKeepsRound ==
  ASSUME NEW out, NEW checked, DiesSending(out, checked)
  PROVE  RoundInv'
BY EndKeepsRound DEF DiesSending

LEMMA KeepTableKeepsRound ==
  ASSUME TableInv, ScanInv, TypeInv, RoundInv, pc = "scan",
         NEW f \in currSockSet \cap Fd, conn[f] \in Clients,
         NEW out, NEW checked, KeepTable(f, out, checked)
  PROVE  RoundInv'
BY HandlerKeepsRound DEF KeepTable, SendsDone

LEMMA SelectKeepsRound ==
  ASSUME Select
  PROVE  RoundInv'
<1>1. PICK key \in {FALSE, OperatorStops} :
        /\ ReadySet(key) # {} /\ currSockSet' = ReadySet(key) /\ pc' = "scan"
        /\ UNCHANGED <<netVars, conn>>
  BY DEF Select
<1>2. \A f \in ReadySet(key) \cap Fd : f # STDIN /\ f # servSock
  BY Bounds DEF Fd, STDIN, servSock
<1>3. \A f \in ReadySet(key) \cap Fd : Ready(f)
  BY <1>2 DEF ReadySet, Ready
<1>4. servSock \in ReadySet(key) => backlog # <<>>
  BY Bounds DEF ReadySet, Fd, STDIN, servSock
<1> QED BY <1>1, <1>3, <1>4 DEF RoundInv, Ready, Readable, netVars

LEMMA AcceptKeepsRound ==
  ASSUME TableInv, RoundInv, Accept
  PROVE  RoundInv'
<1>1. /\ pc = "scan" /\ pc' = "username" /\ UNCHANGED <<c2s, link, currSockSet>>
      /\ newfd' \in Fd /\ conn[newfd'] = None
      /\ \A g \in Fd \ {newfd'} : conn'[g] = conn[g]
  BY DEF Accept, Scanning, TableInv, TableType
<1>2. ASSUME NEW g \in currSockSet \cap Fd PROVE Ready(g)'
  BY <1>1 DEF RoundInv, Ready, Readable
<1> QED BY <1>1, <1>2 DEF RoundInv

LEMMA SaveKeepsRound ==
  ASSUME TableFits, TableInv, ScanInv, TypeInv, RoundInv, servSock \in currSockSet,
         AtUsername, NEW name, SaveUserName(name), UNCHANGED c2s \/ Take(newfd)
  PROVE  RoundInv'
<1> DEFINE out == <<[to |-> conn[newfd], msg |->
                      [kind |-> "welcome", names |-> GetClientListFromDB(newfd)]]>>
<1>1. newfd \in Fd /\ conn[newfd] \in Clients /\ newfd \notin currSockSet
  BY FdFacts DEF AtUsername, TableInv, TableType, LoopInv, ScanInv
<1>2. /\ link' = AfterSends(out).link /\ conn' = conn /\ backlog' = backlog
      /\ Resume(currSockSet \ {servSock}, loopRunning) /\ pc = "username"
  BY DEF SaveUserName, SendsDone, AtUsername
<1> HIDE DEF out
<1> QED BY <1>1, <1>2, HandlerKeepsRound

\* While a user name is waited for, the listening socket is what is handled.
ListenInv == pc = "username" => servSock \in currSockSet

LEMMA NextKeepsListen ==
  ASSUME TableFits, TableInv, ListenInv, [Next]_vars
  PROVE  ListenInv'
<1>1. ASSUME NEW rest, NEW running, Resume(rest, running) PROVE ListenInv'
  BY <1>1 DEF Resume, ListenInv
<1>2. ASSUME NEW how \in {"exit", "crash"}, ProcessEnds(how) PROVE ListenInv'
  BY <1>2 DEF ProcessEnds, ListenInv
<1>3. ASSUME NEW f, NEW out, NEW checked, KeepTable(f, out, checked) PROVE ListenInv'
  BY <1>1, <1>3 DEF KeepTable
<1>4. ASSUME NEW out, NEW checked, DiesSending(out, checked) PROVE ListenInv'
  BY <1>2, <1>4 DEF DiesSending
<1>5. CASE UNCHANGED serverVars
  BY <1>5 DEF serverVars, ListenInv
<1>6. CASE Select \/ Accept
  BY <1>6 DEF Select, Accept, Scanning, ListenInv
<1>7. CASE Keyboard \/ SaveUserNameOfClient \/ SaveUserNameOfGoneClient
  BY <1>7, <1>1 DEF Keyboard, SaveUserNameOfClient, SaveUserNameOfGoneClient, SaveUserName
<1>8. CASE EndOfProgram \/ RecvFailure
  BY <1>8, <1>2 DEF EndOfProgram, RecvFailure
<1>9. CASE HandleRequest \/ HandleConnectIgnored \/ HandleConnectRefused \/ HandleText
  BY <1>9, <1>3, <1>4 DEF HandleRequest, HandleConnectIgnored, HandleConnectRefused,
                          HandleText
<1>10. CASE HandleConnectAccepted \/ HandleBye \/ HandleEndOfStream
  BY <1>10, <1>1, <1>4 DEF HandleConnectAccepted, PairUp, HandleBye, HandleEndOfStream
<1>11. CASE \E c \in Clients : ClientNext(c)
  BY <1>5, <1>11 DEF ClientNext, Start, TypeName, Receive, TypeRequest, TypeConnect,
                     TypeText, TypeBye, Close, Interrupt, LoseServer
<1> QED BY <1>5, <1>6, <1>7, <1>8, <1>9, <1>10, <1>11
        DEF Next, ServerStep, ServerNext, HandleMessage, vars

LEMMA ServerKeepsRound ==
  ASSUME TableFits, TableInv, ScanInv, ListenInv, TypeInv, RoundInv, ServerNext
  PROVE  RoundInv'
<1>0. ASSUME NEW f \in Fd, Scanning(f)
      PROVE  pc = "scan" /\ conn[f] \in Clients /\ f \in currSockSet
  BY <1>0, ScannedFd DEF ScanInv, Scanning
<1>1. CASE Select
  BY <1>1, SelectKeepsRound
<1>2. CASE Keyboard
  <2>1. pc' # "username" /\ UNCHANGED <<netVars, conn>> /\ currSockSet' \subseteq currSockSet
        /\ pc = "scan" /\ (pc' = "scan" => currSockSet' # {})
    BY <1>2 DEF Keyboard, Resume, Scanning
  <2> QED BY <2>1 DEF RoundInv, Ready, Readable, netVars
<1>3. CASE EndOfProgram \/ RecvFailure
  BY <1>3, EndKeepsRound DEF EndOfProgram, RecvFailure
<1>4. CASE Accept
  BY <1>4, AcceptKeepsRound
<1>5. CASE SaveUserNameOfClient \/ SaveUserNameOfGoneClient
  BY <1>5, SaveKeepsRound DEF SaveUserNameOfClient, SaveUserNameOfGoneClient,
                              AtUsername, ListenInv
<1>6. CASE HandleRequest \/ HandleConnectIgnored \/ HandleConnectRefused \/ HandleText
  <2>1. PICK f, out, checked :
          /\ f \in Fd /\ Scanning(f)
          /\ KeepTable(f, out, checked) \/ DiesSending(out, checked)
    BY <1>6 DEF HandleRequest, HandleConnectIgnored, HandleConnectRefused,
                HandleText, Receives
  <2> QED BY <1>0, <2>1, KeepTableKeepsRound, DyingKeepsRound
<1>7. CASE HandleConnectAccepted
  <2>1. PICK f, g, out :
          /\ f \in Fd /\ Scanning(f)
          /\ PairUp(f, g, out) \/ DiesSending(out, FALSE)
    BY <1>7 DEF HandleConnectAccepted, Receives
  <2>2. CASE PairUp(f, g, out)
    BY <1>0, <2>1, <2>2, HandlerKeepsRound DEF PairUp, SendsDone
  <2> QED BY <2>1, <2>2, DyingKeepsRound
<1>8. CASE HandleBye
  <2>1. PICK f, out :
          /\ f \in Fd /\ Scanning(f)
          /\ \/ /\ Take(f) /\ SendsDone(out, TRUE)
                /\ Resume(currSockSet \ {f}, loopRunning)
                /\ UNCHANGED <<backlog, conn>>
             \/ DiesSending(out, TRUE)
    BY <1>8 DEF HandleBye, Receives
  <2> QED BY <1>0, <2>1, DyingKeepsRound, HandlerKeepsRound DEF SendsDone
<1>9. CASE HandleEndOfStream
  <2>1. PICK f, out :
          /\ f \in Fd /\ Scanning(f)
          /\ \/ /\ link' = [AfterSends(out).link EXCEPT ![conn[f]] = "closed"]
                /\ conn' = [conn EXCEPT ![f] = None]
                /\ Resume(currSockSet \ {f}, loopRunning)
                /\ UNCHANGED <<c2s, backlog>>
             \/ DiesSending(out, TRUE)
    BY <1>9 DEF HandleEndOfStream
  <2>2. CASE DiesSending(out, TRUE)
    BY <2>2, DyingKeepsRound
  <2>3. CASE ~DiesSending(out, TRUE)
    <3>1. \A d \in Clients \ {conn[f]} : link'[d] = AfterSends(out).link[d]
      BY <2>1, <2>3 DEF AfterSends
    <3>2. \A g \in Fd \ {f} : conn'[g] = conn[g]
      BY <2>1, <2>3 DEF TableInv, TableType
    <3> QED BY <1>0, <2>1, <2>3, <3>1, <3>2, HandlerKeepsRound
  <2> QED BY <2>2, <2>3
<1> QED BY <1>1, <1>2, <1>3, <1>4, <1>5, <1>6, <1>7, <1>8, <1>9
        DEF ServerNext, HandleMessage

\* What a client does only adds to what can be read.
LEMMA ClientKeepsRound ==
  ASSUME TableInv, TypeInv, RoundInv, NEW c \in Clients, ClientNext(c)
  PROVE  RoundInv'
<1>1. UNCHANGED serverVars
  BY DEF ClientNext, Start, TypeName, Receive, TypeRequest, TypeConnect,
         TypeText, TypeBye, Close, Interrupt, LoseServer
<1>2. /\ backlog' = backlog \/ backlog' = Append(backlog, c)
      /\ \A d \in Clients : Readable(d) => Readable(d)'
  <2>1. CASE Start(c)
    <3>1. /\ backlog' = Append(backlog, c) /\ c2s' = c2s
          /\ link[c] = "none" /\ link' = [link EXCEPT ![c] = "open"]
      BY <2>1 DEF Start, ConnectLink
    <3> QED BY <3>1 DEF Readable, TableInv, NetInv
  <2>2. ASSUME NEW m, ClientSend(c, m)
        PROVE  backlog' = backlog /\ \A d \in Clients : Readable(d) => Readable(d)'
    <3>1. /\ c2s' = [c2s EXCEPT ![c] = Append(c2s[c], m)]
          /\ link' = link /\ backlog' = backlog
      BY <2>2 DEF ClientSend
    <3>2. c2s'[c] # <<>> /\ \A d \in Clients : d # c => c2s'[d] = c2s[d]
      <4>1. c2s[c] \in Seq(ClientMsg) /\ c2s'[c] = Append(c2s[c], m)
        BY <3>1 DEF TypeInv, DataType
      <4>2. c2s[c] \in Seq(ClientMsg \cup {m})
        BY <4>1, ElementOfSeq, LenProperties
      <4>3. Append(c2s[c], m) # <<>>
        BY <4>2, AppendProperties
      <4> QED BY <3>1, <4>1, <4>3 DEF TypeInv, DataType
    <3> QED BY <3>1, <3>2 DEF Readable
  <2>3. CASE TypeName(c) \/ TypeRequest(c) \/ TypeConnect(c) \/ TypeText(c) \/ TypeBye(c)
    BY <2>2, <2>3 DEF TypeName, TypeRequest, TypeConnect, TypeText, TypeBye
  <2>4. CASE Receive(c) \/ LoseServer(c)
    BY <2>4 DEF Receive, LoseServer, ClientRecv, netVars, Readable
  <2>5. CASE ClientClose(c)
    BY <2>5 DEF ClientClose, Readable, TableInv, NetInv
  <2> QED BY <2>1, <2>3, <2>4, <2>5 DEF ClientNext, Close, Interrupt
<1>3. backlog # <<>> => backlog' # <<>>
  BY <1>2, AppendProperties DEF TableInv, NetInv
<1>4. ASSUME NEW f \in Fd, Ready(f) PROVE Ready(f)'
  BY <1>1, <1>2, <1>4 DEF Ready, serverVars, TableInv, TableType
<1> QED BY <1>1, <1>3, <1>4 DEF RoundInv, serverVars

----------------------------------------------------------------------------
LEMMA NextKeepsRound ==
  ASSUME TableFits, TableInv, ScanInv, ListenInv, TypeInv, RoundInv, [Next]_vars
  PROVE  RoundInv'
<1>1. CASE Next
  BY <1>1, ServerKeepsRound, ClientKeepsRound DEF Next, ServerStep
<1>2. CASE UNCHANGED vars
  BY <1>2 DEF RoundInv, Ready, Readable, vars, netVars, serverVars
<1> QED BY <1>1, <1>2

\* No recv and no accept of a round blocks the server, whatever the handlers
\* before it in the round did: what select reported stays true (server.c main,
\* the loop over currSock).
THEOREM ScanNeverBlocks ==
  ASSUME TableFits
  PROVE  Spec => []RoundStaysReady
<1>1. Init => TypeInv /\ ListenInv /\ RoundInv
  BY InitTypes DEF Init, ServerInit, ListenInv, RoundInv
<1>2. TableInv /\ ScanInv /\ ListenInv /\ TypeInv /\ RoundInv /\ [Next]_vars
        => TypeInv' /\ ListenInv' /\ RoundInv'
  BY NextKeepsTypes, NextKeepsListen, NextKeepsRound
<1>3. RoundInv => RoundStaysReady
  BY DEF RoundInv, RoundStaysReady, Ready
<1> QED BY <1>1, <1>2, <1>3, TableInvariant, PTL DEF Spec
=============================================================================
