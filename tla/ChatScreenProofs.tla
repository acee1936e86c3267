--------------------------- MODULE ChatScreenProofs ---------------------------
(***************************************************************************)
(* The proof that what a user is told agrees with the table of the server, *)
(* for any number of clients whose descriptors fit the table.              *)
(*                                                                         *)
(* The screen lags behind the table by the messages on their way, so the   *)
(* argument is about what it will be once a number of them are received:   *)
(* a send to a client acts on the last of these screens, a recv takes the  *)
(* first of them away, and neither touches the others.                     *)
(***************************************************************************)
EXTENDS ChatTypeProofs

\* A client receives one message at a time.  With more in a chunk it looks at
\* the kind of the first and prints the rest up to a text, and the screen may
\* miss a notice.
OneAtATime == MaxClientChunk = 1

\* A user without a slot has been told nothing.
BlankInv == \A c \in Clients :
  phase[c] = "off" \/ c \in Newcomers => screen[c] = NoName

\* Without the server there is no chat, and nothing is on its way.
DownInv == ~Up => valid = {} /\ \A c \in Clients : s2c[c] = <<>>

ScreenInv == ScreenFollowsTable /\ TextsMatchScreen /\ BlankInv /\ DownInv

----------------------------------------------------------------------------
(* The screen after a sequence of messages.                                *)

News(s, n) == {i \in 1..n : s[i].kind \in {"bye", "connected"}}

\* The screen after one message that is received alone.
Shown(now, m) == IF m.kind = "bye" THEN NoName
                 ELSE IF m.kind = "connected" THEN m.name ELSE now

Latest(S) == CHOOSE i \in S : \A j \in S : i >= j

\* ScreenAfter, of any screen and any messages.
After(now, s, n) ==
  LET last == s[Latest(News(s, n))]
  IN  IF News(s, n) = {} THEN now
      ELSE IF last.kind = "bye" THEN NoName ELSE last.name

LEMMA ScreenIsAfter ==
  ASSUME NEW c, NEW n
  PROVE  ScreenAfter(c, n) = After(screen[c], s2c[c], n)
BY DEF ScreenAfter, After, News, Latest

\* The last notice decides.
LEMMA LastCounts ==
  ASSUME NEW now, NEW s, NEW n \in Nat,
         NEW m \in News(s, n), \A j \in News(s, n) : m >= j
  PROVE  After(now, s, n) = Shown(now, s[m])
<1>1. \A i \in News(s, n) : i \in Nat
  BY DEF News
<1>2. Latest(News(s, n)) = m
  <2>1. ASSUME NEW i \in News(s, n), \A j \in News(s, n) : i >= j PROVE i = m
    BY <1>1, <2>1
  <2> QED BY <2>1 DEF Latest
<1>3. s[m].kind \in {"bye", "connected"}
  BY DEF News
<1> QED BY <1>2, <1>3 DEF After, Shown

LEMMA NoneCounts ==
  ASSUME NEW now, NEW s, NEW n, News(s, n) = {}
  PROVE  After(now, s, n) = now
BY DEF After

\* One message more.
LEMMA OneMore ==
  ASSUME NEW now, NEW s, NEW n \in Nat
  PROVE  After(now, s, n + 1) = Shown(After(now, s, n), s[n + 1])
<1>1. CASE s[n + 1].kind \in {"bye", "connected"}
  <2>1. n + 1 \in News(s, n + 1) /\ \A j \in News(s, n + 1) : n + 1 >= j
    BY <1>1 DEF News
  <2>2. After(now, s, n + 1) = Shown(now, s[n + 1])
    BY <2>1, LastCounts
  <2> QED BY <1>1, <2>2 DEF Shown
<1>2. CASE s[n + 1].kind \notin {"bye", "connected"}
  <2>1. News(s, n + 1) = News(s, n)
    BY <1>2 DEF News
  <2>2. After(now, s, n + 1) = After(now, s, n)
    BY <2>1 DEF After
  <2> QED BY <1>2, <2>2 DEF Shown
<1> QED BY <1>1, <1>2

\* Only the messages received count.
LEMMA OnlyTheFirst ==
  ASSUME NEW now, NEW s, NEW t, NEW n \in Nat, \A i \in 1..n : t[i] = s[i]
  PROVE  After(now, t, n) = After(now, s, n)
<1>1. News(t, n) = News(s, n)
  BY DEF News
<1>2. CASE News(s, n) = {}
  BY <1>1, <1>2, NoneCounts
<1>3. CASE News(s, n) # {}
  <2>1. News(s, n) \subseteq 1..n
    BY DEF News
  <2>2. PICK m \in News(s, n) : \A j \in News(s, n) : m >= j
    BY <1>3, <2>1, GreatestOf
  <2>3. After(now, s, n) = Shown(now, s[m]) /\ After(now, t, n) = Shown(now, t[m])
    BY <1>1, <2>2, LastCounts
  <2>4. t[m] = s[m]
    BY <2>1
  <2> QED BY <2>3, <2>4
<1> QED BY <1>2, <1>3

\* A message received is one the screen shows already.
LEMMA FirstTaken ==
  ASSUME NEW now, NEW s, NEW t, NEW n \in Nat, \A i \in 1..n : t[i] = s[i + 1]
  PROVE  After(Shown(now, s[1]), t, n) = After(now, s, n + 1)
<1>0. /\ \A i \in 1..n : i \in News(t, n) <=> i + 1 \in News(s, n + 1)
      /\ News(t, n) \subseteq 1..n /\ News(s, n + 1) \subseteq 1..(n + 1)
  BY DEF News
<1>1. CASE News(t, n) = {}
  <2>1. News(s, n + 1) \subseteq {1}
    <3> SUFFICES ASSUME NEW j \in News(s, n + 1), j # 1 PROVE FALSE
      OBVIOUS
    <3>1. j - 1 \in 1..n /\ (j - 1) + 1 = j
      BY <1>0
    <3> QED BY <1>0, <1>1, <3>1
  <2>2. After(Shown(now, s[1]), t, n) = Shown(now, s[1])
    BY <1>1, NoneCounts
  <2>3. CASE 1 \in News(s, n + 1)
    BY <2>1, <2>2, <2>3, LastCounts
  <2>4. CASE 1 \notin News(s, n + 1)
    <3>1. News(s, n + 1) = {} /\ After(now, s, n + 1) = now
      BY <2>1, <2>4, NoneCounts
    <3>2. s[1].kind \notin {"bye", "connected"}
      BY <2>4 DEF News
    <3> QED BY <2>2, <3>1, <3>2 DEF Shown
  <2> QED BY <2>3, <2>4
<1>2. CASE News(t, n) # {}
  <2>1. PICK m \in News(t, n) : \A j \in News(t, n) : m >= j
    BY <1>0, <1>2, GreatestOf
  <2>2. m \in 1..n /\ m + 1 \in News(s, n + 1) /\ t[m] = s[m + 1]
    BY <1>0
  <2>3. \A j \in News(s, n + 1) : m + 1 >= j
    <3> SUFFICES ASSUME NEW j \in News(s, n + 1), j > 1 PROVE m + 1 >= j
      BY <1>0, <2>2
    <3>1. j - 1 \in 1..n /\ (j - 1) + 1 = j
      BY <1>0
    <3>2. j - 1 \in News(t, n)
      BY <1>0, <3>1
    <3> QED BY <2>1, <2>2, <3>1, <3>2
  <2>4. /\ After(Shown(now, s[1]), t, n) = Shown(Shown(now, s[1]), t[m])
        /\ After(now, s, n + 1) = Shown(now, s[m + 1])
    BY <2>1, <2>2, <2>3, LastCounts
  <2>5. t[m].kind \in {"bye", "connected"}
    BY DEF News
  <2> QED BY <2>2, <2>4, <2>5 DEF Shown
<1> QED BY <1>1, <1>2

\* A chunk of one message.
LEMMA ToldOne ==
  ASSUME NEW now, NEW s \in Seq(ServerMsg), s # <<>>
  PROVE  Told(now, SubSeq(s, 1, 1)) = Shown(now, s[1])
<1> DEFINE chunk == SubSeq(s, 1, 1)
<1>1. s[1] \in ServerMsg
  BY ElementOfSeq, EmptySeq, LenProperties
<1>2. chunk \in Seq(ServerMsg) /\ Len(chunk) = 1 /\ chunk[1] = s[1]
  BY <1>1, SubSeqProperties
<1>3. DOMAIN chunk = {1} /\ Head(chunk) = s[1]
  BY <1>2, LenProperties
<1> HIDE DEF chunk
<1> DEFINE texts == {i \in DOMAIN chunk : chunk[i].kind = "text"}
           shown == {i \in DOMAIN chunk : \A j \in texts : i <= j}
           named == {i \in shown : chunk[i].kind = "connected"}
<1>4. shown = {1}
  BY <1>3
<1>5. Told(now, chunk) = IF Head(chunk).kind = "bye" THEN NoName
                         ELSE IF named = {} THEN now
                         ELSE chunk[CHOOSE i \in named : \A j \in named : i >= j].name
  BY DEF Told
<1>6. ASSUME s[1].kind = "connected" PROVE Told(now, chunk) = Shown(now, s[1])
  <2>1. named = {1}
    BY <1>2, <1>4, <1>6
  <2>2. (CHOOSE i \in named : \A j \in named : i >= j) = 1
    BY <2>1
  <2> HIDE DEF named
  <2>3. named # {}
    BY <2>1
  <2> QED BY <1>2, <1>3, <1>5, <1>6, <2>2, <2>3 DEF Shown
<1>7. ASSUME s[1].kind # "connected" PROVE Told(now, chunk) = Shown(now, s[1])
  <2>1. named = {}
    BY <1>2, <1>4, <1>7
  <2> HIDE DEF named
  <2> QED BY <1>3, <1>5, <1>7, <2>1 DEF Shown
<1> QED BY <1>6, <1>7 DEF chunk

----------------------------------------------------------------------------
(* What the sends of a handler do to the screens to come.                  *)

\* The screen of c when everything sent so far is received.
AllTold(c) == ScreenAfter(c, Len(s2c[c]))

\* The same, once out is sent too.
ThenTold(out, c) ==
  IF SentTo(out, c) THEN Shown(AllTold(c), MsgTo(out, c)) ELSE AllTold(c)

\* A text that is sent names the partner its reader will see.
TextsRight(out) ==
  \A c \in Clients : link[c] = "open" /\ SentTo(out, c) /\ MsgTo(out, c).kind = "text"
                       => MsgTo(out, c).from = AllTold(c)

LEMMA QueueOf ==
  ASSUME TypeInv, NEW c \in Clients
  PROVE  s2c[c] \in Seq(ServerMsg) /\ Len(s2c[c]) \in Nat /\ DOMAIN s2c[c] = 1..Len(s2c[c])
<1>1. s2c[c] \in Seq(ServerMsg)
  BY DEF TypeInv, DataType
<1> QED BY <1>1, LenProperties

\* The queue of a client after the sends of a handler.
LEMMA SendsQueue ==
  ASSUME TypeInv, NEW out, s2c' = AfterSends(out).queue,
         \A i \in DOMAIN out : out[i].msg \in ServerMsg,
         NEW c \in Clients
  PROVE  \/ /\ link[c] = "open" /\ SentTo(out, c)
            /\ Len(s2c'[c]) = Len(s2c[c]) + 1
            /\ \A i \in 1..Len(s2c[c]) : s2c'[c][i] = s2c[c][i]
            /\ s2c'[c][Len(s2c[c]) + 1] = MsgTo(out, c)
         \/ ~(link[c] = "open" /\ SentTo(out, c)) /\ s2c'[c] = s2c[c]
<1>1. CASE link[c] = "open" /\ SentTo(out, c)
  <2>1. MsgTo(out, c) \in ServerMsg
    BY <1>1 DEF SentTo, MsgTo
  <2>2. s2c'[c] = Append(s2c[c], MsgTo(out, c))
    BY <1>1 DEF AfterSends
  <2> QED BY <1>1, <2>1, <2>2, QueueOf, AppendProperties
<1>2. CASE ~(link[c] = "open" /\ SentTo(out, c))
  BY <1>2 DEF AfterSends
<1> QED BY <1>1, <1>2

LEMMA SendsScreen ==
  ASSUME TypeInv, NEW out, s2c' = AfterSends(out).queue, screen' = screen,
         \A i \in DOMAIN out : out[i].msg \in ServerMsg,
         NEW c \in Clients, link[c] = "open"
  PROVE  AllTold(c)' = ThenTold(out, c)
<1> DEFINE n == Len(s2c[c])
<1>0. n \in Nat
  BY QueueOf
<1>1. AllTold(c) = After(screen[c], s2c[c], n)
  BY ScreenIsAfter DEF AllTold
<1>2. AllTold(c)' = After(screen[c], s2c'[c], Len(s2c'[c]))
  BY DEF AllTold, ScreenAfter, After, News, Latest
<1>3. CASE SentTo(out, c)
  <2>1. /\ Len(s2c'[c]) = n + 1 /\ s2c'[c][n + 1] = MsgTo(out, c)
        /\ \A i \in 1..n : s2c'[c][i] = s2c[c][i]
    BY <1>3, SendsQueue
  <2> HIDE DEF n
  <2>2. After(screen[c], s2c'[c], n + 1) = Shown(After(screen[c], s2c'[c], n), MsgTo(out, c))
    BY <1>0, <2>1, OneMore
  <2>3. After(screen[c], s2c'[c], n) = AllTold(c)
    BY <1>0, <1>1, <2>1, OnlyTheFirst
  <2> QED BY <1>2, <1>3, <2>1, <2>2, <2>3 DEF ThenTold
<1>4. CASE ~SentTo(out, c)
  <2>1. s2c'[c] = s2c[c]
    BY <1>4, SendsQueue
  <2> QED BY <1>1, <1>2, <1>4, <2>1 DEF ThenTold
<1> QED BY <1>3, <1>4

LEMMA SendsTexts ==
  ASSUME TypeInv, TextsMatchScreen, NEW out, s2c' = AfterSends(out).queue, screen' = screen,
         \A i \in DOMAIN out : out[i].msg \in ServerMsg,
         TextsRight(out)
  PROVE  TextsMatchScreen'
<1> SUFFICES ASSUME NEW c \in Clients, NEW i \in DOMAIN s2c'[c], s2c'[c][i].kind = "text"
             PROVE  s2c'[c][i].from = ScreenAfter(c, i - 1)'
  BY DEF TextsMatchScreen
<1>1. ScreenAfter(c, i - 1)' = After(screen[c], s2c'[c], i - 1)
  BY DEF ScreenAfter, After, News, Latest
<1> DEFINE n == Len(s2c[c])
<1>2. n \in Nat /\ DOMAIN s2c[c] = 1..n
  BY QueueOf
<1>3. DOMAIN s2c'[c] = 1..Len(s2c'[c])
  <2>1. s2c'[c] \in Seq(ServerMsg)
    BY AfterSendsQueue DEF TypeInv, DataType
  <2> QED BY <2>1, LenProperties
<1>4. \A j \in 1..n : s2c[c][j].kind = "text" =>
        s2c[c][j].from = After(screen[c], s2c[c], j - 1)
  BY <1>2, ScreenIsAfter DEF TextsMatchScreen
<1>5. n = Len(s2c[c])
  OBVIOUS
<1> HIDE DEF n
<1>6. CASE link[c] = "open" /\ SentTo(out, c)
  <2>1. /\ Len(s2c'[c]) = n + 1 /\ s2c'[c][n + 1] = MsgTo(out, c)
        /\ \A j \in 1..n : s2c'[c][j] = s2c[c][j]
    BY <1>5, <1>6, SendsQueue
  <2>2. i - 1 \in Nat /\ i - 1 <= n
    BY <1>2, <1>3, <2>1
  <2>3. After(screen[c], s2c'[c], i - 1) = After(screen[c], s2c[c], i - 1)
    BY <1>2, <2>1, <2>2, OnlyTheFirst
  <2>4. CASE i = n + 1
    <3>1. MsgTo(out, c).from = AllTold(c)
      BY <1>6, <2>1, <2>4 DEF TextsRight
    <3>2. AllTold(c) = After(screen[c], s2c[c], n)
      BY <1>5, ScreenIsAfter DEF AllTold
    <3>3. i - 1 = n
      BY <1>2, <2>4
    <3> QED BY <1>1, <2>1, <2>3, <2>4, <3>1, <3>2, <3>3
  <2>5. CASE i # n + 1
    <3>1. i \in 1..n
      BY <1>2, <1>3, <2>1, <2>5
    <3> QED BY <1>1, <1>4, <2>1, <2>3, <3>1
  <2> QED BY <2>4, <2>5
<1>7. CASE ~(link[c] = "open" /\ SentTo(out, c))
  <2>1. s2c'[c] = s2c[c]
    BY <1>7, SendsQueue
  <2> QED BY <1>1, <1>2, <1>4, <2>1
<1> QED BY <1>6, <1>7
----------------------------------------------------------------------------
(* The server. *)

LEMMA EndKeepsScreens ==
  ASSUME TableInv, ScreenInv, NEW how \in {"exit", "crash"}, ProcessEnds(how),
         UNCHANGED clientVars
  PROVE  ScreenInv'
<1> USE DEF ProcessEnds, AllClosed, clientVars
<1>1. ScreenFollowsTable' /\ TextsMatchScreen' /\ DownInv'
  BY DEF ScreenFollowsTable, TextsMatchScreen, DownInv
<1>2. Newcomers' = {}
  BY DEF Newcomers
<1>3. BlankInv'
  BY <1>2 DEF ScreenInv, BlankInv
<1> QED BY <1>1, <1>3 DEF ScreenInv

LEMMA DyingKeepsScreens ==
  ASSUME TableInv, ScreenInv, NEW out, NEW checked, DiesSending(out, checked),
         UNCHANGED clientVars
  PROVE  ScreenInv'
BY EndKeepsScreens DEF DiesSending

\* A handler that sends out, and leaves the table as its readers will see it.
LEMMA HandlerKeepsScreens ==
  ASSUME TableInv, TypeInv, ScreenInv, UNCHANGED clientVars,
         NEW out, s2c' = AfterSends(out).queue,
         \A i \in DOMAIN out : out[i].msg \in ServerMsg,
         \A c \in Clients : link'[c] = "open" => link[c] = "open",
         Newcomers' \subseteq Newcomers, Up', TextsRight(out),
         \A f \in valid' :
           conn'[f] \in Clients /\
           (link[conn'[f]] = "open" => PartnerName(f)' = ThenTold(out, conn'[f]))
  PROVE  ScreenInv'
<1> USE DEF ScreenInv, clientVars
<1>1. ScreenFollowsTable'
  <2> SUFFICES ASSUME NEW f \in valid', link'[conn'[f]] = "open"
               PROVE  After(screen'[conn'[f]], s2c'[conn'[f]], Len(s2c'[conn'[f]]))
                        = PartnerName(f)'
    BY DEF ScreenFollowsTable, ScreenAfter, After, News, Latest
  <2>1. PICK c \in Clients : c = conn'[f]
    OBVIOUS
  <2>2. link[c] = "open"
    BY <2>1
  <2>3. AllTold(c)' = ThenTold(out, c)
    BY <2>2, SendsScreen
  <2>4. AllTold(c)' = After(screen'[c], s2c'[c], Len(s2c'[c]))
    BY DEF AllTold, ScreenAfter, After, News, Latest
  <2>5. PartnerName(f)' = ThenTold(out, c)
    BY <2>1, <2>2
  <2> QED BY <2>1, <2>3, <2>4, <2>5
<1>2. TextsMatchScreen'
  BY SendsTexts
<1>3. BlankInv'
  BY DEF BlankInv
<1>4. DownInv'
  BY DEF DownInv
<1> QED BY <1>1, <1>2, <1>3, <1>4

\* The clients of valid slots that will read a message or none.
LEMMA ValidClients ==
  ASSUME TableFits, TableInv, ScreenInv, NEW f \in valid
  PROVE  /\ f \in Fd /\ f \in Slot /\ conn[f] \in Clients
         /\ link[conn[f]] = "open" => AllTold(conn[f]) = PartnerName(f)
         /\ \A g \in Fd : conn[g] = conn[f] => g = f
<1>1. f \in Fd /\ f \in Slot /\ conn[f] \in Clients
  BY FdFacts, ScannedFd DEF TableInv, TableType, SlotLifecycle
<1>2. \A g \in Fd : conn[g] = conn[f] => g = f
  BY <1>1, Bounds DEF TableInv, SlotLifecycle
<1> QED BY <1>1, <1>2 DEF ScreenInv, ScreenFollowsTable, AllTold

\* Sends that bring no notice.
NoNews(out) == \A i \in DOMAIN out : out[i].msg.kind \notin {"bye", "connected"}

LEMMA NoNewsNoChange ==
  ASSUME NEW out, NoNews(out), NEW c
  PROVE  ThenTold(out, c) = AllTold(c)
<1>1. CASE SentTo(out, c)
  <2>1. MsgTo(out, c).kind \notin {"bye", "connected"}
    BY <1>1 DEF SentTo, MsgTo, NoNews
  <2> QED BY <2>1 DEF ThenTold, Shown
<1>2. CASE ~SentTo(out, c)
  BY <1>2 DEF ThenTold
<1> QED BY <1>1, <1>2

LEMMA KeepTableKeepsScreens ==
  ASSUME TableFits, TableInv, TypeInv, ScreenInv, UNCHANGED clientVars, pc = "scan",
         NEW f \in Fd, NEW out, NEW checked, KeepTable(f, out, checked),
         GoodSends(out), NoNews(out), TextsRight(out)
  PROVE  ScreenInv'
<1>1. /\ UNCHANGED <<backlog, valid, username, sockfd, conn, newfd>>
      /\ s2c' = AfterSends(out).queue /\ link' = AfterSends(out).link
      /\ pc' \in {"select", "scan", "closing"}
  BY DEF KeepTable, SendsDone, Resume, tableVars
<1>2. \A c \in Clients : link'[c] = "open" => link[c] = "open"
  BY <1>1 DEF AfterSends
<1>3. Newcomers' = Newcomers /\ Up'
  BY <1>1 DEF Newcomers, Up
<1>4. ASSUME NEW g \in valid'
      PROVE  /\ conn'[g] \in Clients
             /\ link[conn'[g]] = "open" => PartnerName(g)' = ThenTold(out, conn'[g])
  <2>1. g \in valid /\ conn'[g] = conn[g] /\ PartnerName(g)' = PartnerName(g)
    BY <1>1 DEF PartnerName
  <2> QED BY <2>1, ValidClients, NoNewsNoChange
<1> QED BY <1>1, <1>2, <1>3, <1>4, HandlerKeepsScreens DEF GoodSends
LEMMA OneSent ==
  ASSUME NEW c, NEW m, NEW d
  PROVE  /\ SentTo(<<[to |-> c, msg |-> m]>>, d) <=> d = c
         /\ MsgTo(<<[to |-> c, msg |-> m]>>, c) = m
BY DEF SentTo, MsgTo

LEMMA TwoSent ==
  ASSUME NEW c, NEW m, NEW d, NEW n, c # d, NEW e,
         NEW out, out = <<[to |-> c, msg |-> m], [to |-> d, msg |-> n]>>
  PROVE  /\ SentTo(out, e) <=> e \in {c, d}
         /\ MsgTo(out, c) = m /\ MsgTo(out, d) = n
<1>1. /\ DOMAIN out = {1, 2}
      /\ out[1].to = c /\ out[1].msg = m /\ out[2].to = d /\ out[2].msg = n
  OBVIOUS
<1>2. \A i \in DOMAIN out : (out[i].to = c <=> i = 1) /\ (out[i].to = d <=> i = 2)
  BY <1>1
<1> QED BY <1>1, <1>2 DEF SentTo, MsgTo

\* SendConnResponse tells each of the two the name of the other.
LEMMA PairUpKeepsScreens ==
  ASSUME TableFits, TableInv, TypeInv, ScreenInv, UNCHANGED clientVars, pc = "scan",
         NEW f \in valid, NEW g \in valid, f # g, sockfd[f] = 0, sockfd[g] = 0,
         NEW m, m = [kind |-> "connected", name |-> username[f]],
         NEW n, n = [kind |-> "connected", name |-> username[g]],
         NEW out, out = <<[to |-> conn[g], msg |-> m], [to |-> conn[f], msg |-> n]>>,
         PairUp(f, g, out), GoodSends(out)
  PROVE  ScreenInv'
<1>1. /\ UNCHANGED <<backlog, valid, username, conn, newfd>>
      /\ sockfd' = [sockfd EXCEPT ![f] = g, ![g] = f]
      /\ s2c' = AfterSends(out).queue /\ link' = AfterSends(out).link
      /\ pc' \in {"select", "scan", "closing"}
  BY DEF PairUp, SendsDone, Resume
<1>2. \A c \in Clients : link'[c] = "open" => link[c] = "open"
  BY <1>1 DEF AfterSends
<1>3. Newcomers' = Newcomers /\ Up'
  BY <1>1 DEF Newcomers, Up
<1>4. /\ conn[g] # conn[f] /\ f # 0 /\ g # 0
      /\ \A c : SentTo(out, c) <=> c \in {conn[g], conn[f]}
      /\ MsgTo(out, conn[g]) = m /\ MsgTo(out, conn[f]) = n
  <2>1. conn[g] # conn[f] /\ f # 0 /\ g # 0
    BY ValidClients, FdFacts
  <2> QED BY <2>1, TwoSent
<1>5. m.kind = "connected" /\ n.kind = "connected" /\ m.name = username[f] /\ n.name = username[g]
  OBVIOUS
<1>6. TextsRight(out)
  BY <1>4, <1>5 DEF TextsRight
<1>7. ASSUME NEW h \in valid'
      PROVE  /\ conn'[h] \in Clients
             /\ link[conn'[h]] = "open" => PartnerName(h)' = ThenTold(out, conn'[h])
  <2>0. h \in valid /\ conn'[h] = conn[h] /\ f \in Slot /\ g \in Slot /\ h \in Slot
        /\ sockfd \in [Slot -> Slot]
    BY <1>1, ValidClients DEF TableInv, TableType
  <2>1. CASE h = f
    BY <1>1, <1>4, <1>5, <2>0, <2>1, ValidClients DEF PartnerName, ThenTold, Shown
  <2>2. CASE h = g
    BY <1>1, <1>4, <1>5, <2>0, <2>2, ValidClients DEF PartnerName, ThenTold, Shown
  <2>3. CASE h \notin {f, g}
    <3>1. conn[h] \notin {conn[f], conn[g]}
      BY <2>0, <2>3, ValidClients
    <3>2. PartnerName(h)' = PartnerName(h)
      BY <1>1, <2>0, <2>3 DEF PartnerName
    <3> QED BY <1>4, <2>0, <3>1, <3>2, ValidClients DEF ThenTold
  <2> QED BY <2>1, <2>2, <2>3
<1> QED BY <1>1, <1>2, <1>3, <1>6, <1>7, HandlerKeepsScreens DEF GoodSends

\* CloseConnectionIfExists tells the partner, and only the partner's entry in
\* the table changes; the leaver's goes.
LEMMA LeavingKeepsScreens ==
  ASSUME TableFits, TableInv, TypeInv, ScreenInv, UNCHANGED clientVars,
         NEW f \in Fd, conn[f] # None, ClearSlot(f), \A h \in Fd : h # f => conn'[h] = conn[h],
         NEW out, out = CloseNotice(f), s2c' = AfterSends(out).queue, GoodSends(out),
         \A c \in Clients : link'[c] = "open" => link[c] = "open",
         Newcomers' \subseteq Newcomers, Up'
  PROVE  ScreenInv'
<1> USE FdFacts
<1>1. /\ valid' = valid \ {f} /\ f \in Slot
      /\ username' = [username EXCEPT ![f] = NoName]
  BY DEF ClearSlot
<1>2. /\ sockfd \in [Slot -> Slot] /\ DOMAIN username = Slot
      /\ \A h \in valid : sockfd[h] # 0 => /\ sockfd[h] \in valid /\ sockfd[h] # h
                                            /\ sockfd[sockfd[h]] = h
      /\ sockfd[f] # 0 => sockfd[f] \in valid /\ sockfd[f] # f /\ sockfd[sockfd[f]] = f
  BY DEF TableInv, TableType, PairingSound
<1>3. CASE Partnered(f)
  <2> DEFINE g == sockfd[f]
             m == [kind |-> "bye"]
  <2>1. /\ g \in valid /\ g # f /\ g \in Slot /\ g # 0 /\ sockfd[g] = f
        /\ sockfd' = [sockfd EXCEPT ![g] = 0, ![f] = 0]
    BY <1>2, <1>3, ValidClients DEF ClearSlot, Partnered
  <2>2. out = <<[to |-> conn[g], msg |-> m]>>
    BY <1>3 DEF CloseNotice
  <2>3. m.kind = "bye"
    OBVIOUS
  <2> HIDE DEF m
  <2>4. /\ \A c : SentTo(out, c) <=> c = conn[g]
        /\ MsgTo(out, conn[g]) = m
    BY <2>2, OneSent
  <2>5. TextsRight(out)
    BY <2>3, <2>4 DEF TextsRight
  <2>6. ASSUME NEW h \in valid'
        PROVE  /\ conn'[h] \in Clients
               /\ link[conn'[h]] = "open" => PartnerName(h)' = ThenTold(out, conn'[h])
    <3>1. h \in valid /\ h # f /\ h \in Fd /\ h \in Slot /\ conn'[h] = conn[h]
      BY <1>1, ValidClients
    <3>2. CASE h = g
      <4>1. sockfd'[h] = 0
        BY <1>2, <2>1, <3>1, <3>2
      <4>2. PartnerName(h)' = NoName
        BY <4>1 DEF PartnerName
      <4>3. ThenTold(out, conn[h]) = NoName
        BY <2>3, <2>4, <3>2 DEF ThenTold, Shown
      <4> QED BY <3>1, <4>2, <4>3, ValidClients
    <3>3. CASE h # g
      <4>1. conn[h] # conn[g]
        BY <2>1, <3>1, <3>3, ValidClients
      <4>2. sockfd'[h] = sockfd[h] /\ sockfd[h] # f
        BY <1>2, <2>1, <3>1, <3>3
      <4>3. PartnerName(h)' = PartnerName(h)
        BY <1>1, <1>2, <3>1, <4>2 DEF PartnerName
      <4> QED BY <2>4, <3>1, <4>1, <4>3, ValidClients DEF ThenTold
    <3> QED BY <3>2, <3>3
  <2> QED BY <2>5, <2>6, HandlerKeepsScreens DEF GoodSends
<1>4. CASE ~Partnered(f)
  <2>1. sockfd[f] = 0 /\ sockfd' = sockfd
    BY <1>2, <1>4 DEF ClearSlot, Partnered
  <2>2. \A c : ~SentTo(out, c)
    BY <1>4 DEF CloseNotice, SentTo
  <2>3. ASSUME NEW h \in valid'
        PROVE  /\ conn'[h] \in Clients
               /\ link[conn'[h]] = "open" => PartnerName(h)' = ThenTold(out, conn'[h])
    <3>1. h \in valid /\ h # f /\ h \in Fd /\ h \in Slot /\ conn'[h] = conn[h]
      BY <1>1, ValidClients
    <3>2. sockfd[h] # f
      BY <1>2, <2>1, <3>1
    <3>3. PartnerName(h)' = PartnerName(h)
      BY <1>1, <1>2, <2>1, <3>1, <3>2 DEF PartnerName
    <3> QED BY <2>2, <3>1, <3>3, ValidClients DEF ThenTold
  <2> QED BY <2>2, <2>3, HandlerKeepsScreens DEF GoodSends, TextsRight
<1> QED BY <1>3, <1>4

\* A newcomer has been told nothing, and is in no chat.
LEMMA SaveKeepsScreens ==
  ASSUME TableFits, TableInv, TypeInv, ScreenInv, UNCHANGED clientVars,
         AtUsername, NEW name, SaveUserName(name)
  PROVE  ScreenInv'
<1> DEFINE c == conn[newfd]
           msg == [kind |-> "welcome", names |-> GetClientListFromDB(newfd)]
           out == <<[to |-> c, msg |-> msg]>>
<1>1. /\ newfd \in Fd /\ newfd \in Slot /\ newfd # 0 /\ c \in Clients
      /\ newfd \notin valid /\ sockfd[newfd] = 0 /\ sockfd \in [Slot -> Slot]
      /\ DOMAIN username = Slot
  BY FdFacts DEF AtUsername, TableInv, TableType, LoopInv, SlotLifecycle
<1>2. /\ UNCHANGED <<backlog, conn>> /\ newfd' = 0 /\ valid' = valid \cup {newfd}
      /\ sockfd' = [sockfd EXCEPT ![newfd] = 0]
      /\ username' = [username EXCEPT ![newfd] = name]
      /\ s2c' = AfterSends(out).queue /\ link' = AfterSends(out).link
      /\ pc' \in {"select", "scan", "closing"}
  BY DEF SaveUserName, SendsDone, Resume
<1>3. \A d \in Clients : link'[d] = "open" => link[d] = "open"
  BY <1>2 DEF AfterSends
<1>4. Newcomers' \subseteq Newcomers /\ c \in Newcomers /\ Up'
  BY <1>1, <1>2 DEF Newcomers, Up
<1>5. AllTold(c) = NoName
  <2>1. s2c[c] = <<>> /\ screen[c] = NoName
    BY <1>1, <1>4 DEF TypeInv, NewcomerInv, ScreenInv, BlankInv
  <2>2. Len(s2c[c]) = 0
    BY <2>1
  <2>3. News(s2c[c], 0) = {}
    BY DEF News
  <2> QED BY <2>1, <2>2, <2>3, ScreenIsAfter, NoneCounts DEF AllTold
<1>6. msg \in ServerMsg
  BY ListMsgs
<1>7. msg.kind = "welcome"
  OBVIOUS
<1> HIDE DEF msg
<1>8. \A i \in DOMAIN out : out[i].msg = msg
  OBVIOUS
<1>9. /\ NoNews(out) /\ \A i \in DOMAIN out : out[i].msg \in ServerMsg
      /\ TextsRight(out)
  BY <1>6, <1>7, <1>8 DEF NoNews, TextsRight, SentTo, MsgTo
<1> HIDE DEF out
<1>10. ASSUME NEW h \in valid'
       PROVE  /\ conn'[h] \in Clients
              /\ link[conn'[h]] = "open" => PartnerName(h)' = ThenTold(out, conn'[h])
  <2>1. CASE h = newfd
    BY <1>1, <1>2, <1>5, <1>9, <2>1, NoNewsNoChange DEF PartnerName
  <2>2. CASE h # newfd
    <3>1. h \in valid /\ conn'[h] = conn[h] /\ h \in Slot
      BY <1>2, <2>2, ValidClients
    <3>2. sockfd'[h] = sockfd[h] /\ sockfd[h] # newfd
      BY <1>1, <1>2, <2>2, <3>1 DEF TableInv, PairingSound
    <3>3. PartnerName(h)' = PartnerName(h)
      BY <1>1, <1>2, <3>1, <3>2 DEF PartnerName
    <3> QED BY <1>9, <3>1, <3>3, ValidClients, NoNewsNoChange
  <2> QED BY <2>1, <2>2
<1> QED BY <1>2, <1>3, <1>4, <1>9, <1>10, HandlerKeepsScreens
\* A step that changes neither what is told nor the table.
LEMMA QuietKeepsScreens ==
  ASSUME ScreenInv, UNCHANGED <<s2c, screen, valid, username, sockfd>>,
         \A f \in valid : /\ conn'[f] = conn[f]
                          /\ link'[conn[f]] = "open" => link[conn[f]] = "open",
         Up' \/ UNCHANGED pc, BlankInv'
  PROVE  ScreenInv'
<1> USE DEF ScreenInv
<1>1. ScreenFollowsTable'
  <2> SUFFICES ASSUME NEW f \in valid', link'[conn'[f]] = "open"
               PROVE  After(screen'[conn'[f]], s2c'[conn'[f]], Len(s2c'[conn'[f]]))
                        = PartnerName(f)'
    BY DEF ScreenFollowsTable, ScreenAfter, After, News, Latest
  <2>1. f \in valid /\ conn'[f] = conn[f] /\ link[conn[f]] = "open"
    OBVIOUS
  <2>2. PartnerName(f)' = PartnerName(f)
    BY DEF PartnerName
  <2>3. After(screen[conn[f]], s2c[conn[f]], Len(s2c[conn[f]])) = PartnerName(f)
    BY <2>1, ScreenIsAfter DEF ScreenFollowsTable
  <2> QED BY <2>1, <2>2, <2>3
<1>2. TextsMatchScreen'
  <2> SUFFICES ASSUME NEW c \in Clients, NEW i \in DOMAIN s2c'[c], s2c'[c][i].kind = "text"
               PROVE  s2c'[c][i].from = After(screen'[c], s2c'[c], i - 1)
    BY DEF TextsMatchScreen, ScreenAfter, After, News, Latest
  <2>1. s2c[c][i].from = After(screen[c], s2c[c], i - 1)
    BY ScreenIsAfter DEF TextsMatchScreen
  <2> QED BY <2>1
<1>3. DownInv'
  BY DEF DownInv, Up
<1> QED BY <1>1, <1>2, <1>3

LEMMA AcceptKeepsScreens ==
  ASSUME TableFits, TableInv, TypeInv, ScreenInv, UNCHANGED clientVars, Accept
  PROVE  ScreenInv'
<1>1. /\ newfd' \in Fd /\ conn[newfd'] = None
      /\ conn' = [conn EXCEPT ![newfd'] = Head(backlog)]
      /\ backlog' = Tail(backlog) /\ backlog # <<>> /\ pc' = "username"
      /\ UNCHANGED <<s2c, link, valid, username, sockfd>>
  BY DEF Accept, tableVars
<1>2. \A f \in valid : conn'[f] = conn[f]
  BY <1>1 DEF TableInv, TableType, SlotLifecycle
<1>3. Newcomers' \subseteq Newcomers
  <2>1. backlog \in Seq(Clients) /\ conn'[newfd'] = Head(backlog)
    BY <1>1 DEF TableInv, TableType, NetInv
  <2>2. \A i \in 1..Len(Tail(backlog)) :
          i + 1 \in 1..Len(backlog) /\ Tail(backlog)[i] = backlog[i + 1]
    BY <1>1, <2>1, HeadTailProperties, LenProperties
  <2>3. Head(backlog) = backlog[1] /\ 1 \in 1..Len(backlog)
    BY <1>1, <2>1, HeadTailProperties, LenProperties
  <2> QED BY <1>1, <2>1, <2>2, <2>3 DEF Newcomers
<1>4. BlankInv' /\ Up'
  BY <1>1, <1>3 DEF ScreenInv, BlankInv, clientVars, Up
<1> QED BY <1>1, <1>2, <1>4, QuietKeepsScreens DEF clientVars

\* A text goes to the partner, whose screen will show its author.
LEMMA TextIsRight ==
  ASSUME TableFits, TableInv, TypeInv, ScreenInv,
         NEW f \in Fd, NEW m, m.from = username[f],
         sockfd[f] \in valid
  PROVE  TextsRight(<<[to |-> conn[sockfd[f]], msg |-> m]>>)
<1> DEFINE g == sockfd[f]
           out == <<[to |-> conn[g], msg |-> m]>>
<1>1. f \in Slot /\ g # 0 /\ sockfd[g] = f /\ f # 0
  BY FdFacts, ValidClients DEF TableInv, TableType, PairingSound
<1>2. link[conn[g]] = "open" => AllTold(conn[g]) = username[f]
  BY <1>1, ValidClients DEF PartnerName
<1>3. /\ \A c : SentTo(out, c) <=> c = conn[g]
      /\ MsgTo(out, conn[g]) = m
  BY OneSent
<1> HIDE DEF out
<1>4. TextsRight(out)
  BY <1>2, <1>3 DEF TextsRight
<1> QED BY <1>4 DEF out

\* A message that is neither a notice nor a text.
LEMMA PlainSend ==
  ASSUME NEW c, NEW m, m.kind \notin {"bye", "connected"}
  PROVE  /\ NoNews(<<[to |-> c, msg |-> m]>>)
         /\ m.kind # "text" => TextsRight(<<[to |-> c, msg |-> m]>>)
BY OneSent DEF NoNews, TextsRight
LEMMA ServerKeepsScreens ==
  ASSUME TableFits, TableInv, ScanInv, TypeInv, ScreenInv, ServerNext, UNCHANGED clientVars
  PROVE  ScreenInv'
<1>0. ASSUME NEW f \in Fd, Scanning(f)
      PROVE  /\ pc = "scan" /\ conn[f] \in Clients /\ conn[f] # None
             /\ conn[f] \notin Newcomers
  BY <1>0, ScannedFd, ScanNewcomers DEF ScanInv
<1>1. CASE Select \/ Keyboard
  <2>1. /\ UNCHANGED <<s2c, link, backlog, screen, phase, valid, username, sockfd, conn, newfd>>
        /\ pc' \in {"scan", "select", "closing"}
    BY <1>1 DEF Select, Keyboard, Resume, netVars, tableVars, clientVars
  <2>2. BlankInv' /\ Up'
    BY <2>1 DEF ScreenInv, BlankInv, Newcomers, Up
  <2> QED BY <2>1, <2>2, QuietKeepsScreens
<1>2. CASE EndOfProgram \/ RecvFailure
  BY <1>2, EndKeepsScreens DEF EndOfProgram, RecvFailure
<1>3. CASE Accept
  BY <1>3, AcceptKeepsScreens
<1>4. CASE SaveUserNameOfClient \/ SaveUserNameOfGoneClient
  BY <1>4, SaveKeepsScreens DEF SaveUserNameOfClient, SaveUserNameOfGoneClient
<1>5. CASE HandleRequest
  <2>1. PICK f \in Fd :
          /\ Scanning(f)
          /\ LET list == [kind |-> "list", names |-> GetClientListFromDB(f)]
                 out == <<[to |-> conn[f], msg |-> list]>>
             IN  KeepTable(f, out, TRUE) \/ DiesSending(out, TRUE)
    BY <1>5 DEF HandleRequest, Receives
  <2> DEFINE list == [kind |-> "list", names |-> GetClientListFromDB(f)]
             out == <<[to |-> conn[f], msg |-> list]>>
  <2>2. GoodSends(out)
    BY <1>0, <2>1, ListMsgs, OneSend
  <2>3. list.kind = "list"
    OBVIOUS
  <2>4. KeepTable(f, out, TRUE) \/ DiesSending(out, TRUE)
    BY <2>1
  <2> HIDE DEF list
  <2>5. NoNews(out) /\ TextsRight(out)
    BY <2>3, PlainSend
  <2> HIDE DEF out
  <2> QED BY <1>0, <2>1, <2>2, <2>4, <2>5, KeepTableKeepsScreens, DyingKeepsScreens
<1>6. CASE HandleConnectIgnored
  <2>1. PICK f \in Fd : Scanning(f) /\ KeepTable(f, <<>>, FALSE)
    BY <1>6 DEF HandleConnectIgnored, Receives
  <2>2. GoodSends(<<>>) /\ NoNews(<<>>) /\ TextsRight(<<>>)
    BY DEF GoodSends, NoNews, TextsRight, SentTo
  <2> QED BY <1>0, <2>1, <2>2, KeepTableKeepsScreens
<1>7. CASE HandleConnectRefused
  <2>1. PICK f, name :
          /\ f \in Fd
          /\ Scanning(f)
          /\ ConnectOutcome(f, name) # "connected"
          /\ LET out == <<[to |-> conn[f],
                           msg |-> [kind |-> "error", text |-> ConnectOutcome(f, name)]]>>
             IN  KeepTable(f, out, FALSE) \/ DiesSending(out, FALSE)
    BY <1>7 DEF HandleConnectRefused, Receives
  <2> DEFINE error == [kind |-> "error", text |-> ConnectOutcome(f, name)]
             out == <<[to |-> conn[f], msg |-> error]>>
  <2>2. ConnectOutcome(f, name) \in {"Invalid User.", "Invalid Operation.", "User is busy."}
    BY <2>1 DEF ConnectOutcome
  <2>3. error \in ServerMsg /\ error.kind = "error"
    BY <2>2 DEF ServerMsg
  <2>4. KeepTable(f, out, FALSE) \/ DiesSending(out, FALSE)
    BY <2>1
  <2> HIDE DEF error
  <2>5. GoodSends(out) /\ NoNews(out) /\ TextsRight(out)
    BY <1>0, <2>1, <2>3, OneSend, PlainSend
  <2> HIDE DEF out
  <2> QED BY <1>0, <2>1, <2>4, <2>5, KeepTableKeepsScreens, DyingKeepsScreens
<1>8. CASE HandleConnectAccepted
  <2>1. PICK f, g, name, m, n, out :
          /\ f \in Fd /\ f \in valid /\ sockfd[f] = 0
          /\ Scanning(f)
          /\ ConnectOutcome(f, name) = "connected" /\ g = GetUserFDByNameFromDB(name)
          /\ m = [kind |-> "connected", name |-> username[f]]
          /\ n = [kind |-> "connected", name |-> username[g]]
          /\ out = <<[to |-> conn[g], msg |-> m], [to |-> conn[f], msg |-> n]>>
          /\ PairUp(f, g, out) \/ DiesSending(out, FALSE)
    BY <1>8 DEF HandleConnectAccepted, Receives
  <2>2. valid \subseteq Slot
    BY DEF TableInv, TableType
  <2>3. g \in valid /\ g # f /\ sockfd[g] = 0
    BY <2>1, <2>2, ConnectedOther
  <2>4. m \in ServerMsg /\ n \in ServerMsg
    BY <2>1, <2>2, <2>3 DEF TypeInv, DataType, ServerMsg
  <2>5. GoodSends(out)
    <3>1. conn[f] \notin Newcomers /\ conn[g] \notin Newcomers
      BY <1>0, <2>1, <2>3, ScanNewcomers
    <3> QED BY <2>1, <2>4, <3>1, TwoSends
  <2>6. CASE PairUp(f, g, out)
    BY <1>0, <2>1, <2>3, <2>5, <2>6, PairUpKeepsScreens
  <2> QED BY <2>1, <2>6, DyingKeepsScreens
<1>9. CASE HandleBye
  <2>1. PICK f \in Fd :
          /\ Scanning(f)
          /\ \/ /\ SendsDone(CloseNotice(f), TRUE)
                /\ ClearSlot(f)
                /\ Resume(currSockSet \ {f}, loopRunning)
                /\ UNCHANGED <<backlog, conn, newfd>>
             \/ DiesSending(CloseNotice(f), TRUE)
    BY <1>9 DEF HandleBye, Receives
  <2>2. CASE ClearSlot(f) /\ ~DiesSending(CloseNotice(f), TRUE)
    <3>1. /\ s2c' = AfterSends(CloseNotice(f)).queue
          /\ link' = AfterSends(CloseNotice(f)).link
          /\ conn' = conn
      BY <2>1, <2>2 DEF SendsDone
    <3>2. \A c \in Clients : link'[c] = "open" => link[c] = "open"
      BY <3>1 DEF AfterSends
    <3>3. Newcomers' = Newcomers /\ Up'
      BY <2>1, <2>2 DEF Newcomers, Resume, Up
    <3> QED BY <1>0, <2>1, <2>2, <3>1, <3>2, <3>3, NoticeMsgs, LeavingKeepsScreens
  <2> QED BY <2>1, <2>2, DyingKeepsScreens
<1>10. CASE HandleEndOfStream
  <2>1. PICK f \in Fd :
          /\ Scanning(f)
          /\ \/ /\ s2c' = AfterSends(CloseNotice(f)).queue
                /\ link' = [AfterSends(CloseNotice(f)).link EXCEPT ![conn[f]] = "closed"]
                /\ ClearSlot(f)
                /\ conn' = [conn EXCEPT ![f] = None]
                /\ Resume(currSockSet \ {f}, loopRunning)
                /\ UNCHANGED <<backlog, newfd>>
             \/ DiesSending(CloseNotice(f), TRUE)
    BY <1>10 DEF HandleEndOfStream
  <2>2. CASE ClearSlot(f) /\ ~DiesSending(CloseNotice(f), TRUE)
    <3>1. \A c \in Clients : link'[c] = "open" => link[c] = "open"
      BY <2>1, <2>2 DEF AfterSends
    <3>2. \A h \in Fd : h # f => conn'[h] = conn[h]
      BY <2>1, <2>2 DEF TableInv, TableType
    <3>3. Newcomers' \subseteq Newcomers /\ Up'
      <4>1. newfd = 0
        BY <1>0, <2>1, ScanNewcomers
      <4> QED BY <2>1, <2>2, <4>1 DEF Newcomers, Resume, Up
    <3> QED BY <1>0, <2>1, <2>2, <3>1, <3>2, <3>3, NoticeMsgs, LeavingKeepsScreens
  <2> QED BY <2>1, <2>2, DyingKeepsScreens
<1>11. CASE HandleText
  <2>1. PICK f, m, out :
          /\ f \in Fd
          /\ Receives(f, "text")
          /\ m = [kind |-> "text", from |-> username[f], to |-> Head(c2s[conn[f]]).to]
          /\ out = IF sockfd[f] \in valid THEN <<[to |-> conn[sockfd[f]], msg |-> m]>>
                                          ELSE <<>>
          /\ KeepTable(f, out, TRUE) \/ DiesSending(out, TRUE)
    BY <1>11 DEF HandleText
  <2>2. /\ pc = "scan" /\ conn[f] \in Clients
        /\ c2s[conn[f]] # <<>> /\ Head(c2s[conn[f]]).kind = "text"
    BY <1>0, <2>1 DEF Receives
  <2>3. m \in ServerMsg
    <3>1. Head(c2s[conn[f]]).to \in Name
      BY <2>2, HeadMsg, ClientMsgFields
    <3>2. username[f] \in Name
      BY <2>1, FdFacts DEF TypeInv, DataType
    <3> QED BY <2>1, <3>1, <3>2 DEF ServerMsg
  <2>4. m.kind = "text" /\ m.from = username[f]
    BY <2>1
  <2>5. GoodSends(out) /\ NoNews(out) /\ TextsRight(out)
    <3>1. CASE sockfd[f] \in valid
      <4>1. conn[sockfd[f]] \notin Newcomers
        BY <2>2, <3>1, ScanNewcomers
      <4>2. out = <<[to |-> conn[sockfd[f]], msg |-> m]>>
        BY <2>1, <3>1
      <4> QED BY <2>1, <2>3, <2>4, <3>1, <4>1, <4>2, OneSend, PlainSend, TextIsRight
    <3>2. CASE sockfd[f] \notin valid
      BY <2>1, <3>2 DEF GoodSends, NoNews, TextsRight, SentTo
    <3> QED BY <3>1, <3>2
  <2> QED BY <2>1, <2>2, <2>5, KeepTableKeepsScreens, DyingKeepsScreens
<1> QED BY <1>1, <1>2, <1>3, <1>4, <1>5, <1>6, <1>7, <1>8, <1>9, <1>10, <1>11
        DEF ServerNext, HandleMessage
----------------------------------------------------------------------------
(* The clients. *)

\* A user types, or a client starts: nothing is told to anybody.
LEMMA QuietClient ==
  ASSUME TableInv, TypeInv, ScreenInv, NEW c \in Clients,
         TypeName(c) \/ TypeRequest(c) \/ TypeConnect(c) \/ TypeText(c) \/ TypeBye(c)
  PROVE  ScreenInv'
<1>1. UNCHANGED <<s2c, link, backlog, screen, serverVars>>
  BY DEF TypeName, TypeRequest, TypeConnect, TypeText, TypeBye, ClientSend, clientVars
<1>2. \A d \in Clients : phase'[d] = "off" => phase[d] = "off"
  BY DEF TypeName, TypeRequest, TypeConnect, TypeText, TypeBye, clientVars, TypeInv, DataType
<1>3. BlankInv'
  BY <1>1, <1>2 DEF ScreenInv, BlankInv, Newcomers, serverVars
<1> QED BY <1>1, <1>3, QuietKeepsScreens DEF serverVars

LEMMA StartKeepsScreens ==
  ASSUME TableInv, TypeInv, ScreenInv, NEW c \in Clients, Start(c)
  PROVE  ScreenInv'
<1>1. /\ phase[c] = "off" /\ phase' = [phase EXCEPT ![c] = "naming"]
      /\ link[c] = "none" /\ link' = [link EXCEPT ![c] = "open"]
      /\ backlog' = Append(backlog, c)
      /\ UNCHANGED <<s2c, serverVars, screen>>
  BY DEF Start, ConnectLink
<1>2. \A f \in valid : conn[f] # c
  BY <1>1, Bounds DEF TableInv, SlotLifecycle, NetInv
<1>3. Newcomers' \subseteq Newcomers \cup {c}
  <2>1. backlog \in Seq(Clients)
    BY DEF TableInv, NetInv
  <2>2. ASSUME NEW i \in 1..Len(backlog')
        PROVE  backlog'[i] = c \/ (i \in 1..Len(backlog) /\ backlog'[i] = backlog[i])
    BY <1>1, <2>1, AppendProperties
  <2> QED BY <1>1, <2>2 DEF Newcomers, serverVars
<1>4. BlankInv'
  BY <1>1, <1>3 DEF ScreenInv, BlankInv, TypeInv, DataType
<1>5. \A f \in valid : link'[conn[f]] = link[conn[f]]
  BY <1>1, <1>2 DEF TableInv, NetInv
<1> QED BY <1>1, <1>4, <1>5, QuietKeepsScreens DEF serverVars

\* A client ends; nothing reaches it any more.
LEMMA EndClientKeepsScreens ==
  ASSUME TableInv, TypeInv, ScreenInv, NEW c \in Clients, NEW how \in {"gone", "dropped"},
         EndClient(c, how), UNCHANGED serverVars,
         ClientClose(c) \/ (UNCHANGED netVars /\ ~Up)
  PROVE  ScreenInv'
<1>1. /\ phase' = [phase EXCEPT ![c] = how] /\ screen' = [screen EXCEPT ![c] = NoName]
      /\ UNCHANGED <<backlog, valid, username, sockfd, conn, newfd, pc>>
  BY DEF EndClient, ClientClose, netVars, serverVars
<1>2. s2c'[c] = <<>> /\ \A d \in Clients : d # c => s2c'[d] = s2c[d] /\ screen'[d] = screen[d]
  BY <1>1 DEF ClientClose, netVars, TypeInv, DataType, ScreenInv, DownInv
<1>3. \A d \in Clients : link'[d] = "open" => link[d] = "open" /\ (Up => d # c)
  BY DEF ClientClose, netVars, TableInv, NetInv
<1>4. ScreenFollowsTable'
  <2> SUFFICES ASSUME NEW f \in valid', link'[conn'[f]] = "open"
               PROVE  After(screen'[conn'[f]], s2c'[conn'[f]], Len(s2c'[conn'[f]]))
                        = PartnerName(f)'
    BY DEF ScreenFollowsTable, ScreenAfter, After, News, Latest
  <2>1. /\ f \in valid /\ conn'[f] = conn[f] /\ conn[f] \in Clients
        /\ PartnerName(f)' = PartnerName(f) /\ Up
    BY <1>1 DEF TableInv, TableType, SlotLifecycle, PartnerName, ScreenInv, DownInv
  <2>2. conn[f] # c /\ link[conn[f]] = "open"
    BY <1>3, <2>1
  <2>3. After(screen[conn[f]], s2c[conn[f]], Len(s2c[conn[f]])) = PartnerName(f)
    BY <2>1, <2>2, ScreenIsAfter DEF ScreenInv, ScreenFollowsTable
  <2> QED BY <1>2, <2>1, <2>2, <2>3
<1>5. TextsMatchScreen'
  <2> SUFFICES ASSUME NEW d \in Clients, NEW i \in DOMAIN s2c'[d], s2c'[d][i].kind = "text"
               PROVE  s2c'[d][i].from = After(screen'[d], s2c'[d], i - 1)
    BY DEF TextsMatchScreen, ScreenAfter, After, News, Latest
  <2>1. d # c
    BY <1>2
  <2>2. s2c'[d] = s2c[d] /\ screen'[d] = screen[d]
    BY <1>2, <2>1
  <2>3. s2c[d][i].from = After(screen[d], s2c[d], i - 1)
    BY <2>2, ScreenIsAfter DEF ScreenInv, TextsMatchScreen
  <2> QED BY <2>2, <2>3
<1>6. BlankInv'
  <2>1. Newcomers' = Newcomers
    BY <1>1 DEF Newcomers
  <2> QED BY <1>1, <2>1 DEF ScreenInv, BlankInv, TypeInv, DataType
<1>7. DownInv'
  BY <1>1, <1>2 DEF ScreenInv, DownInv, Up
<1> QED BY <1>4, <1>5, <1>6, <1>7 DEF ScreenInv

\* A message is received: the screens to come are the same.
LEMMA ReceiveKeepsScreens ==
  ASSUME OneAtATime, TableInv, TypeInv, ScreenInv, NEW c \in Clients, Receive(c)
  PROVE  ScreenInv'
<1> DEFINE s == s2c[c]
<1>0. s \in Seq(ServerMsg) /\ Len(s) \in Nat
  BY QueueOf
<1>1. /\ s # <<>> /\ 1 \in 1..Len(s)
      /\ s2c' = [s2c EXCEPT ![c] = SubSeq(s, 2, Len(s))]
      /\ screen' = [screen EXCEPT ![c] = Shown(screen[c], s[1])]
      /\ Up
  <2>1. PICK k \in 1..Len(s) :
          /\ k \in 1..MaxClientChunk
          /\ s2c' = [s2c EXCEPT ![c] = SubSeq(s, k + 1, Len(s))]
          /\ screen' = [screen EXCEPT ![c] = Told(screen[c], SubSeq(s, 1, k))]
    BY DEF Receive, ClientRecv, TypeInv, DataType
  <2>2. k = 1
    BY <2>1 DEF OneAtATime
  <2>3. s # <<>>
    BY <2>1
  <2>4. Told(screen[c], SubSeq(s, 1, 1)) = Shown(screen[c], s[1])
    BY <1>0, <2>3, ToldOne
  <2>5. s2c' = [s2c EXCEPT ![c] = SubSeq(s, 2, Len(s))]
    <3>1. k + 1 = 2
      BY <2>2
    <3> QED BY <2>1, <3>1
  <2>6. screen' = [screen EXCEPT ![c] = Shown(screen[c], s[1])]
    BY <2>1, <2>2, <2>4
  <2>7. 1 \in 1..Len(s)
    BY <2>1, <2>2
  <2> QED BY <2>3, <2>5, <2>6, <2>7 DEF Receive
<1>2. /\ UNCHANGED <<link, backlog, serverVars>>
      /\ \A d \in Clients : d # c => phase'[d] = phase[d]
      /\ phase[c] # "off" /\ phase'[c] # "off"
  BY DEF Receive, ClientRecv, TypeInv, DataType
<1>3. \A d \in Clients : d # c => s2c'[d] = s2c[d] /\ screen'[d] = screen[d]
  BY <1>1
<1>4. PICK n \in Nat : Len(s) = n + 1
  <2>1. Len(s) - 1 \in Nat /\ Len(s) = (Len(s) - 1) + 1
    BY <1>0, <1>1
  <2> QED BY <2>1
<1>5. /\ s2c'[c] = SubSeq(s, 2, Len(s)) /\ screen'[c] = Shown(screen[c], s[1])
      /\ s2c'[c] \in Seq(ServerMsg) /\ Len(s2c'[c]) = n
      /\ \A i \in 1..n : s2c'[c][i] = s[i + 1]
  <2>1. /\ s2c'[c] = SubSeq(s, 2, Len(s)) /\ screen'[c] = Shown(screen[c], s[1])
    BY <1>1 DEF TypeInv, DataType
  <2>2. SubSeq(s, 2, Len(s)) = Tail(s)
    BY <1>0, <1>1, TailIsSubSeq
  <2> QED BY <1>0, <1>1, <1>4, <2>1, <2>2, HeadTailProperties
<1>6. ASSUME NEW k \in 0..n
      PROVE  After(screen'[c], s2c'[c], k) = After(screen[c], s, k + 1)
  <2>1. k \in Nat /\ \A i \in 1..k : s2c'[c][i] = s[i + 1]
    BY <1>5
  <2> HIDE DEF s
  <2>2. After(Shown(screen[c], s[1]), s2c'[c], k) = After(screen[c], s, k + 1)
    BY <2>1, FirstTaken
  <2> QED BY <1>5, <2>2
<1>7. ScreenFollowsTable'
  <2> SUFFICES ASSUME NEW f \in valid', link'[conn'[f]] = "open"
               PROVE  After(screen'[conn'[f]], s2c'[conn'[f]], Len(s2c'[conn'[f]]))
                        = PartnerName(f)'
    BY DEF ScreenFollowsTable, ScreenAfter, After, News, Latest
  <2>1. /\ f \in valid /\ conn'[f] = conn[f] /\ conn[f] \in Clients
        /\ link[conn[f]] = "open" /\ PartnerName(f)' = PartnerName(f)
    BY <1>2 DEF TableInv, TableType, SlotLifecycle, PartnerName, serverVars
  <2>2. After(screen[conn[f]], s2c[conn[f]], Len(s2c[conn[f]])) = PartnerName(f)
    BY <2>1, ScreenIsAfter DEF ScreenInv, ScreenFollowsTable
  <2>3. CASE conn[f] = c
    <3>1. After(screen'[c], s2c'[c], n) = After(screen[c], s, n + 1)
      BY <1>6
    <3> QED BY <1>4, <1>5, <2>1, <2>2, <2>3, <3>1
  <2>4. CASE conn[f] # c
    BY <1>3, <2>1, <2>2, <2>4
  <2> QED BY <2>3, <2>4
<1>8. TextsMatchScreen'
  <2> SUFFICES ASSUME NEW d \in Clients, NEW i \in DOMAIN s2c'[d], s2c'[d][i].kind = "text"
               PROVE  s2c'[d][i].from = After(screen'[d], s2c'[d], i - 1)
    BY DEF TextsMatchScreen, ScreenAfter, After, News, Latest
  <2>1. \A e \in Clients : \A j \in DOMAIN s2c[e] : s2c[e][j].kind = "text" =>
          s2c[e][j].from = After(screen[e], s2c[e], j - 1)
    BY ScreenIsAfter DEF ScreenInv, TextsMatchScreen
  <2>2. CASE d = c
    <3>1. i \in 1..n
      BY <1>5, <2>2, LenProperties
    <3>2. i - 1 \in 0..n /\ (i - 1) + 1 = i /\ i + 1 \in 1..Len(s) /\ (i + 1) - 1 = i
      BY <1>4, <3>1
    <3>3. i + 1 \in DOMAIN s
      BY <1>0, <3>2, LenProperties
    <3>4. s2c'[c][i] = s[i + 1]
      BY <1>5, <3>1
    <3>5. s[i + 1].from = After(screen[c], s, i)
      BY <2>1, <2>2, <3>2, <3>3, <3>4
    <3>6. After(screen'[c], s2c'[c], i - 1) = After(screen[c], s, i)
      BY <1>6, <3>2
    <3> QED BY <2>2, <3>4, <3>5, <3>6
  <2>3. CASE d # c
    BY <1>3, <2>1, <2>3
  <2> QED BY <2>2, <2>3
<1>9. BlankInv'
  <2>1. Newcomers' = Newcomers /\ c \notin Newcomers
    BY <1>1, <1>2 DEF Newcomers, serverVars, TypeInv, NewcomerInv
  <2> QED BY <1>2, <1>3, <2>1 DEF ScreenInv, BlankInv
<1>10. DownInv'
  BY <1>1, <1>2 DEF DownInv, Up, serverVars
<1> QED BY <1>7, <1>8, <1>9, <1>10 DEF ScreenInv

LEMMA ClientKeepsScreens ==
  ASSUME OneAtATime, TableInv, TypeInv, ScreenInv, NEW c \in Clients, ClientNext(c)
  PROVE  ScreenInv'
<1>1. CASE Start(c) \/ Receive(c)
  BY <1>1, StartKeepsScreens, ReceiveKeepsScreens
<1>2. CASE TypeName(c) \/ TypeRequest(c) \/ TypeConnect(c) \/ TypeText(c) \/ TypeBye(c)
  BY <1>2, QuietClient
<1>3. CASE Close(c) \/ Interrupt(c) \/ LoseServer(c)
  BY <1>3, EndClientKeepsScreens DEF Close, Interrupt, LoseServer
<1> QED BY <1>1, <1>2, <1>3 DEF ClientNext

----------------------------------------------------------------------------
LEMMA InitScreens ==
  ASSUME Init
  PROVE  ScreenInv
<1>1. /\ valid = {} /\ pc = "select" /\ s2c = [c \in Clients |-> <<>>]
      /\ screen = [c \in Clients |-> NoName]
  BY DEF Init, NetInit, ServerInit
<1>2. ScreenFollowsTable /\ TextsMatchScreen /\ BlankInv /\ DownInv
  BY <1>1 DEF ScreenFollowsTable, TextsMatchScreen, BlankInv, DownInv, Up
<1> QED BY <1>2 DEF ScreenInv

LEMMA NextKeepsScreens ==
  ASSUME TableFits, OneAtATime, TableInv, ScanInv, TypeInv, ScreenInv, [Next]_vars
  PROVE  ScreenInv'
<1>1. CASE Next
  BY <1>1, ServerKeepsScreens, ClientKeepsScreens DEF Next, ServerStep
<1>2. CASE UNCHANGED vars
  <2> USE <1>2 DEF vars, netVars, serverVars, clientVars
  <2>1. BlankInv'
    BY DEF ScreenInv, BlankInv, Newcomers
  <2> QED BY <2>1, QuietKeepsScreens
<1> QED BY <1>1, <1>2

THEOREM ScreenInvariant ==
  ASSUME TableFits, OneAtATime
  PROVE  Spec => []ScreenInv
<1>1. Init => ScreenInv
  BY InitScreens
<1>2. TableInv /\ ScanInv /\ TypeInv /\ ScreenInv /\ [Next]_vars => ScreenInv'
  BY NextKeepsScreens
<1> QED BY <1>1, <1>2, TypeInvariant, PTL DEF Spec

\* A user who has received everything sees the partner the server has in its
\* table: CONNECT, "bye" and a lost connection tell everybody they concern
\* (server.c SendConnResponse, CloseConnectionIfExists).
THEOREM ScreensFollowTable ==
  ASSUME TableFits, OneAtATime
  PROVE  Spec => []ScreenFollowsTable
<1>1. ScreenInv => ScreenFollowsTable
  BY DEF ScreenInv
<1> QED BY <1>1, ScreenInvariant, PTL

\* A text arrives while its author is on the screen: between the notice that
\* opens their chat and the one that closes it (server.c HandleMessage).
THEOREM TextsArriveInTheirChat ==
  ASSUME TableFits, OneAtATime
  PROVE  Spec => []TextsMatchScreen
<1>1. ScreenInv => TextsMatchScreen
  BY DEF ScreenInv
<1> QED BY <1>1, ScreenInvariant, PTL
=============================================================================
