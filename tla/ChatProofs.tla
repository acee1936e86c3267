----------------------------- MODULE ChatProofs -----------------------------
(***************************************************************************)
(* Proofs about the chat server for any number of clients, any slots and   *)
(* any descriptors that fit the table.                                     *)
(***************************************************************************)
EXTENDS ChatSystem, SequenceTheorems, WellFoundedInduction, TLAPS

\* Every descriptor has a slot: what the server needs and does not check.
TableFits == MaxFd < MAXPENDING

----------------------------------------------------------------------------
(* The inductive invariant of the table.  PairingSound and SlotLifecycle   *)
(* are not inductive by themselves: accept must not be given a client that *)
(* a descriptor already leads to (NetInv), and SaveUserNameOfClient fills  *)
(* the slot of a descriptor that is not watched yet (LoopInv).             *)

TableType ==
  /\ valid \subseteq Slot /\ busy \subseteq Slot
  /\ sockfd \in [Slot -> Slot]
  /\ DOMAIN username = Slot /\ username = [i \in Slot |-> username[i]]
  /\ orgSockSet \subseteq {STDIN, servSock} \cup Fd
  /\ conn \in [Fd -> Clients \cup {None}]
  /\ newfd \in Fd \cup {0}

LoopInv ==
  /\ newfd # 0 <=> pc = "username"
  /\ newfd # 0 => newfd \notin orgSockSet
  /\ newfd # 0 => conn[newfd] # None

\* A client is in the backlog at most once, or behind a descriptor, and has
\* called connect.
NetInv ==
  /\ backlog \in Seq(Clients)
  /\ link \in [Clients -> LinkState]
  /\ \A i \in 1..Len(backlog) : link[backlog[i]] # "none"
  /\ \A i, j \in 1..Len(backlog) : backlog[i] = backlog[j] => i = j
  /\ \A f \in Fd : conn[f] # None => link[conn[f]] # "none"
  /\ \A f \in Fd, i \in 1..Len(backlog) : conn[f] # backlog[i]

TableInv == TableType /\ PairingSound /\ SlotLifecycle /\ LoopInv /\ NetInv

----------------------------------------------------------------------------
LEMMA Bounds == MAXPENDING \in Nat /\ MaxFd \in Nat /\ MAXPENDING > 3 /\ None \notin Clients
BY ServerAssumption DEF servSock

LEMMA SlotsAreNumbers == Slot \subseteq Nat
BY Bounds DEF Slot

\* The descriptors of clients are slots, and none of them is 0, the sockfd of
\* a client that is in no chat.
LEMMA FdFacts ==
  ASSUME TableFits
  PROVE  Fd \subseteq Slot /\ 0 \notin Fd /\ 0 \in Slot /\ servSock \notin Fd
BY Bounds DEF TableFits, Fd, Slot, servSock

\* GetUserFDByNameFromDB returns a valid slot with the name asked for, or
\* MAXPENDING.
LEMMA LookupResult ==
  ASSUME valid \subseteq Slot, NEW name
  PROVE  \/ GetUserFDByNameFromDB(name) = MAXPENDING
         \/ /\ GetUserFDByNameFromDB(name) \in valid
            /\ username[GetUserFDByNameFromDB(name)] = name
<1> DEFINE match == {i \in valid : username[i] = name}
<1>1. CASE match = {}
  BY <1>1 DEF GetUserFDByNameFromDB
<1>2. CASE match # {}
  <2>1. match \subseteq Nat
    BY SlotsAreNumbers
  <2>2. PICK m \in match : \A i \in match : ~(<<i, m>> \in OpToRel(<, Nat))
    BY <1>2, <2>1, NatLessThanWellFounded, WFMin
  <2>3. \A i \in match : m <= i
    <3> SUFFICES ASSUME NEW i \in match, ~(m <= i) PROVE FALSE
      OBVIOUS
    <3>1. i \in Nat /\ m \in Nat /\ i < m
      BY <2>1
    <3>2. <<i, m>> \in OpToRel(<, Nat)
      BY <3>1 DEF OpToRel
    <3> QED BY <2>2, <3>2
  <2>4. GetUserFDByNameFromDB(name) \in match
    BY <1>2, <2>3 DEF GetUserFDByNameFromDB
  <2> QED BY <2>4
<1> QED BY <1>1, <1>2

\* The other end of an accepted CONNECT is another valid client in no chat.
LEMMA ConnectedOther ==
  ASSUME valid \subseteq Slot, NEW f \in valid, NEW name,
         ConnectOutcome(f, name) = "connected"
  PROVE  LET other == GetUserFDByNameFromDB(name)
         IN  other \in valid /\ other # f /\ sockfd[other] = 0
<1> DEFINE other == GetUserFDByNameFromDB(name)
<1>1. ValidateUsername(name) /\ other # MAXPENDING /\ other # f /\ sockfd[other] = 0
  BY DEF ConnectOutcome
<1>2. other \in valid
  BY <1>1, LookupResult
<1> QED BY <1>1, <1>2

----------------------------------------------------------------------------
(* What each kind of step does to the table.                               *)

\* Sends change a link only to "finsent".
LEMMA AfterSendsLink ==
  ASSUME link \in [Clients -> LinkState], NEW out
  PROVE  /\ AfterSends(out).link \in [Clients -> LinkState]
         /\ \A c \in Clients : link[c] # "none" => AfterSends(out).link[c] # "none"
BY DEF AfterSends, LinkState

\* The end of the process.
LEMMA EndKeepsTable ==
  ASSUME TableFits, TableInv, NEW how \in {"exit", "crash"}, ProcessEnds(how)
  PROVE  TableInv'
<1> USE FdFacts DEF ProcessEnds, AllClosed
<1>1. TableType'
  BY DEF TableType
<1>2. PairingSound'
  BY DEF PairingSound
<1>3. SlotLifecycle'
  BY DEF SlotLifecycle
<1>4. LoopInv'
  BY DEF LoopInv
<1>5. NetInv'
  <2>1. link' \in [Clients -> LinkState]
    BY DEF TableInv, NetInv, LinkState
  <2>2. backlog' = <<>>
    OBVIOUS
  <2> QED BY <2>1, <2>2 DEF NetInv
<1> QED BY <1>1, <1>2, <1>3, <1>4, <1>5 DEF TableInv

\* A step that leaves table, descriptors and backlog alone.
LEMMA QuietKeepsTable ==
  ASSUME TableInv,
         UNCHANGED <<tableVars, orgSockSet, conn, newfd, backlog>>,
         link' \in [Clients -> LinkState],
         \A c \in Clients : link[c] # "none" => link'[c] # "none",
         pc' = "username" <=> pc = "username"
  PROVE  TableInv'
<1> USE DEF tableVars
<1>1. TableType' /\ PairingSound' /\ SlotLifecycle' /\ LoopInv'
  BY DEF TableInv, TableType, PairingSound, SlotLifecycle, LoopInv
<1>2. NetInv'
  <2>1. \A i \in 1..Len(backlog) : backlog[i] \in Clients
    BY ElementOfSeq DEF TableInv, NetInv
  <2>2. \A f \in Fd : conn[f] # None => conn[f] \in Clients
    BY DEF TableInv, TableType
  <2> QED BY <2>1, <2>2 DEF TableInv, NetInv
<1> QED BY <1>1, <1>2 DEF TableInv

\* The effects of SendsDone and Resume that the table invariant sees.
LEMMA HandlerEnd ==
  ASSUME TableInv, NEW out, NEW checked, SendsDone(out, checked),
         NEW rest, NEW running, Resume(rest, running)
  PROVE  /\ link' \in [Clients -> LinkState]
         /\ \A c \in Clients : link[c] # "none" => link'[c] # "none"
         /\ pc' # "username"
BY AfterSendsLink DEF SendsDone, Resume, TableInv, NetInv

\* A handler that changes no slot.
LEMMA KeepTableKeepsTable ==
  ASSUME TableInv, NEW f, NEW out, NEW checked, KeepTable(f, out, checked),
         pc = "scan"
  PROVE  TableInv'
<1>1. /\ link' \in [Clients -> LinkState]
      /\ \A c \in Clients : link[c] # "none" => link'[c] # "none"
      /\ pc' # "username"
  BY HandlerEnd DEF KeepTable
<1> QED BY <1>1, QuietKeepsTable DEF KeepTable

\* CONNECT between two valid slots that are in no chat.
LEMMA PairUpKeepsTable ==
  ASSUME TableFits, TableInv, pc = "scan",
         NEW f \in valid, NEW g \in valid, f # g, sockfd[f] = 0, sockfd[g] = 0,
         NEW out, PairUp(f, g, out)
  PROVE  TableInv'
<1> USE FdFacts
<1>1. /\ link' \in [Clients -> LinkState]
      /\ \A c \in Clients : link[c] # "none" => link'[c] # "none"
      /\ pc' # "username"
  BY HandlerEnd DEF PairUp
<1>2. /\ sockfd' = [sockfd EXCEPT ![f] = g, ![g] = f]
      /\ busy' = busy \cup {f, g}
      /\ UNCHANGED <<backlog, valid, username, orgSockSet, conn, newfd>>
  BY DEF PairUp
<1>3. f \in Fd /\ g \in Fd /\ f # 0 /\ g # 0 /\ f \in Slot /\ g \in Slot
  BY DEF TableInv, SlotLifecycle
<1>4. TableType'
  BY <1>2, <1>3 DEF TableInv, TableType
<1>5. PairingSound'
  <2>1. busy' = {h \in Slot : sockfd'[h] # 0}
    BY <1>2, <1>3 DEF TableInv, TableType, PairingSound
  <2>2. ASSUME NEW h \in busy'
        PROVE  /\ {h, sockfd'[h]} \subseteq valid'
               /\ sockfd'[h] # h
               /\ sockfd'[sockfd'[h]] = h
    <3>1. CASE h \in {f, g}
      BY <1>2, <1>3, <3>1 DEF TableInv, TableType
    <3>2. CASE h \notin {f, g}
      <4>0. h \in busy /\ h # 0
        BY <1>2, <3>2 DEF TableInv, PairingSound, SlotLifecycle
      <4>1. h \in busy /\ sockfd[h] \notin {f, g}
        BY <4>0 DEF TableInv, PairingSound
      <4>2. sockfd'[h] = sockfd[h] /\ sockfd'[sockfd[h]] = sockfd[sockfd[h]]
        BY <1>2, <3>2, <4>1 DEF TableInv, TableType
      <4> QED BY <1>2, <4>1, <4>2 DEF TableInv, PairingSound
    <3> QED BY <3>1, <3>2
  <2> QED BY <2>1, <2>2 DEF PairingSound
<1>6. SlotLifecycle'
  BY <1>2, <1>3 DEF TableInv, TableType, SlotLifecycle
<1>7. LoopInv'
  BY <1>1, <1>2 DEF TableInv, LoopInv
<1>8. NetInv'
  <2>1. \A i \in 1..Len(backlog) : backlog[i] \in Clients
    BY ElementOfSeq DEF TableInv, NetInv
  <2>2. \A h \in Fd : conn[h] # None => conn[h] \in Clients
    BY DEF TableInv, TableType
  <2> QED BY <1>1, <1>2, <2>1, <2>2 DEF TableInv, NetInv
<1> QED BY <1>4, <1>5, <1>6, <1>7, <1>8 DEF TableInv

\* "bye" and the end of the stream: the partner is released, the slot zeroed.
LEMMA ClearSlotTable ==
  ASSUME TableFits, TableInv, NEW f \in Fd, ClearSlot(f)
  PROVE  /\ valid' \subseteq Slot /\ busy' \subseteq Slot
         /\ sockfd' \in [Slot -> Slot]
         /\ DOMAIN username' = Slot /\ username' = [i \in Slot |-> username'[i]]
         /\ PairingSound'
         /\ valid' = valid \ {f}
         /\ \A g \in Slot \ valid' : username'[g] = NoName /\ sockfd'[g] = 0
<1> USE FdFacts
<1>1. f # 0 /\ f \in Slot
  OBVIOUS
<1>2. valid' = valid \ {f} /\ username' = [username EXCEPT ![f] = NoName]
  BY DEF ClearSlot
<1>3. DOMAIN username' = Slot /\ username' = [i \in Slot |-> username'[i]]
  BY <1>1, <1>2 DEF TableInv, TableType
<1>4. CASE Partnered(f)
  <2> DEFINE g == sockfd[f]
  <2>1. f \in busy /\ g \in valid /\ g # f /\ sockfd[g] = f /\ g \in Slot /\ g # 0
    BY <1>1, <1>4 DEF Partnered, TableInv, TableType, PairingSound
  <2>2. sockfd' = [sockfd EXCEPT ![g] = 0, ![f] = 0] /\ busy' = busy \ {f, g}
    BY <1>4 DEF ClearSlot
  <2>3. sockfd' \in [Slot -> Slot] /\ busy' \subseteq Slot
    BY <2>1, <2>2 DEF TableInv, TableType
  <2>4. busy' = {h \in Slot : sockfd'[h] # 0}
    BY <1>1, <2>1, <2>2 DEF TableInv, TableType, PairingSound
  <2>5. ASSUME NEW h \in busy'
        PROVE  /\ {h, sockfd'[h]} \subseteq valid'
               /\ sockfd'[h] # h
               /\ sockfd'[sockfd'[h]] = h
    <3>1. h \in busy /\ h \notin {f, g}
      BY <2>2, <2>5
    <3>2. sockfd[h] \notin {f, g}
      BY <2>1, <3>1 DEF TableInv, PairingSound
    <3>3. sockfd'[h] = sockfd[h] /\ sockfd'[sockfd[h]] = sockfd[sockfd[h]]
      BY <2>2, <3>1, <3>2 DEF TableInv, TableType
    <3> QED BY <1>2, <3>1, <3>2, <3>3 DEF TableInv, PairingSound
  <2>6. \A h \in Slot \ valid' : username'[h] = NoName /\ sockfd'[h] = 0
    BY <1>2, <2>2, <2>1 DEF TableInv, TableType, SlotLifecycle
  <2> QED BY <1>2, <1>3, <2>3, <2>4, <2>5, <2>6 DEF PairingSound, TableInv, TableType
<1>5. CASE ~Partnered(f)
  <2>1. sockfd[f] = 0 /\ f \notin busy
    BY <1>1, <1>5 DEF Partnered, TableInv, TableType, PairingSound
  <2>2. sockfd' = sockfd /\ busy' = busy
    BY <1>5, <2>1 DEF ClearSlot, TableInv, TableType
  <2>3. \A h \in busy : h # f /\ sockfd[h] # f
    BY <2>1, <1>1 DEF TableInv, PairingSound, SlotLifecycle
  <2>4. PairingSound'
    BY <1>2, <2>2, <2>3 DEF TableInv, PairingSound
  <2>5. \A h \in Slot \ valid' : username'[h] = NoName /\ sockfd'[h] = 0
    BY <1>2, <2>1, <2>2 DEF TableInv, TableType, SlotLifecycle
  <2> QED BY <1>2, <1>3, <2>2, <2>4, <2>5 DEF TableInv, TableType
<1> QED BY <1>4, <1>5

\* "bye": the descriptor stays.
LEMMA ByeKeepsTable ==
  ASSUME TableFits, TableInv, NEW f \in Fd, pc = "scan", ClearSlot(f),
         NEW out, SendsDone(out, TRUE), NEW rest, Resume(rest, loopRunning),
         UNCHANGED <<backlog, orgSockSet, conn, newfd>>
  PROVE  TableInv'
<1>1. /\ link' \in [Clients -> LinkState]
      /\ \A c \in Clients : link[c] # "none" => link'[c] # "none"
      /\ pc' # "username"
  BY HandlerEnd
<1>2. TableType' /\ PairingSound'
  BY ClearSlotTable DEF TableInv, TableType
<1>3. SlotLifecycle'
  BY ClearSlotTable DEF TableInv, SlotLifecycle
<1>4. LoopInv'
  BY <1>1 DEF TableInv, LoopInv
<1>5. NetInv'
  <2>1. \A i \in 1..Len(backlog) : backlog[i] \in Clients
    BY ElementOfSeq DEF TableInv, NetInv
  <2>2. \A h \in Fd : conn[h] # None => conn[h] \in Clients
    BY DEF TableInv, TableType
  <2> QED BY <1>1, <2>1, <2>2 DEF TableInv, NetInv
<1> QED BY <1>2, <1>3, <1>4, <1>5 DEF TableInv

\* The end of the stream: the descriptor is closed too.
LEMMA EndOfStreamKeepsTable ==
  ASSUME TableFits, TableInv, NEW f \in Fd, pc = "scan", ClearSlot(f),
         conn[f] # None,
         NEW out, link' = [AfterSends(out).link EXCEPT ![conn[f]] = "closed"],
         orgSockSet' = orgSockSet \ {f},
         conn' = [conn EXCEPT ![f] = None],
         NEW rest, Resume(rest, loopRunning),
         UNCHANGED <<backlog, newfd>>
  PROVE  TableInv'
<1> USE FdFacts
<1>1. /\ link' \in [Clients -> LinkState]
      /\ \A c \in Clients : link[c] # "none" => link'[c] # "none"
  BY AfterSendsLink DEF TableInv, NetInv, LinkState
<1>2. pc' # "username" /\ newfd = 0 /\ newfd' = 0
  BY DEF Resume, TableInv, LoopInv
<1>3. TableType' /\ PairingSound'
  BY ClearSlotTable DEF TableInv, TableType
<1>4. SlotLifecycle'
  <2>1. valid' \subseteq orgSockSet' \cap Fd
    BY ClearSlotTable DEF TableInv, SlotLifecycle
  <2>2. \A g \in Slot \ valid' : username'[g] = NoName /\ sockfd'[g] = 0
    BY ClearSlotTable
  <2>3. \A g \in Fd : conn'[g] # None <=> g \in orgSockSet' \/ g = newfd'
    BY <1>2 DEF TableInv, TableType, SlotLifecycle
  <2>4. \A g, h \in Fd : conn'[g] = conn'[h] /\ conn'[g] # None => g = h
    BY DEF TableInv, TableType, SlotLifecycle
  <2> QED BY <2>1, <2>2, <2>3, <2>4 DEF SlotLifecycle
<1>5. LoopInv'
  BY <1>2 DEF LoopInv
<1>6. NetInv'
  <2>1. \A i \in 1..Len(backlog) : backlog[i] \in Clients /\ backlog[i] # None
    BY ElementOfSeq, Bounds DEF TableInv, NetInv
  <2>2. \A h \in Fd : conn[h] # None => conn[h] \in Clients
    BY DEF TableInv, TableType
  <2>3. \A h \in Fd : conn'[h] = IF h = f THEN None ELSE conn[h]
    BY DEF TableInv, TableType
  <2> QED BY <1>1, <2>1, <2>2, <2>3 DEF TableInv, NetInv
<1> QED BY <1>3, <1>4, <1>5, <1>6 DEF TableInv

\* accept: the oldest of the backlog gets a descriptor nothing uses.
LEMMA AcceptKeepsTable ==
  ASSUME TableFits, TableInv, Accept
  PROVE  TableInv'
<1> USE FdFacts
<1>1. /\ newfd' \in Fd /\ conn[newfd'] = None
      /\ conn' = [conn EXCEPT ![newfd'] = Head(backlog)]
      /\ backlog' = Tail(backlog) /\ backlog # <<>>
      /\ pc' = "username" /\ pc = "scan"
      /\ UNCHANGED <<link, valid, busy, username, sockfd, orgSockSet>>
  BY DEF Accept, Scanning, tableVars
<1>2. /\ Head(backlog) \in Clients
      /\ Head(backlog) = backlog[1]
      /\ Len(backlog) \in Nat /\ 1 \in 1..Len(backlog)
      /\ backlog' \in Seq(Clients)
      /\ Len(backlog') = Len(backlog) - 1
      /\ \A i \in 1..Len(backlog') : /\ backlog'[i] = backlog[i + 1]
                                     /\ i + 1 \in 1..Len(backlog)
  BY <1>1, HeadTailProperties, EmptySeq, LenProperties DEF TableInv, NetInv
<1>3. newfd = 0
  BY <1>1 DEF TableInv, LoopInv
<1>4. \A f \in Fd : conn'[f] = IF f = newfd' THEN backlog[1] ELSE conn[f]
  BY <1>1, <1>2 DEF TableInv, TableType
<1>5. TableType' /\ PairingSound'
  BY <1>1, <1>2 DEF TableInv, TableType, PairingSound
<1>6. SlotLifecycle'
  <2>1. \A f \in Fd : conn'[f] # None <=> f \in orgSockSet \/ f = newfd'
    BY <1>1, <1>2, <1>3, <1>4, Bounds DEF TableInv, SlotLifecycle
  <2>2. \A f, g \in Fd : conn'[f] = conn'[g] /\ conn'[f] # None => f = g
    BY <1>2, <1>4 DEF TableInv, SlotLifecycle, NetInv
  <2> QED BY <1>1, <2>1, <2>2 DEF TableInv, SlotLifecycle
<1>7. LoopInv'
  BY <1>1, <1>2, <1>4, Bounds DEF TableInv, LoopInv, SlotLifecycle
<1>8. NetInv'
  <2>1. /\ \A i \in 1..Len(backlog') : link'[backlog'[i]] # "none"
        /\ \A i, j \in 1..Len(backlog') : backlog'[i] = backlog'[j] => i = j
    BY <1>1, <1>2 DEF TableInv, NetInv
  <2>2. \A f \in Fd : conn'[f] # None => link'[conn'[f]] # "none"
    BY <1>1, <1>2, <1>4 DEF TableInv, NetInv
  <2>3. \A f \in Fd, i \in 1..Len(backlog') : conn'[f] # backlog'[i]
    BY <1>1, <1>2, <1>4 DEF TableInv, NetInv
  <2> QED BY <1>1, <1>2, <2>1, <2>2, <2>3 DEF TableInv, NetInv
<1> QED BY <1>5, <1>6, <1>7, <1>8 DEF TableInv

\* SaveUserNameOfClient fills the slot of newfd and lets main watch it.
LEMMA SaveKeepsTable ==
  ASSUME TableFits, TableInv, AtUsername, NEW name, SaveUserName(name)
  PROVE  TableInv'
<1> USE FdFacts
<1>1. /\ newfd \in Fd /\ newfd \notin orgSockSet /\ newfd # 0 /\ conn[newfd] # None
  BY DEF AtUsername, TableInv, TableType, LoopInv
<1>2. /\ username' = [username EXCEPT ![newfd] = name]
      /\ valid' = valid \cup {newfd} /\ busy' = busy \ {newfd}
      /\ sockfd' = [sockfd EXCEPT ![newfd] = 0]
      /\ orgSockSet' = orgSockSet \cup {newfd} /\ newfd' = 0
      /\ UNCHANGED <<backlog, conn>>
  BY DEF SaveUserName
<1>3. /\ link' \in [Clients -> LinkState]
      /\ \A c \in Clients : link[c] # "none" => link'[c] # "none"
      /\ pc' # "username"
  BY HandlerEnd DEF SaveUserName
<1>4. newfd \notin valid /\ newfd \notin busy /\ sockfd[newfd] = 0
  BY <1>1 DEF TableInv, SlotLifecycle, PairingSound
<1>5. busy' = busy /\ sockfd' = sockfd
  BY <1>2, <1>4 DEF TableInv, TableType
<1>6. TableType'
  BY <1>1, <1>2, <1>5 DEF TableInv, TableType
<1>7. PairingSound'
  BY <1>2, <1>5 DEF TableInv, PairingSound
<1>8. SlotLifecycle'
  BY <1>1, <1>2, <1>5 DEF TableInv, TableType, SlotLifecycle
<1>9. LoopInv'
  BY <1>2, <1>3 DEF LoopInv
<1>10. NetInv'
  <2>1. \A i \in 1..Len(backlog) : backlog[i] \in Clients
    BY ElementOfSeq DEF TableInv, NetInv
  <2>2. \A h \in Fd : conn[h] # None => conn[h] \in Clients
    BY DEF TableInv, TableType
  <2> QED BY <1>2, <1>3, <2>1, <2>2 DEF TableInv, NetInv
<1> QED BY <1>6, <1>7, <1>8, <1>9, <1>10 DEF TableInv

----------------------------------------------------------------------------
(* The steps of the system, one lemma for the server and one for clients.  *)

LEMMA DyingKeepsTable ==
  ASSUME TableFits, TableInv, NEW out, NEW checked, DiesSending(out, checked)
  PROVE  TableInv'
BY EndKeepsTable DEF DiesSending

\* The scan is at a descriptor that leads to a client.
LEMMA ScannedFd ==
  ASSUME TableInv, NEW f \in Fd, Scanning(f), currSockSet \subseteq orgSockSet
  PROVE  pc = "scan" /\ conn[f] # None /\ conn[f] \in Clients
BY DEF Scanning, TableInv, TableType, SlotLifecycle

LEMMA ServerKeepsTable ==
  ASSUME TableFits, TableInv, currSockSet \subseteq orgSockSet, ServerNext
  PROVE  TableInv'
<1>1. CASE Select
  <2>1. /\ UNCHANGED <<tableVars, orgSockSet, conn, newfd, backlog, link>>
        /\ pc = "select" /\ pc' = "scan"
    BY <1>1 DEF Select, netVars
  <2> QED BY <2>1, QuietKeepsTable DEF TableInv, NetInv
<1>2. CASE Keyboard
  <2>1. /\ UNCHANGED <<tableVars, orgSockSet, conn, newfd, backlog, link>>
        /\ pc = "scan" /\ pc' # "username"
    BY <1>2 DEF Keyboard, netVars, Resume, Scanning
  <2> QED BY <2>1, QuietKeepsTable DEF TableInv, NetInv
<1>3. CASE EndOfProgram
  BY <1>3, EndKeepsTable DEF EndOfProgram
<1>4. CASE Accept
  BY <1>4, AcceptKeepsTable
<1>5. CASE SaveUserNameOfClient
  BY <1>5, SaveKeepsTable DEF SaveUserNameOfClient
<1>6. CASE SaveUserNameOfGoneClient
  BY <1>6, SaveKeepsTable DEF SaveUserNameOfGoneClient
<1>7. CASE RecvFailure
  BY <1>7, EndKeepsTable DEF RecvFailure
<1>8. CASE HandleRequest
  <2>1. PICK f, out : /\ f \in Fd
                      /\ Scanning(f)
                      /\ \/ KeepTable(f, out, TRUE)
                         \/ DiesSending(out, TRUE)
    BY <1>8 DEF HandleRequest, Receives
  <2> QED BY <2>1, KeepTableKeepsTable, DyingKeepsTable DEF Scanning
<1>9. CASE HandleConnectIgnored
  <2>1. PICK f \in Fd : Scanning(f) /\ KeepTable(f, <<>>, FALSE)
    BY <1>9 DEF HandleConnectIgnored, Receives
  <2> QED BY <2>1, KeepTableKeepsTable DEF Scanning
<1>10. CASE HandleConnectRefused
  <2>1. PICK f, out : /\ f \in Fd
                      /\ Scanning(f)
                      /\ \/ KeepTable(f, out, FALSE)
                         \/ DiesSending(out, FALSE)
    BY <1>10 DEF HandleConnectRefused, Receives
  <2> QED BY <2>1, KeepTableKeepsTable, DyingKeepsTable DEF Scanning
<1>11. CASE HandleConnectAccepted
  <2>1. PICK f, name, out :
          /\ f \in Fd
          /\ Scanning(f) /\ f \in valid /\ sockfd[f] = 0
          /\ ConnectOutcome(f, name) = "connected"
          /\ \/ PairUp(f, GetUserFDByNameFromDB(name), out)
             \/ DiesSending(out, FALSE)
    BY <1>11 DEF HandleConnectAccepted, Receives
  <2>2. LET other == GetUserFDByNameFromDB(name)
        IN  other \in valid /\ other # f /\ sockfd[other] = 0
    BY <2>1, ConnectedOther DEF TableInv, TableType
  <2> QED BY <2>1, <2>2, PairUpKeepsTable, DyingKeepsTable DEF Scanning
<1>12. CASE HandleBye
  <2>1. PICK f \in Fd :
          /\ Scanning(f)
          /\ \/ /\ SendsDone(CloseNotice(f), TRUE)
                /\ ClearSlot(f)
                /\ Resume(currSockSet \ {f}, loopRunning)
                /\ UNCHANGED <<backlog, orgSockSet, conn, newfd>>
             \/ DiesSending(CloseNotice(f), TRUE)
    BY <1>12 DEF HandleBye, Receives
  <2> QED BY <2>1, ByeKeepsTable, DyingKeepsTable DEF Scanning
<1>13. CASE HandleEndOfStream
  <2>1. PICK f, out :
          /\ f \in Fd
          /\ Scanning(f)
          /\ \/ /\ link' = [AfterSends(out).link EXCEPT ![conn[f]] = "closed"]
                /\ ClearSlot(f)
                /\ orgSockSet' = orgSockSet \ {f}
                /\ conn' = [conn EXCEPT ![f] = None]
                /\ Resume(currSockSet \ {f}, loopRunning)
                /\ UNCHANGED <<backlog, newfd>>
             \/ DiesSending(out, TRUE)
    BY <1>13 DEF HandleEndOfStream
  <2>2. conn[f] # None /\ pc = "scan"
    BY <2>1, ScannedFd
  <2> QED BY <2>1, <2>2, EndOfStreamKeepsTable, DyingKeepsTable
<1>14. CASE HandleText
  <2>1. PICK f, out : /\ f \in Fd
                      /\ Scanning(f)
                      /\ \/ KeepTable(f, out, TRUE)
                         \/ DiesSending(out, TRUE)
    BY <1>14 DEF HandleText, Receives
  <2> QED BY <2>1, KeepTableKeepsTable, DyingKeepsTable DEF Scanning
<1> QED BY <1>1, <1>2, <1>3, <1>4, <1>5, <1>6, <1>7, <1>8, <1>9, <1>10, <1>11,
           <1>12, <1>13, <1>14 DEF ServerNext, HandleMessage

LEMMA ClientCloseKeepsTable ==
  ASSUME TableInv, NEW c \in Clients, ClientClose(c), UNCHANGED serverVars
  PROVE  TableInv'
<1>1. /\ link' \in [Clients -> LinkState]
      /\ \A d \in Clients : link[d] # "none" => link'[d] # "none"
  BY DEF ClientClose, TableInv, NetInv, LinkState
<1> QED BY <1>1, QuietKeepsTable DEF ClientClose, serverVars, tableVars

LEMMA StartKeepsTable ==
  ASSUME TableInv, NEW c \in Clients, Start(c)
  PROVE  TableInv'
<1>1. /\ link[c] = "none" /\ link' = [link EXCEPT ![c] = "open"]
      /\ backlog' = Append(backlog, c)
      /\ UNCHANGED <<valid, busy, username, sockfd, orgSockSet, conn, newfd, pc>>
  BY DEF Start, ConnectLink, serverVars
<1>2. TableType' /\ PairingSound' /\ SlotLifecycle' /\ LoopInv'
  BY <1>1 DEF TableInv, TableType, PairingSound, SlotLifecycle, LoopInv
<1>3. NetInv'
  <2>1. /\ backlog' \in Seq(Clients)
        /\ Len(backlog) \in Nat /\ Len(backlog') = Len(backlog) + 1
        /\ \A i \in 1..Len(backlog) : backlog'[i] = backlog[i]
        /\ backlog'[Len(backlog) + 1] = c
    BY <1>1, AppendProperties, LenProperties DEF TableInv, NetInv
  <2>2. \A i \in 1..Len(backlog) : backlog[i] \in Clients /\ backlog[i] # c
    BY <1>1, ElementOfSeq DEF TableInv, NetInv
  <2>3. \A f \in Fd : conn[f] # c /\ (conn[f] # None => conn[f] \in Clients)
    BY <1>1, Bounds DEF TableInv, TableType, NetInv
  <2>4. link' \in [Clients -> LinkState] /\ \A d \in Clients :
          link[d] # "none" \/ d = c => link'[d] # "none"
    BY <1>1 DEF TableInv, NetInv, LinkState
  <2> QED BY <1>1, <2>1, <2>2, <2>3, <2>4 DEF TableInv, NetInv
<1> QED BY <1>2, <1>3 DEF TableInv

LEMMA ClientKeepsTable ==
  ASSUME TableInv, NEW c \in Clients, ClientNext(c)
  PROVE  TableInv'
<1>1. CASE Start(c)
  BY <1>1, StartKeepsTable
<1>2. CASE Close(c) \/ Interrupt(c)
  BY <1>2, ClientCloseKeepsTable DEF Close, Interrupt
<1>3. CASE \/ TypeName(c) \/ Receive(c) \/ TypeRequest(c) \/ TypeConnect(c)
           \/ TypeText(c) \/ TypeBye(c) \/ LoseServer(c)
  <2>1. UNCHANGED <<serverVars, link, backlog>>
    BY <1>3 DEF TypeName, Receive, TypeRequest, TypeConnect, TypeText, TypeBye,
                LoseServer, ClientSend, ClientRecv, netVars
  <2> QED BY <2>1, QuietKeepsTable DEF serverVars, tableVars, TableInv, NetInv
<1> QED BY <1>1, <1>2, <1>3 DEF ClientNext

----------------------------------------------------------------------------
(* The table invariant.                                                    *)

\* The descriptors still to be scanned are watched.
ScanInv == currSockSet \subseteq orgSockSet

LEMMA NextKeepsScan ==
  ASSUME ScanInv, Next
  PROVE  ScanInv'
<1> USE DEF ScanInv
<1>1. ASSUME NEW rest, NEW running, Resume(rest, running) PROVE currSockSet' = rest
  BY <1>1 DEF Resume
<1>2. ASSUME NEW how, ProcessEnds(how) PROVE ScanInv'
  BY <1>2 DEF ProcessEnds
<1>3. ASSUME NEW f, NEW out, NEW checked, KeepTable(f, out, checked) PROVE ScanInv'
  BY <1>1, <1>3 DEF KeepTable
<1>4. ASSUME NEW out, NEW checked, DiesSending(out, checked) PROVE ScanInv'
  BY <1>2, <1>4 DEF DiesSending
<1>5. CASE \E c \in Clients : ClientNext(c)
  BY <1>5 DEF ClientNext, Start, TypeName, Receive, TypeRequest, TypeConnect,
              TypeText, TypeBye, Close, Interrupt, LoseServer, serverVars
<1>6. CASE ServerNext
  <2>1. CASE Select
    BY <2>1 DEF Select, ReadySet
  <2>2. CASE Keyboard
    BY <2>2, <1>1 DEF Keyboard
  <2>3. CASE EndOfProgram \/ RecvFailure
    BY <2>3, <1>2 DEF EndOfProgram, RecvFailure
  <2>4. CASE Accept
    BY <2>4 DEF Accept
  <2>5. ASSUME NEW name, SaveUserName(name) PROVE ScanInv'
    BY <2>5, <1>1 DEF SaveUserName
  <2>6. CASE SaveUserNameOfClient \/ SaveUserNameOfGoneClient
    BY <2>5, <2>6 DEF SaveUserNameOfClient, SaveUserNameOfGoneClient
  <2>7. CASE HandleRequest \/ HandleConnectIgnored \/ HandleConnectRefused \/ HandleText
    BY <2>7, <1>3, <1>4 DEF HandleRequest, HandleConnectIgnored,
                            HandleConnectRefused, HandleText
  <2>8. CASE HandleConnectAccepted
    BY <2>8, <1>1, <1>4 DEF HandleConnectAccepted, PairUp
  <2>9. CASE HandleBye
    BY <2>9, <1>1, <1>4 DEF HandleBye
  <2>10. CASE HandleEndOfStream
    BY <2>10, <1>1, <1>4 DEF HandleEndOfStream
  <2> QED BY <1>6, <2>1, <2>2, <2>3, <2>4, <2>6, <2>7, <2>8, <2>9, <2>10
          DEF ServerNext, HandleMessage
<1> QED BY <1>5, <1>6 DEF Next, ServerStep

LEMMA InitTable ==
  ASSUME TableFits, Init
  PROVE  TableInv /\ ScanInv
<1> USE FdFacts DEF Init, ServerInit
<1>1. TableType
  BY DEF TableType
<1>2. PairingSound /\ SlotLifecycle /\ LoopInv /\ ScanInv
  BY DEF PairingSound, SlotLifecycle, LoopInv, ScanInv, STDIN, servSock
<1>3. NetInv
  BY DEF NetInv, NetInit, LinkState
<1> QED BY <1>1, <1>2, <1>3 DEF TableInv

LEMMA NextKeepsTable ==
  ASSUME TableFits, TableInv, ScanInv, [Next]_vars
  PROVE  TableInv' /\ ScanInv'
<1>1. CASE Next
  <2>1. TableInv'
    BY <1>1, ServerKeepsTable, ClientKeepsTable DEF Next, ServerStep, ScanInv
  <2> QED BY <1>1, <2>1, NextKeepsScan
<1>2. CASE UNCHANGED vars
  <2>1. TableInv'
    BY <1>2, QuietKeepsTable DEF vars, netVars, serverVars, tableVars, TableInv, NetInv
  <2> QED BY <1>2, <2>1 DEF ScanInv, vars, serverVars
<1> QED BY <1>1, <1>2

THEOREM TableInvariant ==
  ASSUME TableFits
  PROVE  Spec => [](TableInv /\ ScanInv)
<1>1. Init => TableInv /\ ScanInv
  BY InitTable
<1>2. TableInv /\ ScanInv /\ [Next]_vars => TableInv' /\ ScanInv'
  BY NextKeepsTable
<1> QED BY <1>1, <1>2, PTL DEF Spec

\* Chats are one-to-one and mutual, and busy says so, for every number of
\* clients (server.c HandleMessage, CloseConnectionIfExists).
THEOREM PairingIsSound ==
  ASSUME TableFits
  PROVE  Spec => []PairingSound
<1>1. TableInv => PairingSound
  BY DEF TableInv
<1> QED BY <1>1, TableInvariant, PTL

\* A slot is blank unless its descriptor is watched, and descriptors lead to
\* distinct clients (server.c main, SaveUserNameOfClient).
THEOREM SlotsFollowDescriptors ==
  ASSUME TableFits
  PROVE  Spec => []SlotLifecycle
<1>1. TableInv => SlotLifecycle
  BY DEF TableInv
<1> QED BY <1>1, TableInvariant, PTL

----------------------------------------------------------------------------
(* The server implements Pairing.  Each kind of step maps to one step of   *)
(* that specification or to a stutter.                                     *)

Online == {conn[f] : f \in valid}
Couples == {<<conn[f], conn[sockfd[f]]>> : f \in busy}

LEMMA QuietStutters ==
  ASSUME UNCHANGED <<valid, busy, sockfd, conn>>
  PROVE  UNCHANGED <<Online, Couples>>
BY DEF Online, Couples

LEMMA EndIsShutdown ==
  ASSUME NEW how, ProcessEnds(how)
  PROVE  Online' = {} /\ Couples' = {}
BY DEF ProcessEnds, Online, Couples

\* The ends of a chat are two clients, each behind its own descriptor.
LEMMA CoupleFacts ==
  ASSUME TableInv, NEW f \in busy
  PROVE  /\ f \in Fd /\ f \in valid /\ sockfd[f] \in Fd /\ sockfd[f] \in valid
         /\ sockfd[f] # f /\ sockfd[f] \in busy /\ sockfd[sockfd[f]] = f
         /\ conn[f] \in Clients /\ conn[sockfd[f]] \in Clients
<1>1. /\ f \in valid /\ sockfd[f] \in valid /\ sockfd[f] # f /\ sockfd[sockfd[f]] = f
  BY DEF TableInv, PairingSound
<1>2. f \in Fd /\ sockfd[f] \in Fd
  BY <1>1 DEF TableInv, SlotLifecycle
<1>3. f # 0
  BY <1>2, Bounds DEF Fd, servSock
<1>4. sockfd[f] \in busy
  BY <1>1, <1>3 DEF TableInv, TableType, PairingSound
<1>5. \A g \in {f, sockfd[f]} : conn[g] \in Clients
  BY <1>1, <1>2 DEF TableInv, TableType, SlotLifecycle
<1> QED BY <1>1, <1>2, <1>4, <1>5

\* accept touches no slot and no descriptor that has one.
LEMMA AcceptStutters ==
  ASSUME TableInv, Accept
  PROVE  UNCHANGED <<Online, Couples>>
<1>1. /\ newfd' \in Fd /\ conn[newfd'] = None
      /\ conn' = [conn EXCEPT ![newfd'] = Head(backlog)]
      /\ UNCHANGED <<valid, busy, sockfd>>
  BY DEF Accept, tableVars
<1>2. newfd' \notin valid
  BY <1>1 DEF TableInv, SlotLifecycle
<1>3. \A f \in valid : conn'[f] = conn[f]
  BY <1>1, <1>2 DEF TableInv, TableType, SlotLifecycle
<1>4. Online' = Online
  BY <1>1, <1>3 DEF Online
<1>5. \A f \in busy : f \in valid /\ sockfd[f] \in valid
  BY CoupleFacts
<1>6. Couples' = Couples
  BY <1>1, <1>3, <1>5 DEF Couples
<1> QED BY <1>4, <1>6

LEMMA SaveJoins ==
  ASSUME TableInv, AtUsername, NEW name, SaveUserName(name)
  PROVE  /\ conn[newfd] \in Clients /\ conn[newfd] \notin Online
         /\ Online' = Online \cup {conn[newfd]} /\ Couples' = Couples
<1>1. /\ newfd \in Fd /\ newfd \notin orgSockSet /\ conn[newfd] # None
  BY Bounds DEF AtUsername, TableInv, TableType, LoopInv
<1>2. newfd \notin valid /\ newfd \notin busy /\ newfd \in Slot
  BY <1>1 DEF AtUsername, TableInv, SlotLifecycle, PairingSound
<1>3. /\ valid' = valid \cup {newfd} /\ busy' = busy \ {newfd} /\ conn' = conn
      /\ sockfd' = [sockfd EXCEPT ![newfd] = 0]
  BY DEF SaveUserName
<1>4. busy' = busy /\ sockfd' = sockfd
  BY <1>2, <1>3 DEF TableInv, TableType, SlotLifecycle
<1>5. conn[newfd] \in Clients /\ conn[newfd] \notin Online
  BY <1>1, <1>2 DEF Online, TableInv, TableType, SlotLifecycle
<1>6. Online' = Online \cup {conn[newfd]} /\ Couples' = Couples
  BY <1>3, <1>4 DEF Online, Couples
<1> QED BY <1>5, <1>6

LEMMA PairUpConnects ==
  ASSUME TableFits, TableInv, NEW f \in valid, NEW g \in valid, f # g,
         sockfd[f] = 0, sockfd[g] = 0, NEW out, PairUp(f, g, out)
  PROVE  /\ conn[f] \in Online /\ conn[g] \in Online /\ conn[f] # conn[g]
         /\ conn[f] \in Clients /\ conn[g] \in Clients
         /\ \A c \in Clients : <<conn[f], c>> \notin Couples /\ <<conn[g], c>> \notin Couples
         /\ Couples' = Couples \cup {<<conn[f], conn[g]>>, <<conn[g], conn[f]>>}
         /\ Online' = Online
<1>1. /\ sockfd' = [sockfd EXCEPT ![f] = g, ![g] = f]
      /\ busy' = busy \cup {f, g}
      /\ UNCHANGED <<valid, conn>>
  BY DEF PairUp
<1>2. f \in Fd /\ g \in Fd /\ f \in Slot /\ g \in Slot
  BY DEF TableInv, TableType, SlotLifecycle
<1>3. conn[f] \in Clients /\ conn[g] \in Clients /\ conn[f] # conn[g]
  BY <1>2 DEF TableInv, TableType, SlotLifecycle
<1>4. f \notin busy /\ g \notin busy
  BY DEF TableInv, PairingSound
<1>5. \A h \in busy : conn[h] # conn[f] /\ conn[h] # conn[g]
  BY <1>2, <1>3, <1>4, CoupleFacts, Bounds DEF TableInv, SlotLifecycle
<1>6. \A h \in busy : sockfd'[h] = sockfd[h]
  BY <1>1, <1>4 DEF TableInv, TableType
<1>7. sockfd'[f] = g /\ sockfd'[g] = f
  BY <1>1, <1>2 DEF TableInv, TableType
<1>8. Couples' = Couples \cup {<<conn[f], conn[g]>>, <<conn[g], conn[f]>>}
  <2>1. Couples' = {<<conn[h], conn[sockfd'[h]]>> : h \in busy \cup {f, g}}
    BY <1>1 DEF Couples
  <2>2. Couples = {<<conn[h], conn[sockfd'[h]]>> : h \in busy}
    BY <1>6 DEF Couples
  <2> QED BY <1>7, <2>1, <2>2
<1> QED BY <1>1, <1>3, <1>5, <1>8 DEF Online, Couples

LEMMA ClearSlotLeaves ==
  ASSUME TableFits, TableInv, NEW f \in Fd, ClearSlot(f),
         \A h \in Fd : h # f => conn'[h] = conn[h],
         conn[f] # None
  PROVE  /\ conn[f] \in Clients
         /\ f \in valid => conn[f] \in Online
         /\ f \notin valid => Online' = Online /\ Couples' = Couples
         /\ f \in valid => /\ Online' = Online \ {conn[f]}
                           /\ Couples' = {p \in Couples : conn[f] \notin {p[1], p[2]}}
<1> USE FdFacts
<1>1. valid' = valid \ {f} /\ f \in Slot
  BY DEF ClearSlot
<1>2. \A h \in valid : h \in Fd
  BY DEF TableInv, SlotLifecycle
<1>3. conn[f] \in Clients /\ \A h \in valid : conn[h] = conn[f] => h = f
  BY <1>2 DEF TableInv, TableType, SlotLifecycle
<1>4. Online' = {conn[h] : h \in valid \ {f}}
  BY <1>1, <1>2 DEF Online
<1>5. Online' = Online \ (IF f \in valid THEN {conn[f]} ELSE {})
  BY <1>3, <1>4 DEF Online
<1>6. CASE Partnered(f)
  <2>1. f \in busy
    BY <1>1, <1>6 DEF Partnered, TableInv, TableType, PairingSound
  <2>2. busy' = busy \ {f, sockfd[f]} /\ sockfd' = [sockfd EXCEPT ![sockfd[f]] = 0, ![f] = 0]
    BY <1>6 DEF ClearSlot
  <2>3. \A h \in busy' : /\ h \in busy /\ h \notin {f, sockfd[f]}
                         /\ sockfd[h] \notin {f, sockfd[f]}
                         /\ sockfd'[h] = sockfd[h]
                         /\ conn'[h] = conn[h] /\ conn'[sockfd[h]] = conn[sockfd[h]]
    <3> SUFFICES ASSUME NEW h \in busy'
                 PROVE  /\ h \in busy /\ h \notin {f, sockfd[f]}
                        /\ sockfd[h] \notin {f, sockfd[f]}
                        /\ sockfd'[h] = sockfd[h]
                        /\ conn'[h] = conn[h] /\ conn'[sockfd[h]] = conn[sockfd[h]]
      OBVIOUS
    <3>1. h \in busy /\ h \notin {f, sockfd[f]}
      BY <2>2
    <3>2. sockfd[h] \notin {f, sockfd[f]}
      BY <2>1, <3>1, CoupleFacts
    <3>3. sockfd'[h] = sockfd[h]
      BY <2>2, <3>1 DEF TableInv, TableType
    <3>4. h \in Fd /\ sockfd[h] \in Fd
      BY <3>1, CoupleFacts
    <3> QED BY <3>1, <3>2, <3>3, <3>4
  <2>4. Couples' = {<<conn[h], conn[sockfd[h]]>> : h \in busy'}
    BY <2>3 DEF Couples
  <2>5. \A h \in busy : (conn[h] = conn[f] \/ conn[sockfd[h]] = conn[f]) <=> h \in {f, sockfd[f]}
    <3> SUFFICES ASSUME NEW h \in busy
                 PROVE  (conn[h] = conn[f] \/ conn[sockfd[h]] = conn[f]) <=> h \in {f, sockfd[f]}
      OBVIOUS
    <3>1. h \in valid /\ sockfd[h] \in valid /\ sockfd[sockfd[h]] = h /\ sockfd[sockfd[f]] = f
      BY <2>1, CoupleFacts
    <3> QED BY <1>3, <3>1
  <2>6. Couples' = {p \in Couples : conn[f] \notin {p[1], p[2]}}
    <3>1. ASSUME NEW p \in Couples' PROVE p \in Couples /\ conn[f] \notin {p[1], p[2]}
      <4>1. PICK h \in busy' : p = <<conn[h], conn[sockfd[h]]>>
        BY <2>4, <3>1
      <4> QED BY <4>1, <2>3, <2>5 DEF Couples
    <3>2. ASSUME NEW p \in Couples, conn[f] \notin {p[1], p[2]} PROVE p \in Couples'
      <4>1. PICK h \in busy : p = <<conn[h], conn[sockfd[h]]>>
        BY DEF Couples
      <4>2. h \in busy'
        BY <2>2, <2>5, <3>2, <4>1
      <4> QED BY <2>4, <4>1, <4>2
    <3> QED BY <3>1, <3>2
  <2> QED BY <1>3, <1>5, <2>1, <2>6 DEF Online, TableInv, PairingSound
<1>7. CASE ~Partnered(f)
  <2>1. sockfd[f] = 0 /\ f \notin busy
    BY <1>1, <1>7 DEF Partnered, TableInv, TableType, PairingSound
  <2>2. sockfd' = sockfd /\ busy' = busy
    BY <1>7, <2>1 DEF ClearSlot, TableInv, TableType
  <2>3. \A h \in busy : /\ h # f /\ sockfd[h] # f /\ h \in Fd /\ sockfd[h] \in Fd
                        /\ h \in valid /\ sockfd[h] \in valid
    BY <2>1, CoupleFacts
  <2>4. Couples' = Couples
    BY <2>2, <2>3 DEF Couples
  <2>5. \A p \in Couples : conn[f] \notin {p[1], p[2]}
    BY <1>3, <2>3 DEF Couples
  <2> QED BY <1>3, <1>5, <2>4, <2>5 DEF Online
<1> QED BY <1>6, <1>7

\* One step of the server, seen through the mapping.
LEMMA ServerStepPairs ==
  ASSUME TableFits, TableInv, ScanInv, ServerNext
  PROVE  [Chats!Next]_(Chats!vars)
<1> SUFFICES Chats!Next \/ UNCHANGED Chats!vars
  OBVIOUS
<1>0. UNCHANGED <<Online, Couples>> => UNCHANGED Chats!vars
  BY DEF Chats!vars, Online, Couples
<1>1. ASSUME UNCHANGED <<valid, busy, sockfd, conn>> PROVE UNCHANGED Chats!vars
  BY <1>0, <1>1, QuietStutters
<1>2. ASSUME NEW how, ProcessEnds(how) PROVE Chats!Next
  BY <1>2, EndIsShutdown DEF Chats!Next, Chats!Shutdown, Online, Couples
<1>3. ASSUME NEW out, NEW checked, DiesSending(out, checked) PROVE Chats!Next
  BY <1>2, <1>3 DEF DiesSending
<1>4. ASSUME NEW f, NEW out, NEW checked, KeepTable(f, out, checked)
      PROVE  UNCHANGED Chats!vars
  BY <1>1, <1>4 DEF KeepTable, tableVars
<1>5. CASE Select \/ Keyboard
  BY <1>1, <1>5 DEF Select, Keyboard, tableVars
<1>6. CASE EndOfProgram \/ RecvFailure
  BY <1>2, <1>6 DEF EndOfProgram, RecvFailure
<1>7. CASE Accept
  BY <1>0, <1>7, AcceptStutters
<1>8. CASE SaveUserNameOfClient \/ SaveUserNameOfGoneClient
  <2>1. PICK name : AtUsername /\ SaveUserName(name)
    BY <1>8 DEF SaveUserNameOfClient, SaveUserNameOfGoneClient
  <2>2. PICK c \in Clients : c = conn[newfd]
    BY <2>1, SaveJoins
  <2>3. Chats!Join(c)
    BY <2>1, <2>2, SaveJoins DEF Chats!Join, Online, Couples
  <2> QED BY <2>3 DEF Chats!Next
<1>9. CASE HandleRequest \/ HandleConnectIgnored \/ HandleConnectRefused \/ HandleText
  <2>1. CASE HandleRequest
    BY <1>3, <1>4, <2>1 DEF HandleRequest
  <2>2. CASE HandleConnectIgnored
    BY <1>4, <2>2 DEF HandleConnectIgnored
  <2>3. CASE HandleConnectRefused
    BY <1>3, <1>4, <2>3 DEF HandleConnectRefused
  <2>4. CASE HandleText
    BY <1>3, <1>4, <2>4 DEF HandleText
  <2> QED BY <1>9, <2>1, <2>2, <2>3, <2>4
<1>10. CASE HandleConnectAccepted
  <2>1. PICK f, name, out :
          /\ f \in Fd
          /\ f \in valid /\ sockfd[f] = 0
          /\ ConnectOutcome(f, name) = "connected"
          /\ \/ PairUp(f, GetUserFDByNameFromDB(name), out)
             \/ DiesSending(out, FALSE)
    BY <1>10 DEF HandleConnectAccepted
  <2> DEFINE g == GetUserFDByNameFromDB(name)
  <2>2. g \in valid /\ g # f /\ sockfd[g] = 0
    BY <2>1, ConnectedOther DEF TableInv, TableType
  <2>3. CASE PairUp(f, g, out)
    <3>1. PICK c \in Clients, d \in Clients : c = conn[f] /\ d = conn[g]
      BY <2>1, <2>2, <2>3, PairUpConnects
    <3>2. Chats!Connect(c, d)
      BY <2>1, <2>2, <2>3, <3>1, PairUpConnects
      DEF Chats!Connect, Chats!Paired, Online, Couples
    <3> QED BY <3>2 DEF Chats!Next
  <2>4. CASE DiesSending(out, FALSE)
    BY <1>3, <2>4
  <2> QED BY <2>1, <2>3, <2>4
<1>11. ASSUME NEW f \in Fd, ClearSlot(f), \A h \in Fd : h # f => conn'[h] = conn[h],
              conn[f] # None
       PROVE  Chats!Next \/ UNCHANGED Chats!vars
  <2>1. CASE f \in valid
    <3>1. PICK c \in Clients : c = conn[f]
      BY <1>11, ClearSlotLeaves
    <3>2. Chats!Leave(c)
      BY <1>11, <2>1, <3>1, ClearSlotLeaves DEF Chats!Leave, Online, Couples
    <3> QED BY <3>2 DEF Chats!Next
  <2>2. CASE f \notin valid
    BY <1>0, <1>11, <2>2, ClearSlotLeaves
  <2> QED BY <2>1, <2>2
<1>12. CASE HandleBye
  <2>1. PICK f \in Fd : /\ Scanning(f)
                        /\ \/ ClearSlot(f) /\ conn' = conn
                           \/ DiesSending(CloseNotice(f), TRUE)
    BY <1>12 DEF HandleBye, Receives
  <2>2. conn[f] # None
    BY <2>1, ScannedFd DEF ScanInv
  <2> QED BY <2>1, <2>2, <1>3, <1>11
<1>13. CASE HandleEndOfStream
  <2>1. PICK f, out : /\ f \in Fd
                      /\ Scanning(f)
                      /\ \/ ClearSlot(f) /\ conn' = [conn EXCEPT ![f] = None]
                         \/ DiesSending(out, TRUE)
    BY <1>13 DEF HandleEndOfStream
  <2>2. conn[f] # None
    BY <2>1, ScannedFd DEF ScanInv
  <2>3. conn' = [conn EXCEPT ![f] = None] => \A h \in Fd : h # f => conn'[h] = conn[h]
    BY DEF TableInv, TableType
  <2> QED BY <2>1, <2>2, <2>3, <1>3, <1>11
<1> QED BY <1>5, <1>6, <1>7, <1>8, <1>9, <1>10, <1>12, <1>13 DEF ServerNext, HandleMessage

\* The server implements Pairing, for every number of clients: nobody is
\* paired who is not inside or already in a chat, and a user who leaves takes
\* every trace of the chat along.
THEOREM ServerImplementsPairing ==
  ASSUME TableFits
  PROVE  Spec => Pairing
<1>1. Init => Chats!Init
  BY DEF Init, ServerInit, Chats!Init
<1>2. TableInv /\ ScanInv /\ [Next]_vars => [Chats!Next]_(Chats!vars)
  <2> SUFFICES ASSUME TableInv, ScanInv, [Next]_vars PROVE [Chats!Next]_(Chats!vars)
    OBVIOUS
  <2>1. CASE ServerStep
    BY <2>1, ServerStepPairs DEF ServerStep
  <2>2. CASE UNCHANGED serverVars
    BY <2>2, QuietStutters DEF serverVars, Chats!vars, Online, Couples
  <2>3. ASSUME NEW c \in Clients, ClientNext(c) PROVE UNCHANGED serverVars
    BY <2>3 DEF ClientNext, Start, TypeName, Receive, TypeRequest, TypeConnect,
                TypeText, TypeBye, Close, Interrupt, LoseServer
  <2>4. CASE UNCHANGED vars
    BY <2>2, <2>4 DEF vars
  <2> QED BY <2>1, <2>2, <2>3, <2>4 DEF Next
<1> QED BY <1>1, <1>2, TableInvariant, PTL DEF Spec, Pairing, Chats!Spec

----------------------------------------------------------------------------
\* A user in a chat is never moved to another one (server.c CONNECT).
LEMMA ServerStepSteals ==
  ASSUME TableFits, TableInv, ServerNext, NEW f \in valid,
         sockfd[f] # 0, sockfd'[f] # 0
  PROVE  sockfd'[f] = sockfd[f]
<1>0. f \in Slot /\ sockfd \in [Slot -> Slot]
  BY DEF TableInv, TableType
<1>1. ASSUME NEW how, ProcessEnds(how) PROVE FALSE
  BY <1>0, <1>1 DEF ProcessEnds
<1>2. ASSUME NEW out, NEW checked, DiesSending(out, checked) PROVE FALSE
  BY <1>1, <1>2 DEF DiesSending
<1>3. ASSUME NEW g, ClearSlot(g) PROVE sockfd'[f] = sockfd[f]
  BY <1>0, <1>3 DEF ClearSlot
<1>4. CASE \/ Select \/ Keyboard \/ Accept \/ EndOfProgram \/ RecvFailure
           \/ HandleRequest \/ HandleConnectIgnored \/ HandleConnectRefused
           \/ HandleText
  BY <1>1, <1>2, <1>4 DEF Select, Keyboard, Accept, EndOfProgram, RecvFailure,
     HandleRequest, HandleConnectIgnored, HandleConnectRefused, HandleText,
     KeepTable, tableVars
<1>5. CASE SaveUserNameOfClient \/ SaveUserNameOfGoneClient
  <2>1. PICK name : SaveUserName(name)
    BY <1>5 DEF SaveUserNameOfClient, SaveUserNameOfGoneClient
  <2>2. sockfd' = [sockfd EXCEPT ![newfd] = 0]
    BY <2>1 DEF SaveUserName
  <2> QED BY <1>0, <2>2
<1>6. CASE HandleConnectAccepted
  <2>1. PICK g, name, out :
          /\ g \in Fd
          /\ g \in valid /\ sockfd[g] = 0
          /\ ConnectOutcome(g, name) = "connected"
          /\ \/ PairUp(g, GetUserFDByNameFromDB(name), out)
             \/ DiesSending(out, FALSE)
    BY <1>6 DEF HandleConnectAccepted
  <2> DEFINE other == GetUserFDByNameFromDB(name)
  <2>2. sockfd[other] = 0
    BY <2>1, ConnectedOther DEF TableInv, TableType
  <2>3. sockfd' = [sockfd EXCEPT ![g] = other, ![other] = g]
    BY <1>2, <2>1 DEF PairUp
  <2> QED BY <1>0, <2>1, <2>2, <2>3
<1>7. CASE HandleBye \/ HandleEndOfStream
  <2>1. \E g, out : ClearSlot(g) \/ DiesSending(out, TRUE)
    BY <1>7 DEF HandleBye, HandleEndOfStream
  <2> QED BY <2>1, <1>2, <1>3
<1> QED BY <1>4, <1>5, <1>6, <1>7 DEF ServerNext, HandleMessage

THEOREM NobodyIsStolen ==
  ASSUME TableFits
  PROVE  Spec => NeverStolen
<1> DEFINE Steady == \A f \in valid :
                       sockfd[f] # 0 /\ sockfd'[f] # 0 => sockfd'[f] = sockfd[f]
<1>1. TableInv /\ [Next]_vars => [Steady]_vars
  <2> SUFFICES ASSUME TableInv, Next PROVE Steady
    OBVIOUS
  <2>1. CASE ServerStep
    BY <2>1, ServerStepSteals DEF ServerStep
  <2>2. CASE \E c \in Clients : ClientNext(c)
    BY <2>2 DEF ClientNext, Start, TypeName, Receive, TypeRequest, TypeConnect,
                TypeText, TypeBye, Close, Interrupt, LoseServer, serverVars
  <2> QED BY <2>1, <2>2 DEF Next
<1> QED BY <1>1, TableInvariant, PTL DEF Spec, NeverStolen
=============================================================================
