---------------------------- MODULE ClientProofs ----------------------------
(***************************************************************************)
(* Proofs about ChatClient: its invariants, for any bounds on messages,    *)
(* and that it implements ClientLife.                                      *)
(***************************************************************************)
EXTENDS ChatClient, TLAPS

\* Where the threads may be together.  finish, as long as main has not set it
\* itself, and the end of main's loop mean that the stdin thread has passed on a
\* "bye"; it exists once main has created it.
ThreadInv ==
  /\ inPc = "off" <=> mainPc \in {"name", "welcome", "create"}
  /\ finish \/ mainPc \in {"close", "inform", "return"} => inPc \in {"close", "ended"}
  /\ inPc \in {"inform", "close", "ended"} => line = "bye"
  /\ ownSock = "closed" => inPc \in {"close", "ended"}
  /\ inPc \in {"check", "send"} => line \in Lines
  /\ inPc = "send" => line # "EOF"

\* The stdin thread sends only while there is room; nothing comes before the name
\* has been sent, and main does not go on without the welcome.
SentInv == /\ mainPc = "name" => sent = <<>>
           /\ mainPc \notin {"name", "welcome"} => sent # <<>>
           /\ sent = <<>> => inbox = 0
           /\ inPc \in {"off", "read", "check", "send"} => Len(sent) <= MaxSent

\* Unless threadInitializeVar has wiped it out, the flag is set before the
\* descriptor is closed, so that main reads it after its first bad recv.
FlagInv ==
  /\ mainPc \in {"name", "welcome", "create", "init"} => ~early /\ badRecvs = 0
  /\ inPc \in {"close", "ended"} => finish \/ early
  /\ badRecvs > 0 /\ ~early => /\ badRecvs = 1 /\ finish
                               /\ mainPc \in {"check", "close", "inform", "return"}

IInv == TypeOK /\ ThreadInv /\ SentInv /\ FlagInv

LEMMA InitInv == Init => IInv
<1> SUFFICES ASSUME Init PROVE IInv
  OBVIOUS
<1>1. MaxSent \in Nat \ {0} /\ MaxInbox \in Nat \ {0}
  BY ClientAssumption
<1>2. sent = <<>> /\ sent \in Seq(Lines \cup {"name"}) /\ Len(sent) = 0
  BY DEF Init
<1>3. 0 \in 0..MaxInbox /\ 0 \in 0..2 /\ Len(sent) <= MaxSent + 1
  BY <1>1, <1>2
<1>4. TypeOK
  BY <1>2, <1>3 DEF Init, TypeOK
<1>5. ThreadInv /\ FlagInv
  BY DEF Init, ThreadInv, FlagInv
<1>6. SentInv
  BY <1>1, <1>2 DEF SentInv, Init
<1> QED BY <1>4, <1>5, <1>6 DEF IInv

USE DEF Main, Input, Running, Ends, Lines, Sends

----------------------------------------------------------------------------
(* Types. *)

LEMMA AppendType ==
  ASSUME NEW S, NEW s \in Seq(S), NEW e \in S
  PROVE  /\ Append(s, e) \in Seq(S) /\ Append(s, e) # <<>>
         /\ Len(Append(s, e)) = Len(s) + 1 /\ Len(s) \in Nat
  OBVIOUS

\* The name is the first message.
LEMMA NameIsSent ==
  ASSUME IInv, SendUsername
  PROVE  /\ sent = <<>> /\ sent' = Append(sent, "name")
         /\ sent' \in Seq(Lines \cup {"name"}) /\ Len(sent') = 1 /\ sent' # <<>>
<1>1. sent = <<>> /\ sent' = Append(sent, "name")
  BY DEF IInv, SentInv, SendUsername
<1>2. sent' = <<"name">>
  BY <1>1
<1> QED BY <1>1, <1>2

LEMMA TypesStep == IInv /\ [Next]_vars => TypeOK' /\ SentInv'
<1> SUFFICES ASSUME IInv, [Next]_vars PROVE TypeOK' /\ SentInv'
  OBVIOUS
<1>a. MaxSent \in Nat \ {0} /\ MaxInbox \in Nat \ {0}
  BY ClientAssumption
<1> USE DEF IInv, TypeOK, ThreadInv, SentInv
<1>1. CASE SendUsername
  <2>1. sent' \in Seq(Lines \cup {"name"}) /\ Len(sent') = 1 /\ sent' # <<>>
    BY <1>1, NameIsSent
  <2>2. TypeOK' BY <1>1, <1>a, <2>1 DEF SendUsername
  <2>3. SentInv' BY <1>1, <1>a, <2>1 DEF SendUsername
  <2> QED BY <2>2, <2>3
<1>2. CASE MainStep
  <2>1. sent' = sent
    BY <1>2 DEF MainStep, RecvWelcome, CreateThread, InitializeVar, CheckFinish,
       SelectReady, SelectTimeout, RecvMessage, RecvReset, RecvBadDescriptor,
       RecvEndOfStream, CloseAfterLoop, MainInforms, Return
  <2>2. CASE RecvWelcome \/ RecvMessage
    BY <2>1, <2>2, <1>a DEF RecvWelcome, RecvMessage
  <2>3. CASE CreateThread \/ InitializeVar \/ CheckFinish
    BY <2>1, <2>3, <1>a DEF CreateThread, InitializeVar, CheckFinish
  <2>4. CASE SelectReady \/ SelectTimeout \/ RecvBadDescriptor
    BY <2>1, <2>4, <1>a DEF SelectReady, SelectTimeout, RecvBadDescriptor
  <2>6. CASE RecvReset
    BY <2>1, <2>6, <1>a DEF RecvReset
  <2>5. CASE RecvEndOfStream \/ CloseAfterLoop \/ MainInforms \/ Return
    BY <2>1, <2>5, <1>a DEF RecvEndOfStream, CloseAfterLoop, MainInforms, Return
  <2> QED BY <1>2, <2>2, <2>3, <2>4, <2>5, <2>6 DEF MainStep
<1>3. CASE SendLine
  <2>1. line \in Lines \cup {"name"} /\ inPc = "send"
    BY <1>3 DEF SendLine
  <2>2. /\ sent' \in Seq(Lines \cup {"name"}) /\ sent' # <<>>
        /\ Len(sent') = Len(sent) + 1 /\ Len(sent) \in Nat
    BY <1>3, <2>1, AppendType DEF SendLine
  <2>3. mainPc # "name" /\ mainPc' = mainPc
    BY <1>3, <2>1 DEF SendLine
  <2> QED BY <1>3, <1>a, <2>1, <2>2, <2>3 DEF SendLine
<1>4. CASE ReadLine \/ CheckBeforeSend \/ RequestFails \/ SendFails
  BY <1>4, <1>a DEF ReadLine, CheckBeforeSend, RequestFails, SendFails
<1>5. CASE InputInforms \/ InputCloses
  BY <1>5, <1>a DEF InputInforms, InputCloses
<1>6. CASE Interrupt \/ ServerSends \/ ServerCloses
  BY <1>6, <1>a DEF Interrupt, ServerSends, ServerCloses
<1>7. CASE SendUsernameFails \/ ServerResets
  <2>1. TypeOK' BY <1>7, <1>a DEF SendUsernameFails, ServerResets
  <2>2. SentInv' BY <1>7, <1>a DEF SendUsernameFails, ServerResets
  <2> QED BY <2>1, <2>2
<1>8. CASE UNCHANGED vars
  BY <1>8 DEF vars
<1> QED BY <1>1, <1>2, <1>3, <1>4, <1>5, <1>6, <1>7, <1>8 DEF Next, InputStep

----------------------------------------------------------------------------
(* The threads and the flag. *)

LEMMA ThreadStep == IInv /\ [Next]_vars => ThreadInv' /\ FlagInv'
<1> SUFFICES ASSUME IInv, [Next]_vars PROVE ThreadInv' /\ FlagInv'
  OBVIOUS
<1> USE DEF IInv, TypeOK, ThreadInv, FlagInv
<1>1. CASE SendUsername \/ SendUsernameFails \/ RecvWelcome \/ CreateThread
  BY <1>1 DEF SendUsername, SendUsernameFails, RecvWelcome, CreateThread
<1>2. CASE InitializeVar
  BY <1>2 DEF InitializeVar
<1>3. CASE CheckFinish
  BY <1>3 DEF CheckFinish
<1>4. CASE SelectReady \/ SelectTimeout \/ RecvMessage \/ RecvReset
  BY <1>4 DEF SelectReady, SelectTimeout, RecvMessage, RecvReset
<1>5. CASE RecvBadDescriptor
  BY <1>5 DEF RecvBadDescriptor
<1>6. CASE RecvEndOfStream \/ CloseAfterLoop \/ MainInforms \/ Return
  BY <1>6 DEF RecvEndOfStream, CloseAfterLoop, MainInforms, Return
<1>7. CASE ReadLine \/ CheckBeforeSend
  BY <1>7 DEF ReadLine, CheckBeforeSend
<1>8. CASE SendLine \/ RequestFails \/ SendFails \/ InputInforms \/ InputCloses
  BY <1>8 DEF SendLine, RequestFails, SendFails, InputInforms, InputCloses
<1>9. CASE Interrupt \/ ServerSends \/ ServerCloses \/ ServerResets
  BY <1>9 DEF Interrupt, ServerSends, ServerCloses, ServerResets
<1>10. CASE UNCHANGED vars
  BY <1>10 DEF vars
<1> QED BY <1>1, <1>2, <1>3, <1>4, <1>5, <1>6, <1>7, <1>8, <1>9, <1>10
        DEF Next, MainStep, InputStep

LEMMA NextInv == IInv /\ [Next]_vars => IInv'
  BY TypesStep, ThreadStep DEF IInv

\* The inductive invariant of the two threads.
THEOREM ClientInvariant == Spec => []IInv
  BY InitInv, NextInv, PTL DEF Spec

\* Every variable keeps its type, and no more is sent than the bound allows but
\* for a last "bye".
THEOREM ClientTypes == Spec => []TypeOK
<1>1. IInv => TypeOK BY DEF IInv
<1> QED BY <1>1, ClientInvariant, PTL

\* The stdin thread never sends on the closed descriptor, and main ends with
\* status 0 only for a "bye" (HandleStdinBuffer, checkOtherThreadIsActive).
THEOREM ExitsCleanly == Spec => []CleanExit
<1>1. IInv => CleanExit
  BY DEF IInv, TypeOK, ThreadInv, CleanExit, SaidBye
<1> QED BY <1>1, ClientInvariant, PTL

\* Main calls recv on the closed descriptor at most once, unless
\* threadInitializeVar has wiped out the flag.
THEOREM AtMostOneBadRecv == Spec => []OneBadRecv
<1>1. IInv => OneBadRecv
  BY DEF IInv, TypeOK, FlagInv, OneBadRecv
<1> QED BY <1>1, ClientInvariant, PTL

----------------------------------------------------------------------------
(* The refinement of ClientLife. *)

LEMMA LifeInit == Init => Life!Init
  BY DEF Init, Life!Init, LifePhase

LEMMA LifeStep == IInv /\ [Next]_vars => [Life!Next]_(Life!vars)
<1> SUFFICES ASSUME IInv, [Next]_vars PROVE Life!Next \/ UNCHANGED <<LifePhase, sent>>
  BY DEF Life!vars
<1> USE DEF IInv, TypeOK, ThreadInv, SentInv, LifePhase, SaidBye
<1>1. CASE SendUsername
  <2>1. sent' # <<>> BY <1>1, NameIsSent
  <2>2. Life!SendName BY <1>1, <2>1 DEF SendUsername, Life!SendName
  <2> QED BY <2>2 DEF Life!Next
<1>2. CASE RecvWelcome
  <2>1. Life!Welcome BY <1>2 DEF RecvWelcome, Life!Welcome
  <2> QED BY <2>1 DEF Life!Next
<1>3. CASE CreateThread \/ InitializeVar \/ CheckFinish
  BY <1>3 DEF CreateThread, InitializeVar, CheckFinish
<1>4. CASE SelectReady \/ SelectTimeout \/ RecvMessage \/ RecvReset \/ RecvBadDescriptor
  BY <1>4 DEF SelectReady, SelectTimeout, RecvMessage, RecvReset, RecvBadDescriptor
<1>5. CASE MainInforms \/ Return
  BY <1>5 DEF MainInforms, Return
<1>6. CASE CloseAfterLoop \/ InputCloses
  <2>1. ownSock' = "closed" /\ UNCHANGED <<proc, sent>> /\ proc = "running" /\ line = "bye"
        /\ inPc \in {"close", "ended"}
    BY <1>6 DEF CloseAfterLoop, InputCloses
  <2>2. CASE ownSock = "open"
    <3>1. Life!Close BY <2>1, <2>2 DEF Life!Close
    <3> QED BY <3>1 DEF Life!Next
  <2>3. CASE ownSock = "closed"
    BY <2>1, <2>3
  <2> QED BY <2>2, <2>3
<1>7. CASE RecvEndOfStream \/ SendFails \/ Interrupt
  <2>1. proc = "running" /\ proc' \in {"exit-1", "killed"} /\ UNCHANGED <<ownSock, sent>>
    BY <1>7 DEF RecvEndOfStream, SendFails, Interrupt
  <2>2. CASE ownSock = "open"
    <3>1. Life!Die BY <2>1, <2>2 DEF Life!Die
    <3> QED BY <3>1 DEF Life!Next
  <2>3. CASE ownSock = "closed"
    BY <2>1, <2>3
  <2> QED BY <2>2, <2>3
<1>8. CASE SendLine
  <2>1. /\ LifePhase = "chatting" /\ line \in Lines \ {"EOF"}
        /\ sent' = Append(sent, line) /\ sent' # <<>>
    BY <1>8, AppendType DEF SendLine
  <2>2. CASE line = "bye"
    <3>1. Life!Bye BY <1>8, <2>1, <2>2 DEF SendLine, Life!Bye
    <3> QED BY <3>1 DEF Life!Next
  <2>3. CASE line # "bye"
    <3>1. Life!Say(line) BY <1>8, <2>1, <2>3 DEF SendLine, Life!Say
    <3> QED BY <2>1, <2>3, <3>1 DEF Life!Next
  <2> QED BY <2>2, <2>3
<1>9. CASE ReadLine \/ CheckBeforeSend \/ RequestFails \/ InputInforms
  BY <1>9 DEF ReadLine, CheckBeforeSend, RequestFails, InputInforms
<1>10. CASE ServerSends \/ ServerCloses \/ ServerResets
  BY <1>10 DEF ServerSends, ServerCloses, ServerResets
<1>11. CASE SendUsernameFails
  BY <1>11 DEF SendUsernameFails
<1>12. CASE UNCHANGED vars
  BY <1>12 DEF vars
<1> QED BY <1>1, <1>2, <1>3, <1>4, <1>5, <1>6, <1>7, <1>8, <1>9, <1>10, <1>11, <1>12
        DEF Next, MainStep, InputStep

\* The client, with all interleavings of its threads, is to its server what
\* ClientLife says.
THEOREM ClientImplementsLife == Spec => LivesAsClientLife
  BY LifeInit, LifeStep, ClientInvariant, PTL DEF Spec, LivesAsClientLife, Life!Spec
=============================================================================
