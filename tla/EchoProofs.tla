----------------------------- MODULE EchoProofs -----------------------------
(***************************************************************************)
(* Proofs about EchoSystem: the types, that a client and its server stay   *)
(* in step, and what ends a server whose clients are in step, for any      *)
(* number of clients, requests and pieces.                                 *)
(*                                                                         *)
(* InStep is not inductive for the clients that call recv once.  They stay *)
(* in step, when the stream divides no message, because a request and its  *)
(* reply are never under way together (StreamInv).  What may end the       *)
(* server is left on a connection only by a broken exchange (BrokenInv).   *)
(***************************************************************************)
EXTENDS EchoSystem, TLAPS, WellFoundedInduction

StreamInv == \A c \in Clients :
  /\ link[c] = "none" =>
       c2s[c] = <<>> /\ s2c[c] = <<>> /\ due[c] = 0 /\ user[c] \in {"off", "lost"}
  /\ setup.whole /\ link[c] = "open" =>
       (c2s[c] = <<>> \/ s2c[c] = <<>>) /\ due[c] \in {0, Pieces}

IInv == TypeOK /\ InStep /\ StreamInv

----------------------------------------------------------------------------
(* Sequences. *)

\* What a recv of k elements leaves of a queue.
LEMMA RestOfQueue ==
  ASSUME NEW S, NEW s \in Seq(S), NEW k \in 1..Len(s)
  PROVE  /\ SubSeq(s, k + 1, Len(s)) \in Seq(S)
         /\ Len(SubSeq(s, k + 1, Len(s))) = Len(s) - k
         /\ \A i \in 1..(Len(s) - k) : SubSeq(s, k + 1, Len(s))[i] = s[k + i]
OBVIOUS

LEMMA StartOfQueue ==
  ASSUME NEW S, NEW s \in Seq(S), NEW k \in 1..Len(s)
  PROVE  /\ SubSeq(s, 1, k) \in Seq(S)
         /\ Len(SubSeq(s, 1, k)) = k
         /\ \A i \in 1..k : SubSeq(s, 1, k)[i] = s[i]
OBVIOUS

LEMMA Joined ==
  ASSUME NEW S, NEW s \in Seq(S), NEW t \in Seq(S)
  PROVE  /\ s \o t \in Seq(S)
         /\ Len(s \o t) = Len(s) + Len(t)
         /\ \A i \in 1..Len(s) : (s \o t)[i] = s[i]
         /\ \A i \in 1..Len(t) : (s \o t)[Len(s) + i] = t[i]
OBVIOUS

LEMMA PiecesJoined ==
  \A s, t \in Seq(Piece) :
    /\ Len(s \o t) = Len(s) + Len(t)
    /\ \A i \in 1..Len(s) : (s \o t)[i] = s[i]
    /\ \A i \in 1..Len(t) : (s \o t)[Len(s) + i] = t[i]
BY Joined

LEMMA NothingJoined ==
  ASSUME NEW S, NEW s \in Seq(S), NEW t \in Seq(S), Len(s \o t) = 0
  PROVE  s = <<>> /\ t = <<>>
<1>1. Len(s) + Len(t) = 0 /\ Len(s) \in Nat /\ Len(t) \in Nat
  BY Joined
<1>2. \A a, b \in Nat : a + b = 0 => a = 0 /\ b = 0
  OBVIOUS
<1>3. Len(s) = 0 /\ Len(t) = 0
  BY <1>1, <1>2
<1> QED BY <1>3

\* A function on 1..n with values in S is a sequence.
LEMMA IsSequence ==
  ASSUME NEW S, NEW n \in Nat, NEW f, f \in [1..n -> S]
  PROVE  f \in Seq(S) /\ Len(f) = n
OBVIOUS

\* A non-empty set of naturals has a least element.
LEMMA LeastOf ==
  ASSUME NEW S \in SUBSET Nat, S # {}
  PROVE  \E i \in S : \A j \in S : i <= j
<1>1. PICK i \in S : \A j \in S : ~(<<j, i>> \in OpToRel(<, Nat))
  BY NatLessThanWellFounded, WFMin
<1>2. ASSUME NEW j \in S PROVE i <= j
  <2> SUFFICES ASSUME ~(i <= j) PROVE FALSE
    OBVIOUS
  <2>1. i \in Nat /\ j \in Nat /\ j < i
    OBVIOUS
  <2>2. <<j, i>> \in OpToRel(<, Nat)
    BY <2>1 DEF OpToRel
  <2> QED BY <1>1, <2>2
<1> QED BY <1>2

----------------------------------------------------------------------------
(* The messages. *)

LEMMA PieceChanged ==
  ASSUME NEW p \in Piece, NEW how \in {"typed", "swapped", "result", "cut"}
  PROVE  /\ [p EXCEPT !.form = how] \in Piece
         /\ [p EXCEPT !.form = how].from = p.from
         /\ [p EXCEPT !.form = how].req = p.req
         /\ [p EXCEPT !.form = how].part = p.part
         /\ [p EXCEPT !.form = how].form = how
BY DEF Piece

LEMMA ErrorIsPiece ==
  ASSUME NEW p \in Piece
  PROVE  [p EXCEPT !.part = 0] \in Piece
<1>1. 0 \in 0..Pieces
  BY EchoAssumption
<1> QED BY <1>1 DEF Piece

\* A request is Pieces pieces, typed, in order.
LEMMA RequestIsTyped ==
  ASSUME NEW c \in Clients, NEW n \in Nat
  PROVE  /\ Request(c, n) \in Seq(Piece)
         /\ Len(Request(c, n)) = Pieces
         /\ \A i \in 1..Pieces : /\ Request(c, n)[i].from = c
                                 /\ Request(c, n)[i].req = n
                                 /\ Request(c, n)[i].part = i
                                 /\ Request(c, n)[i].form = "typed"
<1>1. Request(c, n) \in [1..Pieces -> Piece]
  BY EchoAssumption DEF Request, Piece
<1>2. Pieces \in Nat
  BY EchoAssumption
<1>3. Request(c, n) \in Seq(Piece) /\ Len(Request(c, n)) = Pieces
  BY <1>1, <1>2, IsSequence
<1> QED BY <1>3 DEF Request

\* The reply has the pieces of the request: the same client, request and part.
Echoes(reply, buffer) ==
  /\ Len(reply) = Len(buffer)
  /\ \A i \in 1..Len(buffer) : /\ reply[i].from = buffer[i].from
                               /\ reply[i].req = buffer[i].req
                               /\ reply[i].part = buffer[i].part

LEMMA SwappedEchoes ==
  ASSUME NEW buffer \in Seq(Piece)
  PROVE  /\ OperateOnQuery(buffer) \in Seq(Piece)
         /\ Echoes(OperateOnQuery(buffer), buffer)
         /\ \A i \in 1..Len(buffer) : OperateOnQuery(buffer)[i].form = "swapped"
<1> DEFINE r == OperateOnQuery(buffer)
           n == Len(buffer)
<1>1. n \in Nat /\ DOMAIN buffer = 1..n
  OBVIOUS
<1>2. \A i \in 1..n : r[i] = [buffer[i] EXCEPT !.form = "swapped"] /\ buffer[i] \in Piece
  BY <1>1 DEF OperateOnQuery
<1>3. r \in [1..n -> Piece]
  BY <1>1, <1>2, PieceChanged DEF OperateOnQuery
<1>4. r \in Seq(Piece) /\ Len(r) = n
  BY <1>1, <1>3, IsSequence
<1>5. ASSUME NEW i \in 1..n
      PROVE  /\ r[i].from = buffer[i].from /\ r[i].req = buffer[i].req
             /\ r[i].part = buffer[i].part /\ r[i].form = "swapped"
  <2>1. buffer[i] \in Piece /\ r[i] = [buffer[i] EXCEPT !.form = "swapped"]
    BY <1>2
  <2> HIDE DEF r
  <2> QED BY <2>1 DEF Piece
<1> QED BY <1>4, <1>5 DEF Echoes

LEMMA TerminatedEchoes ==
  ASSUME NEW buffer \in Seq(Piece), buffer # <<>>
  PROVE  /\ Terminated(buffer) \in Seq(Piece)
         /\ Echoes(Terminated(buffer), buffer)
         /\ \A i \in 1..Len(buffer) :
              Terminated(buffer)[i].form = IF i = Len(buffer) THEN "cut" ELSE buffer[i].form
<1> DEFINE r == Terminated(buffer)
           n == Len(buffer)
<1>1. n \in Nat /\ n > 0 /\ DOMAIN buffer = 1..n
  OBVIOUS
<1>2. \A i \in 1..n : /\ r[i] = IF i = n THEN [buffer[i] EXCEPT !.form = "cut"] ELSE buffer[i]
                      /\ buffer[i] \in Piece
  BY <1>1 DEF Terminated
<1>3. r \in [1..n -> Piece]
  <2>1. DOMAIN r = 1..n /\ r = [i \in 1..n |-> r[i]]
    BY <1>1 DEF Terminated
  <2>2. \A i \in 1..n : r[i] \in Piece
    BY <1>2, PieceChanged
  <2> QED BY <2>1, <2>2
<1>4. r \in Seq(Piece) /\ Len(r) = n
  BY <1>1, <1>3, IsSequence
<1>5. ASSUME NEW i \in 1..n
      PROVE  /\ r[i].from = buffer[i].from /\ r[i].req = buffer[i].req
             /\ r[i].part = buffer[i].part
             /\ r[i].form = IF i = n THEN "cut" ELSE buffer[i].form
  <2>1. /\ buffer[i] \in Piece
        /\ r[i] = IF i = n THEN [buffer[i] EXCEPT !.form = "cut"] ELSE buffer[i]
    BY <1>2
  <2> HIDE DEF r
  <2> QED BY <2>1 DEF Piece
<1> QED BY <1>4, <1>5 DEF Echoes

\* What is known of a result: it is a reply of at least one piece, and the
\* result of a whole request has the pieces of the request.
LEMMA ResultIsReply ==
  ASSUME NEW buffer \in Seq(Piece), buffer # <<>>
  PROVE  OperateOnMYSQL(buffer) \in Seq(Piece)
<1> DEFINE ends == {i \in DOMAIN buffer : buffer[i].part = Pieces}
           last == CHOOSE i \in ends : \A j \in ends : i <= j
           query == IF ends = {} THEN buffer ELSE SubSeq(buffer, 1, last)
           result == [i \in DOMAIN query |-> [query[i] EXCEPT !.form = "result"]]
<1>1. Len(buffer) \in Nat /\ Len(buffer) > 0 /\ DOMAIN buffer = 1..Len(buffer)
  OBVIOUS
<1>2. ASSUME ends # {}
      PROVE  last \in ends /\ \A j \in ends : last <= j
  <2>1. ends \in SUBSET Nat /\ ends # {}
    BY <1>2, <1>1
  <2> HIDE DEF ends
  <2>2. \E i \in ends : \A j \in ends : i <= j
    BY <2>1, LeastOf
  <2> QED BY <2>2
<1>3. query \in Seq(Piece) /\ Len(query) >= 1
  <2>1. CASE ends = {}
    BY <2>1, <1>1
  <2>2. CASE ends # {}
    <3>1. last \in 1..Len(buffer)
      BY <1>1, <1>2, <2>2
    <3> HIDE DEF last
    <3> QED BY <3>1, <2>2, StartOfQueue
  <2> QED BY <2>1, <2>2
<1> HIDE DEF query
<1>4. result \in [1..Len(query) -> Piece]
  <2>1. DOMAIN query = 1..Len(query) /\ \A i \in 1..Len(query) : query[i] \in Piece
    BY <1>3
  <2>2. \A i \in 1..Len(query) : [query[i] EXCEPT !.form = "result"] \in Piece
    BY <2>1, PieceChanged
  <2> QED BY <2>1, <2>2
<1>5. result \in Seq(Piece) /\ result[1] \in Piece
  <2>1. Len(query) \in Nat /\ 1 \in 1..Len(query)
    BY <1>3
  <2> HIDE DEF result
  <2> QED BY <2>1, <1>4, IsSequence
<1>6. [result[1] EXCEPT !.part = 0] \in Piece
  <2> HIDE DEF result
  <2> QED BY <1>5, ErrorIsPiece
<1>7. OperateOnMYSQL(buffer) = IF Len(query) = Pieces THEN result
                               ELSE <<[result[1] EXCEPT !.part = 0]>>
  BY Zenon DEF OperateOnMYSQL, query, result
<1> HIDE DEF result
<1> QED BY <1>5, <1>6, <1>7

LEMMA ResultEchoes ==
  ASSUME NEW buffer \in Seq(Piece), Len(buffer) = Pieces,
         \A i \in 1..Pieces : buffer[i].part = i
  PROVE  /\ OperateOnMYSQL(buffer) \in Seq(Piece)
         /\ Echoes(OperateOnMYSQL(buffer), buffer)
         /\ \A i \in 1..Len(buffer) : OperateOnMYSQL(buffer)[i].form = "result"
<1> DEFINE ends == {i \in DOMAIN buffer : buffer[i].part = Pieces}
           last == CHOOSE i \in ends : \A j \in ends : i <= j
           query == IF ends = {} THEN buffer ELSE SubSeq(buffer, 1, last)
           result == [i \in DOMAIN query |-> [query[i] EXCEPT !.form = "result"]]
<1>1. Pieces \in Nat /\ Pieces > 0 /\ DOMAIN buffer = 1..Pieces
  BY EchoAssumption
<1>2. ends = {Pieces}
  BY <1>1
<1>3. last = Pieces
  <2> HIDE DEF ends
  <2> QED BY <1>1, <1>2
<1>4. query = buffer
  <2>1. SubSeq(buffer, 1, Pieces) = buffer
    BY <1>1
  <2> QED BY <1>2, <1>3, <2>1
<1> HIDE DEF query
<1>5. result \in Seq(Piece) /\ Len(result) = Pieces
  <2>1. \A i \in 1..Pieces : buffer[i] \in Piece
    BY <1>1
  <2>2. result \in [1..Pieces -> Piece]
    BY <1>1, <1>4, <2>1, PieceChanged
  <2> HIDE DEF result
  <2> QED BY <1>1, <2>2, IsSequence
<1>6. ASSUME NEW i \in 1..Pieces
      PROVE  /\ result[i].from = buffer[i].from /\ result[i].req = buffer[i].req
             /\ result[i].part = buffer[i].part /\ result[i].form = "result"
  <2>1. buffer[i] \in Piece /\ result[i] = [buffer[i] EXCEPT !.form = "result"]
    BY <1>1, <1>4
  <2> HIDE DEF result
  <2> QED BY <2>1 DEF Piece
<1>7. OperateOnMYSQL(buffer) = result
  <2>1. OperateOnMYSQL(buffer) = IF Len(query) = Pieces THEN result
                                 ELSE <<[result[1] EXCEPT !.part = 0]>>
    BY Zenon DEF OperateOnMYSQL, query, result
  <2> QED BY <2>1, <1>4
<1> HIDE DEF result
<1> QED BY <1>5, <1>6, <1>7 DEF Echoes

----------------------------------------------------------------------------
(* Connections. *)

\* A connection that a step does not touch stays in step.
LEMMA SameConnection ==
  ASSUME NEW d \in Clients, setup' = setup,
         c2s'[d] = c2s[d], s2c'[d] = s2c[d],
         user'[d] = user[d], asked'[d] = asked[d], due'[d] = due[d],
         ConnectionInStep(d)
  PROVE  ConnectionInStep(d)'
BY DEF ConnectionInStep, Follows, Answered, Runs

\* The server moves k pieces from the requests to the end of the replies.
LEMMA ReplyKeepsOrder ==
  ASSUME NEW c \in Clients, NEW s \in Seq(Piece), NEW t \in Seq(Piece),
         NEW k \in 1..Len(t), NEW reply \in Seq(Piece),
         Echoes(reply, SubSeq(t, 1, k)), Follows(s \o t, c)
  PROVE  Follows((s \o reply) \o SubSeq(t, k + 1, Len(t)), c)
<1> DEFINE rest == SubSeq(t, k + 1, Len(t))
           head == SubSeq(t, 1, k)
           new == (s \o reply) \o rest
<1>1. /\ rest \in Seq(Piece) /\ Len(rest) = Len(t) - k
      /\ \A i \in 1..(Len(t) - k) : rest[i] = t[k + i]
  BY RestOfQueue
<1>2. Len(head) = k /\ \A i \in 1..k : head[i] = t[i]
  BY StartOfQueue
<1>3. /\ Len(reply) = k
      /\ \A i \in 1..k : /\ reply[i].from = t[i].from /\ reply[i].req = t[i].req
                         /\ reply[i].part = t[i].part
  BY <1>2 DEF Echoes
<1>4. /\ s \o reply \in Seq(Piece) /\ Len(s \o reply) = Len(s) + k
      /\ \A i \in 1..Len(s) : (s \o reply)[i] = s[i]
      /\ \A i \in 1..k : (s \o reply)[Len(s) + i] = reply[i]
  <2>1. /\ s \o reply \in Seq(Piece) /\ Len(s \o reply) = Len(s) + Len(reply)
        /\ \A i \in 1..Len(s) : (s \o reply)[i] = s[i]
        /\ \A i \in 1..Len(reply) : (s \o reply)[Len(s) + i] = reply[i]
    BY Joined
  <2> QED BY <2>1, <1>3
<1>5. /\ Len(s \o t) = Len(s) + Len(t)
      /\ \A i \in 1..Len(s) : (s \o t)[i] = s[i]
      /\ \A i \in 1..Len(t) : (s \o t)[Len(s) + i] = t[i]
  BY Joined
<1> HIDE DEF rest, head
<1>6. /\ Len(new) = Len(s) + k + (Len(t) - k)
      /\ \A i \in 1..(Len(s) + k) : new[i] = (s \o reply)[i]
      /\ \A i \in 1..(Len(t) - k) : new[Len(s) + k + i] = rest[i]
  <2> DEFINE front == s \o reply
  <2>1. front \in Seq(Piece) /\ Len(front) = Len(s) + k /\ rest \in Seq(Piece)
    BY <1>1, <1>4
  <2> HIDE DEF front
  <2>2. /\ Len(front \o rest) = Len(front) + Len(rest)
        /\ \A i \in 1..Len(front) : (front \o rest)[i] = front[i]
        /\ \A i \in 1..Len(rest) : (front \o rest)[Len(front) + i] = rest[i]
    BY <2>1, PiecesJoined
  <2>3. /\ Len(front \o rest) = Len(s) + k + (Len(t) - k)
        /\ \A i \in 1..(Len(s) + k) : (front \o rest)[i] = front[i]
        /\ \A i \in 1..(Len(t) - k) : (front \o rest)[Len(s) + k + i] = rest[i]
    BY <2>1, <2>2, <1>1
  <2> QED BY <2>3 DEF front
<1>7. Len(s) \in Nat /\ Len(t) \in Nat /\ k \in 1..Len(t)
  OBVIOUS
<1> HIDE DEF new
<1>8. ASSUME NEW i \in 1..(Len(s) + Len(t))
      PROVE  /\ new[i].from = (s \o t)[i].from
             /\ new[i].req = (s \o t)[i].req
             /\ new[i].part = (s \o t)[i].part
  <2>1. CASE i \in 1..Len(s)
    <3>1. i \in 1..(Len(s) + k)
      BY <1>7, <2>1
    <3> QED BY <3>1, <2>1, <1>4, <1>5, <1>6
  <2>2. CASE i > Len(s) /\ i <= Len(s) + k
    <3>1. PICK j \in 1..k : i = Len(s) + j
      <4>1. i - Len(s) \in 1..k /\ i = Len(s) + (i - Len(s))
        BY <1>7, <2>2
      <4> QED BY <4>1
    <3>2. i \in 1..(Len(s) + k) /\ j \in 1..Len(t)
      BY <1>7, <2>2
    <3>3. new[i] = reply[j] /\ (s \o t)[i] = t[j]
      BY <3>1, <3>2, <1>4, <1>5, <1>6
    <3> QED BY <3>3, <1>3
  <2>3. CASE i > Len(s) + k
    <3>1. PICK j \in 1..(Len(t) - k) : i = Len(s) + k + j
      <4>1. i - (Len(s) + k) \in 1..(Len(t) - k) /\ i = Len(s) + k + (i - (Len(s) + k))
        BY <1>7, <2>3
      <4> QED BY <4>1
    <3>2. k + j \in 1..Len(t) /\ i = Len(s) + (k + j)
      BY <1>7, <3>1
    <3>3. new[i] = t[k + j] /\ (s \o t)[i] = t[k + j]
      BY <3>1, <3>2, <1>1, <1>5, <1>6
    <3> QED BY <3>3
  <2> QED BY <1>7, <2>1, <2>2, <2>3
<1>9. Len(new) = Len(s \o t)
  BY <1>5, <1>6, <1>7
<1> QED BY <1>5, <1>8, <1>9 DEF Follows, new, rest

\* The client takes k pieces from the beginning of the replies.
LEMMA RecvKeepsOrder ==
  ASSUME NEW c \in Clients, NEW s \in Seq(Piece), NEW t \in Seq(Piece),
         NEW k \in 1..Len(s), Follows(s \o t, c), due[c] \in 0..Pieces,
         asked'[c] = asked[c], due'[c] = due[c] - k
  PROVE  /\ Follows(SubSeq(s, k + 1, Len(s)) \o t, c)'
         /\ k <= due[c]
<1> DEFINE rest == SubSeq(s, k + 1, Len(s))
<1>1. /\ rest \in Seq(Piece) /\ Len(rest) = Len(s) - k
      /\ \A i \in 1..(Len(s) - k) : rest[i] = s[k + i]
  BY RestOfQueue
<1>2. /\ Len(s \o t) = Len(s) + Len(t)
      /\ \A i \in 1..Len(s) : (s \o t)[i] = s[i]
      /\ \A i \in 1..Len(t) : (s \o t)[Len(s) + i] = t[i]
  BY Joined
<1> HIDE DEF rest
<1>3. /\ Len(rest \o t) = Len(rest) + Len(t)
      /\ \A i \in 1..Len(rest) : (rest \o t)[i] = rest[i]
      /\ \A i \in 1..Len(t) : (rest \o t)[Len(rest) + i] = t[i]
  BY <1>1, PiecesJoined
<1>4. Len(s) \in Nat /\ Len(t) \in Nat /\ due[c] = Len(s) + Len(t) /\ Pieces \in Nat
  BY <1>2, EchoAssumption DEF Follows
<1>5. due'[c] = Len(rest \o t) /\ due'[c] \in Nat
  BY <1>1, <1>3, <1>4
<1>6. ASSUME NEW i \in 1..due'[c]
      PROVE  (rest \o t)[i] = (s \o t)[k + i] /\ k + i \in 1..due[c]
  <2>1. CASE i <= Len(rest)
    <3>1. i \in 1..Len(rest) /\ i \in 1..(Len(s) - k) /\ k + i \in 1..Len(s)
      BY <1>1, <1>4, <1>5, <2>1
    <3> QED BY <3>1, <1>1, <1>2, <1>3, <1>4
  <2>2. CASE i > Len(rest)
    <3>1. PICK j \in 1..Len(t) : i = Len(rest) + j
      <4>1. i - Len(rest) \in 1..Len(t) /\ i = Len(rest) + (i - Len(rest))
        BY <1>1, <1>4, <1>5, <2>2
      <4> QED BY <4>1
    <3>2. k + i = Len(s) + j
      BY <1>1, <1>4, <3>1
    <3> QED BY <3>1, <3>2, <1>2, <1>3, <1>4
  <2> QED BY <1>1, <1>4, <1>5, <2>1, <2>2
<1>7. ASSUME NEW i \in 1..due'[c]
      PROVE  /\ (rest \o t)[i].from = c /\ (rest \o t)[i].req = asked'[c]
             /\ (rest \o t)[i].part = Pieces - due'[c] + i
  <2>1. /\ (s \o t)[k + i].from = c /\ (s \o t)[k + i].req = asked[c]
        /\ (s \o t)[k + i].part = Pieces - due[c] + (k + i)
    BY <1>6 DEF Follows
  <2>2. Pieces - due[c] + (k + i) = Pieces - due'[c] + i
    BY <1>4, <1>5
  <2> QED BY <1>6, <2>1, <2>2
<1>8. k <= due[c]
  BY <1>4
<1>9. Follows(rest \o t, c)'
  BY <1>5, <1>7 DEF Follows
<1> QED BY <1>8, <1>9 DEF rest

\* A new request is all that its client waits for.
LEMMA RequestFollows ==
  ASSUME NEW c \in Clients, NEW n \in Nat, asked'[c] = n, due'[c] = Pieces
  PROVE  Follows(Request(c, n), c)'
<1>2. Pieces \in Nat
  BY EchoAssumption
<1>3. /\ Len(Request(c, n)) = Pieces
      /\ \A i \in 1..Pieces : /\ Request(c, n)[i].from = c
                              /\ Request(c, n)[i].req = n
                              /\ Request(c, n)[i].part = i
  BY RequestIsTyped
<1>4. \A i \in 1..Pieces : i = Pieces - Pieces + i
  BY <1>2
<1> QED BY <1>3, <1>4 DEF Follows

----------------------------------------------------------------------------
(* Steps of the server. *)

\* A step that touches no connection.
LEMMA QuietStep ==
  ASSUME IInv, UNCHANGED <<c2s, s2c, link, setup, clientVars>>,
         ServerTypeOK', backlog' \in Seq(Clients)
  PROVE  IInv'
<1>1. TypeOK'
  BY DEF IInv, TypeOK, NetTypeOK, clientVars
<1>2. InStep'
  <2> SUFFICES ASSUME Reliable', NEW c \in Clients, link'[c] = "open"
               PROVE  ConnectionInStep(c)'
    BY DEF InStep
  <2>1. ConnectionInStep(c)
    BY DEF IInv, InStep, Reliable, Runs
  <2> QED BY <2>1, SameConnection DEF clientVars
<1>3. StreamInv'
  BY DEF IInv, StreamInv, clientVars
<1> QED BY <1>1, <1>2, <1>3 DEF IInv

LEMMA EndStep ==
  ASSUME IInv, NEW how \in {"exit", "crash"}, ServerEnds(how), UNCHANGED clientVars
  PROVE  IInv'
<1>1. /\ \A c \in Clients : c2s'[c] = <<>>
      /\ \A c \in Clients : link'[c] = IF link[c] = "none" THEN "none" ELSE "closed"
      /\ \A c \in Clients : s2c'[c] \in {s2c[c], <<>>}
  BY DEF ServerEnds
<1>2. TypeOK'
  <2>1. NetTypeOK(Piece, Piece)'
    <3>1. <<>> \in Seq(Piece) /\ <<>> \in Seq(Clients)
      OBVIOUS
    <3>2. c2s' \in [Clients -> Seq(Piece)] /\ backlog' \in Seq(Clients)
      BY <3>1 DEF ServerEnds
    <3>3. s2c' \in [Clients -> Seq(Piece)]
      BY <3>1 DEF ServerEnds, IInv, TypeOK, NetTypeOK
    <3>4. link' \in [Clients -> LinkState]
      BY DEF ServerEnds, LinkState
    <3> QED BY <3>2, <3>3, <3>4 DEF NetTypeOK
  <2>2. ServerTypeOK'
    <3>1. accepted' = <<>> /\ accepted' \in Seq(Clients) /\ Len(accepted') = 0
      BY DEF ServerEnds
    <3>2. setup' = setup /\ setup \in Setups /\ setup.fdLimit \in Nat
      BY EchoAssumption DEF ServerEnds, IInv, TypeOK, ServerTypeOK, Setups
    <3>3. /\ orgSockSet' = {} /\ currSockSet' = {} /\ loopRunning' = FALSE
          /\ pc' \in {"exit", "crash"}
      BY DEF ServerEnds
    <3>4. Len(accepted') <= setup'.fdLimit
      BY <3>1, <3>2
    <3>5. setup' \in Setups /\ loopRunning' \in BOOLEAN
      BY <3>2, <3>3
    <3>6. pc' \in {"setup", "select", "scan", "closing", "exit", "crash"}
      BY <3>3
    <3>7. orgSockSet' \subseteq ({STDIN, servSock} \cup Fds)' /\ currSockSet' \subseteq orgSockSet'
      BY <3>3
    <3> QED BY <3>1, <3>4, <3>5, <3>6, <3>7 DEF ServerTypeOK
  <2> QED BY <2>1, <2>2 DEF IInv, TypeOK, clientVars
<1>3. InStep'
  BY <1>1 DEF InStep
<1>4. StreamInv'
  BY <1>1 DEF StreamInv, IInv, clientVars
<1> QED BY <1>2, <1>3, <1>4 DEF IInv

LEMMA ClientOfFd ==
  ASSUME ServerTypeOK, NEW f \in Fds
  PROVE  Client(f) \in Clients
<1>1. accepted \in Seq(Clients) /\ f - servSock \in 1..Len(accepted)
  BY DEF ServerTypeOK, Fds, servSock
<1> QED BY <1>1 DEF Client

\* The rest of a round.
LEMMA ResumeType ==
  ASSUME ServerTypeOK, NEW rest, NEW running \in BOOLEAN, Resume(rest, running)
  PROVE  currSockSet' = rest /\ pc' \in {"scan", "select", "closing"}
BY DEF Resume

\* A reply to the client behind f that has the pieces of what was received.
LEMMA ReplyStep ==
  ASSUME IInv, NEW f \in Fds, Scanning(f), NEW k \in Received(Client(f)),
         NEW reply \in Seq(Piece), Replies(f, k, reply), UNCHANGED clientVars,
         Reliable /\ link[Client(f)] = "open" =>
           /\ Echoes(reply, SubSeq(c2s[Client(f)], 1, k))
           /\ \A i \in 1..Len(reply) : Answered(reply[i])
  PROVE  IInv'
<1>0. PICK c \in Clients : c = Client(f)
  BY ClientOfFd DEF IInv, TypeOK
<1> DEFINE rest == SubSeq(c2s[c], k + 1, Len(c2s[c]))
<1>1. c \in Clients /\ c2s[c] \in Seq(Piece) /\ s2c[c] \in Seq(Piece)
  BY DEF IInv, TypeOK, NetTypeOK
<1>2. k \in 1..Len(c2s[c])
  BY <1>0, <1>1, ChunkAssumption DEF Received, Chunks
<1>3. /\ c2s' = [c2s EXCEPT ![c] = rest]
      /\ s2c' = [s2c EXCEPT ![c] = IF link[c] = "open" THEN @ \o reply ELSE @]
      /\ link' = [link EXCEPT ![c] = IF @ = "fin" THEN "finsent" ELSE @]
      /\ Resume(currSockSet \ {f}, loopRunning)
      /\ UNCHANGED <<backlog, setup, orgSockSet, accepted, loopRunning>>
  BY <1>0 DEF Replies, Taken
<1>4. rest \in Seq(Piece) /\ s2c[c] \o reply \in Seq(Piece)
  <2>1. rest \in Seq(Piece)
    BY <1>1, <1>2, RestOfQueue
  <2>2. s2c[c] \o reply \in Seq(Piece)
    BY <1>1, Joined
  <2> QED BY <2>1, <2>2
<1> HIDE DEF rest
<1>5. TypeOK'
  <2>1. NetTypeOK(Piece, Piece)'
    <3>1. c2s' \in [Clients -> Seq(Piece)]
      BY <1>3, <1>4 DEF IInv, TypeOK, NetTypeOK
    <3>2. s2c' \in [Clients -> Seq(Piece)]
      BY <1>3, <1>4 DEF IInv, TypeOK, NetTypeOK
    <3>3. link' \in [Clients -> LinkState]
      BY <1>3 DEF IInv, TypeOK, NetTypeOK, LinkState
    <3> QED BY <1>3, <3>1, <3>2, <3>3 DEF IInv, TypeOK, NetTypeOK
  <2>2. ServerTypeOK'
    <3>1. currSockSet' = currSockSet \ {f} /\ pc' \in {"scan", "select", "closing"}
      BY <1>3, ResumeType DEF IInv, TypeOK, ServerTypeOK
    <3>2. Fds' = Fds
      BY <1>3 DEF Fds
    <3> QED BY <1>3, <3>1, <3>2 DEF IInv, TypeOK, ServerTypeOK
  <2> QED BY <2>1, <2>2 DEF IInv, TypeOK, clientVars
<1>6. /\ c2s'[c] = rest
      /\ link[c] = "open" => s2c'[c] = s2c[c] \o reply /\ link'[c] = "open"
      /\ link'[c] = "open" => link[c] = "open"
      /\ link'[c] = "none" => link[c] = "none"
      /\ \A d \in Clients \ {c} : c2s'[d] = c2s[d] /\ s2c'[d] = s2c[d] /\ link'[d] = link[d]
  BY <1>1, <1>3 DEF IInv, TypeOK, NetTypeOK
<1>7. InStep'
  <2> SUFFICES ASSUME Reliable', NEW d \in Clients, link'[d] = "open"
               PROVE  ConnectionInStep(d)'
    BY DEF InStep
  <2>1. Reliable /\ link[d] = "open" /\ ConnectionInStep(d)
    BY <1>3, <1>6 DEF IInv, InStep, Reliable, Runs
  <2>2. CASE d # c
    BY <1>3, <1>6, <2>1, <2>2, SameConnection DEF clientVars
  <2>3. CASE d = c
    <3>1. Echoes(reply, SubSeq(c2s[c], 1, k)) /\ \A i \in 1..Len(reply) : Answered(reply[i])
      BY <1>0, <2>1, <2>3
    <3>2. Follows(s2c[c] \o c2s[c], c)
      BY <2>1, <2>3 DEF ConnectionInStep
    <3>3. Follows((s2c[c] \o reply) \o rest, c)
      BY <1>1, <1>2, <3>1, <3>2, ReplyKeepsOrder DEF rest
    <3>4. s2c'[c] = s2c[c] \o reply /\ c2s'[c] = rest
      BY <1>6, <2>1, <2>3
    <3>5. Follows(s2c[c] \o c2s[c], c)'
      BY <3>3, <3>4 DEF Follows, clientVars
    <3>6. \A i \in 1..Len(s2c'[c]) : Answered(s2c[c][i])'
      <4> SUFFICES ASSUME NEW i \in 1..Len(s2c'[c]) PROVE Answered(s2c[c][i])'
        OBVIOUS
      <4>1. /\ Len(s2c'[c]) = Len(s2c[c]) + Len(reply)
            /\ \A j \in 1..Len(s2c[c]) : s2c'[c][j] = s2c[c][j]
            /\ \A j \in 1..Len(reply) : s2c'[c][Len(s2c[c]) + j] = reply[j]
        BY <1>1, <3>4, PiecesJoined
      <4>2. Len(s2c[c]) \in Nat /\ Len(reply) \in Nat
        BY <1>1
      <4>3. Answered(s2c'[c][i])
        <5>1. CASE i <= Len(s2c[c])
          <6>1. i \in 1..Len(s2c[c]) /\ s2c'[c][i] = s2c[c][i]
            BY <4>1, <4>2, <5>1
          <6> QED BY <6>1, <2>1, <2>3 DEF ConnectionInStep
        <5>2. CASE i > Len(s2c[c])
          <6>1. PICK j \in 1..Len(reply) : i = Len(s2c[c]) + j
            <7>1. i - Len(s2c[c]) \in 1..Len(reply) /\ i = Len(s2c[c]) + (i - Len(s2c[c]))
              BY <4>1, <4>2, <5>2
            <7> QED BY <7>1
          <6>2. s2c'[c][i] = reply[j]
            BY <4>1, <6>1
          <6> QED BY <6>2, <3>1
        <5> QED BY <4>1, <4>2, <5>1, <5>2
      <4> QED BY <4>3, <1>3 DEF Answered, Runs
    <3>7. \A i \in 1..Len(c2s'[c]) : c2s'[c][i].form = "typed"
      <4>1. /\ Len(rest) = Len(c2s[c]) - k
            /\ \A i \in 1..(Len(c2s[c]) - k) : rest[i] = c2s[c][k + i]
        BY <1>1, <1>2, RestOfQueue DEF rest
      <4>2. Len(c2s[c]) \in Nat /\ \A i \in 1..(Len(c2s[c]) - k) : k + i \in 1..Len(c2s[c])
        BY <1>1, <1>2
      <4> QED BY <4>1, <4>2, <3>4, <2>1, <2>3 DEF ConnectionInStep
    <3>8. (due'[c] = 0) <=> (user'[c] # "waiting")
      BY <2>1, <2>3 DEF ConnectionInStep, clientVars
    <3> QED BY <2>3, <3>5, <3>6, <3>7, <3>8 DEF ConnectionInStep
  <2> QED BY <2>2, <2>3
<1>8. StreamInv'
  <2> SUFFICES ASSUME NEW d \in Clients
               PROVE  /\ link'[d] = "none" => /\ c2s'[d] = <<>> /\ s2c'[d] = <<>>
                                              /\ due'[d] = 0 /\ user'[d] \in {"off", "lost"}
                      /\ setup'.whole /\ link'[d] = "open" =>
                           (c2s'[d] = <<>> \/ s2c'[d] = <<>>) /\ due'[d] \in {0, Pieces}
    BY DEF StreamInv
  <2>1. CASE d # c
    BY <1>3, <1>6, <2>1 DEF IInv, StreamInv, clientVars
  <2>2. CASE d = c
    <3>1. link[c] # "none"
      <4>1. c2s[c] # <<>>
        BY <1>1, <1>2
      <4> QED BY <1>1, <4>1 DEF IInv, StreamInv
    <3>2. setup.whole => rest = <<>>
      <4>1. setup.whole => k = Len(c2s[c])
        BY <1>0 DEF Received
      <4> QED BY <1>1, <1>2, <4>1 DEF rest
    <3> QED BY <1>1, <1>3, <1>6, <2>2, <3>1, <3>2 DEF IInv, StreamInv, clientVars
  <2> QED BY <2>1, <2>2
<1> QED BY <1>5, <1>7, <1>8 DEF IInv

\* When messages come whole, what waits at the server is one whole request.
LEMMA WholeRequest ==
  ASSUME IInv, NEW c \in Clients, setup.whole, link[c] = "open", c2s[c] # <<>>
  PROVE  /\ s2c[c] = <<>>
         /\ Len(c2s[c]) = Pieces
         /\ \A i \in 1..Pieces : c2s[c][i].part = i /\ c2s[c][i].form = "typed"
<1>1. c2s[c] \in Seq(Piece) /\ s2c[c] \in Seq(Piece) /\ Pieces \in Nat
  BY EchoAssumption DEF IInv, TypeOK, NetTypeOK
<1>2. s2c[c] = <<>> /\ due[c] \in {0, Pieces}
  BY DEF IInv, StreamInv
<1>3. ConnectionInStep(c)
  BY DEF IInv, InStep, Reliable
<1>4. s2c[c] \o c2s[c] = c2s[c]
  BY <1>1, <1>2
<1>5. Follows(c2s[c], c)
  BY <1>3, <1>4 DEF ConnectionInStep
<1>6. Len(c2s[c]) = Pieces /\ due[c] = Pieces
  BY <1>1, <1>2, <1>5 DEF Follows
<1>7. \A i \in 1..Pieces : c2s[c][i].part = i
  BY <1>1, <1>5, <1>6 DEF Follows
<1>8. \A i \in 1..Pieces : c2s[c][i].form = "typed"
  BY <1>3, <1>6 DEF ConnectionInStep
<1> QED BY <1>2, <1>6, <1>7, <1>8

LEMMA HangupStep ==
  ASSUME IInv, NEW f \in Fds, Hangup(f), UNCHANGED clientVars
  PROVE  IInv'
<1>1. currSockSet' = currSockSet \ {f} /\ pc' \in {"scan", "select", "closing"}
  BY ResumeType DEF Hangup, IInv, TypeOK, ServerTypeOK
<1>2. Fds' = Fds
  BY DEF Hangup, Fds
<1>3. ServerTypeOK'
  BY <1>1, <1>2 DEF Hangup, IInv, TypeOK, ServerTypeOK
<1>4. UNCHANGED <<c2s, s2c, link, setup, clientVars>> /\ backlog' \in Seq(Clients)
  BY DEF Hangup, netVars, IInv, TypeOK, NetTypeOK
<1> QED BY <1>3, <1>4, QuietStep

LEMMA LoopStep ==
  ASSUME IInv, Loop, UNCHANGED clientVars
  PROVE  IInv'
<1>1. CASE Select
  <2>1. ReadySet(TRUE) \subseteq orgSockSet /\ ReadySet(FALSE) \subseteq orgSockSet
    BY DEF ReadySet
  <2>2. currSockSet' \subseteq orgSockSet /\ pc' = "scan"
    BY <1>1, <2>1 DEF Select
  <2>3. UNCHANGED <<c2s, s2c, link, backlog, setup, orgSockSet, accepted, loopRunning>>
    BY <1>1 DEF Select, netVars
  <2>4. Fds' = Fds
    BY <2>3 DEF Fds
  <2>5. ServerTypeOK' /\ backlog' \in Seq(Clients)
    BY <2>2, <2>3, <2>4 DEF IInv, TypeOK, ServerTypeOK, NetTypeOK
  <2> QED BY <2>3, <2>5, QuietStep
<1>2. CASE Keyboard
  <2>1. currSockSet' = currSockSet \ {STDIN} /\ pc' \in {"scan", "select", "closing"}
    BY <1>2, ResumeType DEF Keyboard, IInv, TypeOK
  <2>2. UNCHANGED <<c2s, s2c, link, backlog, setup, orgSockSet, accepted>> /\ loopRunning' = FALSE
    BY <1>2 DEF Keyboard, netVars
  <2>3. Fds' = Fds
    BY <2>2 DEF Fds
  <2>4. ServerTypeOK' /\ backlog' \in Seq(Clients)
    BY <2>1, <2>2, <2>3 DEF IInv, TypeOK, ServerTypeOK, NetTypeOK
  <2> QED BY <2>2, <2>4, QuietStep
<1>3. CASE AcceptTCPConnection
  <2>1. CASE ServerEnds("crash")
    BY <2>1, EndStep
  <2>2. CASE ~ServerEnds("crash")
    <3>1. /\ backlog # <<>>
          /\ Len(accepted) < setup.fdLimit
          /\ accepted' = Append(accepted, Head(backlog))
          /\ backlog' = Tail(backlog)
          /\ orgSockSet' = orgSockSet \cup {servSock + Len(accepted) + 1}
          /\ Resume(currSockSet \ {servSock}, loopRunning)
          /\ UNCHANGED <<c2s, s2c, link, setup, loopRunning>>
      BY <1>3, <2>2 DEF AcceptTCPConnection
    <3>2. currSockSet' = currSockSet \ {servSock} /\ pc' \in {"scan", "select", "closing"}
      BY <3>1, ResumeType DEF IInv, TypeOK, ServerTypeOK
    <3>3. Head(backlog) \in Clients /\ backlog' \in Seq(Clients)
      BY <3>1 DEF IInv, TypeOK, NetTypeOK
    <3>4. /\ accepted' \in Seq(Clients) /\ Len(accepted') = Len(accepted) + 1
          /\ Len(accepted) \in Nat
      BY <3>1, <3>3 DEF IInv, TypeOK, ServerTypeOK
    <3>5. setup.fdLimit \in Nat
      BY EchoAssumption DEF IInv, TypeOK, ServerTypeOK, Setups
    <3>6. Len(accepted') <= setup'.fdLimit
      BY <3>1, <3>4, <3>5
    <3>7. orgSockSet' \subseteq {STDIN, servSock} \cup Fds'
      <4>1. Fds' = Fds \cup {servSock + Len(accepted) + 1}
        BY <3>4 DEF Fds, servSock
      <4> QED BY <3>1, <4>1 DEF IInv, TypeOK, ServerTypeOK
    <3>8. ServerTypeOK'
      BY <3>1, <3>2, <3>4, <3>6, <3>7 DEF IInv, TypeOK, ServerTypeOK
    <3> QED BY <3>1, <3>3, <3>8, QuietStep
  <2> QED BY <2>1, <2>2
<1>4. CASE EndOfProgram
  BY <1>4, EndStep DEF EndOfProgram
<1> QED BY <1>1, <1>2, <1>3, <1>4 DEF Loop

LEMMA SetUpStep ==
  ASSUME IInv, SetUpCase \/ SetUpSql \/ SetUpEcho, UNCHANGED clientVars
  PROVE  IInv'
<1>1. CASE ServerEnds("crash")
  BY <1>1, EndStep
<1>2. CASE Listens
  <2>1. UNCHANGED <<c2s, s2c, link, backlog, setup, accepted, loopRunning>>
    BY <1>2 DEF Listens, netVars
  <2>2. currSockSet' \subseteq orgSockSet'
    BY <1>2 DEF Listens
  <2>3. ServerTypeOK' /\ backlog' \in Seq(Clients)
    BY <1>2, <2>1, <2>2 DEF Listens, IInv, TypeOK, ServerTypeOK, NetTypeOK, Fds
  <2> QED BY <2>1, <2>3, QuietStep
<1> QED BY <1>1, <1>2 DEF SetUpCase, SetUpSql, SetUpEcho

\* A chunk that recv returns.
LEMMA ChunkType ==
  ASSUME IInv, NEW f \in Fds, NEW k \in Received(Client(f))
  PROVE  LET buffer == SubSeq(c2s[Client(f)], 1, k)
         IN  /\ c2s[Client(f)] \in Seq(Piece) /\ k \in 1..Len(c2s[Client(f)])
             /\ buffer \in Seq(Piece) /\ buffer # <<>> /\ Len(buffer) = k
<1>1. c2s[Client(f)] \in Seq(Piece)
  BY ClientOfFd DEF IInv, TypeOK, NetTypeOK
<1>2. k \in 1..Len(c2s[Client(f)])
  BY <1>1, ChunkAssumption DEF Received, Chunks
<1>3. SubSeq(c2s[Client(f)], 1, k) \in Seq(Piece) /\ Len(SubSeq(c2s[Client(f)], 1, k)) = k
  BY <1>1, <1>2, StartOfQueue
<1> QED BY <1>1, <1>2, <1>3

\* The same when messages come whole: the chunk is the whole request.
LEMMA WholeChunk ==
  ASSUME IInv, NEW f \in Fds, NEW k \in Received(Client(f)),
         setup.whole, link[Client(f)] = "open"
  PROVE  LET buffer == SubSeq(c2s[Client(f)], 1, k)
         IN  /\ Len(buffer) = Pieces
             /\ \A i \in 1..Pieces : buffer[i].part = i /\ buffer[i].form = "typed"
<1>1. /\ c2s[Client(f)] \in Seq(Piece) /\ k \in 1..Len(c2s[Client(f)])
      /\ k = Len(c2s[Client(f)])
  BY ChunkType DEF Received
<1>2. SubSeq(c2s[Client(f)], 1, k) = c2s[Client(f)] /\ c2s[Client(f)] # <<>>
  BY <1>1
<1>3. Client(f) \in Clients
  BY ClientOfFd DEF IInv, TypeOK
<1>4. /\ Len(c2s[Client(f)]) = Pieces
      /\ \A i \in 1..Pieces : c2s[Client(f)][i].part = i /\ c2s[Client(f)][i].form = "typed"
  BY <1>2, <1>3, WholeRequest
<1> QED BY <1>2, <1>4

LEMMA HandleStep ==
  ASSUME IInv, NEW f \in Fds, Scanning(f), UNCHANGED clientVars,
         \/ Runs("case") /\ HandleMessageCase(f)
         \/ Runs("sql") /\ HandleMessageSql(f)
         \/ Runs("echo") /\ HandleMessageEcho(f)
  PROVE  IInv'
<1>1. CASE ServerEnds("crash")
  BY <1>1, EndStep
<1>2. CASE Hangup(f)
  BY <1>2, HangupStep
<1>3. ASSUME Runs("case"), NEW k \in Received(Client(f)),
             Replies(f, k, OperateOnQuery(SubSeq(c2s[Client(f)], 1, k)))
      PROVE  IInv'
  <2> DEFINE buffer == SubSeq(c2s[Client(f)], 1, k)
             reply == OperateOnQuery(buffer)
  <2>1. buffer \in Seq(Piece) /\ Len(buffer) = k
    BY ChunkType
  <2> HIDE DEF buffer
  <2>2. /\ reply \in Seq(Piece) /\ Echoes(reply, buffer)
        /\ \A i \in 1..Len(buffer) : reply[i].form = "swapped"
    BY <2>1, SwappedEchoes
  <2> HIDE DEF reply
  <2>3. \A i \in 1..Len(reply) : Answered(reply[i])
    BY <1>3, <2>2 DEF Echoes, Answered, Runs
  <2>4. Replies(f, k, reply)
    BY <1>3 DEF reply, buffer
  <2> QED BY <1>3, <2>2, <2>3, <2>4, ReplyStep DEF buffer
<1>4. ASSUME Runs("sql"), NEW k \in Received(Client(f)),
             Replies(f, k, OperateOnMYSQL(SubSeq(c2s[Client(f)], 1, k)))
      PROVE  IInv'
  <2> DEFINE buffer == SubSeq(c2s[Client(f)], 1, k)
             reply == OperateOnMYSQL(buffer)
  <2>1. buffer \in Seq(Piece) /\ buffer # <<>>
    BY ChunkType
  <2>2. ASSUME Reliable, link[Client(f)] = "open"
        PROVE  Echoes(reply, buffer) /\ \A i \in 1..Len(reply) : Answered(reply[i])
    <3>1. setup.whole
      BY <1>4, <2>2 DEF Reliable, Runs
    <3>2. Len(buffer) = Pieces /\ \A i \in 1..Pieces : buffer[i].part = i
      BY <2>2, <3>1, WholeChunk
    <3> HIDE DEF buffer
    <3>3. /\ Echoes(reply, buffer)
          /\ \A i \in 1..Len(buffer) : reply[i].form = "result"
      BY <2>1, <3>2, ResultEchoes
    <3> HIDE DEF reply
    <3> QED BY <1>4, <3>3 DEF Echoes, Answered, Runs
  <2>3. reply \in Seq(Piece)
    <3> HIDE DEF buffer
    <3> QED BY <2>1, ResultIsReply
  <2> HIDE DEF reply
  <2>4. Replies(f, k, reply)
    BY <1>4 DEF reply, buffer
  <2> QED BY <2>2, <2>3, <2>4, ReplyStep DEF buffer
<1>5. ASSUME Runs("echo"), NEW k \in Received(Client(f)),
             Replies(f, k, Terminated(SubSeq(c2s[Client(f)], 1, k)))
      PROVE  IInv'
  <2> DEFINE buffer == SubSeq(c2s[Client(f)], 1, k)
             reply == Terminated(buffer)
  <2>1. buffer \in Seq(Piece) /\ buffer # <<>>
    BY ChunkType
  <2>2. /\ reply \in Seq(Piece) /\ Echoes(reply, buffer)
        /\ \A i \in 1..Len(buffer) :
             reply[i].form = IF i = Len(buffer) THEN "cut" ELSE buffer[i].form
    <3> HIDE DEF buffer
    <3> QED BY <2>1, TerminatedEchoes
  <2>3. ASSUME Reliable, link[Client(f)] = "open"
        PROVE  \A i \in 1..Len(reply) : Answered(reply[i])
    <3>1. setup.whole
      BY <1>5, <2>3 DEF Reliable, Runs
    <3>2. /\ Len(buffer) = Pieces
          /\ \A i \in 1..Pieces : buffer[i].part = i /\ buffer[i].form = "typed"
      BY <2>3, <3>1, WholeChunk
    <3> HIDE DEF buffer, reply
    <3>3. ASSUME NEW i \in 1..Pieces
          PROVE  /\ reply[i].part = i
                 /\ reply[i].form = IF i = Pieces THEN "cut" ELSE "typed"
      BY <2>2, <3>2 DEF Echoes
    <3> QED BY <1>5, <2>2, <3>2, <3>3 DEF Echoes, Answered, Runs
  <2> HIDE DEF reply
  <2>4. Replies(f, k, reply)
    BY <1>5 DEF reply, buffer
  <2> QED BY <2>2, <2>3, <2>4, ReplyStep DEF buffer
<1>6. CASE Runs("case") /\ HandleMessageCase(f)
  BY <1>1, <1>2, <1>3, <1>6 DEF HandleMessageCase, RecvFailure, ReplyFails
<1>7. CASE Runs("sql") /\ HandleMessageSql(f)
  BY <1>1, <1>2, <1>4, <1>7 DEF HandleMessageSql, RecvFailure, ReplyFails
<1>8. CASE Runs("echo") /\ HandleMessageEcho(f)
  BY <1>1, <1>2, <1>5, <1>8 DEF HandleMessageEcho, RecvFailure, ReplyFails
<1> QED BY <1>6, <1>7, <1>8

LEMMA ServerKeeps ==
  ASSUME IInv, ServerStep
  PROVE  IInv'
<1>1. UNCHANGED clientVars /\ ServerNext
  BY DEF ServerStep
<1>2. CASE CaseServer
  BY <1>1, <1>2, SetUpStep, LoopStep, HandleStep DEF CaseServer
<1>3. CASE SqlServer
  BY <1>1, <1>3, SetUpStep, LoopStep, HandleStep DEF SqlServer
<1>4. CASE EchoServer
  <2>1. CASE AcceptInvalid
    BY <1>1, <2>1, EndStep DEF AcceptInvalid
  <2> QED BY <1>1, <1>4, <2>1, SetUpStep, LoopStep, HandleStep DEF EchoServer
<1> QED BY <1>1, <1>2, <1>3, <1>4 DEF ServerNext

----------------------------------------------------------------------------
(* Steps of the clients. *)

\* What a step of client c leaves alone.
Others(c) ==
  \A d \in Clients \ {c} :
    /\ c2s'[d] = c2s[d] /\ s2c'[d] = s2c[d] /\ link'[d] = link[d]
    /\ user'[d] = user[d] /\ asked'[d] = asked[d] /\ due'[d] = due[d]

\* It is enough to look at the connection of the client that moves.
LEMMA ClientStep ==
  ASSUME IInv, NEW c \in Clients, UNCHANGED serverVars, Others(c), TypeOK',
         Reliable /\ link'[c] = "open" => ConnectionInStep(c)',
         link'[c] = "none" =>
           c2s'[c] = <<>> /\ s2c'[c] = <<>> /\ due'[c] = 0 /\ user'[c] \in {"off", "lost"},
         setup.whole /\ link'[c] = "open" =>
           (c2s'[c] = <<>> \/ s2c'[c] = <<>>) /\ due'[c] \in {0, Pieces}
  PROVE  IInv'
<1>1. setup' = setup
  BY DEF serverVars
<1>2. InStep'
  <2> SUFFICES ASSUME Reliable', NEW d \in Clients, link'[d] = "open"
               PROVE  ConnectionInStep(d)'
    BY DEF InStep
  <2>1. Reliable
    BY <1>1 DEF Reliable, Runs
  <2>2. CASE d = c
    BY <2>1, <2>2
  <2>3. CASE d # c
    <3>1. link[d] = "open" /\ ConnectionInStep(d)
      BY <2>1, <2>3 DEF IInv, InStep, Others
    <3> QED BY <1>1, <2>3, <3>1, SameConnection DEF Others
  <2> QED BY <2>2, <2>3
<1>3. StreamInv'
  <2> SUFFICES ASSUME NEW d \in Clients
               PROVE  /\ link'[d] = "none" => /\ c2s'[d] = <<>> /\ s2c'[d] = <<>>
                                              /\ due'[d] = 0 /\ user'[d] \in {"off", "lost"}
                      /\ setup'.whole /\ link'[d] = "open" =>
                           (c2s'[d] = <<>> \/ s2c'[d] = <<>>) /\ due'[d] \in {0, Pieces}
    BY DEF StreamInv
  <2>1. CASE d = c
    BY <1>1, <2>1
  <2>2. CASE d # c
    BY <1>1, <2>2 DEF IInv, StreamInv, Others
  <2> QED BY <2>1, <2>2
<1> QED BY <1>2, <1>3 DEF IInv

\* The user of c does something that sends and receives nothing.
LEMMA UserStep ==
  ASSUME IInv, NEW c \in Clients, NEW state \in User \ {"waiting"}, Becomes(c, state),
         UNCHANGED <<netVars, serverVars, asked, due>>,
         user[c] = "waiting" => link[c] = "closed",
         state \in {"off", "lost"} \/ link[c] # "none"
  PROVE  IInv'
<1>1. Others(c)
  BY DEF Others, Becomes, netVars, IInv, TypeOK
<1>2. TypeOK'
  BY DEF IInv, TypeOK, NetTypeOK, ServerTypeOK, Fds, Becomes, netVars, serverVars
<1>3. Reliable /\ link'[c] = "open" => ConnectionInStep(c)'
  <2> SUFFICES ASSUME Reliable, link'[c] = "open"
               PROVE  ConnectionInStep(c)'
    OBVIOUS
  <2>1. link[c] = "open" /\ user[c] # "waiting" /\ user'[c] # "waiting"
    BY DEF netVars, Becomes, IInv, TypeOK
  <2>2. ConnectionInStep(c)
    BY <2>1 DEF IInv, InStep
  <2> QED BY <2>1, <2>2 DEF ConnectionInStep, Follows, Answered, Runs, netVars, serverVars
<1>4. user'[c] = state
  BY DEF Becomes, IInv, TypeOK
<1> QED BY <1>1, <1>2, <1>3, <1>4, ClientStep DEF IInv, StreamInv, netVars

LEMMA ConnectStep ==
  ASSUME IInv, NEW c \in Clients, Connect(c)
  PROVE  IInv'
<1>1. CASE UNCHANGED netVars /\ Becomes(c, "lost")
  BY <1>1, UserStep DEF Connect, User
<1>2. CASE ConnectLink(c) /\ Becomes(c, "typing")
  <2>1. /\ link[c] = "none" /\ link' = [link EXCEPT ![c] = "open"]
        /\ backlog' = Append(backlog, c)
        /\ UNCHANGED <<c2s, s2c, serverVars, asked, due>>
        /\ user' = [user EXCEPT ![c] = "typing"]
    BY <1>2 DEF Connect, ConnectLink, Becomes
  <2>2. c2s[c] = <<>> /\ s2c[c] = <<>> /\ due[c] = 0
    BY <2>1 DEF IInv, StreamInv
  <2>3. Others(c)
    BY <2>1 DEF Others, IInv, TypeOK, NetTypeOK
  <2>4. TypeOK'
    <3>1. backlog' \in Seq(Clients)
      BY <2>1 DEF IInv, TypeOK, NetTypeOK
    <3> QED BY <2>1, <3>1
        DEF IInv, TypeOK, NetTypeOK, ServerTypeOK, Fds, serverVars, LinkState, User
  <2>5. ConnectionInStep(c)'
    <3>1. /\ c2s'[c] = <<>> /\ s2c'[c] = <<>> /\ due'[c] = 0 /\ user'[c] # "waiting"
      BY <2>1, <2>2 DEF IInv, TypeOK
    <3>2. s2c'[c] \o c2s'[c] = <<>>
      BY <3>1
    <3>3. Follows(s2c[c] \o c2s[c], c)'
      BY <3>1, <3>2 DEF Follows
    <3> QED BY <3>1, <3>3 DEF ConnectionInStep
  <2> QED BY <2>1, <2>2, <2>3, <2>4, <2>5, ClientStep DEF IInv, TypeOK, NetTypeOK
<1> QED BY <1>1, <1>2 DEF Connect

LEMMA TypeRequestStep ==
  ASSUME IInv, NEW c \in Clients, TypeRequest(c)
  PROVE  IInv'
<1>0. PICK n : n = asked[c] + 1
  OBVIOUS
<1>1. /\ user[c] = "typing" /\ asked[c] < MaxRequests
      /\ asked' = [asked EXCEPT ![c] = n]
      /\ due' = [due EXCEPT ![c] = Pieces]
      /\ user' = [user EXCEPT ![c] = "waiting"]
      /\ c2s' = [c2s EXCEPT ![c] = IF link[c] = "open" THEN @ \o Request(c, n) ELSE @]
      /\ UNCHANGED <<s2c, link, backlog, serverVars>>
  BY <1>0 DEF TypeRequest, Becomes
<1>2. /\ c2s[c] \in Seq(Piece) /\ s2c[c] \in Seq(Piece) /\ Pieces \in Nat /\ Pieces > 0
      /\ n \in Nat /\ n \in 0..MaxRequests
  BY <1>0, <1>1, EchoAssumption, MaxRequestsAssumption DEF IInv, TypeOK, NetTypeOK
<1>3. Others(c)
  BY <1>1 DEF Others, IInv, TypeOK, NetTypeOK
<1>4. c2s[c] \o Request(c, n) \in Seq(Piece)
  BY <1>2, RequestIsTyped, Joined
<1>5. TypeOK'
  <2>1. Pieces \in 0..Pieces
    BY <1>2
  <2> QED BY <1>1, <1>2, <1>4, <2>1
      DEF IInv, TypeOK, NetTypeOK, ServerTypeOK, Fds, serverVars, User
<1>6. ASSUME Reliable, link[c] = "open"
      PROVE  ConnectionInStep(c)' /\ s2c[c] = <<>>
  <2>1. ConnectionInStep(c)
    BY <1>6 DEF IInv, InStep
  <2>2. Len(s2c[c] \o c2s[c]) = 0
    BY <1>1, <2>1 DEF ConnectionInStep, Follows
  <2>3. s2c[c] = <<>> /\ c2s[c] = <<>>
    BY <1>2, <2>2, NothingJoined
  <2>4. /\ s2c'[c] = <<>> /\ c2s'[c] = Request(c, n)
        /\ asked'[c] = n /\ due'[c] = Pieces /\ user'[c] = "waiting"
    <3>1. Request(c, n) \in Seq(Piece)
      BY <1>2, RequestIsTyped
    <3>2. <<>> \o Request(c, n) = Request(c, n)
      BY <3>1
    <3> QED BY <1>1, <1>6, <2>3, <3>2 DEF IInv, TypeOK, NetTypeOK
  <2>5. Follows(s2c[c] \o c2s[c], c)'
    <3>1. Follows(Request(c, n), c)'
      BY <1>2, <2>4, RequestFollows
    <3>2. s2c'[c] \o c2s'[c] = Request(c, n)
      BY <1>2, <2>4, RequestIsTyped
    <3> QED BY <3>1, <3>2
  <2>6. \A i \in 1..Len(c2s'[c]) : c2s'[c][i].form = "typed"
    BY <1>2, <2>4, RequestIsTyped
  <2> QED BY <1>2, <2>3, <2>4, <2>5, <2>6 DEF ConnectionInStep
<1>7. link'[c] # "none"
  BY <1>1 DEF IInv, StreamInv
<1>8. ASSUME setup.whole, link'[c] = "open"
      PROVE  s2c'[c] = <<>> /\ due'[c] \in {0, Pieces}
  BY <1>1, <1>6, <1>8 DEF IInv, TypeOK, Reliable
<1>9. Reliable /\ link'[c] = "open" => ConnectionInStep(c)'
  BY <1>1, <1>6
<1> QED BY <1>1, <1>3, <1>5, <1>7, <1>8, <1>9, ClientStep

\* What a client in step may receive is part of what it waits for; when
\* messages come whole it is all of it.
LEMMA ReplyWaits ==
  ASSUME IInv, NEW c \in Clients, Reliable, link[c] = "open", NEW k \in 1..Len(s2c[c])
  PROVE  /\ k <= due[c] /\ due[c] \in 0..Pieces
         /\ setup.whole /\ k = Len(s2c[c]) => due[c] = k
<1>1. c2s[c] \in Seq(Piece) /\ s2c[c] \in Seq(Piece) /\ due[c] \in 0..Pieces
  BY DEF IInv, TypeOK, NetTypeOK
<1>2. Len(s2c[c] \o c2s[c]) = due[c]
  BY DEF IInv, InStep, ConnectionInStep, Follows
<1>3. due[c] = Len(s2c[c]) + Len(c2s[c])
  BY <1>1, <1>2, PiecesJoined
<1>4. Len(s2c[c]) \in Nat /\ Len(c2s[c]) \in Nat
  BY <1>1
<1>5. \A a, b \in Nat : \A j \in 1..a : j <= a + b
  OBVIOUS
<1>6. k <= due[c]
  BY <1>3, <1>4, <1>5
<1>7. ASSUME setup.whole, k = Len(s2c[c])
      PROVE  due[c] = k
  <2>1. s2c[c] # <<>>
    BY <1>1
  <2>2. c2s[c] = <<>>
    BY <1>7, <2>1 DEF IInv, StreamInv
  <2>3. Len(c2s[c]) = 0
    BY <2>2
  <2> QED BY <1>3, <1>4, <1>7, <2>3
<1> QED BY <1>1, <1>6, <1>7

\* A recv of client c, after which it waits for left pieces.
LEMMA ReceiveStep ==
  ASSUME IInv, NEW c \in Clients, NEW k, Hears(c, k),
         NEW left \in 0..Pieces, due' = [due EXCEPT ![c] = left],
         NEW state \in {"waiting", "typing"}, Becomes(c, state),
         user[c] \in {"waiting", "starved"},
         UNCHANGED <<serverVars, asked>>,
         Reliable /\ link[c] = "open" => left = due[c] - k /\ ((left = 0) <=> (state = "typing"))
  PROVE  IInv'
<1>1. PICK s \in Seq(Piece) : s = s2c[c]
  BY DEF IInv, TypeOK, NetTypeOK
<1>2. PICK t \in Seq(Piece) : t = c2s[c]
  BY DEF IInv, TypeOK, NetTypeOK
<1> DEFINE rest == SubSeq(s, k + 1, Len(s))
<1>3. k \in 1..Len(s)
  BY <1>1, ChunkAssumption DEF Hears, ClientRecv
<1>4. rest \in Seq(Piece)
  BY <1>3, RestOfQueue
<1>5. /\ s2c' = [s2c EXCEPT ![c] = rest]
      /\ UNCHANGED <<c2s, link, backlog>>
      /\ user' = [user EXCEPT ![c] = state]
      /\ setup.whole => k = Len(s)
  BY <1>1 DEF Hears, ClientRecv, Becomes
<1> HIDE DEF rest
<1>6. Others(c)
  BY <1>5 DEF Others, IInv, TypeOK, NetTypeOK
<1>7. TypeOK'
  BY <1>4, <1>5 DEF IInv, TypeOK, NetTypeOK, ServerTypeOK, Fds, serverVars, User
<1>8. /\ s2c'[c] = rest /\ c2s'[c] = t /\ link'[c] = link[c]
      /\ user'[c] = state /\ due'[c] = left
  BY <1>2, <1>5 DEF IInv, TypeOK, NetTypeOK
<1>9. ASSUME Reliable, link[c] = "open"
      PROVE  ConnectionInStep(c)'
  <2>1. ConnectionInStep(c) /\ due[c] \in 0..Pieces
    BY <1>9 DEF IInv, InStep, TypeOK
  <2>2. due'[c] = due[c] - k /\ asked'[c] = asked[c]
    BY <1>8, <1>9
  <2>3. Follows(s \o t, c)
    BY <1>1, <1>2, <2>1 DEF ConnectionInStep
  <2>4. Follows(SubSeq(s, k + 1, Len(s)) \o t, c)'
    BY <1>3, <2>1, <2>2, <2>3, RecvKeepsOrder
  <2>5. Follows(s2c[c] \o c2s[c], c)'
    BY <1>8, <2>4 DEF rest
  <2>6. \A i \in 1..Len(rest) : Answered(rest[i])
    <3>1. Len(rest) = Len(s) - k /\ \A i \in 1..(Len(s) - k) : rest[i] = s[k + i]
      BY <1>3, RestOfQueue DEF rest
    <3>2. \A i \in 1..(Len(s) - k) : k + i \in 1..Len(s)
      BY <1>3
    <3> QED BY <1>1, <2>1, <3>1, <3>2 DEF ConnectionInStep
  <2>7. \A i \in 1..Len(s2c'[c]) : Answered(s2c[c][i])'
    BY <1>8, <2>6 DEF Answered, Runs, serverVars
  <2>8. \A i \in 1..Len(c2s'[c]) : c2s'[c][i].form = "typed"
    BY <1>2, <1>8, <2>1 DEF ConnectionInStep
  <2>9. (due'[c] = 0) <=> (user'[c] # "waiting")
    BY <1>8, <1>9
  <2> QED BY <2>5, <2>7, <2>8, <2>9 DEF ConnectionInStep
<1>10. link[c] # "none"
  BY DEF IInv, StreamInv
<1>11. ASSUME setup.whole, link[c] = "open"
       PROVE  s2c'[c] = <<>> /\ due'[c] = 0
  <2>1. k = Len(s) /\ k \in 1..Len(s2c[c])
    BY <1>1, <1>3, <1>5, <1>11
  <2>2. Reliable
    BY <1>11 DEF Reliable
  <2>3. due[c] = k
    BY <1>1, <1>11, <2>1, <2>2, ReplyWaits
  <2>4. left = 0
    BY <1>3, <1>11, <2>2, <2>3
  <2>5. rest = <<>>
    BY <1>3, <2>1 DEF rest
  <2> QED BY <1>8, <2>4, <2>5
<1> QED BY <1>6, <1>7, <1>8, <1>9, <1>10, <1>11, ClientStep

LEMMA ReceiveAllStep ==
  ASSUME IInv, NEW c \in Clients, ReceiveAll(c)
  PROVE  IInv'
<1>1. PICK k \in 1..Len(s2c[c]) :
        /\ Hears(c, k)
        /\ due' = [due EXCEPT ![c] = IF k < @ THEN @ - k ELSE 0]
        /\ Becomes(c, IF k < due[c] THEN "waiting" ELSE "typing")
  BY DEF ReceiveAll
<1>2. PICK left : left = IF k < due[c] THEN due[c] - k ELSE 0
  OBVIOUS
<1>3. PICK state : state = IF k < due[c] THEN "waiting" ELSE "typing"
  OBVIOUS
<1>4. k \in Nat /\ k > 0 /\ due[c] \in 0..Pieces /\ Pieces \in Nat
  BY EchoAssumption DEF IInv, TypeOK, NetTypeOK
<1>5. left \in 0..Pieces /\ ((left = 0) <=> (state = "typing"))
  BY <1>2, <1>3, <1>4
<1>6. due' = [due EXCEPT ![c] = left] /\ Becomes(c, state)
  BY <1>1, <1>2, <1>3
<1>7. Reliable /\ link[c] = "open" => left = due[c] - k
  BY <1>2, <1>4, ReplyWaits
<1>8. state \in {"waiting", "typing"}
  BY <1>3
<1> QED BY <1>1, <1>5, <1>6, <1>7, <1>8, ReceiveStep DEF ReceiveAll

LEMMA ReceiveOnceStep ==
  ASSUME IInv, NEW c \in Clients, ReceiveOnce(c), ~Runs("case")
  PROVE  IInv'
<1>1. PICK k \in 1..Len(s2c[c]) : Hears(c, k)
  BY DEF ReceiveOnce
<1>2. 0 \in 0..Pieces
  BY EchoAssumption
<1>3. ASSUME Reliable, link[c] = "open"
      PROVE  0 = due[c] - k
  <2>1. setup.whole /\ k = Len(s2c[c])
    BY <1>1, <1>3 DEF Reliable, Hears
  <2>2. due[c] = k /\ due[c] \in 0..Pieces
    BY <1>3, <2>1, ReplyWaits
  <2> QED BY <2>2
<1> QED BY <1>1, <1>2, <1>3, ReceiveStep DEF ReceiveOnce

LEMMA LeaveStep ==
  ASSUME IInv, NEW c \in Clients, Leave(c)
  PROVE  IInv'
<1>1. PICK after \in LinkState \ {"none", "open"} :
        /\ link' = [link EXCEPT ![c] = after]
        /\ s2c' = [s2c EXCEPT ![c] = <<>>]
        /\ UNCHANGED <<c2s, backlog>>
  <2>1. CASE ClientClose(c)
    BY <2>1 DEF ClientClose, LinkState
  <2>2. CASE link[c] = "closed" /\ s2c' = [s2c EXCEPT ![c] = <<>>]
             /\ UNCHANGED <<c2s, link, backlog>>
    <3>1. link' = [link EXCEPT ![c] = "closed"]
      BY <2>2 DEF IInv, TypeOK, NetTypeOK
    <3> QED BY <2>2, <3>1 DEF LinkState
  <2> QED BY <2>1, <2>2 DEF Leave
<1>2. PICK state \in User :
        user' = [user EXCEPT ![c] = state] /\ UNCHANGED <<serverVars, asked, due>>
  BY DEF Leave, Becomes, User
<1>3. Others(c)
  BY <1>1, <1>2 DEF Others, IInv, TypeOK, NetTypeOK
<1>4. TypeOK'
  <2>1. <<>> \in Seq(Piece)
    OBVIOUS
  <2>2. s2c' \in [Clients -> Seq(Piece)]
    BY <1>1, <2>1 DEF IInv, TypeOK, NetTypeOK
  <2> QED BY <1>1, <1>2, <2>2 DEF IInv, TypeOK, NetTypeOK, ServerTypeOK, Fds, serverVars
<1>5. link'[c] \notin {"none", "open"}
  BY <1>1 DEF IInv, TypeOK, NetTypeOK
<1> QED BY <1>2, <1>3, <1>4, <1>5, ClientStep

LEMMA ClientKeeps ==
  ASSUME IInv, NEW c \in Clients, ClientNext(c)
  PROVE  IInv'
<1>1. CASE Connect(c)
  BY <1>1, ConnectStep
<1>2. CASE ConnectToAny(c)
  <2>1. CASE user[c] = "off" /\ Becomes(c, "lost") /\ UNCHANGED <<netVars, serverVars, asked, due>>
    BY <2>1, UserStep DEF User
  <2> QED BY <1>2, <2>1, ConnectStep DEF ConnectToAny
<1>3. CASE TypeRequest(c)
  BY <1>3, TypeRequestStep
<1>4. CASE EndOfInput(c)
  BY <1>4, UserStep DEF EndOfInput, User, IInv, StreamInv
<1>5. CASE SendFailure(c)
  BY <1>5, UserStep DEF SendFailure, User
<1>6. CASE LoseServer(c)
  BY <1>6, UserStep DEF LoseServer, User
<1>7. CASE Leave(c)
  BY <1>7, LeaveStep
<1>8. CASE ReceiveAll(c)
  BY <1>8, ReceiveAllStep
<1>9. CASE ~Runs("case") /\ ReceiveOnce(c)
  BY <1>9, ReceiveOnceStep
<1> QED BY <1>1, <1>2, <1>3, <1>4, <1>5, <1>6, <1>7, <1>8, <1>9
    DEF ClientNext, CaseClient, SqlClient, EchoClient, Types, Runs

----------------------------------------------------------------------------
LEMMA InitIInv == Init => IInv
<1> SUFFICES ASSUME Init PROVE IInv
  OBVIOUS
<1>1. 0 \in 0..Pieces /\ 0 \in 0..MaxRequests
  BY EchoAssumption, MaxRequestsAssumption
<1>2. setup.fdLimit \in Nat
  BY EchoAssumption DEF Init, ServerInit, Setups
<1>3. <<>> \in Seq(Piece) /\ <<>> \in Seq(Clients) /\ Len(<<>>) = 0
  OBVIOUS
<1>4. NetTypeOK(Piece, Piece)
  BY <1>3 DEF Init, NetInit, NetTypeOK, LinkState
<1>5. ServerTypeOK
  BY <1>2, <1>3 DEF Init, ServerInit, ServerTypeOK
<1>6. TypeOK
  BY <1>1, <1>4, <1>5 DEF Init, TypeOK, User
<1>7. InStep /\ StreamInv
  BY DEF Init, NetInit, InStep, StreamInv
<1> QED BY <1>6, <1>7 DEF IInv

LEMMA NextIInv == IInv /\ [Next]_vars => IInv'
<1> SUFFICES ASSUME IInv, [Next]_vars PROVE IInv'
  OBVIOUS
<1>1. CASE ServerStep
  BY <1>1, ServerKeeps
<1>2. ASSUME NEW c \in Clients, ClientNext(c) PROVE IInv'
  BY <1>2, ClientKeeps
<1>3. CASE UNCHANGED vars
  <2>1. UNCHANGED <<c2s, s2c, link, setup, clientVars>>
    BY <1>3 DEF vars, netVars, serverVars
  <2>2. ServerTypeOK' /\ backlog' \in Seq(Clients)
    BY <1>3 DEF vars, netVars, serverVars, IInv, TypeOK, NetTypeOK, ServerTypeOK, Fds
  <2> QED BY <2>1, <2>2, QuietStep
<1> QED BY <1>1, <1>2, <1>3 DEF Next

\* The variables have their types, and never more clients are accepted than
\* there are descriptors, whichever server runs.
THEOREM EchoTypes == Spec => []TypeOK
<1>1. IInv => TypeOK
  BY DEF IInv
<1> QED BY <1>1, InitIInv, NextIInv, PTL DEF Spec

\* Client and server stay in step, for any number of clients, requests and
\* pieces of a request: always for the case client, whose receive loop counts
\* bytes, and for the others as long as no message is divided.
THEOREM EchoInStep == Spec => []InStep
<1>1. IInv => InStep
  BY DEF IInv
<1> QED BY <1>1, InitIInv, NextIInv, PTL DEF Spec
----------------------------------------------------------------------------
(* What ends the server. *)

\* A send to c, or the recv that would return 0, may end the server, now or
\* once what is queued has been answered.
Spoilt(c) == \/ link[c] \in {"rst", "finsent"}
             \/ link[c] = "fin" /\ c2s[c] # <<>>

\* In step, only a user with a request unanswered can have spoilt a connection.
BrokenInv == Reliable => \A c \in Clients : Spoilt(c) => user[c] = "broke"

\* Nothing the server does spoils a connection.
LEMMA ServerSpoilsNothing ==
  ASSUME IInv, ServerStep, NEW c \in Clients, Spoilt(c)'
  PROVE  Spoilt(c)
<1>1. CASE \E how \in {"exit", "crash"} : ServerEnds(how)
  BY <1>1 DEF ServerEnds, Spoilt
<1>2. CASE UNCHANGED <<c2s, link>>
  BY <1>2 DEF Spoilt
<1>3. ASSUME NEW f \in Fds, NEW k \in Received(Client(f)), NEW reply, Replies(f, k, reply)
      PROVE  Spoilt(c)
  <2>1. /\ c2s' = [c2s EXCEPT ![Client(f)] = SubSeq(@, k + 1, Len(@))]
        /\ link' = [link EXCEPT ![Client(f)] = IF @ = "fin" THEN "finsent" ELSE @]
    BY <1>3 DEF Replies, Taken
  <2>2. c2s[Client(f)] # <<>>
    BY ChunkType
  <2> QED BY <2>1, <2>2 DEF Spoilt, IInv, TypeOK, NetTypeOK
<1>4. CASE Loop
  BY <1>1, <1>2, <1>4
     DEF Loop, Select, Keyboard, AcceptTCPConnection, EndOfProgram, netVars
<1>5. CASE SetUpCase \/ SetUpSql \/ SetUpEcho \/ AcceptInvalid
  BY <1>1, <1>2, <1>5 DEF SetUpCase, SetUpSql, SetUpEcho, AcceptInvalid, Listens, netVars
<1>6. ASSUME NEW f \in Fds,
             HandleMessageCase(f) \/ HandleMessageSql(f) \/ HandleMessageEcho(f)
      PROVE  Spoilt(c)
  BY <1>1, <1>2, <1>3, <1>6
     DEF HandleMessageCase, HandleMessageSql, HandleMessageEcho, RecvFailure, ReplyFails,
         Hangup, netVars
<1> QED BY <1>4, <1>5, <1>6 DEF ServerStep, ServerNext, CaseServer, SqlServer, EchoServer

\* A user who leaves spoils the connection only with a request unanswered.
LEMMA LeavingSpoils ==
  ASSUME IInv, NEW c \in Clients, Leave(c), Reliable, Spoilt(c)', ~Spoilt(c)
  PROVE  user'[c] = "broke"
<1>1. ClientClose(c)
  <2> SUFFICES ASSUME link[c] = "closed", UNCHANGED link PROVE FALSE
    BY DEF Leave
  <2> QED BY DEF Spoilt
<1>2. link[c] = "open" /\ ConnectionInStep(c)
  BY <1>1 DEF ClientClose, IInv, InStep
<1>3. s2c[c] # <<>> \/ c2s[c] # <<>>
  BY <1>1 DEF ClientClose, Spoilt, IInv, TypeOK, NetTypeOK
<1>4. due[c] # 0
  <2>1. Len(s2c[c] \o c2s[c]) = due[c]
    BY <1>2 DEF ConnectionInStep, Follows
  <2>2. s2c[c] \in Seq(Piece) /\ c2s[c] \in Seq(Piece)
    BY DEF IInv, TypeOK, NetTypeOK
  <2> QED BY <1>3, <2>1, <2>2, NothingJoined
<1>5. user[c] = "waiting"
  BY <1>2, <1>4 DEF ConnectionInStep
<1> QED BY <1>5 DEF Leave, Becomes, IInv, TypeOK

\* What the other operations of a client do to the connections and the users.
LEMMA ClientSpoilsNothing ==
  ASSUME IInv, NEW c \in Clients, ClientNext(c), ~Leave(c), NEW d \in Clients
  PROVE  /\ Spoilt(d)' => Spoilt(d)
         /\ user'[d] = user[d] \/ (d = c /\ user[d] # "broke")
<1>1. CASE Connect(c) \/ ConnectToAny(c)
  BY <1>1 DEF Connect, ConnectToAny, ConnectLink, Becomes, Spoilt, netVars,
              IInv, TypeOK, NetTypeOK
<1>2. CASE TypeRequest(c)
  BY <1>2 DEF TypeRequest, Becomes, Spoilt, IInv, TypeOK, NetTypeOK
<1>3. CASE EndOfInput(c) \/ SendFailure(c) \/ LoseServer(c)
  BY <1>3 DEF EndOfInput, SendFailure, LoseServer, Becomes, Spoilt, netVars, IInv, TypeOK
<1>4. CASE ReceiveAll(c)
  BY <1>4 DEF ReceiveAll, Hears, ClientRecv, Becomes, Spoilt, IInv, TypeOK
<1>5. CASE ReceiveOnce(c)
  BY <1>5 DEF ReceiveOnce, Hears, ClientRecv, Becomes, Spoilt, IInv, TypeOK
<1> QED BY <1>1, <1>2, <1>3, <1>4, <1>5
    DEF ClientNext, CaseClient, SqlClient, EchoClient, Types

\* No step changes which program runs and how its stream divides messages.
LEMMA SetupStays ==
  ASSUME [Next]_vars
  PROVE  setup' = setup /\ (Reliable' <=> Reliable)
<1>1. CASE ServerStep
  <2>1. Loop \/ SetUpCase \/ SetUpSql \/ SetUpEcho \/ AcceptInvalid => setup' = setup
    BY DEF Loop, Select, Keyboard, AcceptTCPConnection, EndOfProgram, SetUpCase, SetUpSql,
           SetUpEcho, Listens, AcceptInvalid, ServerEnds
  <2>2. ASSUME NEW f \in Fds,
               HandleMessageCase(f) \/ HandleMessageSql(f) \/ HandleMessageEcho(f)
        PROVE  setup' = setup
    BY <2>2 DEF HandleMessageCase, HandleMessageSql, HandleMessageEcho, RecvFailure,
                ReplyFails, Hangup, Replies, ServerEnds
  <2>3. setup' = setup
    BY <1>1, <2>1, <2>2 DEF ServerStep, ServerNext, CaseServer, SqlServer, EchoServer
  <2> QED BY <2>3 DEF Reliable, Runs
<1>2. ASSUME NEW c \in Clients, ClientNext(c) PROVE setup' = setup
  BY <1>2 DEF ClientNext, CaseClient, SqlClient, EchoClient, Connect, ConnectToAny, Types,
              TypeRequest, EndOfInput, SendFailure, Leave, ReceiveAll, ReceiveOnce,
              LoseServer, serverVars
<1> QED BY <1>1, <1>2 DEF Next, vars, serverVars, Reliable, Runs

LEMMA NextBroken == IInv /\ BrokenInv /\ [Next]_vars => BrokenInv'
<1> SUFFICES ASSUME IInv, BrokenInv, [Next]_vars, Reliable', NEW d \in Clients, Spoilt(d)'
             PROVE  user'[d] = "broke"
  BY DEF BrokenInv
<1>1. Reliable /\ (Spoilt(d) => user[d] = "broke")
  BY SetupStays DEF BrokenInv
<1>2. CASE ServerStep
  <2>1. Spoilt(d)
    BY <1>2, ServerSpoilsNothing
  <2> QED BY <1>1, <1>2, <2>1 DEF ServerStep, clientVars
<1>3. ASSUME NEW c \in Clients, ClientNext(c), ~Leave(c)
      PROVE  user'[d] = "broke"
  BY <1>1, <1>3, ClientSpoilsNothing
<1>4. ASSUME NEW c \in Clients, Leave(c)
      PROVE  user'[d] = "broke"
  <2>1. CASE Spoilt(d)
    <3>1. user[c] # "broke"
      BY <1>4 DEF Leave
    <3> QED BY <1>1, <1>4, <2>1, <3>1 DEF Leave, Becomes, IInv, TypeOK
  <2>2. CASE ~Spoilt(d)
    <3>1. d = c
      <4> SUFFICES ASSUME d # c PROVE FALSE
        OBVIOUS
      <4>1. c2s'[d] = c2s[d] /\ link'[d] = link[d]
        BY <1>4 DEF Leave, ClientClose, IInv, TypeOK, NetTypeOK
      <4> QED BY <2>2, <4>1 DEF Spoilt
    <3> QED BY <1>1, <1>4, <2>2, <3>1, LeavingSpoils
  <2> QED BY <2>1, <2>2
<1>5. CASE UNCHANGED vars
  BY <1>1, <1>5 DEF vars, netVars, clientVars, Spoilt
<1> QED BY <1>2, <1>3, <1>4, <1>5 DEF Next

\* Where the server may crash.
LEMMA CrashIsNoAccident ==
  ASSUME IInv, BrokenInv, ServerStep, Reliable, pc \in {"select", "scan", "closing"},
         pc' = "crash"
  PROVE  \/ \E f \in Fds : Scanning(f) /\ user[Client(f)] = "broke"
         \/ /\ Scanning(servSock)
            /\ Len(accepted) = setup.fdLimit \/ Runs("echo")
<1>1. ~(SetUpCase \/ SetUpSql \/ SetUpEcho)
  BY DEF SetUpCase, SetUpSql, SetUpEcho, Listens
<1>2. ASSUME NEW rest, NEW running, Resume(rest, running) PROVE FALSE
  BY <1>2 DEF Resume
<1>3. CASE Loop
  <2>1. AcceptTCPConnection /\ Len(accepted) >= setup.fdLimit
    BY <1>2, <1>3 DEF Loop, Select, Keyboard, AcceptTCPConnection, EndOfProgram, ServerEnds
  <2>2. Len(accepted) <= setup.fdLimit /\ accepted \in Seq(Clients) /\ setup \in Setups
    BY DEF IInv, TypeOK, ServerTypeOK
  <2>3. setup.fdLimit \in Nat
    BY <2>2, EchoAssumption DEF Setups
  <2>4. Len(accepted) \in Nat
    BY <2>2
  <2>5. Len(accepted) = setup.fdLimit
    BY <2>1, <2>2, <2>3, <2>4
  <2> QED BY <2>1, <2>5 DEF AcceptTCPConnection
<1>4. CASE Runs("echo") /\ AcceptInvalid
  BY <1>4 DEF AcceptInvalid
<1>5. ASSUME NEW f \in Fds, Scanning(f),
             HandleMessageCase(f) \/ HandleMessageSql(f) \/ HandleMessageEcho(f)
      PROVE  user[Client(f)] = "broke"
  <2>1. RecvFailure(f) \/ ReplyFails(f)
    BY <1>2, <1>5 DEF HandleMessageCase, HandleMessageSql, HandleMessageEcho, Hangup, Replies
  <2>2. link[Client(f)] \in {"rst", "finsent"}
    BY <2>1 DEF RecvFailure, RecvFails, ReplyFails, SendFails, SendKills
  <2> QED BY <2>2, ClientOfFd DEF BrokenInv, Spoilt, IInv, TypeOK
<1> QED BY <1>1, <1>3, <1>4, <1>5 DEF ServerStep, ServerNext, CaseServer, SqlServer, EchoServer

\* In step, a client that leaves between two requests never ends the server,
\* whatever it exchanged before: only one stopped with a request unanswered
\* does, or accept.  For any number of clients, requests, pieces and limits.
THEOREM OnlyBrokenExchangesEndIt == Spec => OnlyBrokenExchangesCrash
<1>1. Init => BrokenInv
  BY DEF Init, NetInit, BrokenInv, Spoilt
<1>2. IInv /\ BrokenInv /\ [Next]_vars =>
        [Reliable /\ pc \in {"select", "scan", "closing"} /\ pc' = "crash" =>
           \/ \E f \in Fds : Scanning(f) /\ user[Client(f)] = "broke"
           \/ /\ Scanning(servSock)
              /\ Len(accepted) = setup.fdLimit \/ Runs("echo")]_vars
  <2> SUFFICES ASSUME IInv, BrokenInv, Next, Reliable,
                      pc \in {"select", "scan", "closing"}, pc' = "crash"
               PROVE  \/ \E f \in Fds : Scanning(f) /\ user[Client(f)] = "broke"
                      \/ /\ Scanning(servSock)
                         /\ Len(accepted) = setup.fdLimit \/ Runs("echo")
    OBVIOUS
  <2>1. ASSUME NEW c \in Clients, ClientNext(c) PROVE pc' = pc
    BY <2>1 DEF ClientNext, CaseClient, SqlClient, EchoClient, Connect, ConnectToAny, Types,
                TypeRequest, EndOfInput, SendFailure, Leave, ReceiveAll, ReceiveOnce,
                LoseServer, serverVars
  <2>2. ServerStep
    BY <2>1 DEF Next
  <2> QED BY <2>2, CrashIsNoAccident
<1> QED BY <1>1, <1>2, InitIInv, NextIInv, NextBroken, PTL
    DEF Spec, OnlyBrokenExchangesCrash
=============================================================================
