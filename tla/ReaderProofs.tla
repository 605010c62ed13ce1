---------------------------- MODULE ReaderProofs ----------------------------
(***************************************************************************)
(* Theorems about Reader, for every stream, buffer size, segment size and  *)
(* throttle limit, and any number of sockets that break or are replaced.   *)
(***************************************************************************)
EXTENDS Reader, SubsequencesProofs

States ==
    ReadStates \cup {"THROTTLE_MESSAGE", "THROTTLE_BYTES", "READ_DATA_PREPARE",
                     "THROTTLE_DISPATCH_SIZE", "DISPATCH", "TAG_CLOSE",
                     "STANDBY", "CLOSED"}

\* The states in which do_process is in a message.
InMessage == HasUnit \cup {"MESSAGE_HEADER", "THROTTLE_MESSAGE"}

Open == state \notin {"STANDBY", "CLOSED"}

\* The stream and the message being read.
StreamOK ==
    /\ state \in States /\ items \in Seq(Items) /\ at \in Nat \ {0}
    /\ arrived \in Nat /\ taken \in Nat /\ taken <= arrived
    /\ msg_left \in Nat
    /\ state \in InMessage => Cur.tag = "MSG"
    /\ state \in {"KEEPALIVE2", "KEEPALIVE2_ACK", "TAG_ACK"} => Cur.tag # "MSG"

\* What a read in this state asks for.
Expected == IF state \in ReadStates THEN ReadLen ELSE 0

\* The bytes at p and in the prefetch buffer: positions that follow each other,
\* the last one being the last that was read from the socket.
BufferOK ==
    /\ dest \in Seq(Nat) /\ recv_buf \in Seq(Nat)
    /\ consumed \in Nat /\ recv_start \in 0 .. Len(recv_buf)
    /\ \A i \in 1 .. Len(dest) : dest[i] = consumed + i
    /\ \A k \in 1 .. Len(recv_buf) : recv_buf[k] + Len(recv_buf) = taken + k
    /\ Open => consumed + Len(dest) + Len(recv_buf) = taken + recv_start
    /\ ~Open => pc = "idle" /\ dest = <<>> /\ recv_buf = <<>> /\ consumed = 0

\* read_until's view of them at each of its steps.
ReadOK ==
    /\ pc \in {"idle", "loop", "bulk", "prefetch", "got"}
    /\ need \in Nat /\ left \in Nat /\ state_offset \in Nat
    /\ pc \in {"idle", "loop"} => state_offset = Len(dest) /\ Len(dest) <= Expected
    /\ pc \in {"bulk", "prefetch", "got"} => state \in ReadStates /\ need = ReadLen
    /\ pc \in {"bulk", "prefetch"} =>
          /\ state_offset = Len(dest) /\ recv_start = 0 /\ left > 0
          /\ left + Len(dest) + Len(recv_buf) = need
    /\ pc = "bulk" => recv_buf = <<>>
    /\ pc = "prefetch" => need <= Prefetch
    /\ pc = "got" => state_offset = 0 /\ Len(dest) = need

\* The messages that exist.
LiveOK ==
    /\ IsFiniteSet(live) /\ IsFiniteSet(BytesOf(live))
    /\ live \subseteq [seq : Nat, size : Nat]
    /\ in_seq \in Nat /\ bytes_taken \in Int
    /\ \A m \in live : m.seq <= in_seq

\* No number is left out between what was handed on and what is to come.
NoGap ==
    /\ delivered = [i \in 1 .. in_seq |-> i]
    /\ \A i \in DOMAIN items : i >= at /\ items[i].tag = "MSG" =>
          \/ items[i].seq <= in_seq + 1
          \/ \E j \in at .. (i - 1) : items[j].tag = "MSG" /\ items[i].seq = items[j].seq + 1

PeerOK == peer.stream \in Streams

ReadInv == StreamOK /\ BufferOK /\ ReadOK

-----------------------------------------------------------------------------
(***************************************************************************)
(* What is read.                                                           *)
(***************************************************************************)
\* The item do_process is in is an item, even past the end of the stream.
LEMMA CurItem == StreamOK => Cur \in Items /\ Size(Cur) \in Nat
<1> SUFFICES ASSUME StreamOK PROVE Cur \in Items /\ Size(Cur) \in Nat
  OBVIOUS
<1>1. Cur \in Items
  <2>1. CASE at \in DOMAIN items
    BY <2>1 DEF StreamOK, Cur
  <2>2. CASE at \notin DOMAIN items
    BY <2>2, ConstantsAssumption DEF Cur, Items
  <2> QED
    BY <2>1, <2>2
<1>2. Cur.front \in Nat /\ Cur.middle \in Nat /\ Cur.data \in Nat
  BY <1>1, ConstantsAssumption DEF Items
<1> QED
  BY <1>1, <1>2 DEF Size

\* A read asks for a number of bytes.
LEMMA ExpectedNat ==
    StreamOK => /\ Expected \in Nat /\ ReadLen \in Nat
                /\ state = "READ_DATA" => ReadLen <= msg_left
<1> SUFFICES ASSUME StreamOK
             PROVE  /\ Expected \in Nat /\ ReadLen \in Nat
                    /\ state = "READ_DATA" => ReadLen <= msg_left
  OBVIOUS
<1>1. Cur.front \in Nat /\ Cur.middle \in Nat
  BY CurItem, ConstantsAssumption DEF Items
<1>2. msg_left \in Nat /\ Segment \in Nat
  BY ConstantsAssumption DEF StreamOK
<1> QED
  BY <1>1, <1>2 DEF Expected, ReadLen, HandshakeLen, HeaderLen

\* The same after a step.
LEMMA ExpectedNatPrimed ==
    (StreamOK => /\ Expected \in Nat /\ ReadLen \in Nat
                 /\ state = "READ_DATA" => ReadLen <= msg_left)'
BY ExpectedNat, PTL

\* What read() returns follows what it returned before.
LEMMA SocketBytes ==
    ASSUME StreamOK, NEW n \in Nat
    PROVE  /\ Socket(n) \in Seq(Nat)
           /\ Len(Socket(n)) <= n /\ taken + Len(Socket(n)) <= arrived
           /\ \A i \in 1 .. Len(Socket(n)) : Socket(n)[i] = taken + i
<1> DEFINE r == IF n < arrived - taken THEN n ELSE arrived - taken
<1>1. /\ r \in Nat /\ r <= n /\ taken + r <= arrived
      /\ taken \in Nat
  BY DEF StreamOK
<1>2. Socket(n) = [i \in 1 .. r |-> taken + i]
  BY DEF Socket
<1> HIDE DEF r
<1>3. [i \in 1 .. r |-> taken + i] \in Seq(Nat) /\ Len([i \in 1 .. r |-> taken + i]) = r
  BY <1>1
<1> QED
  BY <1>1, <1>2, <1>3

\* What is left to be sent when the peer begins again: messages it has sent
\* before, from the one after in_seq or from in_seq on, no number left out.
LEMMA NextStreamNumbered ==
    ASSUME PeerOK, in_seq \in Nat, NEW q \in NextStream
    PROVE  /\ q \in Seq(Items)
           /\ \A i \in DOMAIN q : q[i].tag = "MSG"
           /\ \A i \in DOMAIN q :
                 \/ q[i].seq <= in_seq + 1
                 \/ \E j \in 1 .. (i - 1) : q[i].seq = q[j].seq + 1
<1> DEFINE s == peer.stream
           K(from) == {i \in DOMAIN s : s[i].tag = "MSG" /\ s[i].seq > from}
<1>1. s \in Seq(Items) /\ Numbered(s)
  BY ConstantsAssumption DEF PeerOK
<1>2. PICK from \in {n \in 0 .. in_seq : n + 1 >= in_seq} :
         q = [i \in DOMAIN Keep(s, K(from)) |->
                 [Keep(s, K(from))[i] EXCEPT !.fault = "none"]]
  BY DEF NextStream
<1>3. from \in Nat /\ from <= in_seq
  BY <1>2
<1>4. PICK u : u = Keep(s, K(from))
  OBVIOUS
<1>5. PICK f \in [DOMAIN u -> K(from)] :
         /\ u \in Seq(Items) /\ Enumerates(f, K(from))
         /\ \A i \in DOMAIN u : u[i] = s[f[i]]
  <2>1. K(from) \in SUBSET DOMAIN s
    OBVIOUS
  <2> HIDE DEF K, s
  <2> QED
    BY <1>1, <1>4, <2>1, KeepProperties
<1>6. /\ u \in Seq(Items) /\ DOMAIN u = 1 .. Len(u) /\ Len(u) \in Nat
      /\ q = [i \in 1 .. Len(u) |-> [u[i] EXCEPT !.fault = "none"]]
  <2>1. u \in Seq(Items) /\ q = [i \in DOMAIN u |-> [u[i] EXCEPT !.fault = "none"]]
    BY <1>2, <1>4, <1>5, Zenon
  <2>2. DOMAIN u = 1 .. Len(u) /\ Len(u) \in Nat
    BY <2>1
  <2> QED
    BY <2>1, <2>2, Zenon
<1>7. \A i \in DOMAIN u :
         /\ u[i] \in Items /\ [u[i] EXCEPT !.fault = "none"] \in Items
         /\ [u[i] EXCEPT !.fault = "none"].tag = u[i].tag
         /\ [u[i] EXCEPT !.fault = "none"].seq = u[i].seq
  <2> SUFFICES ASSUME NEW x \in Items
               PROVE  /\ [x EXCEPT !.fault = "none"] \in Items
                      /\ [x EXCEPT !.fault = "none"].tag = x.tag
                      /\ [x EXCEPT !.fault = "none"].seq = x.seq
    BY <1>6
  <2> QED
    BY DEF Items
<1>8. q \in Seq(Items) /\ DOMAIN q = DOMAIN u
  BY <1>6, <1>7
<1>9. \A i \in DOMAIN q : q[i].tag = u[i].tag /\ q[i].seq = u[i].seq
  BY <1>6, <1>7, <1>8
<1>10. \A i \in DOMAIN u : f[i] \in DOMAIN s /\ s[f[i]].tag = "MSG" /\ s[f[i]].seq > from
  BY <1>5
<1>11. \A k \in DOMAIN s : s[k].seq \in Nat
  <2>1. \A x \in Items : x.seq \in Nat
    BY DEF Items
  <2> QED
    BY <1>1, <2>1
<1> HIDE DEF s
<1>12. ASSUME NEW i \in DOMAIN q
       PROVE  \/ q[i].seq <= in_seq + 1
              \/ \E j \in 1 .. (i - 1) : q[i].seq = q[j].seq + 1
  <2>1. q[i].seq = s[f[i]].seq /\ f[i] \in DOMAIN s /\ s[f[i]].tag = "MSG"
        /\ s[f[i]].seq > from /\ s[f[i]].seq \in Nat
    BY <1>5, <1>8, <1>9, <1>10, <1>11
  <2>2. CASE s[f[i]].seq = 1
    BY <1>3, <2>1, <2>2
  <2>3. CASE \E k \in 1 .. (f[i] - 1) : s[k].tag = "MSG" /\ s[f[i]].seq = s[k].seq + 1
    <3>1. PICK k \in 1 .. (f[i] - 1) : s[k].tag = "MSG" /\ s[f[i]].seq = s[k].seq + 1
      BY <2>3
    <3>2. k \in DOMAIN s /\ k < f[i] /\ s[k].seq \in Nat
      <4>1. s \in Seq(Items) /\ DOMAIN s = 1 .. Len(s)
        BY <1>1
      <4>2. k \in DOMAIN s /\ k < f[i]
        BY <2>1, <3>1, <4>1
      <4> QED
        BY <1>11, <4>2
    <3>3. CASE s[k].seq <= from
      BY <1>3, <2>1, <3>1, <3>2, <3>3
    <3>4. CASE s[k].seq > from
      <4>1. k \in K(from)
        BY <3>1, <3>2, <3>4
      <4>2. PICK j \in DOMAIN f : f[j] = k
        BY <1>5, <4>1 DEF Enumerates
      <4>3. j \in DOMAIN u /\ i \in DOMAIN u /\ DOMAIN f = DOMAIN u
        BY <1>5, <1>8, <4>2
      <4>4. i \in Nat /\ j \in Nat /\ ~ (i < j) /\ i # j
        <5>1. i \in Nat /\ j \in Nat
          BY <1>6, <4>3
        <5>2. i < j => f[i] < f[j]
          BY <1>5, <4>3 DEF Enumerates
        <5>3. f[i] \in Nat /\ f[j] \in Nat /\ f[j] < f[i]
          BY <1>1, <2>1, <3>2, <4>2
        <5> QED
          BY <5>1, <5>2, <5>3
      <4>5. j \in 1 .. (i - 1)
        BY <1>6, <4>3, <4>4
      <4>6. q[j].seq = s[k].seq
        BY <1>5, <1>8, <1>9, <4>2, <4>3
      <4> QED
        BY <2>1, <3>1, <4>5, <4>6
    <3> QED
      BY <1>3, <3>2, <3>3, <3>4
  <2> QED
    BY <1>1, <2>1, <2>2, <2>3 DEF Numbered
<1> QED
  BY <1>5, <1>8, <1>9, <1>10, <1>12

\* The first n elements of a sequence.
LEMMA Prefix ==
    ASSUME NEW s \in Seq(Nat), NEW n \in Nat, n <= Len(s)
    PROVE  /\ SubSeq(s, 1, n) \in Seq(Nat) /\ Len(SubSeq(s, 1, n)) = n
           /\ \A i \in 1 .. n : SubSeq(s, 1, n)[i] = s[i]
OBVIOUS

\* The elements of two sequences one after the other.
LEMMA Concatenation ==
    ASSUME NEW s \in Seq(Nat), NEW t \in Seq(Nat)
    PROVE  /\ s \o t \in Seq(Nat) /\ Len(s \o t) = Len(s) + Len(t)
           /\ \A i \in 1 .. Len(s) : (s \o t)[i] = s[i]
           /\ \A i \in 1 .. Len(t) : (s \o t)[Len(s) + i] = t[i]
OBVIOUS

-----------------------------------------------------------------------------
(***************************************************************************)
(* read_until, one lemma per step.                                         *)
(***************************************************************************)
\* Nothing of stream and message changes: what is asked for stays the same.
LEMMA SameRequest ==
    ASSUME UNCHANGED <<state, items, at, msg_left>>
    PROVE  ReadLen' = ReadLen /\ Expected' = Expected /\ Cur' = Cur /\ Open' = Open
BY DEF ReadLen, Expected, Cur, Open

\* The bytes that are buffered, by position.
LEMMA BufferedBytes ==
    ASSUME BufferOK
    PROVE  /\ Buffered \in Seq(Nat)
           /\ Len(Buffered) = Len(recv_buf) - recv_start
           /\ \A i \in 1 .. Len(Buffered) : Buffered[i] = recv_buf[recv_start + i]
BY DEF BufferOK, Buffered

\* read_until() takes what it needs from the prefetch buffer, or all of it.
LEMMA ReadUntilStep ==
    ASSUME ReadInv, read_until
    PROVE  ReadInv'
<1>1. /\ pc = "loop" /\ state \in ReadStates /\ ReadLen > 0
      /\ UNCHANGED <<state, stream, consumed, msg_left>>
  BY DEF read_until
<1>2. ReadLen' = ReadLen /\ Expected' = Expected /\ Cur' = Cur /\ Open' = Open
  BY <1>1, SameRequest DEF stream
<1>3. StreamOK'
  BY <1>1, <1>2 DEF ReadInv, StreamOK, stream
<1>4. ReadLen \in Nat /\ Expected = ReadLen
  BY <1>1, ExpectedNat DEF ReadInv, Expected
<1>5. PICK bf : bf = Buffered
  OBVIOUS
<1>6. PICK want, n : want = ReadLen - state_offset
                     /\ n = IF Len(bf) < want THEN Len(bf) ELSE want
  OBVIOUS
<1>7. /\ need' = ReadLen /\ left' = want - n
      /\ dest' = dest \o SubSeq(bf, 1, n)
      /\ IF n = want
         THEN /\ recv_start' = recv_start + n /\ state_offset' = 0
              /\ pc' = "got" /\ UNCHANGED recv_buf
         ELSE /\ recv_buf' = <<>> /\ recv_start' = 0
              /\ state_offset' = state_offset + n
              /\ pc' = IF ReadLen > Prefetch THEN "bulk" ELSE "prefetch"
  BY <1>5, <1>6 DEF read_until
<1>8. /\ bf \in Seq(Nat) /\ Len(bf) = Len(recv_buf) - recv_start
      /\ \A i \in 1 .. Len(bf) : bf[i] = recv_buf[recv_start + i]
  BY <1>5, BufferedBytes DEF ReadInv
<1>9. /\ dest \in Seq(Nat) /\ recv_buf \in Seq(Nat) /\ consumed \in Nat /\ taken \in Nat
      /\ recv_start \in 0 .. Len(recv_buf) /\ state_offset \in Nat
      /\ state_offset = Len(dest) /\ Len(dest) <= ReadLen
      /\ consumed + Len(dest) + Len(recv_buf) = taken + recv_start
      /\ Len(dest) \in Nat /\ Len(recv_buf) \in Nat /\ Prefetch \in Nat
  BY <1>1, <1>4, ConstantsAssumption DEF ReadInv, BufferOK, ReadOK, StreamOK, Open, ReadStates
<1> DEFINE D == Len(dest)
           L == Len(recv_buf)
<1>0. /\ D \in Nat /\ L \in Nat /\ consumed \in Nat /\ taken \in Nat
      /\ recv_start \in Nat /\ recv_start <= L /\ consumed + D + L = taken + recv_start
  BY <1>9
<1>10. want \in Nat /\ n \in Nat /\ n <= Len(bf) /\ n <= want /\ (n # want => n = Len(bf))
  BY <1>4, <1>6, <1>8, <1>9
<1>11. /\ dest' \in Seq(Nat) /\ Len(dest') = Len(dest) + n
       /\ \A i \in 1 .. Len(dest) : dest'[i] = dest[i]
       /\ \A i \in 1 .. n : dest'[Len(dest) + i] = bf[i]
  <2>1. SubSeq(bf, 1, n) \in Seq(Nat) /\ Len(SubSeq(bf, 1, n)) = n
        /\ \A i \in 1 .. n : SubSeq(bf, 1, n)[i] = bf[i]
    BY <1>8, <1>10, Prefix
  <2> QED
    BY <1>7, <1>9, <1>10, <2>1
<1>12. \A i \in 1 .. n : bf[i] = consumed + Len(dest) + i
  <2> SUFFICES ASSUME NEW i \in 1 .. n PROVE bf[i] = consumed + Len(dest) + i
    OBVIOUS
  <2>1. i \in 1 .. Len(bf) /\ recv_start + i \in 1 .. Len(recv_buf)
    BY <1>8, <1>9, <1>10
  <2>2. recv_buf[recv_start + i] \in Nat
        /\ recv_buf[recv_start + i] + Len(recv_buf) = taken + (recv_start + i)
    <3>1. PICK j \in 1 .. Len(recv_buf) : j = recv_start + i
      BY <2>1
    <3>2. recv_buf[j] \in Nat /\ recv_buf[j] + Len(recv_buf) = taken + j
      BY DEF ReadInv, BufferOK
    <3> QED
      BY <3>1, <3>2
  <2>3. PICK x \in Nat : x = bf[i] /\ x + L = taken + (recv_start + i)
    BY <1>8, <2>1, <2>2
  <2>4. i \in Nat
    BY <1>10
  <2> HIDE DEF D, L
  <2>5. x = consumed + D + i
    BY <1>0, <2>3, <2>4
  <2> QED
    BY <2>3, <2>5 DEF D
<1>13. \A i \in 1 .. Len(dest') : dest'[i] = consumed + i
  <2> SUFFICES ASSUME NEW i \in 1 .. Len(dest') PROVE dest'[i] = consumed + i
    OBVIOUS
  <2>1. CASE i \in 1 .. Len(dest)
    BY <1>11, <2>1 DEF ReadInv, BufferOK
  <2>2. CASE i \notin 1 .. Len(dest)
    <3>1. i - Len(dest) \in 1 .. n
      BY <1>9, <1>10, <1>11, <2>2
    <3>2. dest'[Len(dest) + (i - Len(dest))] = consumed + Len(dest) + (i - Len(dest))
      BY <1>11, <1>12, <3>1
    <3> QED
      BY <1>9, <3>2
  <2> QED
    BY <2>1, <2>2
<1>14. Open /\ taken' = taken /\ consumed' = consumed /\ arrived' = arrived
  BY <1>1 DEF Open, ReadStates, stream
<1>15. recv_start \in Nat /\ Len(dest') \in Nat /\ left' \in Nat /\ need' \in Nat
  BY <1>4, <1>7, <1>9, <1>10, <1>11
<1>16. CASE n = want
  <2>1. /\ recv_start' = recv_start + n /\ state_offset' = 0
        /\ pc' = "got" /\ recv_buf' = recv_buf
    BY <1>7, <1>16
  <2>2. /\ recv_start' \in 0 .. Len(recv_buf')
        /\ consumed + Len(dest') + Len(recv_buf') = taken + recv_start'
        /\ Len(dest') = ReadLen
    <3>1. Len(dest') = D + n /\ recv_start' = recv_start + n /\ Len(recv_buf') = L
          /\ n <= L - recv_start /\ n = ReadLen - D
      BY <1>6, <1>8, <1>9, <1>10, <1>11, <1>16, <2>1
    <3> HIDE DEF D, L
    <3> QED
      BY <1>0, <1>4, <1>10, <3>1
  <2>3. BufferOK'
    BY <1>2, <1>9, <1>11, <1>13, <1>14, <2>1, <2>2 DEF ReadInv, BufferOK
  <2>4. ReadOK'
    BY <1>1, <1>2, <1>7, <1>15, <2>1, <2>2 DEF ReadOK
  <2> QED
    BY <1>3, <2>3, <2>4 DEF ReadInv
<1>17. CASE n # want
  <2>1. /\ recv_buf' = <<>> /\ recv_start' = 0 /\ Len(recv_buf') = 0 /\ n = Len(bf)
        /\ state_offset' = state_offset + n
        /\ pc' = IF ReadLen > Prefetch THEN "bulk" ELSE "prefetch"
    BY <1>7, <1>10, <1>17
  <2>2. /\ recv_start' \in 0 .. Len(recv_buf')
        /\ consumed + Len(dest') + Len(recv_buf') = taken + recv_start'
        /\ left' > 0 /\ left' + Len(dest') + Len(recv_buf') = ReadLen
        /\ state_offset' = Len(dest')
    <3>1. Len(dest') = D + n /\ recv_start' = 0 /\ Len(recv_buf') = 0
          /\ n = L - recv_start /\ want = ReadLen - D /\ left' = want - n
          /\ state_offset' = D + n
      BY <1>6, <1>7, <1>8, <1>9, <1>10, <1>11, <1>17, <2>1
    <3> HIDE DEF D, L
    <3> QED
      BY <1>0, <1>4, <1>10, <1>17, <3>1
  <2>3. BufferOK'
    BY <1>2, <1>9, <1>11, <1>13, <1>14, <2>1, <2>2 DEF ReadInv, BufferOK
  <2>4. ReadOK'
    BY <1>1, <1>2, <1>4, <1>7, <1>9, <1>15, <2>1, <2>2 DEF ReadOK
  <2> QED
    BY <1>3, <2>3, <2>4 DEF ReadInv
<1> QED
  BY <1>16, <1>17

\* A large read appends what the socket has to what is at p.
LEMMA ReadBulkStep ==
    ASSUME ReadInv, read_bulk
    PROVE  ReadInv'
<1>1. /\ pc = "bulk" /\ UNCHANGED <<state, items, at, arrived, need, recv_buf,
                                    recv_start, consumed, msg_left>>
  BY DEF read_bulk
<1>2. ReadLen' = ReadLen /\ Expected' = Expected /\ Cur' = Cur /\ Open' = Open
  BY <1>1, SameRequest
<1> DEFINE D == Len(dest)
<1>3. /\ state \in ReadStates /\ need = ReadLen /\ state_offset = D /\ recv_start = 0
      /\ recv_buf = <<>> /\ Len(recv_buf) = 0 /\ left \in Nat /\ left > 0 /\ left + D = need
      /\ need \in Nat /\ dest \in Seq(Nat) /\ D \in Nat
  BY <1>1 DEF ReadInv, ReadOK, BufferOK
<1>4. Open /\ consumed \in Nat /\ taken \in Nat /\ consumed + D = taken
  BY <1>3 DEF ReadInv, BufferOK, StreamOK, Open, ReadStates
<1>5. PICK b : b = Socket(left)
  OBVIOUS
<1>6. /\ b \in Seq(Nat) /\ Len(b) <= left /\ taken + Len(b) <= arrived /\ Len(b) \in Nat
      /\ \A i \in 1 .. Len(b) : b[i] = taken + i
  <2>1. left \in Nat /\ StreamOK
    BY <1>3 DEF ReadInv
  <2>2. /\ Socket(left) \in Seq(Nat)
        /\ Len(Socket(left)) <= left /\ taken + Len(Socket(left)) <= arrived
        /\ \A i \in 1 .. Len(Socket(left)) : Socket(left)[i] = taken + i
    BY <2>1, SocketBytes
  <2>3. Len(b) \in Nat
    BY <1>5, <2>2
  <2> QED
    BY <1>5, <2>2, <2>3
<1>7. /\ taken' = taken + Len(b) /\ dest' = dest \o b /\ left' = left - Len(b)
      /\ state_offset' = IF Len(b) = left THEN 0 ELSE state_offset + Len(b)
      /\ pc' = CASE Len(b) = left -> "got"
                 [] Len(b) # left /\ b # <<>> -> "bulk"
                 [] OTHER -> "idle"
  BY <1>5 DEF read_bulk
<1>8. /\ dest' \in Seq(Nat) /\ Len(dest') = D + Len(b)
      /\ \A i \in 1 .. D : dest'[i] = dest[i]
      /\ \A i \in 1 .. Len(b) : dest'[D + i] = b[i]
  BY <1>3, <1>6, <1>7, Concatenation
<1>9. StreamOK'
  BY <1>1, <1>2, <1>4, <1>6, <1>7 DEF ReadInv, StreamOK
<1>10. ASSUME NEW i \in 1 .. Len(dest') PROVE dest'[i] = consumed + i
  <2>1. CASE i \in 1 .. D
    BY <1>8, <2>1 DEF ReadInv, BufferOK
  <2>2. CASE i \notin 1 .. D
    <3> HIDE DEF D
    <3>1. i - D \in 1 .. Len(b) /\ D + (i - D) = i /\ i \in Nat
      BY <1>3, <1>6, <1>8, <1>10, <2>2
    <3>2. dest'[D + (i - D)] = taken + (i - D)
      BY <1>6, <1>8, <3>1
    <3> QED
      BY <1>3, <1>4, <3>1, <3>2
  <2> QED
    BY <2>1, <2>2
<1> HIDE DEF D
<1>11. BufferOK'
  <2>1. consumed' + Len(dest') + Len(recv_buf') = taken' + recv_start'
    BY <1>1, <1>3, <1>4, <1>6, <1>7, <1>8
  <2>2. recv_buf' = <<>> /\ Len(recv_buf') = 0 /\ recv_start' = 0 /\ Open'
        /\ consumed' = consumed
    BY <1>1, <1>2, <1>3, <1>4
  <2> QED
    BY <1>4, <1>8, <1>10, <2>1, <2>2 DEF BufferOK
<1>12. ReadOK'
  <2>1. Expected' = need /\ Len(recv_buf') = 0 /\ recv_buf' = <<>>
    BY <1>1, <1>2, <1>3 DEF Expected
  <2>2. left' \in Nat /\ state_offset' \in Nat
    BY <1>3, <1>6, <1>7
  <2>3. CASE Len(b) = left
    <3>1. Len(dest') = need' /\ state_offset' = 0 /\ pc' = "got" /\ need' = need
      BY <1>1, <1>3, <1>6, <1>7, <1>8, <2>3
    <3> QED
      BY <1>1, <1>2, <1>3, <2>1, <2>2, <3>1 DEF ReadOK
  <2>4. CASE Len(b) # left
    <3>1. /\ state_offset' = Len(dest') /\ left' > 0 /\ need' = need /\ recv_start' = 0
          /\ left' + Len(dest') + 0 = need /\ Len(dest') <= need /\ pc' \in {"bulk", "idle"}
      <4>1. /\ state_offset' = D + Len(b) /\ Len(dest') = D + Len(b) /\ left' = left - Len(b)
            /\ need' = need /\ recv_start' = 0 /\ pc' \in {"bulk", "idle"}
        BY <1>1, <1>3, <1>7, <1>8, <2>4
      <4>2. PICK m \in Nat : m = Len(b) /\ m <= left /\ m # left
        BY <1>6, <2>4
      <4>3. left \in Nat /\ D \in Nat /\ left + D = need /\ need \in Nat
        BY <1>3
      <4>4. (left - m) + (D + m) + 0 = need /\ left - m > 0 /\ D + m <= need
        BY <4>2, <4>3
      <4> QED
        BY <4>1, <4>2, <4>4
    <3> QED
      BY <1>1, <1>2, <1>3, <2>1, <2>2, <3>1 DEF ReadOK
  <2> QED
    BY <2>3, <2>4
<1> QED
  BY <1>9, <1>11, <1>12 DEF ReadInv

\* A small read fills the prefetch buffer; when enough has arrived the first bytes
\* of it complete the request, and when the socket is empty all of it goes to p.
LEMMA ReadPrefetchStep ==
    ASSUME ReadInv, read_prefetch
    PROVE  ReadInv'
<1>1. /\ pc = "prefetch"
      /\ UNCHANGED <<state, items, at, arrived, need, consumed, msg_left>>
  BY DEF read_prefetch
<1>2. ReadLen' = ReadLen /\ Expected' = Expected /\ Cur' = Cur /\ Open' = Open
  BY <1>1, SameRequest
<1> DEFINE D == Len(dest)
           L == Len(recv_buf)
<1>3. /\ state \in ReadStates /\ need = ReadLen /\ state_offset = D /\ recv_start = 0
      /\ left \in Nat /\ left > 0 /\ left + D + L = need /\ need <= Prefetch
      /\ need \in Nat /\ dest \in Seq(Nat) /\ D \in Nat
      /\ recv_buf \in Seq(Nat) /\ L \in Nat
  BY <1>1 DEF ReadInv, ReadOK, BufferOK
<1>4. Open /\ consumed \in Nat /\ taken \in Nat /\ consumed + D + L = taken
  BY <1>3 DEF ReadInv, BufferOK, StreamOK, Open, ReadStates
<1>5. PICK b, buf : b = Socket(Prefetch - Len(recv_buf)) /\ buf = recv_buf \o b
  OBVIOUS
<1> DEFINE B == Len(b)
<1>6. /\ b \in Seq(Nat) /\ taken + B <= arrived /\ B \in Nat
      /\ \A i \in 1 .. B : b[i] = taken + i
  <2>1. PICK w \in Nat : w = Prefetch - Len(recv_buf)
    BY <1>3, ConstantsAssumption
  <2>2. StreamOK
    BY DEF ReadInv
  <2>3. /\ Socket(w) \in Seq(Nat)
        /\ taken + Len(Socket(w)) <= arrived
        /\ \A i \in 1 .. Len(Socket(w)) : Socket(w)[i] = taken + i
    BY <2>2, SocketBytes
  <2>4. Len(b) \in Nat /\ b = Socket(w)
    BY <1>5, <2>1, <2>3
  <2> QED
    BY <2>3, <2>4
<1>7. /\ taken' = taken + B
      /\ left' = IF B < left THEN left - B ELSE 0
      /\ \/ /\ B >= left
            /\ recv_buf' = buf /\ recv_start' = FirstUnread
            /\ dest' = dest \o SubSeq(buf, 1, FirstUnread)
            /\ state_offset' = 0 /\ pc' = "got"
         \/ /\ B < left /\ b # <<>>
            /\ recv_buf' = buf /\ UNCHANGED <<recv_start, dest, state_offset, pc>>
         \/ /\ B < left /\ b = <<>>
            /\ dest' = dest \o buf /\ state_offset' = state_offset + Len(buf)
            /\ recv_buf' = <<>> /\ recv_start' = 0 /\ pc' = "idle"
  BY <1>5 DEF read_prefetch
<1>8. /\ buf \in Seq(Nat) /\ Len(buf) = L + B
      /\ \A i \in 1 .. L : buf[i] = recv_buf[i]
      /\ \A i \in 1 .. B : buf[L + i] = b[i]
  BY <1>3, <1>5, <1>6, Concatenation
<1>9. StreamOK'
  BY <1>1, <1>2, <1>4, <1>6, <1>7 DEF ReadInv, StreamOK
<1>10. \A k \in 1 .. L : recv_buf[k] \in Nat /\ recv_buf[k] + L = taken + k
  BY <1>3 DEF ReadInv, BufferOK
<1>11. \A i \in 1 .. D : dest[i] = consumed + i
  BY DEF ReadInv, BufferOK
<1> HIDE DEF D, L, B
<1>12. ASSUME NEW k \in 1 .. L + B
       PROVE  buf[k] = consumed + D + k
  <2>1. CASE k \in 1 .. L
    <3>1. PICK x \in Nat : x = buf[k] /\ x + L = taken + k
      BY <1>8, <1>10, <2>1
    <3>2. L \in Nat /\ taken \in Nat /\ consumed \in Nat /\ D \in Nat /\ k \in Nat
          /\ consumed + D + L = taken
      BY <1>3, <1>4
    <3>3. x = consumed + D + k
      BY <3>1, <3>2
    <3> QED
      BY <3>1, <3>3
  <2>2. CASE k \notin 1 .. L
    <3>1. k - L \in 1 .. B /\ L + (k - L) = k /\ k \in Nat
      BY <1>3, <1>6, <1>12, <2>2
    <3>2. buf[L + (k - L)] = taken + (k - L)
      BY <1>6, <1>8, <3>1
    <3> QED
      BY <1>3, <1>4, <3>1, <3>2
  <2> QED
    BY <2>1, <2>2
<1>13. \A k \in 1 .. Len(buf) : buf[k] + Len(buf) = taken' + k
  <2> SUFFICES ASSUME NEW k \in 1 .. L + B PROVE buf[k] + (L + B) = taken' + k
    BY <1>8
  <2>1. buf[k] = consumed + D + k /\ k \in Nat
    BY <1>12
  <2>2. taken' = consumed + D + L + B
    BY <1>3, <1>4, <1>6, <1>7
  <2> QED
    BY <1>3, <1>4, <1>6, <2>1, <2>2
<1>14. ASSUME NEW n \in 0 .. L + B, NEW d, d = dest \o SubSeq(buf, 1, n)
       PROVE  /\ d \in Seq(Nat) /\ Len(d) = D + n
              /\ \A i \in 1 .. D + n : d[i] = consumed + i
  <2>1. /\ SubSeq(buf, 1, n) \in Seq(Nat) /\ Len(SubSeq(buf, 1, n)) = n
        /\ \A i \in 1 .. n : SubSeq(buf, 1, n)[i] = buf[i]
    <3>1. n \in Nat /\ n <= Len(buf)
      BY <1>3, <1>6, <1>8, <1>14
    <3> QED
      BY <1>8, <3>1, Prefix
  <2>2. /\ d \in Seq(Nat) /\ Len(d) = D + n
        /\ \A i \in 1 .. D : d[i] = dest[i]
        /\ \A i \in 1 .. n : d[D + i] = buf[i]
    BY <1>3, <1>14, <2>1 DEF D
  <2>3. ASSUME NEW i \in 1 .. D + n PROVE d[i] = consumed + i
    <3>1. CASE i \in 1 .. D
      BY <1>11, <2>2, <3>1
    <3>2. CASE i \notin 1 .. D
      <4>1. i - D \in 1 .. n /\ D + (i - D) = i /\ i \in Nat /\ i - D \in 1 .. L + B
        BY <1>3, <1>6, <1>14, <2>3, <3>2
      <4>2. d[D + (i - D)] = consumed + D + (i - D)
        BY <1>12, <2>2, <4>1
      <4> QED
        BY <1>3, <1>4, <4>1, <4>2
    <3> QED
      BY <3>1, <3>2
  <2> QED
    BY <2>2, <2>3
<1>15. left' \in Nat
  BY <1>3, <1>6, <1>7
<1>16. ASSUME B >= left, recv_buf' = buf, recv_start' = FirstUnread,
              dest' = dest \o SubSeq(buf, 1, FirstUnread),
              state_offset' = 0, pc' = "got"
       PROVE  ReadInv'
  <2>1. FirstUnread = need - D /\ need - D \in 0 .. L + B
    BY <1>3, <1>6, <1>16 DEF FirstUnread
  <2>2. /\ dest' \in Seq(Nat) /\ Len(dest') = D + (need - D)
        /\ \A i \in 1 .. D + (need - D) : dest'[i] = consumed + i
    BY <1>14, <1>16, <2>1
  <2>3. D + (need - D) = need
    BY <1>3
  <2>4. BufferOK'
    <3>1. recv_start' \in 0 .. Len(recv_buf')
      BY <1>8, <1>16, <2>1
    <3>2. consumed' + Len(dest') + Len(recv_buf') = taken' + recv_start'
      <4>1. consumed' = consumed /\ Len(dest') = need /\ Len(recv_buf') = L + B
            /\ recv_start' = need - D /\ taken' = taken + B
        BY <1>1, <1>7, <1>8, <1>16, <2>1, <2>2, <2>3
      <4> QED
        BY <1>3, <1>4, <1>6, <4>1
    <3> QED
      BY <1>1, <1>2, <1>4, <1>8, <1>13, <1>16, <2>2, <2>3, <3>1, <3>2 DEF BufferOK
  <2>5. ReadOK'
    BY <1>1, <1>2, <1>3, <1>15, <1>16, <2>2, <2>3 DEF ReadOK
  <2> QED
    BY <1>9, <2>4, <2>5 DEF ReadInv
<1>17. ASSUME B < left, recv_buf' = buf, UNCHANGED <<recv_start, dest, state_offset, pc>>
       PROVE  ReadInv'
  <2>1. /\ left' > 0 /\ left' + D + Len(buf) = need /\ Len(dest') = D /\ recv_start' = 0
        /\ consumed + D + Len(buf) = taken' + recv_start'
    <3>1. Len(dest') = D /\ recv_start' = 0 /\ Len(buf) = L + B
          /\ taken' = taken + B /\ left' = left - B
      BY <1>3, <1>7, <1>8, <1>17 DEF D
    <3> QED
      BY <1>3, <1>4, <1>6, <1>17, <3>1
  <2>2. BufferOK'
    BY <1>1, <1>2, <1>3, <1>4, <1>8, <1>11, <1>13, <1>17, <2>1 DEF BufferOK
  <2>3. ReadOK'
    BY <1>1, <1>2, <1>3, <1>15, <1>17, <2>1 DEF ReadOK
  <2> QED
    BY <1>9, <2>2, <2>3 DEF ReadInv
<1>18. ASSUME B < left, b = <<>>, dest' = dest \o buf,
              state_offset' = state_offset + Len(buf),
              recv_buf' = <<>>, recv_start' = 0, pc' = "idle"
       PROVE  ReadInv'
  <2>1. B = 0 /\ L + B \in 0 .. L + B /\ SubSeq(buf, 1, L + B) = buf
    BY <1>3, <1>6, <1>8, <1>18 DEF B
  <2>2. /\ dest' \in Seq(Nat) /\ Len(dest') = D + (L + B)
        /\ \A i \in 1 .. D + (L + B) : dest'[i] = consumed + i
    <3>1. PICK n \in 0 .. L + B : n = L + B
      BY <2>1
    <3>2. dest' = dest \o SubSeq(buf, 1, n)
      BY <1>18, <2>1, <3>1
    <3>3. /\ dest' \in Seq(Nat) /\ Len(dest') = D + n
          /\ \A i \in 1 .. D + n : dest'[i] = consumed + i
      BY <1>14, <3>2
    <3> QED
      BY <3>1, <3>3
  <2>3. /\ consumed + Len(dest') = taken' /\ Len(dest') <= need
        /\ state_offset' = Len(dest') /\ Len(recv_buf') = 0 /\ Expected' = need
    BY <1>2, <1>3, <1>4, <1>6, <1>7, <1>8, <1>18, <2>1, <2>2 DEF Expected
  <2>4. BufferOK'
    BY <1>1, <1>2, <1>4, <1>18, <2>2, <2>3 DEF BufferOK
  <2>5. ReadOK'
    BY <1>1, <1>3, <1>15, <1>18, <2>2, <2>3 DEF ReadOK
  <2> QED
    BY <1>9, <2>4, <2>5 DEF ReadInv
<1> QED
  BY <1>7, <1>16, <1>17, <1>18

-----------------------------------------------------------------------------
(***************************************************************************)
(* The other steps.                                                        *)
(***************************************************************************)
\* A step that leaves do_process where it is: nothing is read or processed.
LEMMA OutsideStep ==
    ASSUME ReadInv, UNCHANGED <<state, items, at, msg_left, taken, reading>>,
           arrived' \in Nat, arrived <= arrived',
           pc' = pc \/ (pc = "idle" /\ pc' = "loop" /\ Open)
    PROVE  ReadInv'
<1>1. ReadLen' = ReadLen /\ Expected' = Expected /\ Cur' = Cur /\ Open' = Open
  BY SameRequest
<1>2. StreamOK'
  BY <1>1 DEF ReadInv, StreamOK
<1>3. BufferOK'
  BY <1>1 DEF ReadInv, BufferOK, reading
<1>4. ReadOK'
  BY <1>1 DEF ReadInv, ReadOK, reading
<1> QED
  BY <1>2, <1>3, <1>4 DEF ReadInv

\* A step of do_process in a state that reads nothing.
LEMMA BetweenReads ==
    ASSUME ReadInv, StreamOK', Open, Open', Expected = 0, pc = "loop",
           pc' \in {"idle", "loop"}, UNCHANGED <<taken, reading>>
    PROVE  ReadInv'
<1>1. BufferOK'
  BY DEF ReadInv, BufferOK, reading
<1>2. Expected' \in Nat
  BY ExpectedNatPrimed
<1>3. Len(dest) \in Nat /\ Len(dest) = 0
  BY DEF ReadInv, BufferOK, ReadOK
<1>4. ReadOK'
  BY <1>2, <1>3 DEF ReadInv, ReadOK, reading
<1> QED
  BY <1>1, <1>4 DEF ReadInv

\* After a failure nothing is buffered and nothing is asked for.
LEMMA FailStep ==
    ASSUME ReadInv, NEW next \in {"STANDBY", "CLOSED"}, Fail(next)
    PROVE  ReadInv'
<1>1. /\ recv_buf' = <<>> /\ recv_start' = 0 /\ state_offset' = 0
      /\ need' = 0 /\ left' = 0 /\ dest' = <<>> /\ consumed' = 0
      /\ state' = next /\ pc' = "idle"
      /\ UNCHANGED <<items, at, arrived, taken, msg_left>>
  BY DEF Fail, ResetReads, stream
<1>2. StreamOK'
  BY <1>1 DEF ReadInv, StreamOK, States, InMessage, HasUnit, HasBytes, ReadStates
<1>3. ~Open' /\ Expected' \in Nat /\ Len(dest') = 0 /\ Len(recv_buf') = 0
  BY <1>1, <1>2, ExpectedNatPrimed DEF Open
<1>4. BufferOK'
  BY <1>1, <1>3 DEF BufferOK
<1>5. ReadOK'
  BY <1>1, <1>3 DEF ReadOK
<1> QED
  BY <1>2, <1>4, <1>5 DEF ReadInv

\* A read that is complete: its bytes are handed to do_process.
LEMMA GotStep ==
    ASSUME ReadInv, got
    PROVE  ReadInv'
<1>1. /\ pc = "got" /\ dest' = <<>> /\ consumed' = consumed + need
      /\ pc' \in {"idle", "loop"}
      /\ UNCHANGED <<items, arrived, taken, need, left, recv_buf, recv_start, state_offset>>
  BY DEF got, Continue, Iterate
<1>2. /\ state \in ReadStates /\ need = ReadLen /\ state_offset = 0 /\ Len(dest) = need
      /\ need \in Nat /\ Open
  BY <1>1 DEF ReadInv, ReadOK, Open, ReadStates
<1>3. Cur \in Items /\ Cur.tag \in {"KEEPALIVE2", "KEEPALIVE2_ACK", "ACK", "MSG",
                                       "CLOSE", "unknown"}
  BY CurItem DEF ReadInv, Items
<1>4. StreamOK' /\ Open'
  <2>1. /\ items' \in Seq(Items) /\ arrived' \in Nat /\ taken' \in Nat
        /\ taken' <= arrived' /\ at \in Nat \ {0} /\ msg_left \in Nat
    BY <1>1 DEF ReadInv, StreamOK
  <2>2. at' = at => Cur' = Cur
    BY <1>1 DEF Cur
  <2>3. CASE state = "OPEN"
    <3>1. at' = at /\ msg_left' = msg_left /\ state' = TagState(Cur.tag) /\ Cur.tag # "unknown"
      BY <2>3 DEF got, Continue
    <3> QED
      BY <1>3, <2>1, <2>2, <3>1 DEF StreamOK, TagState, States, InMessage, HasUnit, HasBytes,
                                    ReadStates, Open
  <2>4. CASE state = "READ_DATA"
    <3>1. at' = at /\ msg_left' = msg_left - need /\ state' = state
      BY <2>4 DEF got, Continue
    <3>2. need <= msg_left
      BY <1>2, <2>4, ExpectedNat DEF ReadInv
    <3> QED
      BY <1>2, <2>1, <2>2, <3>1, <3>2 DEF ReadInv, StreamOK, Open
  <2>5. CASE state \in {"KEEPALIVE2", "KEEPALIVE2_ACK", "TAG_ACK"}
    <3>1. at' = at + 1 /\ msg_left' = msg_left /\ state' = "OPEN"
      BY <2>5 DEF got, Continue
    <3> QED
      BY <2>1, <3>1 DEF StreamOK, States, InMessage, HasUnit, HasBytes, ReadStates, Open
  <2>6. CASE state \in ReadStates \ {"OPEN", "READ_DATA", "KEEPALIVE2", "KEEPALIVE2_ACK",
                                       "TAG_ACK"}
    <3>1. /\ at' = at /\ msg_left' = msg_left
          /\ \/ state = "HANDSHAKE" /\ state' = "OPEN"
             \/ state = "MESSAGE_HEADER" /\ state' = "THROTTLE_MESSAGE"
             \/ state = "READ_FRONT" /\ state' = "READ_MIDDLE"
             \/ state = "READ_MIDDLE" /\ state' = "READ_DATA_PREPARE"
             \/ state = "READ_FOOTER" /\ state' = "THROTTLE_DISPATCH_SIZE"
      BY <2>6 DEF got, Continue
    <3> QED
      BY <2>1, <2>2, <3>1 DEF ReadInv, StreamOK, States, InMessage, HasUnit, HasBytes,
                              ReadStates, Open
  <2> QED
    BY <1>2, <2>3, <2>4, <2>5, <2>6
<1>5. BufferOK'
  <2>1. /\ recv_buf \in Seq(Nat) /\ consumed \in Nat /\ recv_start \in 0 .. Len(recv_buf)
        /\ \A k \in 1 .. Len(recv_buf) : recv_buf[k] + Len(recv_buf) = taken + k
        /\ consumed + need + Len(recv_buf) = taken + recv_start
    BY <1>2 DEF ReadInv, BufferOK
  <2>2. consumed' \in Nat /\ Len(dest') = 0
    BY <1>1, <1>2, <2>1
  <2>3. consumed' + Len(dest') + Len(recv_buf') = taken' + recv_start'
    BY <1>1, <1>2, <2>1
  <2> QED
    BY <1>1, <1>4, <2>1, <2>2, <2>3 DEF BufferOK
<1>6. ReadOK'
  <2>1. Expected' \in Nat /\ Len(dest') = 0
    BY <1>1, <1>4, ExpectedNatPrimed
  <2> QED
    BY <1>1, <1>2, <2>1 DEF ReadInv, ReadOK
<1> QED
  BY <1>4, <1>5, <1>6 DEF ReadInv

\* The steps of do_process that read nothing leave the read buffers as they are.
LEMMA ProcessSteps ==
    ASSUME ReadInv, Skip \/ throttle_message \/ throttle_bytes \/ read_data_prepare \/ dispatch
    PROVE  ReadInv'
<1>1. /\ pc = "loop" /\ pc' \in {"idle", "loop"} /\ UNCHANGED <<items, arrived, taken, reading>>
      /\ \/ state = "READ_FRONT" /\ Cur.front = 0 /\ state' = "READ_MIDDLE"
         \/ state = "READ_MIDDLE" /\ Cur.middle = 0 /\ state' = "READ_DATA_PREPARE"
         \/ state = "READ_DATA" /\ msg_left = 0 /\ state' = "READ_FOOTER"
         \/ state = "THROTTLE_DISPATCH_SIZE" /\ state' = "DISPATCH"
         \/ state = "THROTTLE_MESSAGE" /\ state' = "THROTTLE_BYTES"
         \/ state = "THROTTLE_BYTES" /\ state' = "READ_FRONT"
         \/ state = "READ_DATA_PREPARE" /\ state' = "READ_DATA"
         \/ state = "DISPATCH" /\ state' = "OPEN"
  BY DEF Skip, throttle_message, throttle_bytes, read_data_prepare, dispatch, stream, Continue,
         Iterate
<1>2. at' \in Nat \ {0} /\ (state # "DISPATCH" => at' = at)
  BY DEF Skip, throttle_message, throttle_bytes, read_data_prepare, dispatch, stream,
         ReadInv, StreamOK
<1>3. msg_left' \in Nat
  <2>1. Cur.data \in Nat
    BY CurItem, ConstantsAssumption DEF ReadInv, Items
  <2> QED
    BY <2>1 DEF Skip, throttle_message, throttle_bytes, read_data_prepare, dispatch,
                ReadInv, StreamOK
<1>4. Open /\ Open'
  BY <1>1 DEF Open
<1>5. at' = at => Cur' = Cur
  BY <1>1 DEF Cur
<1>6. StreamOK'
  <2>1. state' \in States /\ (state' \in InMessage => state \in InMessage /\ at' = at)
        /\ state' \notin {"KEEPALIVE2", "KEEPALIVE2_ACK", "TAG_ACK"}
    BY <1>1, <1>2 DEF States, InMessage, HasUnit, HasBytes, ReadStates
  <2> QED
    BY <1>1, <1>2, <1>3, <1>5, <2>1 DEF ReadInv, StreamOK
<1>7. Expected = 0
  BY <1>1, ConstantsAssumption DEF Expected, ReadLen, ReadStates
<1> QED
  BY <1>1, <1>4, <1>6, <1>7, BetweenReads

\* A new socket: reading begins with what was read ahead on it, if anything.
LEMMA NewSocket ==
    ASSUME ReadInv, PeerOK, in_seq \in Nat, NEW n \in Nat,
           items' \in NextStream, state' = "HANDSHAKE", at' = 1, arrived' = n, taken' = n,
           pc' = "idle", recv_buf' = [i \in 1 .. n |-> i], recv_start' = 0, state_offset' = 0,
           need' \in Nat, left' \in Nat, dest' = <<>>, consumed' = 0, msg_left' = msg_left
    PROVE  ReadInv'
<1>1. StreamOK'
  <2>1. items' \in Seq(Items)
    <3>1. \A q \in NextStream : q \in Seq(Items)
      BY NextStreamNumbered
    <3> QED
      BY <3>1
  <2> QED
    BY <2>1 DEF ReadInv, StreamOK, States, InMessage, HasUnit, HasBytes, ReadStates
<1>2. Open' /\ Expected' \in Nat /\ Len(dest') = 0
  BY <1>1, ExpectedNatPrimed DEF Open
<1>3. recv_buf' \in Seq(Nat) /\ Len(recv_buf') = n /\ \A k \in 1 .. n : recv_buf'[k] = k
  OBVIOUS
<1>4. BufferOK'
  BY <1>2, <1>3 DEF BufferOK
<1>5. ReadOK'
  BY <1>2 DEF ReadOK
<1> QED
  BY <1>1, <1>4, <1>5 DEF ReadInv

\* The peer's next socket, after ours broke or in place of it.
LEMMA ReplaceSteps ==
    ASSUME ReadInv, PeerOK, in_seq \in Nat, Reconnect \/ do_replace
    PROVE  ReadInv'
<1>1. CASE Reconnect
  <2>1. /\ state = "STANDBY" /\ items' \in NextStream /\ state' = "HANDSHAKE" /\ at' = 1
        /\ arrived' = 0 /\ taken' = 0 /\ UNCHANGED <<pc, reading, msg_left>>
    BY <1>1 DEF Reconnect
  <2>2. pc = "idle" /\ dest = <<>> /\ recv_buf = <<>> /\ consumed = 0 /\ Len(recv_buf) = 0
        /\ Len(dest) = 0
    BY <2>1 DEF ReadInv, BufferOK, Open
  <2>3. recv_start = 0 /\ state_offset = 0 /\ need \in Nat /\ left \in Nat
    BY <2>2 DEF ReadInv, BufferOK, ReadOK
  <2>4. recv_buf = [i \in 1 .. 0 |-> i]
    BY <2>2
  <2> QED
    BY <2>1, <2>2, <2>3, <2>4, NewSocket, 0 \in Nat DEF reading
<1>2. CASE do_replace
  <2>1. PICK n \in 0 .. Prefetch :
           /\ ResetReads([i \in 1 .. n |-> i]) /\ arrived' = n /\ taken' = n
    BY <1>2 DEF do_replace
  <2>2. n \in Nat
    BY ConstantsAssumption
  <2>3. /\ pc = "idle" /\ items' \in NextStream /\ state' = "HANDSHAKE" /\ at' = 1
        /\ UNCHANGED <<pc, msg_left>>
    BY <1>2 DEF do_replace
  <2> QED
    BY <2>1, <2>2, <2>3, NewSocket DEF ResetReads
<1> QED
  BY <1>1, <1>2

\* A new connection has read nothing.
LEMMA InitReads == Init => ReadInv /\ PeerOK
<1> SUFFICES ASSUME Init PROVE ReadInv /\ PeerOK
  OBVIOUS
<1>1. PeerOK /\ items \in Seq(Items)
  BY ConstantsAssumption DEF Init, PeerOK
<1>2. StreamOK
  BY <1>1 DEF Init, StreamOK, States, InMessage, HasUnit, HasBytes, ReadStates
<1>3. Open /\ Expected \in Nat /\ Len(dest) = 0 /\ Len(recv_buf) = 0
  BY <1>2, ExpectedNat DEF Init, Open
<1>4. BufferOK
  BY <1>3 DEF Init, BufferOK
<1>5. ReadOK
  BY <1>3 DEF Init, ReadOK
<1> QED
  BY <1>1, <1>2, <1>4, <1>5 DEF ReadInv

\* Every step keeps the reads in order.
LEMMA StepReads ==
    ASSUME ReadInv, PeerOK, in_seq \in Nat, [Next]_vars
    PROVE  ReadInv' /\ PeerOK'
<1>1. PeerOK'
  BY DEF PeerOK, Next, EventThread, process, read_until, read_bulk, read_prefetch, read_error,
         got, got_bad, Skip, throttle_message, throttle_bytes, read_data_prepare, dispatch,
         dispatch_undecodable, tag_close, C_stop, mark_down, FreeDispatched, FreeDiscarded,
         Reconnect, do_replace, Arrive, Break, Fail, vars
<1> SUFFICES ReadInv'
  BY <1>1
<1>2. arrived \in Nat
  BY DEF ReadInv, StreamOK
<1>3. CASE process
  <2>1. Open /\ pc = "idle" /\ pc' = "loop" /\ UNCHANGED <<state, stream, reading, msg_left>>
    BY <1>3 DEF process, Open
  <2> QED
    BY <1>2, <2>1, OutsideStep DEF stream
<1>4. CASE Arrive
  <2>1. arrived' \in Nat /\ arrived <= arrived'
    BY <1>2, <1>4 DEF Arrive
  <2>2. UNCHANGED <<state, items, at, msg_left, taken, reading, pc>>
    BY <1>4 DEF Arrive
  <2> QED
    BY <2>1, <2>2, OutsideStep
<1>5. CASE Break \/ mark_down \/ FreeDispatched \/ FreeDiscarded \/ UNCHANGED vars
  <2>1. UNCHANGED <<state, items, at, msg_left, arrived, taken, reading, pc>>
    BY <1>5 DEF Break, mark_down, FreeDispatched, FreeDiscarded, vars, stream, reading
  <2> QED
    BY <1>2, <2>1, OutsideStep
<1>6. CASE read_error \/ got_bad \/ dispatch_undecodable \/ tag_close \/ C_stop
  <2>1. Fail("STANDBY") \/ Fail("CLOSED")
    BY <1>6 DEF read_error, got_bad, dispatch_undecodable, tag_close, C_stop
  <2> QED
    BY <2>1, FailStep
<1>7. CASE read_until
  BY <1>7, ReadUntilStep
<1>8. CASE read_bulk
  BY <1>8, ReadBulkStep
<1>9. CASE read_prefetch
  BY <1>9, ReadPrefetchStep
<1>10. CASE got
  BY <1>10, GotStep
<1>11. CASE Skip \/ throttle_message \/ throttle_bytes \/ read_data_prepare \/ dispatch
  BY <1>11, ProcessSteps
<1>12. CASE Reconnect \/ do_replace
  BY <1>12, ReplaceSteps
<1> QED
  BY <1>3, <1>4, <1>5, <1>6, <1>7, <1>8, <1>9, <1>10, <1>11, <1>12 DEF Next, EventThread

-----------------------------------------------------------------------------
(***************************************************************************)
(* Units of the throttles.                                                 *)
(***************************************************************************)
\* A new message adds its bytes.
LEMMA AddMessage ==
    ASSUME NEW S, IsFiniteSet(BytesOf(S)), NEW m, m.size \in Nat, m \notin S
    PROVE  /\ IsFiniteSet(BytesOf(S \cup {m}))
           /\ Cardinality(BytesOf(S \cup {m})) = Cardinality(BytesOf(S)) + m.size
<1> DEFINE A == BytesOf(S)
           B == {m} \X (1 .. m.size)
<1>1. BytesOf(S \cup {m}) = A \cup B
  BY DEF BytesOf
<1>2. A \cap B = {}
  <2> SUFFICES ASSUME NEW x \in A, x \in B PROVE FALSE
    OBVIOUS
  <2>1. PICK k \in S : x \in {k} \X (1 .. k.size)
    BY DEF BytesOf
  <2> QED
    BY <2>1
<1>3. IsFiniteSet(1 .. m.size) /\ Cardinality(1 .. m.size) = m.size
  <2>1. PICK k \in Nat : k = m.size
    OBVIOUS
  <2>2. 1 \in Int /\ k \in Int /\ (IF 1 > k THEN 0 ELSE k - 1 + 1) = k
    OBVIOUS
  <2>3. IsFiniteSet(1 .. k) /\ Cardinality(1 .. k) = k
    BY <2>2, FS_Interval
  <2> QED
    BY <2>1, <2>3
<1>4. IsFiniteSet({m}) /\ Cardinality({m}) = 1
  BY FS_Singleton
<1>5. IsFiniteSet(B) /\ Cardinality(B) = m.size
  <2>1. IsFiniteSet(B) /\ Cardinality(B) = Cardinality({m}) * Cardinality(1 .. m.size)
    BY <1>3, <1>4, FS_Product
  <2>2. 1 * m.size = m.size
    OBVIOUS
  <2> QED
    BY <1>3, <1>4, <2>1, <2>2
<1> HIDE DEF A, B
<1>6. IsFiniteSet(A)
  BY DEF A
<1>7. IsFiniteSet(A \cup B)
      /\ Cardinality(A \cup B) = Cardinality(A) + Cardinality(B) - Cardinality(A \cap B)
  BY <1>5, <1>6, FS_Union
<1>8. Cardinality(A \cap B) = 0 /\ Cardinality(A) \in Nat
  BY <1>2, <1>6, FS_EmptySet, FS_CardinalityType
<1>9. Cardinality(A \cup B) = Cardinality(A) + m.size
  BY <1>5, <1>7, <1>8
<1> QED
  BY <1>1, <1>7, <1>9 DEF A

\* A message that is gone takes its bytes with it.
LEMMA RemoveMessage ==
    ASSUME NEW S, IsFiniteSet(BytesOf(S)), NEW m \in S, m.size \in Nat
    PROVE  /\ IsFiniteSet(BytesOf(S \ {m})) /\ Cardinality(BytesOf(S \ {m})) \in Nat
           /\ Cardinality(BytesOf(S)) = Cardinality(BytesOf(S \ {m})) + m.size
<1>1. BytesOf(S \ {m}) \in SUBSET BytesOf(S)
  BY DEF BytesOf
<1>2. IsFiniteSet(BytesOf(S \ {m}))
  BY <1>1, FS_Subset
<1>3. (S \ {m}) \cup {m} = S /\ m \notin S \ {m}
  OBVIOUS
<1>4. Cardinality(BytesOf((S \ {m}) \cup {m})) = Cardinality(BytesOf(S \ {m})) + m.size
  BY <1>2, <1>3, AddMessage
<1> QED
  BY <1>2, <1>3, <1>4, FS_CardinalityType

\* The messages that exist, and every unit that is taken.
LiveInv == LiveOK /\ UnitsAccounted

\* A step takes or returns bytes with their message.
BytesFollow == bytes_taken' - bytes_taken = MessageBytes' - MessageBytes

\* What is counted are numbers.
LEMMA UnitNumbers ==
    ASSUME StreamOK, LiveInv
    PROVE  /\ Cardinality(live) \in Nat /\ Cardinality(BytesOf(live)) \in Nat
           /\ bytes_taken \in Int /\ in_seq \in Nat
           /\ ReadUnit \in Nat /\ ReadBytes \in Nat
           /\ messages_taken = Cardinality(live) + ReadUnit
           /\ MessageBytes = Cardinality(BytesOf(live)) + ReadBytes
           /\ messages_taken \in Nat /\ MessageBytes \in Nat
<1>1. IsFiniteSet(live) /\ IsFiniteSet(BytesOf(live)) /\ bytes_taken \in Int /\ in_seq \in Nat
  BY DEF LiveInv, LiveOK
<1>2. Cardinality(live) \in Nat /\ Cardinality(BytesOf(live)) \in Nat
  BY <1>1, FS_CardinalityType
<1>3. Size(Cur) \in Nat
  BY CurItem
<1>4. ReadUnit \in Nat /\ ReadBytes \in Nat
  BY <1>3 DEF ReadUnit, ReadBytes
<1>5. messages_taken = Cardinality(live) + ReadUnit
      /\ MessageBytes = Cardinality(BytesOf(live)) + ReadBytes
  BY DEF LiveInv, UnitsAccounted, MessageBytes
<1> QED
  BY <1>1, <1>2, <1>4, <1>5

\* A step that takes no unit and whose message stays what it is.
LEMMA UnitsStay ==
    ASSUME StreamOK, LiveInv, UNCHANGED <<units, in_seq>>, ReadUnit' = ReadUnit,
           ReadBytes' = ReadBytes
    PROVE  LiveInv' /\ BytesFollow
<1>1. UNCHANGED <<live, messages_taken, bytes_taken>>
  BY DEF units
<1>2. LiveInv' /\ MessageBytes' = MessageBytes
  BY <1>1 DEF LiveInv, LiveOK, UnitsAccounted, MessageBytes
<1>3. MessageBytes \in Nat /\ bytes_taken \in Int
  BY UnitNumbers
<1> QED
  BY <1>1, <1>2, <1>3 DEF BytesFollow

\* A failure, and a socket that is replaced, give back what the message being
\* read has taken.
LEMMA UnitsReleased ==
    ASSUME StreamOK, LiveInv, release_throttle, in_seq' = in_seq,
           state' \notin HasUnit
    PROVE  LiveInv' /\ BytesFollow
<1>1. /\ messages_taken' = IF state \in HasUnit THEN messages_taken - 1 ELSE messages_taken
      /\ bytes_taken' = IF state \in HasBytes THEN bytes_taken - Size(Cur) ELSE bytes_taken
      /\ UNCHANGED live
  BY DEF release_throttle
<1>2. state' \notin HasBytes /\ Size(Cur) \in Nat
  BY CurItem DEF HasUnit
<1>3. ReadUnit' = 0 /\ ReadBytes' = 0
  BY <1>2 DEF ReadUnit, ReadBytes
<1>4. messages_taken' = Cardinality(live) /\ bytes_taken' = bytes_taken - ReadBytes
  BY <1>1, <1>2, UnitNumbers DEF ReadUnit, ReadBytes
<1>5. MessageBytes' = Cardinality(BytesOf(live)) + 0
  BY <1>1, <1>3 DEF MessageBytes
<1>6. LiveOK'
  BY <1>1, <1>2 DEF LiveInv, LiveOK
<1>7. UnitsAccounted'
  BY <1>1, <1>3, <1>4, UnitNumbers DEF UnitsAccounted
<1>8. BytesFollow
  BY <1>4, <1>5, UnitNumbers DEF BytesFollow
<1> QED
  BY <1>6, <1>7, <1>8 DEF LiveInv

\* The throttles are entered one after the other.
LEMMA UnitsTaken ==
    ASSUME StreamOK, LiveInv, throttle_message \/ throttle_bytes
    PROVE  LiveInv' /\ BytesFollow
<1>1. UNCHANGED <<items, at, live, in_seq>> /\ Cur' = Cur
  BY DEF throttle_message, throttle_bytes, stream, Cur
<1>2. Size(Cur) \in Nat /\ Size(Cur') = Size(Cur)
  BY <1>1, CurItem
<1>3. CASE throttle_message
  <2>1. /\ state = "THROTTLE_MESSAGE" /\ state' = "THROTTLE_BYTES"
        /\ messages_taken' = messages_taken + 1 /\ bytes_taken' = bytes_taken
    BY <1>3 DEF throttle_message, Continue
  <2>2. ReadUnit = 0 /\ ReadBytes = 0 /\ ReadUnit' = 1 /\ ReadBytes' = 0
    BY <2>1 DEF HasUnit, HasBytes, ReadUnit, ReadBytes
  <2>3. MessageBytes' = MessageBytes
    BY <1>1, <2>2 DEF MessageBytes
  <2>4. BytesFollow
    BY <2>1, <2>3, UnitNumbers DEF BytesFollow
  <2>5. LiveOK'
    BY <1>1, <2>1 DEF LiveInv, LiveOK
  <2>6. UnitsAccounted'
    BY <1>1, <2>1, <2>2, UnitNumbers DEF UnitsAccounted
  <2> QED
    BY <2>4, <2>5, <2>6 DEF LiveInv
<1>4. CASE throttle_bytes
  <2>1. /\ state = "THROTTLE_BYTES" /\ state' = "READ_FRONT"
        /\ messages_taken' = messages_taken /\ bytes_taken' = bytes_taken + Size(Cur)
    BY <1>4 DEF throttle_bytes, Continue
  <2>2. ReadUnit = 1 /\ ReadBytes = 0 /\ ReadUnit' = 1 /\ ReadBytes' = Size(Cur)
    BY <1>1, <1>2, <2>1 DEF HasUnit, HasBytes, ReadUnit, ReadBytes
  <2>3. MessageBytes' = Cardinality(BytesOf(live)) + Size(Cur)
    BY <1>1, <2>2 DEF MessageBytes
  <2>4. BytesFollow
    BY <1>2, <2>1, <2>2, <2>3, UnitNumbers DEF BytesFollow
  <2>5. LiveOK'
    BY <1>1, <1>2, <2>1 DEF LiveInv, LiveOK
  <2>6. UnitsAccounted'
    BY <1>1, <2>1, <2>2, UnitNumbers DEF UnitsAccounted
  <2> QED
    BY <2>4, <2>5, <2>6 DEF LiveInv
<1> QED
  BY <1>3, <1>4

\* A complete message: an old one gives its units back, a new one keeps them.
LEMMA UnitsDispatched ==
    ASSUME StreamOK, LiveInv, dispatch
    PROVE  LiveInv' /\ BytesFollow
<1>1. state = "DISPATCH" /\ state' = "OPEN"
  BY DEF dispatch
<1>2. ReadUnit = 1 /\ ReadBytes = Size(Cur) /\ ReadUnit' = 0 /\ ReadBytes' = 0
  BY <1>1 DEF HasUnit, HasBytes, ReadUnit, ReadBytes
<1>3. Cur \in Items /\ Cur.seq \in Nat /\ Size(Cur) \in Nat
  BY CurItem DEF Items
<1>4. CASE OldMessage
  <2>1. /\ messages_taken' = messages_taken - 1 /\ bytes_taken' = bytes_taken - Size(Cur)
        /\ UNCHANGED <<live, in_seq>>
    BY <1>4 DEF dispatch
  <2>2. LiveOK'
    BY <1>3, <2>1 DEF LiveInv, LiveOK
  <2>3. MessageBytes' = Cardinality(BytesOf(live)) + 0
    BY <1>2, <2>1 DEF MessageBytes
  <2>4. BytesFollow
    BY <1>2, <1>3, <2>1, <2>3, UnitNumbers DEF BytesFollow
  <2>5. UnitsAccounted'
    BY <1>2, <2>1, UnitNumbers DEF UnitsAccounted
  <2> QED
    BY <2>2, <2>4, <2>5 DEF LiveInv
<1>5. CASE ~OldMessage
  <2> DEFINE m == [seq |-> Cur.seq, size |-> Size(Cur)]
  <2>1. /\ in_seq' = Cur.seq /\ live' = live \cup {m}
        /\ UNCHANGED <<messages_taken, bytes_taken>>
    BY <1>5 DEF dispatch
  <2>2. Cur.seq > in_seq /\ in_seq \in Nat
    BY <1>3, <1>5, UnitNumbers DEF OldMessage
  <2>3. m \in [seq : Nat, size : Nat] /\ m.seq = Cur.seq /\ m.size = Size(Cur)
    BY <1>3
  <2>4. m \notin live
    BY <1>3, <2>2, <2>3 DEF LiveInv, LiveOK
  <2> HIDE DEF m
  <2>5. IsFiniteSet(live) /\ IsFiniteSet(BytesOf(live))
    BY DEF LiveInv, LiveOK
  <2>6. IsFiniteSet(live') /\ Cardinality(live') = Cardinality(live) + 1
    BY <2>1, <2>4, <2>5, FS_AddElement
  <2>7. IsFiniteSet(BytesOf(live'))
        /\ Cardinality(BytesOf(live')) = Cardinality(BytesOf(live)) + Size(Cur)
    BY <1>3, <2>1, <2>3, <2>4, <2>5, AddMessage
  <2>8. LiveOK'
    <3>1. \A k \in live : k.seq \in Nat /\ k.seq <= in_seq
      BY DEF LiveInv, LiveOK
    <3>2. \A k \in live' : k.seq <= in_seq'
      BY <1>3, <2>1, <2>2, <2>3, <3>1
    <3> QED
      BY <1>3, <2>1, <2>3, <2>6, <2>7, <3>2 DEF LiveInv, LiveOK
  <2>9. UnitsAccounted'
    BY <1>2, <2>1, <2>6, UnitNumbers DEF UnitsAccounted
  <2>10. MessageBytes' = MessageBytes
    <3>1. MessageBytes' = Cardinality(BytesOf(live')) + 0
      BY <1>2 DEF MessageBytes
    <3>2. MessageBytes = Cardinality(BytesOf(live)) + Size(Cur)
      BY <1>2 DEF MessageBytes
    <3> QED
      BY <1>3, <2>7, <3>1, <3>2, UnitNumbers
  <2>11. BytesFollow
    BY <2>1, <2>10, UnitNumbers DEF BytesFollow
  <2> QED
    BY <2>8, <2>9, <2>11 DEF LiveInv
<1> QED
  BY <1>4, <1>5

\* A message that is freed returns its unit, and its bytes unless it was
\* dispatched.
LEMMA UnitsFreed ==
    ASSUME StreamOK, LiveInv, FreeDispatched \/ FreeDiscarded
    PROVE  LiveInv' /\ (FreeDiscarded => BytesFollow)
<1>1. UNCHANGED <<state, items, at, in_seq>>
  BY DEF FreeDispatched, FreeDiscarded, stream
<1>2. ReadUnit' = ReadUnit /\ ReadBytes' = ReadBytes
  BY <1>1 DEF ReadUnit, ReadBytes, Cur
<1>3. ASSUME NEW m \in live, live' = live \ {m}, messages_taken' = messages_taken - 1,
             bytes_taken' \in Int
      PROVE  /\ LiveInv' /\ m.size \in Nat
             /\ MessageBytes' = MessageBytes - m.size
  <2>1. m.size \in Nat /\ IsFiniteSet(live) /\ IsFiniteSet(BytesOf(live))
    BY DEF LiveInv, LiveOK
  <2>2. IsFiniteSet(live') /\ Cardinality(live') = Cardinality(live) - 1
    BY <1>3, <2>1, FS_RemoveElement
  <2>3. /\ IsFiniteSet(BytesOf(live')) /\ Cardinality(BytesOf(live')) \in Nat
        /\ Cardinality(BytesOf(live)) = Cardinality(BytesOf(live')) + m.size
    BY <1>3, <2>1, RemoveMessage
  <2>4. LiveOK'
    BY <1>1, <1>3, <2>2, <2>3 DEF LiveInv, LiveOK
  <2>5. UnitsAccounted'
    BY <1>2, <1>3, <2>2, UnitNumbers DEF UnitsAccounted
  <2>6. MessageBytes' = Cardinality(BytesOf(live')) + ReadBytes
    BY <1>2 DEF MessageBytes
  <2>7. MessageBytes' = MessageBytes - m.size
    BY <2>1, <2>3, <2>6, UnitNumbers
  <2> QED
    BY <2>1, <2>4, <2>5, <2>7 DEF LiveInv
<1>4. CASE FreeDiscarded
  <2>1. PICK m \in live : /\ live' = live \ {m} /\ messages_taken' = messages_taken - 1
                          /\ bytes_taken' = bytes_taken - m.size
    BY <1>4 DEF FreeDiscarded
  <2>2. m.size \in Nat /\ bytes_taken \in Int
    BY DEF LiveInv, LiveOK
  <2>3. bytes_taken' \in Int
    BY <2>1, <2>2
  <2>4. LiveInv' /\ MessageBytes' = MessageBytes - m.size
    BY <1>3, <2>1, <2>3
  <2>5. BytesFollow
    BY <2>1, <2>2, <2>4, UnitNumbers DEF BytesFollow
  <2> QED
    BY <2>4, <2>5
<1>5. CASE FreeDispatched /\ ~FreeDiscarded
  <2>1. PICK m \in live : /\ live' = live \ {m} /\ messages_taken' = messages_taken - 1
                          /\ bytes_taken' = bytes_taken
    BY <1>5 DEF FreeDispatched
  <2>2. bytes_taken' \in Int
    BY <2>1, UnitNumbers
  <2>3. LiveInv'
    BY <1>3, <2>1, <2>2
  <2> QED
    BY <1>5, <2>3
<1> QED
  BY <1>4, <1>5

\* Every step accounts for the units, and for the bytes unless it frees a message
\* that was dispatched.
LEMMA StepUnits ==
    ASSUME StreamOK, LiveInv, [Next]_vars
    PROVE  LiveInv' /\ (FreeDispatched \/ BytesFollow)
<1>1. CASE \/ process \/ read_until \/ read_bulk \/ read_prefetch \/ Arrive \/ Break
           \/ mark_down \/ UNCHANGED vars
  <2>1. UNCHANGED <<state, items, at, units, in_seq>>
    BY <1>1 DEF process, read_until, read_bulk, read_prefetch, Arrive, Break, mark_down,
                vars, stream, units
  <2> QED
    BY <2>1, UnitsStay DEF ReadUnit, ReadBytes, Cur
<1>2. CASE got
  <2>1. UNCHANGED <<items, units, in_seq>>
    BY <1>2 DEF got
  <2>2. \/ /\ at' = at
           /\ \/ state \in HasBytes /\ state' \in HasBytes /\ state \in HasUnit
                 /\ state' \in HasUnit
              \/ state \notin HasUnit /\ state' \notin HasUnit
        \/ state \notin HasUnit /\ state' \notin HasUnit
    <3>1. CASE state = "OPEN"
      <4>1. Cur.tag \in {"KEEPALIVE2", "KEEPALIVE2_ACK", "ACK", "MSG", "CLOSE"}
        BY <1>2, <3>1, CurItem DEF got, Items
      <4>2. state' = TagState(Cur.tag)
        BY <1>2, <3>1 DEF got, Continue
      <4> QED
        BY <3>1, <4>1, <4>2 DEF TagState, HasUnit, HasBytes
    <3>2. CASE state # "OPEN"
      BY <1>2, <3>2 DEF got, Continue, HasUnit, HasBytes
    <3> QED
      BY <3>1, <3>2
  <2>3. ReadUnit' = ReadUnit /\ ReadBytes' = ReadBytes
    BY <2>1, <2>2 DEF ReadUnit, ReadBytes, Cur, HasUnit
  <2> QED
    BY <2>1, <2>3, UnitsStay
<1>3. CASE Skip \/ read_data_prepare
  <2>1. UNCHANGED <<items, at, units, in_seq>>
    BY <1>3 DEF Skip, read_data_prepare, stream
  <2>2. state \in HasBytes /\ state' \in HasBytes /\ state \in HasUnit /\ state' \in HasUnit
    BY <1>3 DEF Skip, read_data_prepare, Continue, HasUnit, HasBytes
  <2>3. ReadUnit' = ReadUnit /\ ReadBytes' = ReadBytes
    BY <2>1, <2>2 DEF ReadUnit, ReadBytes, Cur
  <2> QED
    BY <2>1, <2>3, UnitsStay
<1>4. CASE read_error \/ got_bad \/ dispatch_undecodable \/ tag_close \/ C_stop \/ do_replace
  <2>1. release_throttle /\ in_seq' = in_seq /\ state' \in {"STANDBY", "CLOSED", "HANDSHAKE"}
    BY <1>4 DEF read_error, got_bad, dispatch_undecodable, tag_close, C_stop, do_replace, Fail
  <2>2. state' \notin HasUnit
    BY <2>1 DEF HasUnit, HasBytes
  <2> QED
    BY <2>1, <2>2, UnitsReleased
<1>5. CASE Reconnect
  <2>1. UNCHANGED <<units, in_seq>> /\ state = "STANDBY" /\ state' = "HANDSHAKE"
    BY <1>5 DEF Reconnect
  <2>2. ReadUnit' = ReadUnit /\ ReadBytes' = ReadBytes
    BY <2>1 DEF ReadUnit, ReadBytes, HasUnit, HasBytes
  <2> QED
    BY <2>1, <2>2, UnitsStay
<1>6. CASE throttle_message \/ throttle_bytes
  BY <1>6, UnitsTaken
<1>7. CASE dispatch
  BY <1>7, UnitsDispatched
<1>8. CASE FreeDispatched \/ FreeDiscarded
  BY <1>8, UnitsFreed
<1> QED
  BY <1>1, <1>2, <1>3, <1>4, <1>5, <1>6, <1>7, <1>8 DEF Next, EventThread

-----------------------------------------------------------------------------
(***************************************************************************)
(* Numbers of messages, and bytes that wait.                               *)
(***************************************************************************)
\* A complete message is old, or it is the one after in_seq.
LEMMA DispatchNext ==
    ASSUME StreamOK, in_seq \in Nat, NoGap, dispatch
    PROVE  NoGap'
<1>1. /\ state = "DISPATCH" /\ items' = items /\ at' = at + 1
      /\ \/ OldMessage /\ UNCHANGED <<in_seq, delivered>>
         \/ ~OldMessage /\ in_seq' = Cur.seq /\ delivered' = Append(delivered, Cur.seq)
  BY DEF dispatch
<1>2. Cur.tag = "MSG" /\ items \in Seq(Items) /\ at \in Nat \ {0}
  BY <1>1 DEF StreamOK, InMessage, HasUnit, HasBytes
<1>3. at \in DOMAIN items /\ Cur = items[at]
  BY <1>2 DEF Cur
<1>4. \A i \in DOMAIN items : items[i].seq \in Nat
  <2>1. \A x \in Items : x.seq \in Nat
    BY DEF Items
  <2> QED
    BY <1>2, <2>1
<1>5. Cur.seq \in Nat /\ Cur.seq <= in_seq + 1
  <2>1. ~ \E j \in at .. (at - 1) : TRUE
    BY <1>2
  <2> QED
    BY <1>2, <1>3, <1>4, <2>1 DEF NoGap
<1>6. in_seq' \in Nat /\ in_seq <= in_seq' /\ Cur.seq <= in_seq'
  BY <1>1, <1>5 DEF OldMessage
<1>7. delivered' = [i \in 1 .. in_seq' |-> i]
  <2>1. CASE OldMessage
    BY <1>1, <2>1 DEF NoGap
  <2>2. CASE ~OldMessage
    <3>1. Cur.seq = in_seq + 1
      BY <1>5, <2>2 DEF OldMessage
    <3>2. delivered' = Append([i \in 1 .. in_seq |-> i], in_seq + 1) /\ in_seq' = in_seq + 1
      BY <1>1, <2>2, <3>1 DEF NoGap
    <3>3. Append([i \in 1 .. in_seq |-> i], in_seq + 1) = [i \in 1 .. in_seq + 1 |-> i]
      OBVIOUS
    <3> QED
      BY <3>2, <3>3
  <2> QED
    BY <2>1, <2>2
<1>8. ASSUME NEW i \in DOMAIN items, i >= at + 1, items[i].tag = "MSG"
      PROVE  \/ items[i].seq <= in_seq' + 1
             \/ \E j \in at + 1 .. (i - 1) :
                    items[j].tag = "MSG" /\ items[i].seq = items[j].seq + 1
  <2>1. items[i].seq \in Nat /\ i >= at /\ i \in Nat
    BY <1>2, <1>4, <1>8
  <2>2. CASE items[i].seq <= in_seq + 1
    BY <1>6, <2>1, <2>2
  <2>3. CASE \E j \in at .. (i - 1) : items[j].tag = "MSG" /\ items[i].seq = items[j].seq + 1
    <3>1. PICK j \in at .. (i - 1) : items[j].tag = "MSG" /\ items[i].seq = items[j].seq + 1
      BY <2>3
    <3>2. CASE j = at
      BY <1>3, <1>5, <1>6, <2>1, <3>1, <3>2
    <3>3. CASE j # at
      BY <1>2, <2>1, <3>1, <3>3
    <3> QED
      BY <3>2, <3>3
  <2> QED
    BY <1>8, <2>1, <2>2, <2>3 DEF NoGap
<1> QED
  BY <1>1, <1>7, <1>8 DEF NoGap

\* An item that is no message leaves no gap behind.
LEMMA SkipItem ==
    ASSUME StreamOK, NoGap, got
    PROVE  NoGap'
<1>1. UNCHANGED <<items, in_seq, delivered>>
  BY DEF got
<1>2. CASE at' = at
  BY <1>1, <1>2 DEF NoGap
<1>3. CASE at' # at
  <2>1. at' = at + 1 /\ Cur.tag # "MSG" /\ at \in Nat /\ items \in Seq(Items)
    BY <1>3 DEF got, StreamOK
  <2>2. at \in DOMAIN items => items[at].tag # "MSG"
    BY <2>1 DEF Cur
  <2>3. ASSUME NEW i \in DOMAIN items, i >= at + 1, items[i].tag = "MSG"
        PROVE  \/ items[i].seq <= in_seq + 1
               \/ \E j \in at + 1 .. (i - 1) :
                      items[j].tag = "MSG" /\ items[i].seq = items[j].seq + 1
    <3>1. i >= at /\ i \in Nat /\ DOMAIN items = 1 .. Len(items) /\ Len(items) \in Nat
      BY <2>1, <2>3
    <3>2. CASE \E j \in at .. (i - 1) : items[j].tag = "MSG" /\ items[i].seq = items[j].seq + 1
      <4>1. PICK j \in at .. (i - 1) : items[j].tag = "MSG" /\ items[i].seq = items[j].seq + 1
        BY <3>2
      <4>2. at \in DOMAIN items
        <5>1. at # 0
          BY DEF StreamOK
        <5> QED
          BY <2>1, <3>1, <4>1, <5>1
      <4>3. j # at
        BY <2>2, <4>1, <4>2
      <4>4. j \in at + 1 .. (i - 1)
        BY <2>1, <3>1, <4>1, <4>3
      <4> QED
        BY <4>1, <4>4
    <3> QED
      BY <2>3, <3>1, <3>2 DEF NoGap
  <2> QED
    BY <1>1, <2>1, <2>3 DEF NoGap
<1> QED
  BY <1>2, <1>3

\* The next socket begins with a message that was handed on, or with the next.
LEMMA NextSocket ==
    ASSUME PeerOK, in_seq \in Nat, NoGap, Reconnect \/ do_replace
    PROVE  NoGap'
<1>1. items' \in NextStream /\ at' = 1 /\ UNCHANGED <<in_seq, delivered>>
  BY DEF Reconnect, do_replace
<1>2. PICK q : q = items'
  OBVIOUS
<1>3. /\ \A i \in DOMAIN q : q[i].tag = "MSG"
      /\ \A i \in DOMAIN q :
            \/ q[i].seq <= in_seq + 1
            \/ \E j \in 1 .. (i - 1) : q[i].seq = q[j].seq + 1
      /\ q \in Seq(Items)
  BY <1>1, <1>2, NextStreamNumbered
<1>4. ASSUME NEW i \in DOMAIN q
      PROVE  \/ q[i].seq <= in_seq + 1
             \/ \E j \in 1 .. (i - 1) : q[j].tag = "MSG" /\ q[i].seq = q[j].seq + 1
  <2>1. \A j \in 1 .. (i - 1) : j \in DOMAIN q
    BY <1>3
  <2> QED
    BY <1>3, <2>1
<1> QED
  BY <1>1, <1>2, <1>4 DEF NoGap

\* Every step keeps the numbers in order.
LEMMA StepNumbers ==
    ASSUME StreamOK, PeerOK, in_seq \in Nat, NoGap, [Next]_vars
    PROVE  NoGap'
<1>1. CASE dispatch
  BY <1>1, DispatchNext
<1>2. CASE got
  BY <1>2, SkipItem
<1>3. CASE Reconnect \/ do_replace
  BY <1>3, NextSocket
<1>4. CASE ~ (dispatch \/ got \/ Reconnect \/ do_replace)
  <2>1. UNCHANGED <<items, at, in_seq, delivered>>
    BY <1>4 DEF Next, EventThread, process, read_until, read_bulk, read_prefetch, read_error,
         got_bad, Skip, throttle_message, throttle_bytes, read_data_prepare,
         dispatch_undecodable, tag_close, C_stop, mark_down, FreeDispatched, FreeDiscarded,
         Arrive, Break, Fail, vars, stream
  <2> QED
    BY <2>1 DEF NoGap
<1> QED
  BY <1>1, <1>2, <1>3, <1>4

\* do_process returns with bytes in the prefetch buffer only if it has set the
\* timer.
LEMMA StepStranded ==
    ASSUME BufferOK, ReadOK, NothingStranded, [Next]_vars
    PROVE  NothingStranded'
<1>1. ASSUME recv_buf' = <<>>
      PROVE  NothingStranded'
  <2>1. SubSeq(<<>>, recv_start' + 1, Len(<<>>)) = <<>>
    OBVIOUS
  <2> QED
    BY <1>1, <2>1 DEF NothingStranded, Buffered
<1>2. ASSUME pc' # "idle"
      PROVE  NothingStranded'
  BY <1>2 DEF NothingStranded
<1>3. ASSUME UNCHANGED <<pc, recv_buf, recv_start, ev_process>>, stopping => stopping'
      PROVE  NothingStranded'
  BY <1>3 DEF NothingStranded, Buffered
<1>a. ASSUME pc' = "idle" => stopping, stopping' = stopping
       PROVE  NothingStranded'
  BY <1>a DEF NothingStranded
<1>4. CASE process \/ read_until \/ got
  <2>1. CASE process \/ read_until
    BY <1>2, <2>1 DEF process, read_until
  <2>2. CASE got
    <3>1. (pc' = "idle" => stopping) /\ stopping' = stopping
      BY <2>2 DEF got, Continue, Iterate
    <3> QED
      BY <1>a, <3>1
  <2> QED
    BY <1>4, <2>1, <2>2
<1>5. CASE read_bulk
  BY <1>1, <1>5 DEF read_bulk, ReadOK
<1>6. CASE read_prefetch
  BY <1>1, <1>2, <1>6 DEF read_prefetch
<1>7. CASE read_error \/ got_bad \/ dispatch_undecodable \/ tag_close \/ C_stop
  BY <1>1, <1>7 DEF read_error, got_bad, dispatch_undecodable, tag_close, C_stop, Fail, ResetReads
<1>8. CASE dispatch
  <2>1. pc = "loop" /\ UNCHANGED <<recv_buf, recv_start>> /\ Buffered' = Buffered
    BY <1>8 DEF dispatch, reading, Buffered
  <2>2. \/ (pc' = "idle" => stopping) /\ stopping' = stopping
        \/ ev_process' = (ev_process \/ MoreBuffered)
    BY <1>8 DEF dispatch, Iterate
  <2>3. CASE ev_process' = (ev_process \/ MoreBuffered)
    BY <2>1, <2>3 DEF NothingStranded, MoreBuffered
  <2> QED
    BY <1>a, <2>2, <2>3
<1>9. CASE do_replace
  <2>1. PICK n \in 0 .. Prefetch : recv_buf' = [i \in 1 .. n |-> i]
                                  /\ ev_process' = (ev_process \/ n > 0)
    BY <1>9 DEF do_replace, ResetReads
  <2>2. CASE n = 0
    <3>1. recv_buf' = <<>>
      BY <2>1, <2>2
    <3> QED
      BY <1>1, <3>1
  <2>3. CASE n # 0
    <3>1. n > 0
      BY <2>3, ConstantsAssumption
    <3>2. ev_process'
      BY <2>1, <3>1, Zenon
    <3> QED
      BY <3>2 DEF NothingStranded
  <2> QED
    BY <2>2, <2>3
<1>10. CASE \/ Arrive \/ Break \/ mark_down \/ FreeDispatched \/ FreeDiscarded \/ Reconnect
            \/ UNCHANGED vars
  <2>1. UNCHANGED <<pc, recv_buf, recv_start, ev_process>> /\ (stopping => stopping')
    BY <1>10 DEF Arrive, Break, mark_down, FreeDispatched, FreeDiscarded, Reconnect, vars,
                 reading
  <2> QED
    BY <1>3, <2>1
<1>11. CASE Skip \/ throttle_message \/ throttle_bytes \/ read_data_prepare
  <2>1. (pc' = "idle" => stopping) /\ stopping' = stopping
    BY <1>11 DEF Skip, throttle_message, throttle_bytes, read_data_prepare, Continue, Iterate
  <2> QED
    BY <1>a, <2>1
<1> QED
  BY <1>4, <1>5, <1>6, <1>7, <1>8, <1>9, <1>10, <1>11 DEF Next, EventThread

-----------------------------------------------------------------------------
(***************************************************************************)
(* The theorems.                                                           *)
(***************************************************************************)
IInv == ReadInv /\ PeerOK /\ LiveInv /\ NoGap /\ NothingStranded

\* IInv holds in every state: it is true at the start and kept by each step.
THEOREM ReaderInvariant == Spec => []IInv
<1>1. Init => IInv
  <2> SUFFICES ASSUME Init PROVE IInv
    OBVIOUS
  <2>1. ReadInv /\ PeerOK
    BY InitReads
  <2>2. LiveInv
    <3>1. BytesOf({}) = {}
      BY DEF BytesOf
    <3>2. IsFiniteSet(live) /\ IsFiniteSet(BytesOf(live))
          /\ Cardinality(live) = 0 /\ Cardinality(BytesOf(live)) = 0
      BY <3>1, FS_EmptySet DEF Init
    <3> QED
      BY <3>2 DEF Init, LiveInv, LiveOK, UnitsAccounted, ReadUnit, HasUnit, HasBytes
  <2>3. NoGap
    <3>1. peer.stream \in Seq(Items) /\ Numbered(peer.stream) /\ items = peer.stream /\ at = 1
          /\ in_seq = 0 /\ delivered = <<>>
      BY <2>1, ConstantsAssumption DEF Init, PeerOK
    <3>2. delivered = [i \in 1 .. in_seq |-> i]
      BY <3>1
    <3>3. ASSUME NEW i \in DOMAIN items, items[i].tag = "MSG"
          PROVE  \/ items[i].seq <= in_seq + 1
                 \/ \E j \in at .. (i - 1) :
                        items[j].tag = "MSG" /\ items[i].seq = items[j].seq + 1
      BY <3>1, <3>3 DEF Numbered
    <3> QED
      BY <3>2, <3>3 DEF NoGap
  <2>4. NothingStranded
    <3>1. SubSeq(<<>>, 0 + 1, Len(<<>>)) = <<>>
      OBVIOUS
    <3> QED
      BY <3>1 DEF Init, NothingStranded, Buffered
  <2> QED
    BY <2>1, <2>2, <2>3, <2>4 DEF IInv
<1>2. IInv /\ [Next]_vars => IInv'
  <2> SUFFICES ASSUME IInv, [Next]_vars PROVE IInv'
    OBVIOUS
  <2>1. StreamOK /\ BufferOK /\ ReadOK /\ in_seq \in Nat
    BY DEF IInv, ReadInv, LiveInv, LiveOK
  <2>2. ReadInv' /\ PeerOK'
    BY <2>1, StepReads DEF IInv
  <2>3. LiveInv'
    BY <2>1, StepUnits DEF IInv
  <2>4. NoGap'
    BY <2>1, StepNumbers DEF IInv
  <2>5. NothingStranded'
    BY <2>1, StepStranded DEF IInv
  <2> QED
    BY <2>2, <2>3, <2>4, <2>5 DEF IInv
<1> QED
  BY <1>1, <1>2, PTL DEF Spec

\* Bytes are handed to do_process once and in order, whatever mix of short,
\* prefetched and direct reads brought them (read_until): what was consumed, what
\* is at p and what is buffered are the bytes read so far.
THEOREM BytesContiguous == Spec => []Contiguous
<1>1. IInv => Contiguous
  <2> SUFFICES ASSUME IInv, Open
               PROVE  [i \in 1 .. consumed |-> i] \o dest \o Buffered = [i \in 1 .. taken |-> i]
    BY DEF Contiguous, Open
  <2>1. PICK u, bf, e : /\ u = [i \in 1 .. consumed |-> i] /\ bf = Buffered
                        /\ e = [i \in 1 .. taken |-> i]
    OBVIOUS
  <2>2. /\ consumed \in Nat /\ taken \in Nat /\ dest \in Seq(Nat)
        /\ \A i \in 1 .. Len(dest) : dest[i] = consumed + i
    BY DEF IInv, ReadInv, BufferOK, StreamOK
  <2>3. u \in Seq(Nat) /\ Len(u) = consumed /\ \A i \in 1 .. consumed : u[i] = i
    BY <2>1, <2>2
  <2>4. e \in Seq(Nat) /\ Len(e) = taken /\ \A i \in 1 .. taken : e[i] = i
    BY <2>1, <2>2
  <2>5. PICK L \in Nat, r \in Nat :
           /\ L = Len(recv_buf) /\ r = recv_start /\ r <= L
           /\ consumed + Len(dest) + L = taken + r
           /\ \A k \in 1 .. L : recv_buf[k] \in Nat /\ recv_buf[k] + L = taken + k
    <3>1. /\ recv_buf \in Seq(Nat) /\ recv_start \in 0 .. Len(recv_buf)
          /\ \A k \in 1 .. Len(recv_buf) : recv_buf[k] + Len(recv_buf) = taken + k
          /\ consumed + Len(dest) + Len(recv_buf) = taken + recv_start
      BY DEF IInv, ReadInv, BufferOK
    <3>2. Len(recv_buf) \in Nat /\ recv_start \in Nat /\ recv_start <= Len(recv_buf)
          /\ \A k \in 1 .. Len(recv_buf) : recv_buf[k] \in Nat
      BY <3>1
    <3> QED
      BY <3>1, <3>2
  <2>6. bf \in Seq(Nat) /\ Len(bf) = L - r /\ \A i \in 1 .. L - r : bf[i] = recv_buf[r + i]
    BY <2>1, <2>5, BufferedBytes DEF IInv, ReadInv
  <2>7. PICK d \in Nat : d = Len(dest)
    BY <2>2
  <2>8. ASSUME NEW i \in 1 .. L - r
        PROVE  bf[i] = consumed + d + i
    <3>1. r + i \in 1 .. L /\ i \in Nat
      BY <2>5
    <3>2. PICK x \in Nat : x = bf[i] /\ x + L = taken + (r + i)
      BY <2>5, <2>6, <3>1
    <3>3. consumed + d + L = taken + r
      BY <2>5, <2>7
    <3>4. consumed \in Nat /\ taken \in Nat
      BY <2>2
    <3>5. x = consumed + d + i
      BY <3>1, <3>2, <3>3, <3>4
    <3> QED
      BY <3>2, <3>5
  <2>9. /\ u \o dest \in Seq(Nat) /\ Len(u \o dest) = consumed + d
        /\ \A i \in 1 .. consumed : (u \o dest)[i] = u[i]
        /\ \A i \in 1 .. d : (u \o dest)[consumed + i] = dest[i]
    BY <2>2, <2>3, <2>7, Concatenation
  <2>10. ASSUME NEW i \in 1 .. consumed + d
         PROVE  (u \o dest)[i] = i
    <3>1. CASE i \in 1 .. consumed
      BY <2>3, <2>9, <3>1
    <3>2. CASE i \notin 1 .. consumed
      <4>1. i - consumed \in 1 .. d /\ consumed + (i - consumed) = i
        BY <2>2, <3>2
      <4>2. (u \o dest)[consumed + (i - consumed)] = consumed + (i - consumed)
        BY <2>2, <2>7, <2>9, <4>1
      <4> QED
        BY <4>1, <4>2
    <3> QED
      BY <3>1, <3>2
  <2>11. PICK w \in Seq(Nat) : w = u \o dest
    BY <2>9
  <2>12. /\ w \o bf \in Seq(Nat) /\ Len(w \o bf) = consumed + d + (L - r)
         /\ \A i \in 1 .. consumed + d : (w \o bf)[i] = w[i]
         /\ \A i \in 1 .. L - r : (w \o bf)[consumed + d + i] = bf[i]
    <3>1. Len(w) = consumed + d /\ Len(bf) = L - r
      BY <2>6, <2>9, <2>11
    <3>2. /\ w \o bf \in Seq(Nat) /\ Len(w \o bf) = Len(w) + Len(bf)
          /\ \A i \in 1 .. Len(w) : (w \o bf)[i] = w[i]
          /\ \A i \in 1 .. Len(bf) : (w \o bf)[Len(w) + i] = bf[i]
      BY <2>6, Concatenation
    <3> QED
      BY <3>1, <3>2, Zenon
  <2>13. consumed + d + (L - r) = taken
    BY <2>2, <2>5, <2>7
  <2>14. ASSUME NEW i \in 1 .. taken
         PROVE  (w \o bf)[i] = i
    <3>1. CASE i \in 1 .. consumed + d
      BY <2>10, <2>11, <2>12, <3>1
    <3>2. CASE i \notin 1 .. consumed + d
      <4>1. i - (consumed + d) \in 1 .. L - r /\ consumed + d + (i - (consumed + d)) = i
        BY <2>2, <2>13, <3>2
      <4>2. (w \o bf)[consumed + d + (i - (consumed + d))]
              = consumed + d + (i - (consumed + d))
        BY <2>8, <2>12, <4>1
      <4> QED
        BY <4>1, <4>2
    <3> QED
      BY <3>1, <3>2
  <2>15. w \o bf = e
    <3>1. PICK v \in Seq(Nat) : v = w \o bf
      BY <2>12
    <3>2. Len(v) = Len(e) /\ \A i \in 1 .. Len(e) : v[i] = e[i]
      BY <2>4, <2>12, <2>13, <2>14, <3>1
    <3>3. v = e
      BY <2>4, <3>2
    <3> QED
      BY <3>1, <3>3
  <2> QED
    BY <2>1, <2>11, <2>15
<1> QED
  BY <1>1, ReaderInvariant, PTL

\* do_process never returns with bytes in the prefetch buffer, where the event
\* loop does not see them, unless ev_process will call it again.
THEOREM NoBytesStranded == Spec => []NothingStranded
<1>1. IInv => NothingStranded
  BY DEF IInv
<1> QED
  BY <1>1, ReaderInvariant, PTL

\* The units taken from the throttles are those of the message being read and of
\* the messages that exist, whichever of fault, _stop, do_replace and an old
\* message ends a read, and at whichever state.
THEOREM UnitsConserved == Spec => []UnitsAccounted
<1>1. IInv => UnitsAccounted
  BY DEF IInv, LiveInv
<1> QED
  BY <1>1, ReaderInvariant, PTL

\* Every step takes and returns bytes of the byte throttle with the message they
\* belong to, but ~Message of a message that pre_dispatch has seen.
THEOREM BytesConserved == Spec => BytesFollowMessages
<1>1. IInv /\ [Next]_vars
        => [FreeDispatched \/ bytes_taken' - bytes_taken = MessageBytes' - MessageBytes]_vars
  BY StepUnits DEF IInv, ReadInv, BytesFollow
<1> QED
  BY <1>1, ReaderInvariant, PTL DEF Spec, BytesFollowMessages

\* Messages are handed on in the order of their numbers, once, none skipped, for
\* every stream that the peer numbers from 1 on.
THEOREM HandedOnInSequence == Spec => []InSequence
<1>1. IInv => InSequence
  <2> SUFFICES ASSUME IInv PROVE InSequence
    OBVIOUS
  <2>1. in_seq \in Nat /\ delivered = [i \in 1 .. in_seq |-> i]
    BY DEF IInv, LiveInv, LiveOK, NoGap
  <2>2. Len([i \in 1 .. in_seq |-> i]) = in_seq
    BY <2>1
  <2> QED
    BY <2>1, <2>2 DEF InSequence
<1> QED
  BY <1>1, ReaderInvariant, PTL

=============================================================================
