------------------------------- MODULE Reader -------------------------------
(***************************************************************************)
(* The read side of one AsyncConnection: the state machine of do_process   *)
(* for an open connection, read_until() with its prefetch buffer, and the  *)
(* units it takes from the two throttles of its policy.                    *)
(*                                                                         *)
(* The peer's bytes are numbered by their position in the stream of the    *)
(* present socket; `items` says what they mean.  arrived of them have      *)
(* reached our end, taken of them were read from it, so that a buffer is a *)
(* sequence of positions.  The event loop calls process() when the socket  *)
(* is readable or ev_process is due, and do_process() runs until a read    *)
(* finds too little.  A step is one iteration of do_process or one read(). *)
(***************************************************************************)
EXTENDS Integers, Sequences, FiniteSets, SequencesExt, Subsequences

CONSTANTS
    Streams,        \* what the peer may send on its first socket
    Prefetch,       \* recv_max_prefetch
    Segment,        \* size of a segment of the data buffer
    MaxRecvBytes,   \* ms_async_max_recv_bytes
    MessageLimit,   \* limit of policy.throttler_messages
    ByteLimits,     \* limits policy.throttler_bytes may have
    MaxBreaks,      \* model bound: sockets that break or are replaced
    Sizes           \* sizes of the parts of a message

\* An item of the stream: a tag and, for a message, the lengths of its parts,
\* its number, and what is wrong with it.
Items == [tag : {"KEEPALIVE2", "KEEPALIVE2_ACK", "ACK", "MSG", "CLOSE", "unknown"},
          front : Sizes, middle : Sizes, data : Sizes, seq : Nat,
          fault : {"none", "crc", "aborted", "undecodable"}]

\* The peer numbers its messages from 1 on and leaves no number out.
Numbered(s) ==
    \A i \in DOMAIN s : s[i].tag = "MSG" =>
        \/ s[i].seq = 1
        \/ \E j \in 1..(i - 1) : s[j].tag = "MSG" /\ s[i].seq = s[j].seq + 1

ASSUME ConstantsAssumption ==
    /\ Sizes \subseteq Nat /\ 0 \in Sizes
    /\ \A s \in Streams : Numbered(s)
    /\ Streams \subseteq Seq(Items)
    /\ Prefetch \in Nat \ {0} /\ Segment \in Nat \ {0} /\ MaxRecvBytes \in Nat
    /\ MessageLimit \in Nat \ {0} /\ ByteLimits \subseteq Nat \ {0}

VARIABLES
    state,          \* the connection's state
    items,          \* the stream of the present socket
    at,             \* the item do_process is in
    sock,           \* "up" or "broken"
    arrived, taken, \* positions that arrived here, and that read() returned
    pc,             \* "idle": the event loop; "loop": do_process; or in read_until
    need, left,     \* read_until: len and left
    dest,           \* read_until: what is at p
    recv_buf, recv_start, state_offset,
    consumed,       \* history: bytes handed to do_process
    msg_left,       \* data bytes still to be read
    total_recv_bytes,
    ev_process,     \* the timer is set
    messages_taken, \* units and bytes taken from the throttles
    bytes_taken,
    live,           \* messages that exist
    stopping,       \* mark_down() or stop() was called
    in_seq,
    delivered,      \* history: numbers of the messages handed on, in order
    breaks,
    peer            \* what the peer has to send, and the limit of the byte throttle

stream == <<items, at, sock, arrived, taken>>
reading == <<need, left, dest, recv_buf, recv_start, state_offset, consumed>>
units == <<messages_taken, bytes_taken, live>>
vars == <<state, stream, pc, reading, msg_left, total_recv_bytes, ev_process,
          units, in_seq, delivered, breaks, peer, stopping>>

HandshakeLen == 2
HeaderLen == 2

\* The item do_process is in.  Nothing arrives after the last one.
Cur == IF at \in DOMAIN items THEN items[at]
       ELSE [tag |-> "unknown", front |-> 0, middle |-> 0, data |-> 0, seq |-> 0,
             fault |-> "none"]

LastSeq == Cardinality({i \in DOMAIN peer.stream : peer.stream[i].tag = "MSG"})

Size(i) == i.front + i.middle + i.data

\* The states after the message's unit, and after its bytes, were taken.
HasBytes == {"READ_FRONT", "READ_MIDDLE", "READ_DATA_PREPARE", "READ_DATA",
             "READ_FOOTER", "THROTTLE_DISPATCH_SIZE", "DISPATCH"}
HasUnit == HasBytes \cup {"THROTTLE_BYTES"}
ReadStates == {"HANDSHAKE", "OPEN", "KEEPALIVE2", "KEEPALIVE2_ACK", "TAG_ACK",
               "MESSAGE_HEADER", "READ_FRONT", "READ_MIDDLE", "READ_DATA",
               "READ_FOOTER"}

\* Bytes of an item, the tag included.
Bytes(i) ==
    1 + CASE i.tag = "MSG" -> HeaderLen + Size(i) + 1
          [] i.tag \in {"KEEPALIVE2", "KEEPALIVE2_ACK", "ACK"} -> 1
          [] OTHER -> 0

StreamLen == HandshakeLen + FoldLeft(LAMBDA n, i : n + Bytes(i), 0, items)

\* What do_process asks read_until for.
ReadLen ==
    CASE state = "HANDSHAKE" -> HandshakeLen
      [] state = "MESSAGE_HEADER" -> HeaderLen
      [] state = "READ_FRONT" -> Cur.front
      [] state = "READ_MIDDLE" -> Cur.middle
      [] state = "READ_DATA" -> IF msg_left < Segment THEN msg_left ELSE Segment
      [] OTHER -> 1

Init ==
    /\ peer \in [stream : Streams, byte_limit : ByteLimits]
    /\ state = "HANDSHAKE" /\ items = peer.stream /\ at = 1 /\ sock = "up"
    /\ arrived = 0 /\ taken = 0
    /\ pc = "idle" /\ need = 0 /\ left = 0 /\ dest = <<>>
    /\ recv_buf = <<>> /\ recv_start = 0 /\ state_offset = 0 /\ consumed = 0
    /\ msg_left = 0 /\ total_recv_bytes = 0 /\ ev_process = FALSE
    /\ messages_taken = 0 /\ bytes_taken = 0 /\ live = {} /\ stopping = FALSE
    /\ in_seq = 0 /\ delivered = <<>> /\ breaks = 0

-----------------------------------------------------------------------------
(***************************************************************************)
(* The event loop and the socket.                                          *)
(***************************************************************************)
Arrive ==
    /\ sock = "up"
    /\ arrived' \in (arrived + 1)..StreamLen
    /\ UNCHANGED <<state, items, at, sock, taken, pc, reading, msg_left,
                   total_recv_bytes, ev_process, units, in_seq, delivered, breaks, peer, stopping>>

Break ==
    /\ sock = "up" /\ breaks < MaxBreaks
    /\ sock' = "broken" /\ breaks' = breaks + 1
    /\ UNCHANGED <<state, items, at, arrived, taken, pc, reading, msg_left,
                   total_recv_bytes, ev_process, units, in_seq, delivered, peer, stopping>>

\* process(), called for the socket or for the timer.
process ==
    /\ pc = "idle" /\ state \notin {"STANDBY", "CLOSED"}
    /\ \/ arrived > taken \/ sock = "broken"
       \/ ev_process
    /\ ev_process' = FALSE
    /\ total_recv_bytes' = 0
    /\ pc' = "loop"
    /\ UNCHANGED <<state, stream, reading, msg_left, units, in_seq, delivered, breaks, peer, stopping>>

-----------------------------------------------------------------------------
(***************************************************************************)
(* read_until(len, p).                                                     *)
(***************************************************************************)
Buffered == SubSeq(recv_buf, recv_start + 1, Len(recv_buf))

\* The bytes read() returns when asked for n.
Socket(n) ==
    LET r == IF n < arrived - taken THEN n ELSE arrived - taken
    IN  [i \in 1..r |-> taken + i]

\* Bytes that are still in the prefetch buffer come first.
read_until ==
    /\ pc = "loop" /\ state \in ReadStates /\ ReadLen > 0
    /\ LET want == ReadLen - state_offset
           n == IF Len(Buffered) < want THEN Len(Buffered) ELSE want
       IN  /\ need' = ReadLen
           /\ left' = want - n
           /\ dest' = dest \o SubSeq(Buffered, 1, n)
           /\ IF n = want
              THEN /\ recv_start' = recv_start + n /\ state_offset' = 0
                   /\ pc' = "got" /\ UNCHANGED recv_buf
              ELSE /\ recv_buf' = <<>> /\ recv_start' = 0
                   /\ state_offset' = state_offset + n
                   /\ pc' = IF ReadLen > Prefetch THEN "bulk" ELSE "prefetch"
    /\ UNCHANGED <<state, stream, consumed, msg_left, total_recv_bytes, ev_process,
                   units, in_seq, delivered, breaks, peer, stopping>>

\* A large read goes to its destination.
read_bulk ==
    /\ pc = "bulk" /\ sock = "up"
    /\ LET b == Socket(left)
       IN  /\ taken' = taken + Len(b)
           /\ dest' = dest \o b
           /\ left' = left - Len(b)
           /\ state_offset' = IF Len(b) = left THEN 0 ELSE state_offset + Len(b)
           /\ pc' = CASE Len(b) = left -> "got"
                      [] Len(b) # left /\ b # <<>> -> "bulk"
                      [] OTHER -> "idle"
    /\ UNCHANGED <<state, items, at, sock, arrived, need, recv_buf, recv_start, consumed,
                   msg_left, total_recv_bytes, ev_process, units, in_seq,
                   delivered, breaks, peer, stopping>>

\* Mutant: what earlier reads of this call brought is not counted.
FirstUnread_last_read == left

\* Where the bytes begin that were read ahead: len - state_offset.
FirstUnread == need - state_offset

\* A small read fills the prefetch buffer.
read_prefetch ==
    /\ pc = "prefetch" /\ sock = "up"
    /\ LET b == Socket(Prefetch - Len(recv_buf))
           buf == recv_buf \o b
       IN  /\ taken' = taken + Len(b)
           /\ left' = IF Len(b) < left THEN left - Len(b) ELSE 0
           /\ \/ /\ Len(b) >= left
                 /\ recv_buf' = buf /\ recv_start' = FirstUnread
                 /\ dest' = dest \o SubSeq(buf, 1, FirstUnread)
                 /\ state_offset' = 0 /\ pc' = "got"
              \/ /\ Len(b) < left /\ b # <<>>
                 /\ recv_buf' = buf /\ UNCHANGED <<recv_start, dest, state_offset, pc>>
              \/ /\ Len(b) < left /\ b = <<>>
                 /\ dest' = dest \o buf /\ state_offset' = state_offset + Len(buf)
                 /\ recv_buf' = <<>> /\ recv_start' = 0 /\ pc' = "idle"
    /\ UNCHANGED <<state, items, at, sock, arrived, need, consumed, msg_left,
                   total_recv_bytes, ev_process, units, in_seq, delivered, breaks, peer, stopping>>

-----------------------------------------------------------------------------
(***************************************************************************)
(* Failures.  Units that belong to a message that is not finished go back. *)
(***************************************************************************)
\* Mutant: a message whose bytes were taken gives back only the bytes.
release_throttle_bytes_only ==
    /\ UNCHANGED messages_taken
    /\ bytes_taken' = IF state \in HasBytes THEN bytes_taken - Size(Cur) ELSE bytes_taken
    /\ UNCHANGED live

\* Mutant: a message whose bytes were taken gives back only its unit.
release_throttle_unit_only ==
    /\ messages_taken' = IF state \in HasUnit THEN messages_taken - 1 ELSE messages_taken
    /\ UNCHANGED <<bytes_taken, live>>

release_throttle ==
    /\ messages_taken' = IF state \in HasUnit THEN messages_taken - 1 ELSE messages_taken
    /\ bytes_taken' = IF state \in HasBytes THEN bytes_taken - Size(Cur) ELSE bytes_taken
    /\ UNCHANGED live

\* read_until starts anew, with b as the contents of the prefetch buffer.
ResetReads(b) ==
    /\ recv_buf' = b /\ recv_start' = 0 /\ state_offset' = 0
    /\ need' = 0 /\ left' = 0 /\ dest' = <<>> /\ consumed' = 0

\* fault() or _stop() at the end of do_process: the socket is closed.
Fail(next) ==
    /\ release_throttle
    /\ ResetReads(<<>>)
    /\ state' = next /\ pc' = "idle" /\ ev_process' = FALSE
    /\ UNCHANGED <<stream, msg_left, total_recv_bytes, in_seq, delivered, breaks, peer, stopping>>

read_error == pc \in {"bulk", "prefetch"} /\ sock = "broken" /\ Fail("STANDBY")

\* The next socket: the peer sends again what we have not acknowledged, from the
\* message after in_seq or, if it has not learned of that one, from in_seq on.
NextStream ==
    LET Unsent(from) == Keep(peer.stream,
                             {i \in DOMAIN peer.stream :
                                 /\ peer.stream[i].tag = "MSG"
                                 /\ peer.stream[i].seq > from})
        Sound(q) == [i \in DOMAIN q |-> [q[i] EXCEPT !.fault = "none"]]
    IN  {Sound(Unsent(from)) : from \in {n \in 0..in_seq : n + 1 >= in_seq}}

Reconnect ==
    /\ state = "STANDBY"
    /\ items' \in NextStream
    /\ state' = "HANDSHAKE" /\ at' = 1 /\ sock' = "up" /\ arrived' = 0 /\ taken' = 0
    /\ UNCHANGED <<pc, reading, msg_left, total_recv_bytes, ev_process, units,
                   in_seq, delivered, breaks, peer, stopping>>

\* do_replace: another connection has accepted the peer's next socket and hands
\* it over with what it has read ahead.
do_replace ==
    /\ pc = "idle" /\ state # "CLOSED" /\ breaks < MaxBreaks
    /\ release_throttle
    /\ items' \in NextStream
    /\ \E n \in 0..Prefetch :
         /\ n <= HandshakeLen
         /\ ResetReads([i \in 1..n |-> i])
         /\ ev_process' = (ev_process \/ n > 0)
         /\ arrived' = n /\ taken' = n
    /\ state' = "HANDSHAKE" /\ at' = 1 /\ sock' = "up" /\ breaks' = breaks + 1
    /\ UNCHANGED <<pc, msg_left, total_recv_bytes, in_seq, delivered, peer, stopping>>

-----------------------------------------------------------------------------
(***************************************************************************)
(* do_process: what follows a read that is complete.                       *)
(***************************************************************************)
TagState(tag) ==
    CASE tag = "KEEPALIVE2" -> "KEEPALIVE2"
      [] tag = "KEEPALIVE2_ACK" -> "KEEPALIVE2_ACK"
      [] tag = "ACK" -> "TAG_ACK"
      [] tag = "MSG" -> "MESSAGE_HEADER"
      [] tag = "CLOSE" -> "TAG_CLOSE"

\* The end of an iteration of do_process: it returns if the connection is to stop.
Iterate == pc' = IF stopping THEN "idle" ELSE "loop"

\* do_process goes on in state next.
Continue(next) == state' = next /\ Iterate

got ==
    /\ pc = "got"
    /\ dest' = <<>> /\ consumed' = consumed + need
    /\ \/ state = "HANDSHAKE" /\ Continue("OPEN") /\ UNCHANGED <<at, msg_left>>
       \/ /\ state = "OPEN" /\ Cur.tag # "unknown"
          /\ Continue(TagState(Cur.tag)) /\ UNCHANGED <<at, msg_left>>
       \/ /\ state \in {"KEEPALIVE2", "KEEPALIVE2_ACK", "TAG_ACK"}
          /\ Continue("OPEN") /\ at' = at + 1 /\ UNCHANGED msg_left
       \/ /\ state = "MESSAGE_HEADER" /\ Cur.fault # "crc"
          /\ Continue("THROTTLE_MESSAGE") /\ UNCHANGED <<at, msg_left>>
       \/ state = "READ_FRONT" /\ Continue("READ_MIDDLE") /\ UNCHANGED <<at, msg_left>>
       \/ state = "READ_MIDDLE" /\ Continue("READ_DATA_PREPARE") /\ UNCHANGED <<at, msg_left>>
       \/ /\ state = "READ_DATA" /\ msg_left' = msg_left - need
          /\ pc' = "loop" /\ UNCHANGED <<state, at>>
       \/ /\ state = "READ_FOOTER" /\ Cur.fault # "aborted"
          /\ Continue("THROTTLE_DISPATCH_SIZE") /\ UNCHANGED <<at, msg_left>>
    /\ UNCHANGED <<items, sock, arrived, taken, need, left, recv_buf, recv_start, state_offset,
                   total_recv_bytes, ev_process, units, in_seq, delivered, breaks, peer, stopping>>

\* An unknown tag, a bad header, an aborted message.
got_bad ==
    /\ pc = "got"
    /\ \/ state = "OPEN" /\ Cur.tag = "unknown"
       \/ state = "MESSAGE_HEADER" /\ Cur.fault = "crc"
       \/ state = "READ_FOOTER" /\ Cur.fault = "aborted"
    /\ Fail("STANDBY")

\* States that read nothing, or find nothing to read.
Skip ==
    /\ pc = "loop"
    /\ \/ state = "READ_FRONT" /\ Cur.front = 0 /\ state' = "READ_MIDDLE"
       \/ state = "READ_MIDDLE" /\ Cur.middle = 0 /\ state' = "READ_DATA_PREPARE"
       \/ state = "READ_DATA" /\ msg_left = 0 /\ state' = "READ_FOOTER"
       \/ state = "THROTTLE_DISPATCH_SIZE" /\ state' = "DISPATCH"
    /\ Iterate
    /\ UNCHANGED <<stream, reading, msg_left, total_recv_bytes, ev_process, units,
                   in_seq, delivered, breaks, peer, stopping>>

\* Mutant: a message larger than the limit never fits.
OverLimit_always(c) == bytes_taken + c > peer.byte_limit

\* The event thread waits for a unit, then for the message's bytes.
OverLimit(c) ==
    \/ c <= peer.byte_limit /\ bytes_taken + c > peer.byte_limit
    \/ c >= peer.byte_limit /\ bytes_taken > peer.byte_limit

throttle_message ==
    /\ pc = "loop" /\ state = "THROTTLE_MESSAGE"
    /\ messages_taken < MessageLimit
    /\ messages_taken' = messages_taken + 1
    /\ Continue("THROTTLE_BYTES")
    /\ UNCHANGED <<stream, reading, msg_left, total_recv_bytes, ev_process,
                   bytes_taken, live, in_seq, delivered, breaks, peer, stopping>>

throttle_bytes ==
    /\ pc = "loop" /\ state = "THROTTLE_BYTES"
    /\ Size(Cur) > 0 => ~OverLimit(Size(Cur))
    /\ bytes_taken' = bytes_taken + Size(Cur)
    /\ Continue("READ_FRONT")
    /\ UNCHANGED <<stream, reading, msg_left, total_recv_bytes, ev_process,
                   messages_taken, live, in_seq, delivered, breaks, peer, stopping>>

read_data_prepare ==
    /\ pc = "loop" /\ state = "READ_DATA_PREPARE"
    /\ msg_left' = Cur.data
    /\ Continue("READ_DATA")
    /\ UNCHANGED <<stream, reading, total_recv_bytes, ev_process, units,
                   in_seq, delivered, breaks, peer, stopping>>

\* Mutant: bytes that were read ahead are left where they are.
MoreBuffered_ignored == FALSE

\* Bytes that were read ahead must be processed later.
MoreBuffered == Buffered # <<>>

\* Mutant: the last message that was handed on is not old.
OldMessage_before == Cur.seq < in_seq

\* The peer has sent it before: get_seq() <= in_seq.
OldMessage == Cur.seq <= in_seq

\* The message is complete.  An old one is dropped, others are handed on; after
\* MaxRecvBytes other connections have their turn.
dispatch ==
    /\ pc = "loop" /\ state = "DISPATCH" /\ Cur.fault # "undecodable"
    /\ LET size == total_recv_bytes + Size(Cur)
       IN  /\ total_recv_bytes' = size
           /\ \/ /\ OldMessage
                 /\ messages_taken' = messages_taken - 1
                 /\ bytes_taken' = bytes_taken - Size(Cur)
                 /\ Iterate
                 /\ UNCHANGED <<live, in_seq, delivered, ev_process>>
              \/ /\ ~OldMessage
                 /\ in_seq' = Cur.seq
                 /\ delivered' = Append(delivered, Cur.seq)
                 /\ live' = live \cup {[seq |-> Cur.seq, size |-> Size(Cur)]}
                 /\ UNCHANGED <<messages_taken, bytes_taken>>
                 /\ IF size > MaxRecvBytes
                    THEN pc' = "idle" /\ ev_process' = (ev_process \/ MoreBuffered)
                    ELSE Iterate /\ UNCHANGED ev_process
    /\ state' = "OPEN" /\ at' = at + 1
    /\ UNCHANGED <<items, sock, arrived, taken, reading, msg_left, breaks, peer, stopping>>

dispatch_undecodable ==
    pc = "loop" /\ state = "DISPATCH" /\ Cur.fault = "undecodable" /\ Fail("STANDBY")

tag_close == pc = "loop" /\ state = "TAG_CLOSE" /\ Fail("CLOSED")

\* mark_down() or stop() of any thread; the event thread runs C_stop later.
mark_down ==
    /\ ~stopping /\ state # "CLOSED"
    /\ stopping' = TRUE
    /\ UNCHANGED <<state, stream, pc, reading, msg_left, total_recv_bytes, ev_process,
                   units, in_seq, delivered, breaks, peer>>

C_stop == stopping /\ pc = "idle" /\ state # "CLOSED" /\ Fail("CLOSED")

\* ~Message of a message that was dispatched: pre_dispatch has set its
\* dispatch_throttle_size to 0, so that its bytes stay taken.
FreeDispatched ==
    /\ \E m \in live :
         /\ live' = live \ {m}
         /\ messages_taken' = messages_taken - 1
    /\ UNCHANGED <<state, stream, pc, reading, msg_left, total_recv_bytes, ev_process,
                   bytes_taken, in_seq, delivered, breaks, peer, stopping>>

\* ~Message of a message that discard_queue dropped: it returns both.
FreeDiscarded ==
    /\ \E m \in live :
         /\ live' = live \ {m}
         /\ messages_taken' = messages_taken - 1
         /\ bytes_taken' = bytes_taken - m.size
    /\ UNCHANGED <<state, stream, pc, reading, msg_left, total_recv_bytes, ev_process,
                   in_seq, delivered, breaks, peer, stopping>>

-----------------------------------------------------------------------------
\* The event thread.
EventThread ==
    \/ process \/ read_until \/ read_bulk \/ read_prefetch \/ read_error
    \/ got \/ got_bad \/ Skip
    \/ throttle_message \/ throttle_bytes \/ read_data_prepare
    \/ dispatch \/ dispatch_undecodable \/ tag_close \/ C_stop

Next ==
    \/ EventThread
    \/ FreeDispatched \/ FreeDiscarded
    \/ Reconnect \/ do_replace \/ mark_down
    \/ Arrive \/ Break

Spec == Init /\ [][Next]_vars

\* The event loop runs, bytes on their way arrive, the peer reconnects, and
\* dispatchers let go of their messages.
FairSpec ==
    /\ Spec
    /\ WF_vars(EventThread) /\ WF_vars(Arrive) /\ WF_vars(Reconnect)
    /\ WF_vars(FreeDispatched \/ FreeDiscarded)

-----------------------------------------------------------------------------
(***************************************************************************)
(* Properties.                                                             *)
(***************************************************************************)
\* Bytes are handed to do_process once, in order, whatever mix of short reads,
\* prefetched and direct reads brought them: what was consumed, what is at p,
\* what is buffered and what is in the socket are consecutive.
Contiguous ==
    LET Upto(n) == [i \in 1..n |-> i]
    IN  state \notin {"STANDBY", "CLOSED"} =>
            Upto(consumed) \o dest \o Buffered = Upto(taken)

\* Nothing waits in the prefetch buffer, where the event loop does not see it,
\* while do_process has returned, unless the timer is set or C_stop will come.
NothingStranded == pc = "idle" /\ Buffered # <<>> => ev_process \/ stopping

\* The unit and the bytes of the message being read.
ReadUnit == IF state \in HasUnit THEN 1 ELSE 0
ReadBytes == IF state \in HasBytes THEN Size(Cur) ELSE 0

\* The bytes of a set of messages, each with its message.
BytesOf(S) == UNION {{m} \X (1..m.size) : m \in S}

\* The bytes for which there is a message.
MessageBytes == Cardinality(BytesOf(live)) + ReadBytes

\* The units taken are those of the message being read and of the messages that
\* exist: no path through fault, _stop, do_replace or an old message returns a
\* unit twice or keeps it.
UnitsAccounted == messages_taken = Cardinality(live) + ReadUnit

\* Bytes are taken and returned with the messages they belong to, on every path
\* but one, the end of a message that was dispatched: release_throttle, an old
\* message and ~Message of a discarded one return neither more nor less.
BytesFollowMessages ==
    [][FreeDispatched \/ bytes_taken' - bytes_taken = MessageBytes' - MessageBytes]_vars

\* What Message.h says of byte_throttler, on all paths: a message's bytes go back
\* when it is destroyed, so that the bytes taken are those of messages.
BytesReturned == bytes_taken = MessageBytes

\* Messages are handed on in the order of their numbers, once, none skipped,
\* although streams break off anywhere and begin again with old messages.
InSequence == delivered = [i \in 1..Len(delivered) |-> i]

\* The event thread waits for bytes that were never returned.
ByteStarved == state = "THROTTLE_BYTES" /\ bytes_taken > MessageBytes /\ OverLimit(Size(Cur))

\* Every message of the peer is handed on, unless either side closes the
\* connection or the byte throttle runs dry.
EveryMessageDelivered == <>(in_seq = LastSeq \/ state = "CLOSED" \/ ByteStarved)
=============================================================================
