------------------------------- MODULE Session -------------------------------
(***************************************************************************)
(* The session protocol of AsyncConnection: two messengers talk over TCP   *)
(* sockets that may break at any time.  A connection object outlives its   *)
(* sockets: it reconnects, is replaced by an incoming attempt of the peer, *)
(* stands by, or is torn down; connect_seq and global_seq order the        *)
(* attempts, out_seq and in_seq number the messages.                       *)
(*                                                                         *)
(* One step is what a handler does with AsyncConnection::lock held: the    *)
(* states a connection passes through without reading anything (for        *)
(* example CONNECTING_READY) are part of the step that enters them, and    *)
(* the exchange of banners and addresses is the single item "banner".      *)
(* A write to a socket that is already dead is lost; the reader of that    *)
(* socket then fails, as does the writer.                                  *)
(*                                                                         *)
(* A message counts as dispatched here when the connection that received   *)
(* it hands it to the dispatch queue (module DispatchQueue).               *)
(*                                                                         *)
(* Messages of one priority are modelled: requeued messages go back to the *)
(* front, as they do in out_q[MSGR_MSG_PRIO_HIGHEST].                      *)
(***************************************************************************)
EXTENDS Integers, Sequences, FiniteSets, FiniteSetsExt

CONSTANTS
    Slots,          \* connection objects a node can have at one time
    Socks,          \* sockets that can exist at one time
    Scenarios       \* what the nodes are and what may happen to them

Node == {1, 2}

Peer(n) == 3 - n

\* No connection, no socket.
None == 0

ScenarioTypes ==
    [policy : [Node -> [lossy : BOOLEAN, server : BOOLEAN,
                        standby : BOOLEAN, resetcheck : BOOLEAN]],
     msgs : [Node -> Nat], breaks : Nat, downs : [Node -> Nat],
     restarts : [Node -> Nat], cseq : Nat, gseq : Nat,
     reset_seqs : SUBSET Nat, preempt : BOOLEAN]

ASSUME ConstantsAssumption ==
    /\ Slots \subseteq Nat \ {0} /\ Socks \subseteq Nat \ {0}
    /\ IsFiniteSet(Slots) /\ IsFiniteSet(Socks)
    /\ Scenarios \subseteq ScenarioTypes

VARIABLES
    conn,           \* per node and slot: the connection objects
    conns,          \* per node: slot registered for the peer's address, or None
    sock,           \* the sockets
    global_seq,     \* per node: AsyncMessenger::global_seq
    submitted,      \* per node: messages the application has sent, 1..submitted
    got,            \* per node: messages dispatched since its session was reset
    ever,           \* per node: messages ever dispatched
    dropped,        \* per node: own messages dropped with the application's
                    \* knowledge (mark_down, a reset it is told of, its own end)
    breaks,         \* sockets broken so far
    downs,          \* per node: mark_down calls so far
    restarts,       \* per node: restarts of its process so far
    scenario        \* one of Scenarios

vars == <<conn, conns, sock, global_seq, submitted, got, ever, dropped,
          breaks, downs, restarts, scenario>>

history == <<submitted, got, ever, dropped>>

\* What the bounds on the environment count.
counters == <<breaks, downs, restarts, scenario>>

Policy == scenario.policy          \* per node: its messenger's Policy for the peer
MaxMsgs == scenario.msgs           \* per node: messages its application submits
MaxBreaks == scenario.breaks       \* times the network breaks a socket
MaxDowns == scenario.downs         \* per node: calls of mark_down
MaxRestarts == scenario.restarts   \* per node: restarts of its process
MaxCseq == scenario.cseq           \* bound: connect_seq RETRY_SESSION may ask for
MaxGseq == scenario.gseq           \* bound on connection attempts
ResetSeqs == scenario.reset_seqs   \* values randomize_out_seq may choose
Preempt == scenario.preempt        \* others may run while one sends its READY

-----------------------------------------------------------------------------
(***************************************************************************)
(* Sockets.  end[n] is node n's end: "pending" until the listening side    *)
(* has accepted it, then "open", then "closed"; q[n] is what n has still   *)
(* to read.                                                                *)
(***************************************************************************)
FreeSock == [live |-> "no", end |-> [n \in Node |-> "closed"],
             q |-> [n \in Node |-> <<>>]]

IsFree(s) == \A n \in Node : sock[s].end[n] = "closed"

\* One end is gone, or the network broke the connection.
Dead(s) == sock[s].live = "no" \/ \E n \in Node : sock[s].end[n] = "closed"

\* In the sockets sk, an item is sent to node n over s.
Put(sk, s, n, item) ==
    IF sk[s].live = "yes" /\ sk[s].end[n] = "open"
    THEN [sk EXCEPT ![s].q[n] = Append(@, item)]
    ELSE sk

Pop(sk, s, n) == [sk EXCEPT ![s].q[n] = Tail(@)]

\* Node n closes its end of s.  The other end may still read what is on its
\* way; an end nobody has accepted yet disappears.
Close(sk, s, n) ==
    IF s = None THEN sk
    ELSE IF sk[s].end[Peer(n)] # "open" THEN [sk EXCEPT ![s] = FreeSock]
    ELSE [sk EXCEPT ![s].end[n] = "closed", ![s].q[n] = <<>>]

-----------------------------------------------------------------------------
(***************************************************************************)
(* Connections.                                                            *)
(***************************************************************************)
ConnectingStates == {"CONNECTING", "CONNECTING_WAIT_BANNER",
                     "CONNECTING_WAIT_CONNECT_REPLY"}

\* ACCEPTING_REPLY: handle_connect_msg has registered the connection and has
\* released the locks before it sends its READY or SEQ reply.
AcceptingStates == {"ACCEPTING_WAIT_CONNECT_MSG", "ACCEPTING_REPLY"}

States == ConnectingStates \cup AcceptingStates
            \cup {"ACCEPTING_WAIT_SEQ", "OPEN", "STANDBY", "CLOSED"}

NoReply == [kind |-> "none", tag |-> "none", cseq |-> 0, gseq |-> 0,
            seq |-> 0, lossy |-> "no"]

Reply(tag, cseq, gseq, seq, lossy) ==
    [kind |-> "reply", tag |-> tag, cseq |-> cseq, gseq |-> gseq,
     seq |-> seq, lossy |-> lossy]

\* A slot without a connection; also a connection that was just constructed,
\* with the default Policy, which is lossy.
FreeConn ==
    [state |-> "CLOSED", sd |-> None, connect_seq |-> 0, global_seq |-> 0,
     peer_global_seq |-> 0, in_seq |-> 0, in_seq_acked |-> 0, out_seq |-> 0,
     out_q |-> <<>>, sent |-> <<>>, replacing |-> 0, replacing_sd |-> None,
     replacing_cseq |-> 0, reply |-> NoReply, flags |-> {"lossy"}]

Flag(c, f) == f \in c.flags

SetFlag(c, f, on) == [c EXCEPT !.flags = IF on THEN @ \cup {f} ELSE @ \ {f}]

PolicyFlags(n) == IF Policy[n].lossy THEN {"lossy"} ELSE {}

IsRegistered(n, i) == conns[n] = i

\* Slots for a new connection.  A connection that reached STANDBY without
\* being registered can do nothing any more, so its slot is used again.
FreeSlots(n) ==
    {i \in Slots : \/ conn[n][i].state = "CLOSED"
                   \/ conn[n][i].state = "STANDBY" /\ ~IsRegistered(n, i)}

Init ==
    /\ conn = [n \in Node |-> [i \in Slots |-> FreeConn]]
    /\ conns = [n \in Node |-> None]
    /\ sock = [s \in Socks |-> FreeSock]
    /\ global_seq = [n \in Node |-> 0]
    /\ submitted = [n \in Node |-> 0]
    /\ got = [n \in Node |-> <<>>]
    /\ ever = [n \in Node |-> {}]
    /\ dropped = [n \in Node |-> {}]
    /\ breaks = 0
    /\ downs = [n \in Node |-> 0]
    /\ restarts = [n \in Node |-> 0]
    /\ scenario \in Scenarios

\* The messages of a sequence: their numbers for the application.
Ids(q) == {q[k].id : k \in 1 .. Len(q)}

\* The length of the longest prefix of q that a number seq acknowledges; a
\* message that was never sent has number 0 and ends the prefix.
AckedPrefix(q, seq) ==
    LET rest == {k \in 1 .. Len(q) : q[k].seq = 0 \/ q[k].seq > seq}
    IN  IF rest = {} THEN Len(q) ELSE Min(rest) - 1

\* Mutant: messages that were sent and not acknowledged are forgotten.
requeue_sent_lost(c) ==
    [c EXCEPT !.sent = <<>>, !.out_seq = @ - Len(c.sent)]

\* Mutant: messages that never had a number are counted as well.
requeue_sent_all(c) ==
    [c EXCEPT !.out_q = c.sent \o c.out_q, !.sent = <<>>,
              !.out_seq = @ - Len(c.sent \o c.out_q)]

requeue_sent(c) ==
    [c EXCEPT !.out_q = c.sent \o c.out_q, !.sent = <<>>,
              !.out_seq = @ - Len(c.sent)]

\* Mutant: messages the peer already has are not discarded.
discard_requeued_up_to_nothing(c, seq) == c

discard_requeued_up_to(c, seq) ==
    LET k == AckedPrefix(c.out_q, seq)
    IN  [c EXCEPT !.out_q = SubSeq(@, k + 1, Len(@)), !.out_seq = @ + k]

handle_ack(c, seq) ==
    [c EXCEPT !.sent = SubSeq(@, AckedPrefix(@, seq) + 1, Len(@))]

\* The outcomes of was_session_reset for the connection object.
was_session_reset(c) ==
    {[c EXCEPT !.out_q = <<>>, !.sent = <<>>, !.out_seq = r, !.in_seq = 0,
               !.connect_seq = 0, !.in_seq_acked = 0] : r \in ResetSeqs}

\* ... and for the application: what was queued is lost, and it is told so.
SessionReset(n, c) ==
    /\ dropped' = [dropped EXCEPT ![n] = @ \cup Ids(c.sent) \cup Ids(c.out_q)]
    /\ got' = [got EXCEPT ![n] = <<>>]
    /\ UNCHANGED <<submitted, ever>>

-----------------------------------------------------------------------------
\* _stop() of connection i, now in the condition c, with the sockets sk.
_stop(n, i, c, sk) ==
    /\ conn' = [conn EXCEPT ![n][i] = FreeConn]
    /\ conns' = [conns EXCEPT ![n] = IF @ = i THEN None ELSE @]
    /\ sock' = Close(Close(sk, c.sd, n), c.replacing_sd, n)
    /\ dropped' = [dropped EXCEPT ![n] =
                     IF Flag(c, "queue_reset") \/ Flag(c, "stopping")
                     THEN @ \cup Ids(c.sent) \cup Ids(c.out_q) ELSE @]
    /\ got' = IF conns[n] = i THEN [got EXCEPT ![n] = <<>>] ELSE got
    /\ UNCHANGED <<submitted, ever>>

\* Mutant: a client that loses its socket stands by as a server does.
Faulted_standby(n, c) ==
    [requeue_sent(c) EXCEPT !.sd = None, !.replacing = 0, !.global_seq = 0,
                            !.reply = NoReply,
                            !.state = IF c.state \in ConnectingStates
                                      THEN "CONNECTING" ELSE "STANDBY"]

\* What fault() makes of a connection that it does not stop.
Faulted(n, c) ==
    LET d == [requeue_sent(c) EXCEPT !.sd = None, !.replacing = 0,
                                     !.global_seq = 0, !.reply = NoReply]
    IN  IF Policy[n].standby /\ d.out_q = <<>>
        THEN [d EXCEPT !.state = "STANDBY"]
        ELSE IF c.state \in ConnectingStates
        THEN [d EXCEPT !.state = "CONNECTING"]
        ELSE IF Policy[n].server \/ c.state \in AcceptingStates
        THEN [d EXCEPT !.state = "STANDBY"]
        ELSE [d EXCEPT !.state = "CONNECTING", !.connect_seq = @ + 1]

\* fault().  An accepting connection that is not registered is left in
\* STANDBY; nothing of it is used again.
fault(n, i, c, sk) ==
    IF Flag(c, "lossy") /\ c.state \notin ConnectingStates
    THEN _stop(n, i, c, sk)
    ELSE /\ conn' = [conn EXCEPT ![n][i] =
                       IF IsRegistered(n, i) THEN Faulted(n, c)
                       ELSE [FreeConn EXCEPT !.state = "STANDBY"]]
         /\ sock' = Close(sk, c.sd, n)
         /\ UNCHANGED <<conns, history>>

\* do_replace() of connection i, now in the condition c: it takes over the
\* socket of the peer's new attempt, requeues what it had sent, and asks the
\* peer to try again.
do_replace(n, i, c, sk) ==
    LET reset == Flag(c, "replacing_reset_session")
    IN  /\ \E d \in IF reset THEN was_session_reset(c) ELSE {c} :
              conn' = [conn EXCEPT ![n][i] =
                 SetFlag([requeue_sent(d) EXCEPT
                            !.sd = c.replacing_sd, !.replacing_sd = None,
                            !.replacing = 2, !.replacing_cseq = 0,
                            !.global_seq = 0, !.reply = NoReply,
                            !.state = "ACCEPTING_WAIT_CONNECT_MSG"],
                         "replacing_reset_session", FALSE)]
        /\ sock' = Put(Close(sk, c.sd, n), c.replacing_sd, Peer(n),
                       Reply("RETRY_SESSION", c.replacing_cseq + 1, 0, 0, "no"))
        /\ IF reset THEN SessionReset(n, c) ELSE UNCHANGED history
        /\ UNCHANGED conns

\* Its timer fires.
handle_replace(n, i) ==
    /\ conn[n][i].replacing = 1
    /\ conn[n][i].state # "ACCEPTING_REPLY"
    /\ do_replace(n, i, conn[n][i], sock)
    /\ UNCHANGED <<global_seq, counters>>

\* The end of do_process and handle_write after an error.
fail(n, i, c, sk) ==
    \/ c.replacing = 1 /\ do_replace(n, i, c, sk)
    \/ c.replacing # 1 /\ fault(n, i, c, sk)

\* A read or a write of a dead socket fails.  fault() of a lossy channel
\* releases the lock before _stop(): a replace may come in between.
SocketError(n, i) ==
    LET c == conn[n][i] IN
    /\ c.sd # None
    /\ c.state # "ACCEPTING_REPLY"
    /\ Dead(c.sd)
    /\ \/ fail(n, i, c, sock)
       \/ /\ c.replacing = 1 /\ Flag(c, "lossy")
          /\ c.state \notin ConnectingStates
          /\ _stop(n, i, c, sock)
    /\ UNCHANGED <<global_seq, counters>>

-----------------------------------------------------------------------------
(***************************************************************************)
(* Application calls.                                                      *)
(***************************************************************************)
Message(k) == [id |-> k, seq |-> 0]

\* _send(m): number the message and, unless the channel is lossy, keep it
\* until it is acknowledged.
_send(c, m) ==
    [c EXCEPT !.out_seq = @ + 1,
              !.sent = IF Flag(c, "lossy") THEN @
                       ELSE Append(@, [m EXCEPT !.seq = c.out_seq + 1])]

MsgItem(c, m) == [kind |-> "msg", id |-> m.id, seq |-> c.out_seq + 1]

\* get_connection() and send_message() with a connection that exists.
send_existing(n, m) ==
    LET i == conns[n]
        c == conn[n][i]
    IN  /\ i # None
        /\ \/ /\ Flag(c, "stopping")
              /\ dropped' = [dropped EXCEPT ![n] = @ \cup {m.id}]
              /\ UNCHANGED <<conn, sock>>
           \/ /\ ~Flag(c, "stopping")
              /\ c.state = "OPEN" /\ c.out_q = <<>>
              /\ conn' = [conn EXCEPT ![n][i] = _send(c, m)]
              /\ sock' = Put(sock, c.sd, Peer(n), MsgItem(c, m))
              /\ UNCHANGED dropped
           \/ /\ ~Flag(c, "stopping")
              /\ c.state # "OPEN" \/ c.out_q # <<>>
              /\ conn' = [conn EXCEPT
                   ![n][i].out_q = Append(@, m),
                   ![n][i].state = IF @ = "STANDBY" /\ ~Policy[n].server
                                   THEN "CONNECTING" ELSE @]
              /\ UNCHANGED <<sock, dropped>>
        /\ UNCHANGED conns

\* ... and with a new one, which a server never creates.
send_new(n, m) ==
    /\ conns[n] = None
    /\ ~Policy[n].server
    /\ FreeSlots(n) # {}
    /\ LET i == Min(FreeSlots(n)) IN
       /\ conn' = [conn EXCEPT ![n][i] =
                     [FreeConn EXCEPT !.state = "CONNECTING", !.out_q = <<m>>,
                                      !.flags = PolicyFlags(n)]]
       /\ conns' = [conns EXCEPT ![n] = i]
    /\ UNCHANGED <<sock, dropped>>

send_message(n) ==
    /\ submitted[n] < MaxMsgs[n]
    /\ submitted' = [submitted EXCEPT ![n] = @ + 1]
    /\ LET m == Message(submitted[n] + 1)
       IN  send_existing(n, m) \/ send_new(n, m)
    /\ UNCHANGED <<got, ever, global_seq, counters>>

\* mark_down() from an application thread: the event thread stops the
\* connection later.
mark_down(n) ==
    /\ downs[n] < MaxDowns[n]
    /\ conns[n] # None
    /\ ~Flag(conn[n][conns[n]], "stopping")
    /\ downs' = [downs EXCEPT ![n] = @ + 1]
    /\ conn' = [conn EXCEPT ![n][conns[n]].flags =
                  (@ \cup {"stopping"}) \ {"queue_reset"}]
    /\ UNCHANGED <<conns, sock, global_seq, history, breaks, restarts, scenario>>

C_stop(n, i) ==
    /\ Flag(conn[n][i], "stopping")
    /\ conn[n][i].state # "ACCEPTING_REPLY"
    /\ _stop(n, i, conn[n][i], sock)
    /\ UNCHANGED <<global_seq, counters>>

-----------------------------------------------------------------------------
(***************************************************************************)
(* The connecting side.                                                    *)
(***************************************************************************)
ConnectItem(c) == [kind |-> "connect", gseq |-> c.global_seq,
                   cseq |-> c.connect_seq]

\* STATE_CONNECTING: a new socket and a new global_seq.
Connect(n, i) ==
    LET c == conn[n][i]
        free == {s \in Socks : IsFree(s)}
    IN  /\ c.state = "CONNECTING"
        /\ global_seq[n] < MaxGseq
        /\ free # {}
        /\ global_seq' = [global_seq EXCEPT ![n] = @ + 1]
        /\ conn' = [conn EXCEPT ![n][i].state = "CONNECTING_WAIT_BANNER",
                                ![n][i].sd = Min(free),
                                ![n][i].global_seq = global_seq[n] + 1]
        /\ sock' = [sock EXCEPT ![Min(free)] =
                      [FreeSock EXCEPT !.live = "yes",
                                       !.end = [m \in Node |->
                                         IF m = n THEN "open" ELSE "pending"]]]
        /\ UNCHANGED <<conns, history, counters>>

\* Connection i of n reads an item from its socket.
Reads(n, i, state, kind) ==
    LET c == conn[n][i] IN
    /\ c.state = state
    /\ c.sd # None
    /\ sock[c.sd].q[n] # <<>>
    /\ Head(sock[c.sd].q[n]).kind = kind

Item(n, i) == Head(sock[conn[n][i].sd].q[n])

Popped(n, i) == Pop(sock, conn[n][i].sd, n)

\* The banner and the addresses match; the connect message is sent.
RecvBanner(n, i) ==
    /\ Reads(n, i, "CONNECTING_WAIT_BANNER", "banner")
    /\ conn' = [conn EXCEPT ![n][i].state = "CONNECTING_WAIT_CONNECT_REPLY"]
    /\ sock' = Put(Popped(n, i), conn[n][i].sd, Peer(n), ConnectItem(conn[n][i]))
    /\ UNCHANGED <<conns, global_seq, history, counters>>

\* STATE_CONNECTING_SEND_CONNECT_MSG, again, with the condition c.
Resend(n, i, c) ==
    /\ conn' = [conn EXCEPT ![n][i] = c]
    /\ sock' = Put(Popped(n, i), c.sd, Peer(n), ConnectItem(c))
    /\ UNCHANGED <<conns, counters>>

\* Mutant: a session that opens keeps the old connect_seq.
Opened_same_cseq(c, r) ==
    [c EXCEPT !.state = "OPEN", !.peer_global_seq = r.gseq, !.global_seq = 0,
              !.flags = (@ \ {"lossy"}) \cup {"queue_reset"}
                          \cup (IF r.lossy = "yes" THEN {"lossy"} ELSE {})]

\* STATE_CONNECTING_READY.
Opened(c, r) ==
    [c EXCEPT !.state = "OPEN", !.peer_global_seq = r.gseq,
              !.connect_seq = @ + 1, !.global_seq = 0,
              !.flags = (@ \ {"lossy"}) \cup {"queue_reset"}
                          \cup (IF r.lossy = "yes" THEN {"lossy"} ELSE {})]

HasReply(n, i, tag) ==
    /\ Reads(n, i, "CONNECTING_WAIT_CONNECT_REPLY", "reply")
    /\ Item(n, i).tag = tag

reply_RESETSESSION(n, i) ==
    /\ HasReply(n, i, "RESETSESSION")
    /\ \E d \in was_session_reset(conn[n][i]) : Resend(n, i, d)
    /\ SessionReset(n, conn[n][i])
    /\ UNCHANGED global_seq

reply_RETRY_GLOBAL(n, i) ==
    LET new == Max({global_seq[n], Item(n, i).gseq}) + 1 IN
    /\ HasReply(n, i, "RETRY_GLOBAL")
    /\ global_seq' = [global_seq EXCEPT ![n] = new]
    /\ Resend(n, i, [conn[n][i] EXCEPT !.global_seq = new])
    /\ UNCHANGED history

reply_RETRY_SESSION(n, i) ==
    /\ HasReply(n, i, "RETRY_SESSION")
    /\ Resend(n, i, [conn[n][i] EXCEPT !.connect_seq = Item(n, i).cseq])
    /\ UNCHANGED <<global_seq, history>>

\* STATE_WAIT fails at once: back off and connect again.
reply_WAIT(n, i) ==
    /\ HasReply(n, i, "WAIT")
    /\ fail(n, i, conn[n][i], Popped(n, i))
    /\ UNCHANGED <<global_seq, counters>>

\* READY, or SEQ with the number of the last message the peer has: drop what
\* it has, tell it what we have.  The write fails if the socket is dead.
reply_READY(n, i) ==
    /\ HasReply(n, i, "READY")
    /\ conn' = [conn EXCEPT ![n][i] = Opened(@, Item(n, i))]
    /\ sock' = Popped(n, i)
    /\ UNCHANGED <<conns, global_seq, history, counters>>

reply_SEQ(n, i) ==
    LET r == Item(n, i)
        c == discard_requeued_up_to(conn[n][i], r.seq)
    IN  /\ HasReply(n, i, "SEQ")
        /\ \/ /\ conn' = [conn EXCEPT ![n][i] = Opened(c, r)]
              /\ sock' = Put(Popped(n, i), c.sd, Peer(n),
                             [kind |-> "seq", seq |-> c.in_seq])
              /\ UNCHANGED <<conns, history>>
           \/ /\ Dead(c.sd)
              /\ fail(n, i, c, Popped(n, i))
        /\ UNCHANGED <<global_seq, counters>>

handle_connect_reply(n, i) ==
    \/ reply_RESETSESSION(n, i) \/ reply_RETRY_GLOBAL(n, i)
    \/ reply_RETRY_SESSION(n, i) \/ reply_WAIT(n, i)
    \/ reply_SEQ(n, i) \/ reply_READY(n, i)

-----------------------------------------------------------------------------
(***************************************************************************)
(* The accepting side.                                                     *)
(***************************************************************************)
\* add_accept(): a connection object for a new socket sends its banner.
add_accept(n, s) ==
    /\ sock[s].end[n] = "pending"
    /\ FreeSlots(n) # {}
    /\ LET i == Min(FreeSlots(n)) IN
       conn' = [conn EXCEPT ![n][i] =
                  [FreeConn EXCEPT !.state = "ACCEPTING_WAIT_CONNECT_MSG",
                                   !.sd = s]]
    /\ sock' = Put([sock EXCEPT ![s].end[n] = "open"], s, Peer(n),
                   [kind |-> "banner"])
    /\ UNCHANGED <<conns, global_seq, history, counters>>

\* What handle_connect_msg decides about an attempt m when the connection e
\* is registered for the peer; reading is TRUE when e is open and in the
\* middle of a message, which is not STATE_OPEN.
Replace(reset_session, reset_from_peer) ==
    [act |-> "replace", reset_session |-> reset_session,
     reset_from_peer |-> reset_from_peer]

\* Mutant: the connect_seq asked for is one too small.
Answer_off_by_one(tag, cseq, gseq) ==
    [act |-> "answer", tag |-> tag, gseq |-> gseq,
     cseq |-> IF cseq = 0 THEN 0 ELSE cseq - 1]

Answer(tag, cseq, gseq) == [act |-> "answer", tag |-> tag, cseq |-> cseq,
                            gseq |-> gseq]

Decide(n, e, m, reading) ==
    IF m.gseq < e.peer_global_seq
    THEN Answer("RETRY_GLOBAL", 0, e.peer_global_seq)
    ELSE IF Flag(e, "lossy")
    THEN Replace(TRUE, FALSE)
    ELSE IF m.cseq = 0 /\ e.connect_seq > 0         \* hard reset from peer
    THEN Replace(Policy[n].resetcheck, TRUE)
    ELSE IF m.cseq < e.connect_seq
    THEN Answer("RETRY_SESSION", e.connect_seq + 1, 0)
    ELSE IF m.cseq = e.connect_seq
    THEN IF e.state \in {"OPEN", "STANDBY"} /\ ~reading
         THEN IF Policy[n].resetcheck /\ e.connect_seq = 0
              THEN Replace(FALSE, FALSE)
              ELSE Answer("RETRY_SESSION", e.connect_seq + 1, 0)
         ELSE IF Peer(n) < n \/ Policy[n].server    \* connection race
              THEN Replace(FALSE, FALSE)
              ELSE Answer("WAIT", 0, 0)
    ELSE IF Policy[n].resetcheck /\ e.connect_seq = 0
    THEN Answer("RESETSESSION", 0, 0)
    ELSE Replace(FALSE, FALSE)                      \* reconnect

\* _reply_accept(): answer on the same socket and wait for another attempt.
\* At the bound an attempt that would be told RETRY_SESSION waits: two
\* attempts that cross can otherwise bid connect_seq up for ever.
_reply_accept(n, i, r) ==
    /\ r.cseq <= MaxCseq
    /\ conn' = [conn EXCEPT ![n][i].flags = (@ \ {"lossy"}) \cup PolicyFlags(n)]
    /\ sock' = Put(Popped(n, i), conn[n][i].sd, Peer(n),
                   Reply(r.tag, r.cseq, r.gseq, 0, "no"))
    /\ UNCHANGED <<conns, global_seq, history>>

\* replace: the socket is handed to the registered connection e, which will
\* take it over in do_replace; the accepting connection stops.
accept_replace(n, i, e, m, d) ==
    IF conn[n][e].replacing # 0 \/ Flag(conn[n][e], "stopping")
    THEN _reply_accept(n, i, Answer("RETRY_SESSION", m.cseq + 1, 0))
    ELSE /\ conn' = [conn EXCEPT
              ![n][i] = FreeConn,
              ![n][e] = SetFlag(SetFlag([@ EXCEPT
                            !.replacing = 1,
                            !.replacing_sd = conn[n][i].sd,
                            !.replacing_cseq = m.cseq],
                            "is_reset_from_peer", d.reset_from_peer),
                            "replacing_reset_session", d.reset_session)]
         /\ sock' = Popped(n, i)
         /\ UNCHANGED <<conns, global_seq, history>>

\* Mutant: an accepted attempt always starts a new numbering.
NegotiatesSeq_never(c) == FALSE

\* A replaced connection and its peer tell each other what they have, unless
\* the peer has lost its state.
NegotiatesSeq(c) == c.replacing # 0 /\ ~Flag(c, "is_reset_from_peer")

\* open: the session is established and registered; the reply is sent by
\* accept_reply, after the locks were released.
accept_open(n, i, m) ==
    LET c == conn[n][i]
        seq == NegotiatesSeq(c)
        in_seq == IF seq THEN c.in_seq ELSE 0
    IN  /\ global_seq' = [global_seq EXCEPT ![n] = @ + 1]
        /\ conn' = [conn EXCEPT ![n][i] = [c EXCEPT
              !.state = "ACCEPTING_REPLY",
              !.connect_seq = m.cseq + 1,
              !.peer_global_seq = m.gseq,
              !.in_seq = in_seq,
              !.in_seq_acked = IF seq THEN @ ELSE 0,
              !.flags = (@ \ {"lossy", "is_reset_from_peer"})
                           \cup PolicyFlags(n),
              !.reply = Reply(IF seq THEN "SEQ" ELSE "READY", m.cseq + 1,
                              global_seq[n] + 1, in_seq,
                              IF Policy[n].lossy THEN "yes" ELSE "no")]]
        /\ conns' = [conns EXCEPT ![n] = i]
        /\ sock' = Popped(n, i)
        /\ UNCHANGED history

\* A registered connection that is reading a message.
MayBeReading(n, e) ==
    /\ conn[n][e].state = "OPEN"
    /\ sock[conn[n][e].sd].q[n] # <<>>

\* Mutant: a lossy server does not look up the connection registered for the peer
\* (and a lossless one serves only peers that it does not know).
handle_connect_msg_blind(n, i) ==
    /\ Reads(n, i, "ACCEPTING_WAIT_CONNECT_MSG", "connect")
    /\ Policy[n].lossy \/ (conns[n] = None /\ Item(n, i).cseq = 0)
    /\ accept_open(n, i, Item(n, i))
    /\ UNCHANGED counters

handle_connect_msg(n, i) ==
    LET m == Item(n, i)
        e == IF conns[n] = i THEN None ELSE conns[n]
    IN  /\ Reads(n, i, "ACCEPTING_WAIT_CONNECT_MSG", "connect")
        /\ \/ /\ e = None
              /\ conn[n][i].replacing # 0 \/ m.cseq = 0
              /\ accept_open(n, i, m)
           \/ /\ e = None
              /\ conn[n][i].replacing = 0 /\ m.cseq > 0
              /\ _reply_accept(n, i, Answer("RESETSESSION", 0, 0))
           \/ /\ e # None
              /\ Preempt \/ conn[n][e].state # "ACCEPTING_REPLY"
              /\ \E reading \in {FALSE} \cup {MayBeReading(n, e)} :
                    LET d == Decide(n, conn[n][e], m, reading) IN
                    \/ d.act = "answer" /\ _reply_accept(n, i, d)
                    \/ d.act = "replace" /\ accept_replace(n, i, e, m, d)
        /\ UNCHANGED counters

\* The connection is announced to the application, which will be told of its
\* end, unless another attempt is about to take it over.  That attempt may also
\* come while the application is told, and mark_down() may take it back.
Announces(c) ==
    IF c.replacing = 1 \/ Flag(c, "stopping") THEN BOOLEAN ELSE {TRUE}

Replied(c, told) ==
    [c EXCEPT !.replacing = 0, !.reply = NoReply,
              !.flags = IF told THEN @ \cup {"queue_reset"} ELSE @]

\* The rest of handle_connect_msg, with the lock taken again: announce the
\* connection, send the reply and clear replacing, whatever happened to it.
accept_reply(n, i) ==
    \E told \in Announces(conn[n][i]) :
    LET c == Replied(conn[n][i], told)
        r == conn[n][i].reply
    IN  /\ conn[n][i].state = "ACCEPTING_REPLY"
        /\ \/ /\ conn' = [conn EXCEPT ![n][i] = [c EXCEPT !.state =
                            IF r.tag = "SEQ" THEN "ACCEPTING_WAIT_SEQ"
                                             ELSE "OPEN"]]
              /\ sock' = Put(sock, c.sd, Peer(n), r)
              /\ UNCHANGED <<conns, history>>
           \/ /\ Dead(c.sd)
              /\ fault(n, i, c, sock)
        /\ UNCHANGED <<global_seq, counters>>

\* STATE_ACCEPTING_WAIT_SEQ: the peer says what it has.
RecvSeq(n, i) ==
    /\ Reads(n, i, "ACCEPTING_WAIT_SEQ", "seq")
    /\ conn' = [conn EXCEPT ![n][i] =
                  [discard_requeued_up_to(@, Item(n, i).seq)
                     EXCEPT !.state = "OPEN"]]
    /\ sock' = Popped(n, i)
    /\ UNCHANGED <<conns, global_seq, history, counters>>

-----------------------------------------------------------------------------
(***************************************************************************)
(* An open connection.                                                     *)
(***************************************************************************)
\* handle_write(): the next queued message.
WriteMessage(n, i) ==
    LET c == conn[n][i]
        m == Head(c.out_q)
    IN  /\ c.state = "OPEN" /\ c.out_q # <<>>
        /\ ~Flag(c, "stopping")
        /\ conn' = [conn EXCEPT ![n][i] =
                      [_send(c, m) EXCEPT !.out_q = Tail(@)]]
        /\ sock' = Put(sock, c.sd, Peer(n), MsgItem(c, m))
        /\ UNCHANGED <<conns, global_seq, history, counters>>

\* handle_write(): acknowledge what was received.
WriteAck(n, i) ==
    LET c == conn[n][i] IN
    /\ c.state = "OPEN" /\ c.in_seq > c.in_seq_acked
    /\ conn' = [conn EXCEPT ![n][i].in_seq_acked = c.in_seq]
    /\ sock' = Put(sock, c.sd, Peer(n), [kind |-> "ack", seq |-> c.in_seq])
    /\ UNCHANGED <<conns, global_seq, history, counters>>

\* A message arrives: an old one is discarded, another one is dispatched.
RecvMessage(n, i) ==
    LET m == Item(n, i) IN
    /\ Reads(n, i, "OPEN", "msg")
    /\ IF m.seq <= conn[n][i].in_seq
       THEN UNCHANGED <<conn, got, ever>>
       ELSE /\ conn' = [conn EXCEPT ![n][i].in_seq = m.seq]
            /\ got' = [got EXCEPT ![n] = Append(@, m.id)]
            /\ ever' = [ever EXCEPT ![n] = @ \cup {m.id}]
    /\ sock' = Popped(n, i)
    /\ UNCHANGED <<conns, global_seq, submitted, dropped, counters>>

RecvAck(n, i) ==
    /\ Reads(n, i, "OPEN", "ack")
    /\ conn' = [conn EXCEPT ![n][i] = handle_ack(@, Item(n, i).seq)]
    /\ sock' = Popped(n, i)
    /\ UNCHANGED <<conns, global_seq, history, counters>>

\* The network breaks a socket; a socket not yet accepted disappears with it.
Break(s) ==
    /\ breaks < MaxBreaks
    /\ sock[s].live = "yes"
    /\ breaks' = breaks + 1
    /\ sock' = [sock EXCEPT ![s].live = "no",
                            ![s].end = [n \in Node |->
                               IF @[n] = "pending" THEN "closed" ELSE @[n]]]
    /\ UNCHANGED <<conn, conns, global_seq, history, downs, restarts, scenario>>

\* The process of node n ends and starts again under the same address and
\* nonce: a new AsyncMessenger, which counts its attempts from zero.
Restart(n) ==
    /\ restarts[n] < MaxRestarts[n]
    /\ restarts' = [restarts EXCEPT ![n] = @ + 1]
    /\ conn' = [conn EXCEPT ![n] = [i \in Slots |-> FreeConn]]
    /\ conns' = [conns EXCEPT ![n] = None]
    /\ sock' = [s \in Socks |-> Close(sock, s, n)[s]]
    /\ global_seq' = [global_seq EXCEPT ![n] = 0]
    /\ dropped' = [dropped EXCEPT ![n] = @ \cup
                     UNION {Ids(conn[n][i].sent) \cup Ids(conn[n][i].out_q) :
                            i \in Slots}]
    /\ got' = [got EXCEPT ![n] = <<>>]
    /\ UNCHANGED <<submitted, ever, breaks, downs, scenario>>

-----------------------------------------------------------------------------
\* What an event thread does for connection i of n.
Event(n, i) ==
    \/ handle_replace(n, i) \/ SocketError(n, i) \/ C_stop(n, i)
    \/ Connect(n, i) \/ RecvBanner(n, i) \/ handle_connect_reply(n, i)
    \/ handle_connect_msg(n, i) \/ accept_reply(n, i) \/ RecvSeq(n, i)
    \/ WriteMessage(n, i) \/ WriteAck(n, i) \/ RecvMessage(n, i)
    \/ RecvAck(n, i)

Next ==
    \/ \E n \in Node, i \in Slots : Event(n, i)
    \/ \E n \in Node, s \in Socks : add_accept(n, s)
    \/ \E n \in Node : send_message(n) \/ mark_down(n) \/ Restart(n)
    \/ \E s \in Socks : Break(s)

Spec == Init /\ [][Next]_vars

\* The event threads keep handling what is ready; the application and the
\* network need do nothing.  It is asked for where nobody preempts the sender of
\* a READY, since only there something is said to happen: a hand-over that
\* accept_reply cancels leaves a peer waiting.
Fairness ==
    /\ \A n \in Node, i \in Slots : WF_vars(~Preempt /\ Event(n, i))
    /\ \A n \in Node, s \in Socks : WF_vars(~Preempt /\ add_accept(n, s))

FairSpec == Spec /\ Fairness

-----------------------------------------------------------------------------
(***************************************************************************)
(* Properties.                                                             *)
(***************************************************************************)
Msgs(n) == [id : 1 .. MaxMsgs[n], seq : Nat]

\* Type correctness; the sequence numbers, which requeue_sent counts down, stay
\* natural numbers.
TypeOK ==
    /\ \A n \in Node, i \in Slots :
          LET c == conn[n][i] IN
          /\ c.state \in States
          /\ c.sd \in Socks \cup {None} /\ c.replacing_sd \in Socks \cup {None}
          /\ c.replacing \in 0 .. 2
          /\ {c.connect_seq, c.global_seq, c.peer_global_seq, c.in_seq,
              c.in_seq_acked, c.out_seq} \subseteq Nat
          /\ c.out_q \in Seq(Msgs(n)) /\ c.sent \in Seq(Msgs(n))
    /\ conns \in [Node -> Slots \cup {None}]
    /\ submitted \in [Node -> Nat]

Lossless == \A n \in Node : ~Policy[n].lossy

\* Peers whose session never ends: neither policy is lossy or has resetcheck (such is
\* lossless_peer), nobody calls mark_down and no process restarts.  Sockets break,
\* attempts cross and connections are replaced as often as the other bounds allow.
Steady ==
    \A n \in Node : /\ ~Policy[n].lossy /\ ~Policy[n].resetcheck
                    /\ MaxDowns[n] = 0 /\ MaxRestarts[n] = 0

\* The session protocol keeps the promise of module Delivery: whatever breaks,
\* races and resets happen, messages are dispatched once, in order, with no
\* gap that the sender does not know of.  Who uses a lossy policy gives up
\* every message when it is sent.
D == INSTANCE Delivery WITH
        dropped <- IF Lossless THEN dropped
                   ELSE [n \in Node |-> 1 .. submitted[n]]

ImplementsDelivery == D!Spec

\* A message is never dispatched after a later one: sessions do not mix, even
\* where a lossy client drops its connection and opens another.
NeverOlder ==
    [][\A n \in Node : \A k \in ever'[n] \ ever[n] :
          \A j \in ever[n] : j < k]_vars

\* Lossless: a message is dispatched at the peer, or is kept by the sender's
\* connection, or was dropped with the sending application's knowledge.
NoSilentLoss ==
    Lossless => \A n \in Node : \A k \in 1 .. submitted[n] :
        \/ k \in ever[Peer(n)]
        \/ k \in dropped[n]
        \/ /\ conns[n] # None
           /\ k \in Ids(conn[n][conns[n]].sent) \cup Ids(conn[n][conns[n]].out_q)

Receives(n, i, kind) == Reads(n, i, "OPEN", kind)

\* "old msgs despite reconnect_seq feature": an open connection never reads a
\* message with a number it has already passed.
NoOldMessage ==
    \A n \in Node, i \in Slots :
        Receives(n, i, "msg") => Item(n, i).seq > conn[n][i].in_seq

\* The assertions of the connecting side on the replies it reads.
RepliesFit ==
    \A n \in Node, i \in Slots :
        /\ HasReply(n, i, "RETRY_SESSION") =>
              Item(n, i).cseq > conn[n][i].connect_seq
        /\ HasReply(n, i, "READY") \/ HasReply(n, i, "SEQ") =>
              Item(n, i).cseq = conn[n][i].connect_seq + 1

\* Two open connections on the two ends of a socket are in the same session.
SameSession ==
    \A i, j \in Slots :
        /\ conn[1][i].state = "OPEN" /\ conn[2][j].state = "OPEN"
        /\ conn[1][i].sd = conn[2][j].sd
        => conn[1][i].connect_seq = conn[2][j].connect_seq

\* Again and again, every message submitted so far is dispatched or its sender
\* has learnt that it was dropped.
Settled(n, k) == k \in ever[Peer(n)] \cup dropped[n]

EveryMessageSettled ==
    []<>(~Preempt => \A n \in Node : \A k \in 1 .. submitted[n] : Settled(n, k))
=============================================================================
