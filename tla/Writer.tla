------------------------------- MODULE Writer -------------------------------
(***************************************************************************)
(* The write side of one AsyncConnection, at the level of its lock.        *)
(*                                                                         *)
(* Application threads send, probe and mark down; the event thread Ev of   *)
(* the connection's worker writes what was left, reads, reconnects and     *)
(* stops.  All of it runs under AsyncConnection::lock, except              *)
(*   - sendmsg: _try_send releases the lock around it and trims            *)
(*     outcoming_bl after taking it again; `sending` keeps others out;     *)
(*   - cond.Wait in wait_sending() and mark_down();                        *)
(*   - the gap in which the event thread takes AsyncMessenger::lock before *)
(*     _stop().                                                            *)
(* A step is what a thread does between two such points.  con is what the  *)
(* lock protects; the operators on a record k are the functions of the     *)
(* code, which change it.                                                  *)
(*                                                                         *)
(* The handshake is one exchange ("WAIT_SEND" until our part is written,   *)
(* "WAIT_REPLY" or "ACCEPTING" until the peer's is read); its decisions are *)
(* in Session.                                                             *)
(* A message is two pieces on the wire, everything else is one piece.      *)
(***************************************************************************)
EXTENDS Integers, Sequences, FiniteSets, SequencesExt

CONSTANTS
    Apps,           \* application threads
    Ev,             \* the event thread
    Priorities,     \* priorities a message may be sent with
    Highest,        \* MSGR_MSG_PRIO_HIGHEST
    Scenarios,      \* the policy, the first state, and how often each event of
                    \* the environment may happen (model bounds)
    DirectStates    \* states of a direct send; READ_DATA if ms_concurrent_socket

ASSUME ConstantsAssumption ==
    /\ Ev \notin Apps
    /\ DirectStates \subseteq {"OPEN", "READ_DATA"}
    /\ Highest \in Nat \ {0} /\ Priorities \subseteq 1..Highest
    /\ Scenarios \subseteq
         [lossy : BOOLEAN, server : BOOLEAN, standby : BOOLEAN,
          state : {"OPEN", "CONNECTING"}, msgs : Nat, breaks : Nat,
          replaces : Nat, keepalives : Nat, received : Nat, ends : Nat]

VARIABLES
    con,        \* the connection's state, under its lock
    pc,         \* per thread: where it is
    io,         \* per thread: the pieces its sendmsg has to write and has written
    unsignalled,\* threads in cond.Wait that nobody has signalled
    stop_asked, \* C_stop is queued at the event centre
    env         \* the scenario; its counters say what may still happen

vars == <<con, pc, io, unsignalled, stop_asked, env>>

Threads == Apps \cup {Ev}

\* Messages are numbered in the order in which send_message took the lock.
Msgs == 1..(Len(con.prio) + env.msgs)

\* One more event of a kind the scenario bounds.
Allowed(kind) == env[kind] > 0
Use(kind) == env' = [env EXCEPT ![kind] = @ - 1]

\* Pieces on the wire: the halves of message m, and items that are no message.
Part(m, i) == <<m, i>>
Whole(m) == <<Part(m, 1), Part(m, 2)>>
Handshake == <<0, 1>>
Keepalive == <<0, 2>>
KeepaliveAck == <<0, 3>>
Ack == <<0, 4>>

OpenStates == {"OPEN", "READ_DATA", "TAG_CLOSE"}

NoIo == [todo |-> <<>>, done |-> <<>>, stage |-> "none"]

Init ==
    /\ env \in Scenarios
    /\ con = [state |-> env.state,
              sock |-> IF env.state = "OPEN" THEN "up" ELSE "none",
              lossy |-> env.lossy, server |-> env.server,
              standby |-> env.standby,
              out_q |-> [q \in 1..Highest |-> <<>>],
              sent |-> <<>>, outcoming_bl |-> <<>>,
              sending |-> FALSE, want_send |-> FALSE,
              handle_write_delayed |-> FALSE, ev_write |-> FALSE,
              keepalive |-> FALSE, keepalive_ack |-> FALSE,
              ack_due |-> FALSE,
              stopping |-> FALSE, replacing |-> 0,
              state_after_send |-> env.state,
              \* history
              wire |-> <<>>,      \* written to the present socket
              flushed |-> {},     \* messages written to some socket
              prio |-> <<>>,      \* priority of each message submitted
              settled |-> {},     \* acknowledged, or sent and lossy
              dropped |-> {},     \* given up with the connection
              late |-> FALSE]     \* a message was queued during another's send
    /\ pc = [t \in Threads |-> "idle"]
    /\ io = [t \in Threads |-> NoIo]
    /\ unsignalled = {}
    /\ stop_asked = FALSE

-----------------------------------------------------------------------------
(***************************************************************************)
(* Functions of the code that run under the lock.                          *)
(***************************************************************************)
Queued(k) == UNION {ToSet(k.out_q[q]) : q \in 1..Highest}

is_queued(k) == Queued(k) # {} \/ k.outcoming_bl # <<>>

start_write(k) == IF k.sock = "none" THEN k ELSE [k EXCEPT !.ev_write = TRUE]

kick_write(k) ==
    IF \/ /\ k.state \in OpenStates
          /\ Queued(k) # {} \/ k.keepalive \/ k.keepalive_ack
       \/ /\ k.outcoming_bl # <<>>
          /\ k.state \notin {"CONNECTING", "STANDBY", "CLOSED"}
    THEN start_write(k) ELSE k

\* Mutant: what a short write leaves is not scheduled.
set_action_forgets(k) ==
    IF k.outcoming_bl # <<>> THEN k ELSE [k EXCEPT !.ev_write = FALSE]

\* The end of _try_send.
set_action(k) ==
    IF k.outcoming_bl # <<>> THEN start_write(k)
                             ELSE [k EXCEPT !.ev_write = FALSE]

\* _get_next_outgoing: the front of the highest priority.
NextPrio(k) == CHOOSE q \in 1..Highest :
                 /\ k.out_q[q] # <<>>
                 /\ \A r \in (q + 1)..Highest : k.out_q[r] = <<>>

\* _send and write_message up to the release of the lock: m is put on the sent
\* list unless the connection is lossy, and its pieces are appended.
_send(k, m) ==
    [k EXCEPT !.sent = IF k.lossy THEN @ ELSE Append(@, m),
              !.settled = IF k.lossy THEN @ \cup {m} ELSE @,
              !.outcoming_bl = @ \o Whole(m)]

_get_next_outgoing(k) ==
    LET q == NextPrio(k)
    IN  _send([k EXCEPT !.out_q[q] = Tail(@)], Head(k.out_q[q]))

\* Mutant: the messages queued again stay on the sent list.
requeue_sent_twice(k) == [k EXCEPT !.out_q[Highest] = k.sent \o @]

requeue_sent(k) ==
    [k EXCEPT !.out_q[Highest] = k.sent \o @, !.sent = <<>>]

discard_out_queue(k) ==
    [k EXCEPT !.dropped = @ \cup Queued(k) \cup ToSet(k.sent),
              !.out_q = [q \in 1..Highest |-> <<>>],
              !.sent = <<>>, !.outcoming_bl = <<>>]

_stop(k) ==
    IF k.state = "CLOSED" THEN k
    ELSE [discard_out_queue(k) EXCEPT
            !.sock = "none", !.ev_write = FALSE, !.replacing = 0,
            !.state = "CLOSED"]

\* fault() of a connection that is not given up.
fault(k) ==
    LET q == requeue_sent([k EXCEPT !.sock = "none", !.ev_write = FALSE,
                                    !.handle_write_delayed = FALSE,
                                    !.replacing = 0, !.outcoming_bl = <<>>])
    IN  [q EXCEPT !.state = IF \/ k.standby /\ Queued(q) = {}
                               \/ k.server /\ k.state # "WAIT_REPLY"
                               \/ k.state = "ACCEPTING"
                            THEN "STANDBY" ELSE "CONNECTING"]

\* fault() gives a lossy connection up, except while it is connecting.
GivesUp(k) == k.lossy /\ k.state # "WAIT_REPLY"

\* _try_send of a handshake item, with the lock held throughout: it is written,
\* or left to the event loop (set of outcomes).
SendHandshake(k, after) ==
    {[k EXCEPT !.wire = Append(@, Handshake), !.state = after],
     start_write([k EXCEPT !.outcoming_bl = <<Handshake>>,
                           !.state = "WAIT_SEND", !.state_after_send = after])}

\* do_replace up to the reply: the peer's new socket; what was sent on the old
\* one is queued again.  reset is replacing_reset_session.
Replaced(k, reset) ==
    LET r == IF reset THEN [discard_out_queue(k) EXCEPT !.ack_due = FALSE] ELSE k
    IN  requeue_sent([r EXCEPT !.sock = "up", !.wire = <<>>, !.ev_write = FALSE,
                               !.handle_write_delayed = FALSE,
                               !.outcoming_bl = <<>>,
                               !.replacing = 2, !.state = "ACCEPTING"])

\* The handshake ends: what the peer has received is not sent again.
\* discard_requeued_up_to drops a prefix of the requeued messages.
Opened(k) ==
    LET q == k.out_q[Highest]
        Received(n) == \A i \in 1..n : q[i] \in k.flushed
    IN  {[k EXCEPT !.state = "OPEN", !.replacing = 0,
                   !.out_q[Highest] = SubSeq(@, n + 1, Len(@)),
                   !.settled = @ \cup ToSet(SubSeq(q, 1, n))]
         : n \in {i \in 0..Len(q) : Received(i)}}

-----------------------------------------------------------------------------
(***************************************************************************)
(* Common parts of the steps.                                              *)
(***************************************************************************)
AppSending == \E a \in Apps : pc[a] \in {"sendmsg", "failed"}

Goto(t, where) == pc' = [pc EXCEPT ![t] = where]

\* cond.Signal() wakes every thread that waits.
Signal == unsignalled' = {}

Wait(t) == unsignalled' = unsignalled \cup {t}

\* _try_send releases the lock to write all of k.outcoming_bl.
ReleaseToSend(t, k, stage) ==
    /\ con' = k
    /\ io' = [io EXCEPT ![t] = [todo |-> k.outcoming_bl, done |-> <<>>,
                                stage |-> stage]]
    /\ Goto(t, "sendmsg")

\* The thread goes back to where it came from and leaves the connection as k.
Return(t, k) ==
    /\ con' = k
    /\ io' = [io EXCEPT ![t] = NoIo]
    /\ Goto(t, "idle")

\* do_replace or fault of the event thread; a lossy connection that is given up
\* is stopped under AsyncMessenger::lock, for which the lock is released.
Fault(k) ==
    IF GivesUp(k)
    THEN con' = k /\ Goto(Ev, "stop") /\ io' = [io EXCEPT ![Ev] = NoIo]
    ELSE Return(Ev, fault(k))

do_replace(k) ==
    \E reset \in BOOLEAN :
        LET r == Replaced(k, reset)
        IN  \/ \E s \in SendHandshake(r, "ACCEPTING") : Return(Ev, s)
            \/ Fault([r EXCEPT !.replacing = 0])

FaultOrReplace(k) == IF k.replacing = 1 THEN do_replace(k) ELSE Fault(k)

\* What thread t is writing is still the front of the output buffer, whose pieces
\* it trims when it has the lock again.  _stop and do_replace clear the buffer
\* without waiting for t; what t does after that (the buffers are freed, splice
\* trims other bytes or throws) is undefined, and t takes no further step.
Intact(t) ==
    pc[t] \in {"sendmsg", "failed"} =>
        IsPrefix(io[t].done \o io[t].todo, con.outcoming_bl)

\* Trim what sendmsg has written.
Trim(k, t) ==
    [k EXCEPT !.outcoming_bl = SubSeq(@, Len(io[t].done) + 1, Len(@))]

-----------------------------------------------------------------------------
(***************************************************************************)
(* Application threads.                                                    *)
(***************************************************************************)
\* Mutant: a message is written directly although others are queued.
CanSendNow_overtakes(k) ==
    k.outcoming_bl = <<>> /\ ~k.sending /\ k.state \in DirectStates

CanSendNow(k) == ~is_queued(k) /\ ~k.sending /\ k.state \in DirectStates

send_message(a) ==
    /\ pc[a] = "idle" /\ Allowed("msgs")
    /\ \E p \in Priorities :
         LET m == Len(con.prio) + 1
             k == [con EXCEPT !.prio = Append(@, p)]
             q == [k EXCEPT !.out_q[p] = Append(@, m)]
         IN  \/ /\ k.stopping \/ k.state = "CLOSED"
                /\ Return(a, [k EXCEPT !.dropped = @ \cup {m}])
             \/ /\ ~k.stopping /\ CanSendNow(k)
                /\ ReleaseToSend(a, _send([k EXCEPT !.sending = TRUE], m), "direct")
             \/ /\ ~k.stopping /\ ~CanSendNow(k) /\ k.state # "CLOSED"
                /\ Return(a, CASE k.sending -> [q EXCEPT !.late = @ \/ AppSending]
                               [] ~k.sending /\ k.state = "STANDBY" /\ ~k.server
                                    -> [q EXCEPT !.state = "CONNECTING"]
                               [] OTHER -> start_write(q))
    /\ Use("msgs")
    /\ UNCHANGED <<unsignalled, stop_asked>>

\* A thread in sendmsg writes some of its pieces, or learns that the socket is
\* closed or broken.
do_sendmsg(t) ==
    /\ pc[t] = "sendmsg" /\ io[t].todo # <<>> /\ Intact(t)
    /\ \/ /\ con.sock = "up"
          /\ \E n \in 1..Len(io[t].todo) :
               LET now == SubSeq(io[t].todo, 1, n)
               IN  /\ con' = [con EXCEPT !.wire = @ \o now,
                                !.flushed = @ \cup {m \in Msgs : Part(m, 2) \in ToSet(now)}]
                   /\ io' = [io EXCEPT ![t].done = @ \o now,
                                       ![t].todo = SubSeq(@, n + 1, Len(@))]
          /\ UNCHANGED pc
       \/ /\ con.sock # "up"
          /\ Goto(t, "failed")
          /\ UNCHANGED <<con, io>>
    /\ UNCHANGED <<unsignalled, stop_asked, env>>

\* The direct send ends: the rest is left to the event thread, which may have
\* put off its own write.
SentDirect(a) ==
    /\ pc[a] \in {"sendmsg", "failed"} /\ Intact(a)
    /\ LET k == IF pc[a] = "sendmsg" THEN set_action(Trim(con, a)) ELSE con
           q == [k EXCEPT !.sending = FALSE, !.want_send = FALSE,
                          !.handle_write_delayed = FALSE]
       IN  Return(a, IF pc[a] = "failed" \/ con.handle_write_delayed
                     THEN start_write(q) ELSE q)
    /\ UNCHANGED <<stop_asked, env>>

\* Mutant: the event thread that waits for the end of the send is not told.
sent_direct_silent(a) == SentDirect(a) /\ UNCHANGED unsignalled

sent_direct(a) ==
    /\ SentDirect(a)
    /\ IF con.want_send THEN Signal ELSE UNCHANGED unsignalled

send_keepalive(a) ==
    /\ pc[a] = "idle" /\ con.state # "CLOSED"
    /\ Allowed("keepalives")
    /\ con' = start_write([con EXCEPT !.keepalive = TRUE])
    /\ Use("keepalives")
    /\ UNCHANGED <<pc, io, unsignalled, stop_asked>>

\* mark_down asks the event thread to stop the connection and waits for it.
mark_down(a) ==
    /\ pc[a] = "idle" /\ con.state # "CLOSED" /\ Allowed("ends")
    /\ con' = [con EXCEPT !.stopping = TRUE]
    /\ stop_asked' = TRUE
    /\ Goto(a, "mark_down") /\ Wait(a)
    /\ Use("ends") /\ UNCHANGED io

\* It wakes: closed, or another request and another wait.
mark_down_woken(a) ==
    /\ pc[a] = "mark_down" /\ a \notin unsignalled
    /\ IF con.state = "CLOSED"
       THEN Goto(a, "idle") /\ UNCHANGED <<con, unsignalled, stop_asked>>
       ELSE stop_asked' = TRUE /\ Wait(a) /\ UNCHANGED <<con, pc>>
    /\ UNCHANGED <<io, env>>

mark_disposable(a) ==
    /\ pc[a] = "idle" /\ ~con.lossy /\ Allowed("ends")
    /\ LET k == [con EXCEPT !.lossy = TRUE]
       IN  IF con.state = "STANDBY" THEN con' = _stop(k) /\ Signal
                                    ELSE con' = k /\ UNCHANGED unsignalled
    /\ Use("ends") /\ UNCHANGED <<pc, io, stop_asked>>

\* stop(), called by mark_down_all, does not wait.
stop ==
    /\ ~con.stopping /\ Allowed("ends")
    /\ con' = [con EXCEPT !.stopping = TRUE]
    /\ stop_asked' = (stop_asked \/ con.state # "CLOSED")
    /\ Use("ends") /\ UNCHANGED <<pc, io, unsignalled>>

-----------------------------------------------------------------------------
(***************************************************************************)
(* The event thread writes.                                                *)
(***************************************************************************)
EvIdle == pc[Ev] = "idle" /\ con.state # "CLOSED"

FinishWrite(k) == Return(Ev, kick_write([set_action(k) EXCEPT !.sending = FALSE]))

\* The acknowledgement that is due, and what is left of the output buffer.
WriteRest(k) ==
    LET q == IF k.ack_due
             THEN [k EXCEPT !.ack_due = FALSE, !.outcoming_bl = Append(@, Ack)]
             ELSE k
    IN  IF q.outcoming_bl = <<>> THEN FinishWrite(q) ELSE ReleaseToSend(Ev, q, "rest")

WriteNext(k) ==
    IF ~k.stopping /\ Queued(k) # {}
    THEN ReleaseToSend(Ev, _get_next_outgoing(k), "messages")
    ELSE WriteRest(k)

\* Mutant: the event thread writes although another thread is sending.
Busy_ignored == FALSE

\* The test with which handle_write begins.
Busy == con.sending

\* handle_write up to its first sendmsg.
handle_write ==
    /\ EvIdle /\ con.ev_write
    /\ LET k == [con EXCEPT !.sending = TRUE, !.late = FALSE]
           Probe == IF k.keepalive THEN <<Keepalive>> ELSE <<>>
           Answer == IF k.keepalive_ack THEN <<KeepaliveAck>> ELSE <<>>
       IN  \/ /\ Busy
              /\ Return(Ev, [con EXCEPT !.handle_write_delayed = TRUE,
                                        !.ev_write = FALSE])
           \/ /\ ~Busy /\ k.state \in OpenStates
              /\ WriteNext([k EXCEPT !.outcoming_bl = @ \o Probe \o Answer,
                                     !.keepalive = FALSE, !.keepalive_ack = FALSE])
           \/ /\ ~Busy /\ k.state \notin OpenStates
              /\ IF k.outcoming_bl = <<>> THEN FinishWrite(k)
                                          ELSE ReleaseToSend(Ev, k, "flush")
    /\ UNCHANGED <<unsignalled, stop_asked, env>>

\* do_process as handle_write calls it for STATE_WAIT_SEND: `sending` is set.
\* The handshake goes on; an error waits for `sending` to be cleared.
AfterHandshake(k) ==
    LET q == [k EXCEPT !.state = k.state_after_send]
    IN  \/ FinishWrite(q) /\ UNCHANGED unsignalled
        \/ /\ k.sock = "up"
           /\ \E o \in Opened(q) : FinishWrite(o)
           /\ UNCHANGED unsignalled
        \/ /\ k.sock = "broken"
           /\ con' = [q EXCEPT !.want_send = TRUE]
           /\ Goto(Ev, "wait_sending") /\ Wait(Ev)
           /\ io' = [io EXCEPT ![Ev] = NoIo]

\* The lock is taken again and handle_write goes on.
sent_event ==
    /\ pc[Ev] = "sendmsg" /\ Intact(Ev)
    /\ LET k == set_action(Trim(con, Ev))
           stage == io[Ev].stage
       IN  \/ /\ stage = "messages"
              /\ IF k.outcoming_bl = <<>> THEN WriteNext(k) ELSE WriteRest(k)
              /\ UNCHANGED unsignalled
           \/ /\ stage = "flush" /\ k.state = "WAIT_SEND" /\ k.outcoming_bl = <<>>
              /\ AfterHandshake(k)
           \/ /\ stage = "rest" \/ (stage = "flush" /\ k.outcoming_bl # <<>>)
              /\ FinishWrite(k) /\ UNCHANGED unsignalled
    /\ UNCHANGED <<stop_asked, env>>

send_failed ==
    /\ pc[Ev] = "failed"
    /\ FaultOrReplace([con EXCEPT !.sending = FALSE])
    /\ UNCHANGED <<unsignalled, stop_asked, env>>

-----------------------------------------------------------------------------
(***************************************************************************)
(* The event thread reads.  process() ends with kick_write.                *)
(***************************************************************************)
Processed(k) == con' = kick_write(k) /\ UNCHANGED <<pc, io, unsignalled, stop_asked>>

Readable(states) == EvIdle /\ con.sock = "up" /\ con.state \in states

RecvHeader ==
    /\ Readable({"OPEN"}) /\ Allowed("received")
    /\ Processed([con EXCEPT !.state = "READ_DATA"])
    /\ Use("received")

RecvData ==
    /\ Readable({"READ_DATA"})
    /\ Processed(start_write([con EXCEPT !.state = "OPEN", !.ack_due = TRUE]))
    /\ UNCHANGED env

RecvKeepalive ==
    /\ Readable({"OPEN"}) /\ Allowed("keepalives")
    /\ Processed([con EXCEPT !.keepalive_ack = TRUE])
    /\ Use("keepalives")

handle_ack ==
    /\ Readable({"OPEN"})
    /\ \E n \in 1..Len(con.sent) :
         /\ ToSet(SubSeq(con.sent, 1, n)) \subseteq con.flushed
         /\ Processed([con EXCEPT !.sent = SubSeq(@, n + 1, Len(@)),
                                  !.settled = @ \cup ToSet(SubSeq(con.sent, 1, n))])
    /\ UNCHANGED env

\* The end of a failed read, or of TAG_CLOSE, once nobody is sending.
EndProcess(k) ==
    IF k.state = "TAG_CLOSE" /\ k.replacing # 1
    THEN con' = k /\ Goto(Ev, "stop") /\ UNCHANGED io
    ELSE FaultOrReplace(k)

wait_sending(k) ==
    IF k.sending
    THEN /\ con' = [k EXCEPT !.want_send = TRUE]
         /\ Goto(Ev, "wait_sending") /\ Wait(Ev) /\ UNCHANGED io
    ELSE EndProcess(k) /\ UNCHANGED unsignalled

RecvClose ==
    /\ Readable({"OPEN"}) /\ Allowed("ends")
    /\ wait_sending([con EXCEPT !.state = "TAG_CLOSE"])
    /\ Use("ends") /\ UNCHANGED stop_asked

ReadError ==
    /\ EvIdle /\ con.sock = "broken"
    /\ con.state \in {"OPEN", "READ_DATA", "WAIT_REPLY", "ACCEPTING"}
    /\ wait_sending(con)
    /\ UNCHANGED <<stop_asked, env>>

sending_woken ==
    /\ pc[Ev] = "wait_sending" /\ Ev \notin unsignalled
    /\ IF con.sending THEN wait_sending(con)
       ELSE EndProcess(con) /\ UNCHANGED unsignalled
    /\ UNCHANGED <<stop_asked, env>>

\* The locks are taken in order, and the connection is stopped.
stop_now ==
    /\ pc[Ev] = "stop"
    /\ con' = _stop(con) /\ Signal /\ Goto(Ev, "idle")
    /\ UNCHANGED <<io, stop_asked, env>>

\* Mutant: who waits for the stop is not told.
C_stop_silent ==
    /\ pc[Ev] = "idle" /\ stop_asked
    /\ con' = _stop(con) /\ stop_asked' = FALSE
    /\ UNCHANGED <<pc, io, unsignalled, env>>

C_stop ==
    /\ pc[Ev] = "idle" /\ stop_asked
    /\ con' = _stop(con) /\ Signal
    /\ stop_asked' = FALSE
    /\ UNCHANGED <<pc, io, env>>

\* mark_down called by the event thread itself, from a callback.
mark_down_owner ==
    /\ EvIdle /\ ~con.stopping /\ Allowed("ends")
    /\ con' = [con EXCEPT !.stopping = TRUE]
    /\ stop_asked' = TRUE
    /\ Use("ends") /\ UNCHANGED <<pc, io, unsignalled>>

-----------------------------------------------------------------------------
(***************************************************************************)
(* Connecting, and a replacement by the peer's next attempt.               *)
(***************************************************************************)
Connect ==
    /\ EvIdle /\ con.state = "CONNECTING"
    /\ \E k \in SendHandshake([con EXCEPT !.sock = "up", !.wire = <<>>], "WAIT_REPLY") :
          con' = kick_write(k)
    /\ UNCHANGED <<pc, io, unsignalled, stop_asked, env>>

RecvReply ==
    /\ Readable({"WAIT_REPLY", "ACCEPTING"})
    /\ \E k \in Opened(con) : Processed(k)
    /\ UNCHANGED env

\* handle_connect_msg of the connection that accepted the peer's next attempt.
accept_replace ==
    /\ Allowed("replaces")
    /\ con.replacing = 0 /\ ~con.stopping
    /\ con.state \notin {"CLOSED", "TAG_CLOSE"}
    /\ con' = [con EXCEPT !.replacing = 1]
    /\ Use("replaces")
    /\ UNCHANGED <<pc, io, unsignalled, stop_asked>>

handle_replace ==
    /\ EvIdle /\ con.replacing = 1
    /\ do_replace(con)
    /\ UNCHANGED <<unsignalled, stop_asked, env>>

Break ==
    /\ con.sock = "up" /\ Allowed("breaks")
    /\ con' = [con EXCEPT !.sock = "broken"]
    /\ Use("breaks")
    /\ UNCHANGED <<pc, io, unsignalled, stop_asked>>

-----------------------------------------------------------------------------
AppStep(a) == sent_direct(a) \/ mark_down_woken(a)

EvWrite == handle_write \/ sent_event \/ send_failed

EvStop == sending_woken \/ stop_now \/ C_stop

Next ==
    \/ \E a \in Apps : send_message(a) \/ send_keepalive(a) \/ mark_down(a) \/ mark_disposable(a)
    \/ \E a \in Apps : sent_direct(a) \/ mark_down_woken(a)
    \/ \E t \in Threads : do_sendmsg(t)
    \/ handle_write \/ sent_event \/ send_failed
    \/ sending_woken \/ stop_now \/ C_stop
    \/ stop \/ mark_down_owner
    \/ RecvHeader \/ RecvData \/ RecvKeepalive \/ handle_ack
    \/ RecvClose \/ ReadError
    \/ Connect \/ RecvReply \/ accept_replace \/ handle_replace
    \/ Break

Spec == Init /\ [][Next]_vars

(***************************************************************************)
(* The threads go on; a socket with room takes what is written to it at    *)
(* last; the peer answers.  Nothing is assumed of the applications.        *)
(***************************************************************************)
Fairness ==
    /\ \A a \in Apps : WF_vars(AppStep(a)) /\ WF_vars(do_sendmsg(a))
    /\ SF_vars(do_sendmsg(Ev))
    /\ WF_vars(EvWrite) /\ WF_vars(EvStop)
    /\ WF_vars(ReadError)
    /\ WF_vars(Connect) /\ WF_vars(RecvReply)
    /\ WF_vars(handle_replace)

FairSpec == Spec /\ Fairness

-----------------------------------------------------------------------------
(***************************************************************************)
(* Properties.                                                             *)
(***************************************************************************)
\* "trim already sent for outcoming_bl": nothing but its writer takes bytes from the
\* front of the output buffer while it is written without the lock.
TrimSafe == \A t \in Threads : Intact(t)

\* The halves of a message follow each other on a socket, whoever writes them,
\* no message is written twice to one socket, and nothing precedes the handshake:
\* `sending` and the trimming of outcoming_bl keep two writers from mixing.
Framed ==
    LET w == con.wire
    IN  /\ \A i \in 1..Len(w), m \in Msgs :
             /\ w[i] = Part(m, 2) => i > 1 /\ w[i - 1] = Part(m, 1)
             /\ w[i] = Part(m, 1) /\ i < Len(w) => w[i + 1] = Part(m, 2)
        /\ \A i, j \in 1..Len(w) : w[i] = w[j] /\ w[i][1] # 0 => i = j
        /\ \A i \in 2..Len(w) : w[i] # Handshake

\* A message is not written before an earlier one of the same priority, whether
\* they were written directly, queued, or queued again by fault or do_replace.
SamePriorityInOrder ==
    \A i, j \in 1..Len(con.prio) :
        (i < j /\ con.prio[i] = con.prio[j]) =>
            \A x \in 1..Len(con.wire) :
                con.wire[x] = Part(j, 1) =>
                    \/ i \in con.settled \cup con.dropped
                    \/ \E y \in 1..(x - 1) : con.wire[y] = Part(i, 2)

\* A message that was submitted is in exactly one place: queued, sent and kept
\* until it is acknowledged, settled, or given up with the connection.
KeptOnce ==
    LET Places == <<Queued(con), ToSet(con.sent), con.settled, con.dropped>>
    IN  /\ UNION Range(Places) = 1..Len(con.prio)
        /\ \A i, j \in 1..4 : i # j => Places[i] \cap Places[j] = {}

\* A message or bytes that nobody is writing are scheduled: when nobody is
\* sending on an open connection and a message is queued or outcoming_bl is not
\* empty, ev_write is active.  The exceptions are a message queued during another
\* application's direct send, which schedules nothing when it ends, and a
\* connection the event thread has given up and is about to stop.
Awake ==
    ( /\ con.state \in {"OPEN", "READ_DATA"} /\ ~con.sending /\ pc[Ev] # "stop"
      /\ Queued(con) # {} \/ con.outcoming_bl # <<>> ) =>
        con.ev_write \/ con.late

\* "If there is still data, schedule write-watcher" (AsyncConnection.cc): when
\* nobody is sending on an open connection, a message in out_q is scheduled,
\* whenever it was queued.
DataScheduled ==
    ( /\ con.state \in {"OPEN", "READ_DATA"} /\ ~con.sending
      /\ Queued(con) # {} ) => con.ev_write

\* The event thread waits for the end of its own write.
WaitsForItself == pc[Ev] = "wait_sending" /\ ~AppSending /\ con.sending

\* Every message submitted is written, settled or given up, unless the connection
\* stands by, a request came too late (Awake), the event thread waits for itself
\* or the output buffer was cleared under a writer.
EveryMessageOut ==
    \A m \in 1..3 :
        (m <= Len(con.prio)) ~>
            \/ m \in con.flushed \cup con.settled \cup con.dropped
            \/ con.state = "STANDBY" \/ con.late \/ WaitsForItself \/ ~TrimSafe

\* mark_down returns: the wakeup of _stop is not lost, and no two of the event
\* thread, a sender and mark_down wait for each other.
MarkDownReturns ==
    \A a \in Apps :
        (pc[a] = "mark_down") ~> (pc[a] = "idle" \/ WaitsForItself \/ ~TrimSafe)
=============================================================================
