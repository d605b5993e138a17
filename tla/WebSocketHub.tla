----------------------------- MODULE WebSocketHub -----------------------------
(***************************************************************************)
(* Delivery of translations to the one client of the python service:       *)
(* WebSocketHub (services/python/src/ws/websocket.py), the /ws endpoint    *)
(* and the stop handler's detach (services/python/main.py).                *)
(*                                                                         *)
(* Everything runs on one event loop; an action is the code between two    *)
(* awaits that can suspend.  `_lock` is held across an await only by       *)
(* attach and detach, while they close a socket; every other critical      *)
(* section is one action, enabled while the lock is free (who waits for it *)
(* may get it in any order, except that failed sends requeue in theirs).   *)
(* `_send_gate` is a FIFO of those who want to send, ping or close.  A text *)
(* is its number.  Pong and reconnect time-outs may elapse at any keepalive *)
(* round, so what they are computed from (_last_pong_time,                 *)
(* _reconnect_waiting and the like) is left out.  Sockets (starlette,      *)
(* uvicorn) are external.                                                  *)
(* Definitions introduced as mutants are not part of the specification     *)
(* (README, "Mutants").                                                    *)
(***************************************************************************)
EXTENDS Naturals, Sequences, FiniteSets, SequencesExt

CONSTANTS
    Sessions,
    Sockets,     \* bound: the connections clients make
    Stops,       \* bound: the calls of detach
    MaxCalls,    \* bound: calls of broadcast_to_session and detach together
    MaxPending,  \* _max_pending (100 in the code)
    NoSession, NoSocket, Free

ASSUME HubAssumption ==
    /\ MaxCalls \in Nat /\ MaxPending \in Nat \ {0}
    /\ IsFiniteSet(Sockets) /\ IsFiniteSet(Stops)
    /\ NoSession \notin Sessions /\ NoSocket \notin Sockets
    /\ Free \notin Sockets \cup Stops /\ Sockets \cap Stops = {}
    /\ {"task", "flush", "keep", "cleanup"} \cap (Sockets \cup Stops) = {}

Callers == Sockets \cup Stops
Texts == 1..MaxCalls

VARIABLES
    owner,    \* self._session_id
    client,   \* self.client
    pending,  \* self._pending
    lock,     \* who holds self._lock across an await
    gate,     \* self._send_gate: who is inside or waits, oldest first
    keep,     \* where the keepalive loop is
    ep,       \* where the endpoint of a socket, or a stop request, is
    sess,     \* the session a socket is for
    app,      \* ws.application_state
    link,     \* ws.client_state
    flush,    \* the _flush_pending task of a socket
    unsent,   \* the _send_text tasks about to call _requeue, oldest first
    cleanup,  \* sockets a failed _send_text is about to take from the slot
    said,     \* session of each text broadcast
    sent,     \* texts handed to a socket, with its session
    dropped,  \* texts the hub gave up
    raced     \* whether the slot ever changed hands while another attach was
              \* in accept() or a flush of pending under way

vars == <<owner, client, pending, lock, gate, keep, ep, sess, app, link,
          flush, unsent, cleanup, said, sent, dropped, raced>>
slotVars == <<owner, client, raced>>
hubVars == <<slotVars, pending, dropped, lock>>
endVars == <<ep, sess>>
sockVars == <<app, link>>
taskVars == <<flush, unsent, cleanup>>
pastVars == <<said, sent>>
ioVars == <<sockVars, taskVars, pastVars>>

NoText == 0
Ticket == [op : {"send", "ping", "close"}, by : {"task", "flush", "keep", "cleanup"} \cup Callers,
           ws : Sockets, text : 0..MaxCalls, sess : Sessions \cup {NoSession},
           prompt : BOOLEAN, busy : BOOLEAN]
Idle == [pc |-> "none", rest |-> <<>>, sess |-> NoSession]

TypeOK ==
    /\ owner \in Sessions \cup {NoSession}
    /\ client \in Sockets \cup {NoSocket}
    /\ pending \in Seq(Texts) /\ Len(pending) <= MaxPending
    /\ lock \in Callers \cup {Free}
    /\ \A x \in Callers : lock = x <=> ep[x] \in {"closing", "detaching"}
    /\ gate \in Seq(Ticket)
    /\ keep \in {"none", "sleep", "ping", "closing"}
    /\ ep \in [Callers -> {"new", "closing", "accept", "serving", "leaving",
                           "detaching", "ended"}]
    /\ sess \in [Sockets -> Sessions \cup {NoSession}]
    /\ app \in [Sockets -> {"connecting", "connected", "closed"}]
    /\ link \in [Sockets -> {"connecting", "connected", "gone"}]
    /\ flush \in [Sockets -> [pc : {"none", "due", "sending"}, rest : Seq(Texts),
                             sess : Sessions \cup {NoSession}]]
    /\ unsent \in Seq([text : Texts, sess : Sessions \cup {NoSession}, ws : Sockets,
                       by : {"task", "flush"}, failed : BOOLEAN])
    /\ cleanup \in SUBSET Sockets
    /\ said \in Seq(Sessions) /\ Len(said) <= MaxCalls
    /\ sent \in SUBSET [text : Texts, sess : Sessions \cup {NoSession}]
    /\ dropped \in SUBSET Texts /\ raced \in BOOLEAN

Init ==
    /\ owner = NoSession /\ client = NoSocket /\ pending = <<>>
    /\ lock = Free /\ gate = <<>> /\ keep = "none"
    /\ ep = [x \in Callers |-> "new"] /\ sess = [w \in Sockets |-> NoSession]
    /\ app = [w \in Sockets |-> "connecting"]
    /\ link = [w \in Sockets |-> "connecting"]
    /\ flush = [w \in Sockets |-> Idle] /\ unsent = <<>> /\ cleanup = {}
    /\ said = <<>> /\ sent = {} /\ dropped = {} /\ raced = FALSE

-----------------------------------------------------------------------------
Elements(q) == {q[i] : i \in 1..Len(q)}

(* _is_connected: both states, since a client that leaves only changes its. *)
Connected(w) == w \in Sockets /\ app[w] = "connected" /\ link[w] = "connected"

(* _pending.append with the oldest shed at capacity; what it sheds.         *)
Appended(q) == SubSeq(q, IF Len(q) > MaxPending THEN Len(q) - MaxPending + 1 ELSE 1, Len(q))
ShedBy(q) == Elements(q) \ Elements(Appended(q))

(* A coroutine enters the gate q, at once if it is free; a task just spawned *)
(* takes its first step later.                                              *)
EnterText(q, op, by, w, t, s) ==
    Append(q, [op |-> op, by |-> by, ws |-> w, text |-> t, sess |-> s,
               prompt |-> q = <<>> /\ by # "task", busy |-> FALSE])
Enter(q, op, by, w) == EnterText(q, op, by, w, NoText, NoSession)
EnterSend(q, by, w, t, s) == EnterText(q, "send", by, w, t, s)

(* x waits for its _safe_close to return.                                   *)
Closing(x) == \E k \in Elements(gate) : k.by = x /\ k.op = "close"

(* Cancelling the keepalive task takes it out of the gate, where it is once *)
(* at most.                                                                 *)
WithoutKeep(q) == RemoveFirstMatch(q, LAMBDA k : k.by = "keep")

(* The slot begins to change hands, or does.                                *)
Turns ==
    raced' = (raced \/ \E w \in Sockets : ep[w] = "accept" \/ flush[w].pc # "none")

(* The _send_text that the flush awaits has not returned.                   *)
FlushAwaits(w) ==
    \/ \E k \in Elements(gate) : k.by = "flush" /\ k.ws = w
    \/ \E u \in Elements(unsent) : u.by = "flush" /\ u.ws = w
    \/ w \in cleanup

FlushGoesOn(w) == flush[w].pc = "sending" /\ ~FlushAwaits(w)

(* Who entered a free gate is inside at once.                               *)
Entered == gate # <<>> /\ gate[1].prompt /\ ~gate[1].busy

(* A coroutine whose await returned goes on before anything else runs.      *)
Resumed ==
    \/ \E x \in Callers : ep[x] \in {"closing", "detaching"} /\ ~Closing(x)
    \/ \E w \in Sockets :
         FlushGoesOn(w) /\ (lock = Free \/ Connected(w) \/ flush[w].rest = <<>>)
    \/ Entered

-----------------------------------------------------------------------------
(* What of pending stays when session s takes the slot.  Mutants: what      *)
(* waits is always dropped, or always kept.                                 *)
KeptNothing(s) == <<>>
KeptAll(s) == pending
KeptFor(s) == IF owner \in {NoSession, s} THEN pending ELSE <<>>

TakesSlot(w, s) ==
    /\ owner' = s
    /\ pending' = KeptFor(s)
    /\ dropped' = dropped \cup (Elements(pending) \ Elements(KeptFor(s)))
    /\ lock' = Free
    /\ ep' = [ep EXCEPT ![w] = "accept"]
    /\ Turns
    /\ UNCHANGED <<ioVars, client, keep>>

(* A client of session s connects and the endpoint calls attach.  A call    *)
(* that waits for the lock has done nothing, so it starts when it has it.   *)
Arrives(w, s) ==
    /\ ~Resumed /\ ep[w] = "new" /\ lock = Free
    /\ sess' = [sess EXCEPT ![w] = s]

(* attach, under the lock: close the client in the slot, if there is one,   *)
(* then take the slot for the session and let go of the lock.               *)
AttachFree(w, s) ==
    /\ Arrives(w, s) /\ client = NoSocket
    /\ TakesSlot(w, s) /\ UNCHANGED gate

AttachCloses(w, s) ==
    /\ Arrives(w, s) /\ client # NoSocket
    /\ lock' = w
    /\ ep' = [ep EXCEPT ![w] = "closing"]
    /\ gate' = Enter(gate, "close", w, client)
    /\ Turns
    /\ UNCHANGED <<ioVars, owner, client, pending, keep, dropped>>

AttachOwns(w) ==
    /\ ep[w] = "closing" /\ ~Closing(w)
    /\ TakesSlot(w, sess[w]) /\ UNCHANGED <<gate, sess>>


(* After accept(), without the lock: the client is in the slot, a new       *)
(* keepalive loop replaces the old one and a flush of pending is spawned.   *)
Accepted(w) ==
    /\ ~Resumed /\ ep[w] = "accept"
    /\ app' = [app EXCEPT ![w] = "connected"]
    /\ link' = [link EXCEPT ![w] = "connected"]
    /\ client' = w
    /\ gate' = WithoutKeep(gate) /\ keep' = "sleep"
    /\ flush' = [flush EXCEPT ![w].pc = "due"]
    /\ ep' = [ep EXCEPT ![w] = "serving"]
    /\ UNCHANGED <<pastVars, owner, pending, lock, sess, unsent, cleanup,
                   dropped, raced>>

(* accept() raises: the exception leaves the endpoint.                      *)
AcceptFails(w) ==
    /\ ~Resumed /\ ep[w] = "accept"
    /\ app' = [app EXCEPT ![w] = "closed"]
    /\ ep' = [ep EXCEPT ![w] = "ended"]
    /\ UNCHANGED <<hubVars, taskVars, pastVars, gate, keep, sess, link>>

-----------------------------------------------------------------------------
(* The receive loop learns that the client is gone (which changes nothing   *)
(* once the socket is closed and out of the slot) ...                       *)
LinkBreaks(w) ==
    /\ ~Resumed /\ ep[w] = "serving" /\ (app[w] = "connected" \/ client = w)
    /\ link' = [link EXCEPT ![w] = "gone"]
    /\ ep' = [ep EXCEPT ![w] = "leaving"]
    /\ UNCHANGED <<hubVars, taskVars, pastVars, gate, keep, sess, app>>

(* ... and tells the hub (handle_client_disconnect), which waits for a      *)
(* reconnection if the slot is still its.                                   *)
(* Mutant: the notice is not checked against the socket in the slot.        *)
NoticeOfSession(w) == sess[w] = owner
NoticeCurrent(w) == sess[w] = owner /\ client = w

ClientDisconnect(w) ==
    /\ ~Resumed /\ ep[w] = "leaving" /\ lock = Free
    /\ ep' = [ep EXCEPT ![w] = "ended"]
    /\ IF NoticeCurrent(w)
       THEN client' = NoSocket
       ELSE UNCHANGED client
    /\ UNCHANGED <<ioVars, owner, pending, lock, gate, keep, sess, dropped, raced>>

(* One more call of broadcast_to_session or detach is within the bound.     *)
OneMoreCall == Len(said) + Cardinality({x \in Stops : ep[x] # "new"}) < MaxCalls

(* detach is called: by the stop handler, or by the endpoint of a socket    *)
(* the server closed, when a frame is still read from it (the answer, or    *)
(* the next receive_text, raises RuntimeError; main.py 468).                *)
DetachCalled(x) ==
    ~Resumed /\ lock = Free /\ ep[x] = "new" /\ OneMoreCall

(* detach: nothing for a session that does not own the slot; otherwise stop *)
(* the keepalive and close the client under the lock ...                    *)
DetachIgnored(x, s) ==
    /\ DetachCalled(x) /\ s # owner
    /\ ep' = [ep EXCEPT ![x] = "ended"]
    /\ UNCHANGED <<hubVars, ioVars, gate, keep, sess>>

FreesSlot(x) ==
    /\ client' = NoSocket /\ owner' = NoSession
    /\ pending' = <<>> /\ dropped' = dropped \cup Elements(pending)
    /\ lock' = Free
    /\ ep' = [ep EXCEPT ![x] = "ended"]
    /\ Turns
    /\ UNCHANGED <<ioVars, sess>>

DetachFree(x, s) ==
    /\ DetachCalled(x) /\ s = owner /\ client = NoSocket
    /\ keep' = "none" /\ gate' = WithoutKeep(gate)
    /\ FreesSlot(x)

DetachCloses(x, s) ==
    /\ DetachCalled(x) /\ s = owner /\ client # NoSocket
    /\ lock' = x
    /\ keep' = "none"
    /\ gate' = Enter(WithoutKeep(gate), "close", x, client)
    /\ ep' = [ep EXCEPT ![x] = "detaching"]
    /\ Turns
    /\ UNCHANGED <<ioVars, owner, client, pending, sess, dropped>>

(* ... then free the slot and drop what waits.                              *)
DetachEnds(x) ==
    /\ ep[x] = "detaching" /\ ~Closing(x)
    /\ FreesSlot(x) /\ UNCHANGED <<gate, keep>>

-----------------------------------------------------------------------------
(* broadcast_to_session: drop a stale text, queue it while no client is     *)
(* connected, else spawn _send_text (whose first step comes after that of a *)
(* flush spawned before it).                                                *)
Broadcast(s) ==
    /\ ~Resumed /\ OneMoreCall /\ lock = Free
    /\ said' = Append(said, s)
    /\ LET t == Len(said) + 1 IN
         \/ /\ s # owner
            /\ dropped' = dropped \cup {t}
            /\ UNCHANGED <<pending, gate>>
         \/ /\ s = owner /\ ~Connected(client)
            /\ pending' = Appended(Append(pending, t))
            /\ dropped' = dropped \cup ShedBy(Append(pending, t))
            /\ UNCHANGED gate
         \/ /\ s = owner /\ Connected(client)
            /\ \A w \in Sockets : flush[w].pc # "due"
            /\ gate' = EnterSend(gate, "task", client, t, s)
            /\ UNCHANGED <<pending, dropped>>
    /\ UNCHANGED <<slotVars, endVars, taskVars, sockVars, lock, keep, sent>>

(* _flush_pending takes all of pending under the lock (and puts it back if  *)
(* its socket is already closed) ...                                        *)
(* Mutant: the deque is copied but not cleared.                             *)
LeftByCopy == pending
LeftByFlush == <<>>

FlushTakes(w) ==
    /\ ~Resumed /\ flush[w].pc = "due" /\ lock = Free
    /\ IF Connected(w) /\ pending # <<>> /\ owner # NoSession
       THEN /\ flush' = [flush EXCEPT ![w] = [pc |-> "sending", rest |-> Tail(pending),
                                              sess |-> owner]]
            /\ gate' = EnterSend(gate, "flush", w, Head(pending), owner)
            /\ pending' = LeftByFlush /\ UNCHANGED dropped
       ELSE /\ flush' = [flush EXCEPT ![w] = Idle]
            /\ UNCHANGED gate
            /\ IF owner = NoSession
               THEN pending' = LeftByFlush /\ dropped' = dropped \cup Elements(pending)
               ELSE UNCHANGED <<pending, dropped>>
    /\ UNCHANGED <<slotVars, endVars, sockVars, pastVars, lock, keep, unsent,
                   cleanup>>

(* ... sends the texts one by one ...                                       *)
FlushSends(w) ==
    /\ FlushGoesOn(w) /\ flush[w].rest # <<>> /\ Connected(w)
    /\ gate' = EnterSend(gate, "flush", w, Head(flush[w].rest), flush[w].sess)
    /\ flush' = [flush EXCEPT ![w].rest = Tail(@)]
    /\ UNCHANGED <<hubVars, endVars, sockVars, pastVars, keep, unsent,
                   cleanup>>

FlushEnds(w) ==
    /\ FlushGoesOn(w) /\ flush[w].rest = <<>>
    /\ flush' = [flush EXCEPT ![w] = Idle]
    /\ UNCHANGED <<hubVars, endVars, sockVars, pastVars, gate, keep, unsent,
                   cleanup>>

(* ... or, on a socket no longer connected, appends what is left, once it   *)
(* has the lock.                                                            *)
FlushInterrupted(w) ==
    /\ FlushGoesOn(w) /\ flush[w].rest # <<>> /\ ~Connected(w) /\ lock = Free
    /\ pending' = Appended(pending \o flush[w].rest)
    /\ dropped' = dropped \cup ShedBy(pending \o flush[w].rest)
    /\ flush' = [flush EXCEPT ![w] = Idle]
    /\ UNCHANGED <<slotVars, endVars, sockVars, pastVars, lock, gate, keep, unsent,
                   cleanup>>

-----------------------------------------------------------------------------
(* The gate.  Whoever is inside leaves it to the next.                      *)
Turn == gate[1]
Inside == [gate EXCEPT ![1].busy = TRUE]

Unsent(failed) == [text |-> Turn.text, sess |-> Turn.sess, ws |-> Turn.ws,
                   by |-> Turn.by, failed |-> failed]

(* _requeue puts a text of the slot's owner back at the front, shedding the *)
(* oldest at capacity.                                                      *)
RequeueAllowed(u) == u.sess # NoSession /\ u.sess = owner

(* The rest of _send_text of u, whose text was not sent, with q the gate: a *)
(* failed one goes on to close its socket.                                  *)
Requeued(u, q) ==
    /\ LET full == Len(pending) >= MaxPending IN
         IF RequeueAllowed(u)
         THEN /\ pending' = <<u.text>> \o (IF full THEN Tail(pending) ELSE pending)
              /\ dropped' = dropped \cup (IF full THEN {Head(pending)} ELSE {})
         ELSE UNCHANGED pending /\ dropped' = dropped \cup {u.text}
    /\ IF u.failed /\ u.ws \notin cleanup
       THEN /\ cleanup' = cleanup \cup {u.ws}
            /\ gate' = Enter(q, "close", "cleanup", u.ws)
       ELSE UNCHANGED cleanup /\ gate' = q

(* At once if the lock is free, else when it is; the gate is left first.    *)
NotSent(u) ==
    IF lock = Free /\ unsent = <<>>
    THEN Requeued(u, Tail(gate)) /\ UNCHANGED unsent
    ELSE /\ unsent' = Append(unsent, u) /\ gate' = Tail(gate)
         /\ UNCHANGED <<pending, cleanup, dropped>>

RequeueLater ==
    /\ ~Resumed /\ unsent # <<>> /\ lock = Free
    /\ unsent' = Tail(unsent)
    /\ Requeued(unsent[1], gate)
    /\ UNCHANGED <<slotVars, endVars, sockVars, pastVars, lock, keep, flush>>

(* _send_text has the gate: re-check the socket, then send or requeue.      *)
(* Mutant: the lock of _requeue is asked for inside the gate.               *)
LockInsideGate == Connected(Turn.ws) \/ lock = Free
LockOutsideGate == TRUE

SendBegins ==
    /\ Resumed => Entered
    /\ gate # <<>> /\ Turn.op = "send" /\ ~Turn.busy /\ LockOutsideGate
    /\ IF Connected(Turn.ws)
       THEN gate' = Inside /\ UNCHANGED <<pending, unsent, cleanup, dropped>>
       ELSE NotSent(Unsent(FALSE))
    /\ UNCHANGED <<slotVars, endVars, sockVars, pastVars, lock, keep, flush>>

SendReturns ==
    /\ ~Resumed /\ gate # <<>> /\ Turn.op = "send" /\ Turn.busy
    /\ gate' = Tail(gate)
    /\ sent' = sent \cup {[text |-> Turn.text, sess |-> sess[Turn.ws]]}
    /\ UNCHANGED <<hubVars, endVars, taskVars, sockVars, keep, said>>

(* A send on a dead connection raises; starlette notes the socket closed.   *)
SendFails ==
    /\ ~Resumed /\ gate # <<>> /\ Turn.op = "send" /\ Turn.busy
    /\ app' = [app EXCEPT ![Turn.ws] = "closed"]
    /\ NotSent(Unsent(TRUE))
    /\ UNCHANGED <<slotVars, endVars, pastVars, lock, keep, link, flush>>

(* After a failed send and _safe_close: empty the slot if it is still this  *)
(* socket's.                                                                *)
CleanupEnds(w) ==
    /\ ~Resumed /\ w \in cleanup /\ lock = Free
    /\ ~\E k \in Elements(gate) : k.by = "cleanup" /\ k.ws = w
    /\ cleanup' = cleanup \ {w}
    /\ client' = IF client = w THEN NoSocket ELSE client
    /\ UNCHANGED <<endVars, sockVars, pastVars, owner, pending, lock,
                   gate, keep, flush, unsent, dropped, raced>>

(* _safe_close has the gate: close an open socket.                          *)
CloseBegins ==
    /\ Resumed => Entered
    /\ gate # <<>> /\ Turn.op = "close" /\ ~Turn.busy
    /\ IF app[Turn.ws] = "connected"
       THEN gate' = Inside /\ app' = [app EXCEPT ![Turn.ws] = "closed"]
       ELSE gate' = Tail(gate) /\ UNCHANGED app
    /\ UNCHANGED <<hubVars, endVars, taskVars, pastVars, keep, link>>

CloseReturns ==
    /\ ~Resumed /\ gate # <<>> /\ Turn.op = "close" /\ Turn.busy
    /\ gate' = Tail(gate)
    /\ UNCHANGED <<hubVars, ioVars, endVars, keep>>

-----------------------------------------------------------------------------
(* One round of the keepalive loop, after its sleep: without a connected    *)
(* client wait, or give up; with one, ping it, or close it when pongs are   *)
(* overdue.                                                                 *)
KeepaliveExits ==
    /\ ~Resumed /\ keep = "sleep" /\ lock = Free /\ ~Connected(client)
    /\ keep' = "none"
    /\ UNCHANGED <<hubVars, ioVars, endVars, gate>>

KeepaliveActs(op, pc) ==
    /\ ~Resumed /\ keep = "sleep" /\ lock = Free /\ Connected(client)
    /\ keep' = pc
    /\ gate' = Enter(gate, op, "keep", client)
    /\ UNCHANGED <<hubVars, ioVars, endVars>>

KeepalivePings == KeepaliveActs("ping", "ping")
KeepaliveTimesOut == KeepaliveActs("close", "closing")

(* The gate and the loop after a ping that was not sent or failed.          *)
PingFailed ==
    /\ gate' = Enter(Tail(gate), "close", "keep", Turn.ws)
    /\ keep' = "closing"

PingBegins ==
    /\ Resumed => Entered
    /\ gate # <<>> /\ Turn.op = "ping" /\ ~Turn.busy
    /\ IF Connected(Turn.ws) THEN gate' = Inside /\ UNCHANGED keep ELSE PingFailed
    /\ UNCHANGED <<hubVars, ioVars, endVars>>

PingReturns ==
    /\ ~Resumed /\ gate # <<>> /\ Turn.op = "ping" /\ Turn.busy
    /\ gate' = Tail(gate) /\ keep' = "sleep"
    /\ UNCHANGED <<hubVars, ioVars, endVars>>

PingRaises ==
    /\ ~Resumed /\ gate # <<>> /\ Turn.op = "ping" /\ Turn.busy
    /\ PingFailed
    /\ app' = [app EXCEPT ![Turn.ws] = "closed"]
    /\ UNCHANGED <<hubVars, endVars, taskVars, pastVars, link>>

(* _mark_waiting_for_reconnect: empties the slot whoever is in it.          *)
KeepaliveMarks ==
    /\ ~Resumed /\ keep = "closing" /\ ~Closing("keep") /\ lock = Free
    /\ client' = NoSocket
    /\ keep' = "sleep"
    /\ UNCHANGED <<ioVars, endVars, owner, pending, lock, gate, dropped, raced>>

-----------------------------------------------------------------------------
Attach(w) ==
    \/ \E s \in Sessions : AttachFree(w, s) \/ AttachCloses(w, s)
    \/ AttachOwns(w) \/ Accepted(w) \/ AcceptFails(w)
Detach(x) ==
    \/ \E s \in Sessions : DetachIgnored(x, s) \/ DetachFree(x, s) \/ DetachCloses(x, s)
    \/ DetachEnds(x)
Flush(w) == FlushTakes(w) \/ FlushSends(w) \/ FlushEnds(w) \/ FlushInterrupted(w)
Gate == \/ SendBegins \/ SendReturns \/ SendFails
        \/ CloseBegins \/ CloseReturns
        \/ PingBegins \/ PingReturns \/ PingRaises
Keepalive == KeepaliveExits \/ KeepalivePings \/ KeepaliveTimesOut \/ KeepaliveMarks

Next ==
    \/ \E s \in Sessions : Broadcast(s)
    \/ \E w \in Sockets : Attach(w) \/ LinkBreaks(w) \/ ClientDisconnect(w)
                            \/ Flush(w) \/ CleanupEnds(w)
    \/ \E x \in Stops : Detach(x)
    \/ Gate \/ RequeueLater \/ Keepalive

Spec == Init /\ [][Next]_vars

-----------------------------------------------------------------------------
(* The client in the slot is one of the session that owns the slot, except  *)
(* while an attach is in accept(): a takeover never leaves the old          *)
(* session's client behind ...                                              *)
ClientOfOwner ==
    Connected(client) =>
       \/ sess[client] = owner
       \/ \E w \in Sockets : ep[w] = "accept"

(* ... and no translation is sent to a client of another session (the cross *)
(* delivery of websocket.py 42-44, 94-104 and 116-121) ...                  *)
SentToOwnSession ==
    \A d \in sent : said[d.text] = d.sess

(* ... unless the slot changed hands while another attach had not finished  *)
(* accept() or a flush was under way: no other interleaving of broadcasts,  *)
(* sends, requeues, closes and notices delivers across sessions.            *)
NoCrossDelivery == ~raced => ClientOfOwner /\ SentToOwnSession

(* Every text broadcast is in exactly one place: pending, at the gate, with *)
(* one flush or send, sent once, or given up.  Requeueing what could not be  *)
(* sent neither repeats nor forgets a text.                                  *)
Spots(q, t) == {i \in 1..Len(q) : q[i] = t}
TextSpots(q, t) == {i \in 1..Len(q) : q[i].text = t}
Places(t) ==
    Cardinality(Spots(pending, t))
    + Cardinality(TextSpots(gate, t)) + Cardinality(TextSpots(unsent, t))
    + Cardinality({d \in sent : d.text = t})
    + Cardinality(UNION {{w} \X Spots(flush[w].rest, t) : w \in Sockets})
    + (IF t \in dropped THEN 1 ELSE 0)

EachTextOnce == \A t \in 1..Len(said) : Places(t) = 1

(* A text of the session that owns the slot is given up only when pending   *)
(* is full or the slot changes hands: reconnecting or losing a socket never *)
(* costs one (websocket.py 116-118 and 216-221) - unless the slot changed   *)
(* hands during an accept() or a flush: then a flush may give a text back   *)
(* to another session, which gives it up when its own socket fails.         *)
OwnerTextsKept ==
    [][ ~raced => \A t \in dropped' \ dropped :
          said'[t] # owner \/ owner' # owner \/ Len(pending') = MaxPending ]_vars

(* A connected client leaves the slot only by a detach of its session, or   *)
(* because another client takes its place: late notices, clean-ups and the  *)
(* keepalive of a replaced socket never empty the slot under it.            *)
LiveClientStays ==
    [][ Connected(client) /\ client' = NoSocket
          => owner' = NoSession ]_vars

(* Who is inside the gate, or next, can go on: a send or a ping that        *)
(* returns, a socket that closes, a text that is sent or put back.          *)
HeadMoves == gate # <<>> /\ (Turn.busy \/ Turn.op # "send" \/ LockOutsideGate)

(* Who holds the lock is held up by nobody who needs it: its socket is      *)
(* closed and it goes on, or a flush goes on that does not ask for the lock, *)
(* or it waits, once, for a gate whose head can go on.  Lock and gate never *)
(* wait for each other (the lock order of websocket.py 134-135, 168-170).   *)
LockHolderProceeds ==
    lock # Free =>
      \/ ~Closing(lock)
      \/ \E w \in Sockets : FlushGoesOn(w) /\ (Connected(w) \/ flush[w].rest = <<>>)
      \/ HeadMoves /\ \E i \in 1..Len(gate) :
                        \A j \in 1..Len(gate) : gate[j].by = lock <=> j = i
=============================================================================
