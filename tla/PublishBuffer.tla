---------------------------- MODULE PublishBuffer ----------------------------
(***************************************************************************)
(* The bounded retry buffer of the node service in front of JetStream:     *)
(* RetryingTranscriptPublisher (services/node/src/retryingPublisher.ts)    *)
(* over JetStreamTranscriptPublisher.publish (services/node/src/js_pub.ts).*)
(*                                                                         *)
(* A span is its sequence number: InterimChunkOrchestrator numbers the     *)
(* spans of a session 1, 2, 3, ... and hands them to publish() in order.   *)
(* Each action is the code between two awaits.  The connection and the     *)
(* broker are external: requests travel in a FIFO (one TCP connection), an *)
(* attempt may time out while its request is still under way, and the      *)
(* broker drops a Nats-Msg-Id it stored less than Window ago.              *)
(*                                                                         *)
(* A definition introduced as a mutant is not part of the specification:   *)
(* it is a plausible bug in the definition that follows it, which the      *)
(* properties have to catch (README, "Mutants").                           *)
(***************************************************************************)
EXTENDS Integers, Sequences

CONSTANTS
    MaxSpans,     \* bound: spans the session produces
    MaxBuffered,  \* maxBuffered (500 in the code)
    TTL,          \* ttlMs, in ticks of one retry delay
    MaxTransit,   \* longest time a request is under way before it is
                  \* received or lost
    Window        \* the broker's duplicate window

ASSUME BufferAssumption ==
    /\ MaxSpans \in Nat \ {0} /\ MaxBuffered \in Nat \ {0}
    /\ TTL \in Nat /\ MaxTransit \in Nat /\ Window \in Nat
    /\ TTL + MaxTransit < Window

VARIABLES
    offered,    \* number of spans handed to publish()
    queue,      \* this.queue, oldest first
    age,        \* age[s]: time since span s was enqueued, saturating
    draining,   \* this.draining
    stopped,    \* this.stopped
    dropped,    \* the spans counted by this.dropped
    pc,         \* where the drain loop is
    head,       \* drainLoop's local `head`, 0 before the first attempt
    settled,    \* whether the awaited inner.publish() has resolved
    conn,       \* js_pub's connection: "open", "closed" by stop(), or "lost":
                \* closed for good by itself
    wire,       \* external: requests under way, oldest first
    stream,     \* external: what JetStream stored, oldest first
    storedAge   \* external: time since the broker stored a span, saturating

vars == <<offered, queue, age, draining, stopped, dropped, pc, head, settled,
          conn, wire, stream, storedAge>>
loopVars == <<pc, head, settled, wire>>
brokerVars == <<stream, storedAge>>

Spans == 1..MaxSpans
Stored == {stream[i] : i \in 1..Len(stream)}
Queued == {queue[i] : i \in 1..Len(queue)}

TypeOK ==
    /\ offered \in 0..MaxSpans
    /\ queue \in Seq(Spans)
    /\ age \in [Spans -> 0..TTL + 1]
    /\ draining \in BOOLEAN /\ stopped \in BOOLEAN /\ settled \in BOOLEAN
    /\ dropped \in SUBSET Spans
    /\ pc \in {"idle", "sending", "sleeping", "due", "exited"}
    /\ head \in 0..MaxSpans
    /\ conn \in {"open", "closed", "lost"}
    /\ wire \in Seq([span : Spans, age : 0..MaxTransit])
    /\ stream \in Seq(Spans)
    /\ storedAge \in [Spans -> 0..Window]

Init ==
    /\ offered = 0 /\ queue = <<>> /\ age = [s \in Spans |-> 0]
    /\ draining = FALSE /\ stopped = FALSE /\ dropped = {}
    /\ pc = "idle" /\ head = 0 /\ settled = FALSE
    /\ conn = "open" /\ wire = <<>>
    /\ stream = <<>> /\ storedAge = [s \in Spans |-> 0]

-----------------------------------------------------------------------------
(* js_pub.publish(head): on a closed connection it resolves at once without *)
(* sending (95-98); otherwise the request is handed to the connection.      *)
InnerPublish(s) ==
    IF conn = "open"
    THEN wire' = Append(wire, [span |-> s, age |-> 0]) /\ settled' = FALSE
    ELSE UNCHANGED wire /\ settled' = TRUE

(* Mutant: nothing ever expires.                                           *)
NeverExpired(q, k) == k = 0

(* evictExpired removes the k oldest spans of q: every one of them is older *)
(* than ttlMs and the next, if any, is not.                                 *)
ExpiredPrefix(q, k) ==
    /\ \A i \in 1..k : age[q[i]] > TTL
    /\ k < Len(q) => age[q[k + 1]] <= TTL

(* One round of drainLoop, from the loop test to the next await, on queue q *)
(* with the spans of d already counted as dropped.                          *)
DrainRound(q, d) ==
    IF stopped \/ q = <<>>
    THEN /\ queue' = q /\ dropped' = d /\ pc' = "exited" /\ settled' = FALSE
         /\ UNCHANGED <<head, wire>>
    ELSE \E k \in 0..Len(q) :
           /\ ExpiredPrefix(q, k)
           /\ queue' = SubSeq(q, k + 1, Len(q))
           /\ dropped' = d \cup {q[i] : i \in 1..k}
           /\ IF k = Len(q)
              THEN pc' = "exited" /\ settled' = FALSE /\ UNCHANGED <<head, wire>>
              ELSE pc' = "sending" /\ head' = q[k + 1] /\ InnerPublish(q[k + 1])

(* Mutant: the newest span is shed instead of the oldest.                   *)
KeptOldest(s) == IF Len(queue) < MaxBuffered THEN Append(queue, s) ELSE queue

(* The queue after push(s), and what the capacity check shifted out of it.  *)
Pushed(s) == Append(queue, s)
Overflow(s) == IF Len(Pushed(s)) > MaxBuffered THEN {Head(Pushed(s))} ELSE {}
Kept(s) == IF Len(Pushed(s)) > MaxBuffered THEN Tail(Pushed(s)) ELSE Pushed(s)

(* publish(): after stop() the span is counted and dropped; otherwise it is *)
(* queued and the drain loop is started, synchronously, unless one runs.    *)
(* `draining` is reset by .finally, a microtask after the loop returned:    *)
(* another publish() can run in between only when the loop never left the   *)
(* microtask queue, which takes an inner publish that sends nothing.        *)
PublishStopped ==
    /\ stopped /\ offered < MaxSpans
    /\ offered' = offered + 1
    /\ dropped' = dropped \cup {offered + 1}
    /\ UNCHANGED <<queue, age, draining, stopped, loopVars, conn, brokerVars>>

PublishQueued ==
    /\ ~stopped /\ draining /\ offered < MaxSpans
    /\ pc = "exited" => conn # "open"
    /\ offered' = offered + 1
    /\ queue' = Kept(offered + 1)
    /\ dropped' = dropped \cup Overflow(offered + 1)
    /\ UNCHANGED <<age, draining, stopped, loopVars, conn, brokerVars>>

PublishStartsDrain ==
    /\ ~stopped /\ ~draining /\ offered < MaxSpans
    /\ offered' = offered + 1
    /\ draining' = TRUE
    /\ DrainRound(Kept(offered + 1), dropped \cup Overflow(offered + 1))
    /\ UNCHANGED <<age, stopped, conn, brokerVars>>

Publish == PublishStopped \/ PublishQueued \/ PublishStartsDrain

-----------------------------------------------------------------------------
(* Mutant: the shift does not check that the head is still the same span.   *)
UnguardedShift == IF queue # <<>> THEN Tail(queue) ELSE queue

(* The awaited inner.publish resolved: shift the head only if it is still   *)
(* the oldest span, then go round the loop.                                 *)
AfterSuccess ==
    IF queue # <<>> /\ Head(queue) = head THEN Tail(queue) ELSE queue

AttemptSucceeds ==
    /\ pc = "sending" /\ settled
    /\ DrainRound(AfterSuccess, dropped)
    /\ UNCHANGED <<offered, age, draining, stopped, conn, brokerVars>>

(* It rejected (time-out, no responders, connection lost): sleep and retry. *)
(* The request may still reach the broker.                                  *)
AttemptFails ==
    /\ pc = "sending" /\ ~settled
    /\ pc' = "sleeping"
    /\ UNCHANGED <<offered, queue, age, draining, stopped, dropped, head,
                   settled, conn, wire, brokerVars>>

(* Mutant: the failed span is retried after those behind it.                *)
RetryAtBack ==
    /\ pc = "due"
    /\ DrainRound(IF queue = <<>> THEN queue
                  ELSE Append(Tail(queue), Head(queue)), dropped)
    /\ UNCHANGED <<offered, age, draining, stopped, conn, brokerVars>>

RetryDelayOver ==
    /\ pc = "due"
    /\ DrainRound(queue, dropped)
    /\ UNCHANGED <<offered, age, draining, stopped, conn, brokerVars>>

(* Mutant: an early return of the loop leaves `draining` set.               *)
DrainingNotReset ==
    /\ pc = "exited"
    /\ pc' = "idle"
    /\ UNCHANGED <<offered, queue, age, draining, stopped, dropped, head,
                   settled, conn, wire, brokerVars>>

(* .finally(() => { this.draining = false })                                *)
ResetDraining ==
    /\ pc = "exited"
    /\ pc' = "idle" /\ draining' = FALSE
    /\ UNCHANGED <<offered, queue, age, stopped, dropped, head, settled, conn,
                   wire, brokerVars>>

(* stop(): count and clear what is queued; a running attempt goes on.       *)
Stop ==
    /\ ~stopped
    /\ stopped' = TRUE
    /\ dropped' = dropped \cup Queued
    /\ queue' = <<>>
    /\ UNCHANGED <<offered, age, draining, loopVars, conn, brokerVars>>

-----------------------------------------------------------------------------
(* The connection closes for good.  js_pub.publish swallows the             *)
(* CONNECTION_CLOSED of an attempt under way (113-118): the await resolves. *)
Close(how) ==
    /\ conn = "open"
    /\ conn' = how /\ wire' = <<>>
    /\ settled' = (pc = "sending")
    /\ UNCHANGED <<offered, queue, age, draining, stopped, dropped, pc, head,
                   brokerVars>>

InnerStop == stopped /\ wire = <<>> /\ Close("closed")   \* inner.stop()
ClosedByPeer == Close("lost")                  \* connection.closed() resolved

(* The connection breaks and is re-established: requests under way are lost.*)
Reconnect ==
    /\ conn = "open" /\ wire # <<>>
    /\ wire' = <<>>
    /\ UNCHANGED <<offered, queue, age, draining, stopped, dropped, pc, head,
                   settled, conn, brokerVars>>

(* The broker takes the oldest request and stores it unless it is a         *)
(* duplicate inside the window.  The reply settles the attempt it answers,  *)
(* the last one sent, unless it is lost.                                    *)
Duplicate(s) == s \in Stored /\ storedAge[s] < Window

BrokerReceives ==
    /\ wire # <<>>
    /\ wire' = Tail(wire)
    /\ LET s == Head(wire).span IN
         IF Duplicate(s)
         THEN UNCHANGED brokerVars
         ELSE /\ stream' = Append(stream, s)
              /\ storedAge' = [storedAge EXCEPT ![s] = 0]
    /\ \/ settled' = settled
       \/ Len(wire) = 1 /\ pc = "sending" /\ Head(wire).span = head
          /\ settled' = TRUE
    /\ UNCHANGED <<offered, queue, age, draining, stopped, dropped, pc, head,
                   conn>>

(* Time passes: everything gets older and a retry delay runs out.           *)
Tick ==
    /\ \A i \in 1..Len(wire) : wire[i].age < MaxTransit
    /\ wire' = [i \in 1..Len(wire) |-> [wire[i] EXCEPT !.age = @ + 1]]
    /\ age' = [s \in Spans |->
                 IF s \in Queued /\ age[s] <= TTL THEN age[s] + 1 ELSE age[s]]
    /\ storedAge' = [s \in Spans |->
                       IF s \in Stored /\ storedAge[s] < Window
                       THEN storedAge[s] + 1 ELSE storedAge[s]]
    /\ pc' = IF pc = "sleeping" THEN "due" ELSE pc
    /\ UNCHANGED <<offered, queue, draining, stopped, dropped, head, settled,
                   conn, stream>>

DrainLoop == AttemptSucceeds \/ AttemptFails \/ RetryDelayOver \/ ResetDraining
Network == InnerStop \/ ClosedByPeer \/ Reconnect \/ BrokerReceives

Next == Publish \/ Stop \/ DrainLoop \/ Network \/ Tick

Spec == Init /\ [][Next]_vars

(* The event loop runs every continuation that is due, an attempt settles   *)
(* one way or the other (JetStream requests time out), time passes and the  *)
(* network delivers.  Nothing makes callers publish, stop or the link break.*)
Fairness ==
    /\ WF_vars(AttemptSucceeds \/ AttemptFails)
    /\ WF_vars(RetryDelayOver)
    /\ WF_vars(ResetDraining)
    /\ WF_vars(BrokerReceives)
    /\ WF_vars(Tick)

FairSpec == Spec /\ Fairness

-----------------------------------------------------------------------------
(* No span overtakes another on its way to the broker: the python consumer  *)
(* drops a sequence number that is not above the last it saw, so an         *)
(* overtaken span would be lost (comment at retryingPublisher.ts 9-13).     *)
NoOvertaking ==
    \A i, j \in 1..Len(stream) : i < j => stream[i] <= stream[j]

(* A retried span is stored once, however often its attempts time out:      *)
(* expiry before the broker's duplicate window ends is what makes retrying  *)
(* safe (retryingPublisher.ts 15-18).                                       *)
StoredOnce ==
    \A i, j \in 1..Len(stream) : i # j => stream[i] # stream[j]

(* While the connection was not lost for good, the spans the session        *)
(* produced are each waiting, counted as dropped or in the stream: none     *)
(* disappears silently, through failed attempts, capacity eviction under a  *)
(* running attempt, expiry or stop (retryingPublisher.ts 6-7).              *)
NoSilentLoss ==
    conn # "lost" =>
      \A s \in 1..offered : s \in Queued \/ s \in dropped \/ s \in Stored

(* The buffer holds the latest spans without a gap, at most MaxBuffered of  *)
(* them: shifting the head of a queue that was evicted from or cleared while *)
(* the attempt was running never takes out a span that was not sent.        *)
QueueIsRecentWindow ==
    /\ Len(queue) <= MaxBuffered
    /\ \A i \in 1..Len(queue) : queue[i] = offered - Len(queue) + i

(* No attempt starts for a span that is already expired, or after stop().   *)
NoStaleAttempt ==
    [][ Len(wire') > Len(wire) =>
          /\ ~stopped
          /\ age[wire'[Len(wire')].span] <= TTL ]_vars

(* A waiting span never waits for ever: it is published, expires, or the    *)
(* buffer is stopped, unless the connection is lost.  With a wake-up lost   *)
(* between the end of a drain loop and the next publish() it would          *)
(* (retryingPublisher.ts 100-105).                                          *)
EverySpanLeaves == \A s \in Spans : s \in Queued ~> s \notin Queued \/ conn = "lost"

-----------------------------------------------------------------------------
(* What the buffer promises, without queue, retries, clock or connection.   *)
(* Once the connection is lost for good, publish() resolves without sending *)
(* (js_pub.ts 95-98) and what the buffer shifts then is lost uncounted.     *)
Lost ==
    dropped \cup (IF conn = "lost" THEN (1..offered) \ (Queued \cup Stored) ELSE {})

Feed == INSTANCE SpanFeed WITH waiting <- Queued, lost <- Lost

(* The buffer implements the lossy, ordered, accounted feed of SpanFeed.    *)
ImplementsSpanFeed == Feed!FeedSpec
=============================================================================
