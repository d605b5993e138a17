-------------------------- MODULE TranscriptConsumer --------------------------
(***************************************************************************)
(* The JetStream consumer of the python service (TranscriptConsumer in     *)
(* services/python/src/consumer/consumer.py): fetch a batch of spans,      *)
(* handle them concurrently, drop what is not above the session's sequence *)
(* watermark, offer the rest to the separator, ack.                        *)
(*                                                                         *)
(* A handler runs without suspending up to its ack: the semaphore admits   *)
(* a whole batch and the separator's queue is emptied by a loop that never *)
(* blocks.  The broker is external: it delivers new messages in order,     *)
(* keeps a delivered one for ack_wait, and then delivers it again, at most *)
(* MaxDeliver times in all.                                                *)
(* Definitions introduced as mutants are not part of the specification     *)
(* (README, "Mutants").                                                    *)
(***************************************************************************)
EXTENDS Naturals, Sequences, FiniteSets, SequencesExt

CONSTANTS
    Sessions,
    MaxMessages,  \* bound: messages published
    Unparseable,  \* the positions in the stream of what is no span
    Batch,        \* worker_concurrency: size of a batch, and the semaphore
    MaxDeliver,   \* DEFAULT_MAX_DELIVER (5 in the code)
    MaxTracked,   \* MAX_TRACKED_SESSIONS (1000 in the code)
    Faults,       \* which faults happen: "transit" (a connection breaks with
                  \* messages under way), "ack" (an ack or nak is lost, or
                  \* raises), "restart" (the process restarts)
    MaxFaults     \* bound on their number

ASSUME ConsumerAssumption ==
    /\ MaxMessages \in Nat /\ Unparseable \subseteq Nat
    /\ Batch \in Nat \ {0} /\ MaxDeliver \in Nat \ {0} /\ MaxTracked \in Nat \ {0}
    /\ Faults \subseteq {"transit", "ack", "restart"} /\ MaxFaults \in Nat

VARIABLES
    stream,   \* external: the messages, [session, seq], a session's in order
    state,    \* external: "new", "out" (awaiting its ack), "due" or "settled"
    count,    \* external: how often a message was delivered
    inbox,    \* external: messages delivered and not fetched, oldest first
    tasks,    \* the handlers of the current batch: message and place
    mark,     \* self._last_sequence_by_session, 0 for an absent session
    tracked,  \* the sessions in it, oldest entry first
    offered,  \* messages offered to the separator, in order
    since,    \* of a session, the offers before its watermark was (re)created
    missed,   \* messages a fault took from the client before it handled them
    faults    \* number of faults so far

vars == <<stream, state, count, inbox, tasks, mark, tracked, offered, since,
          missed, faults>>
brokerVars == <<stream, state, count>>
markVars == <<mark, tracked, offered, since>>
allMarkVars == <<markVars, missed>>

Messages == 1..MaxMessages
Published == 1..Len(stream)
Span(m) == stream[m]

TypeOK ==
    /\ stream \in Seq([session : Sessions, seq : Nat \ {0}])
    /\ state \in [Messages -> {"new", "out", "due", "settled"}]
    /\ count \in [Messages -> 0..MaxDeliver]
    /\ inbox \in Seq(Messages)
    /\ tasks \in Seq([msg : Messages, pc : {"start", "ack", "nak", "done"}])
    /\ Len(tasks) <= Batch
    /\ mark \in [Sessions -> Nat]
    /\ tracked \in Seq(Sessions) /\ Len(tracked) <= MaxTracked
    /\ \A s \in Sessions : mark[s] # 0 <=> \E i \in 1..Len(tracked) : tracked[i] = s
    /\ offered \in Seq(Messages)
    /\ since \in [Sessions -> 0..Len(offered)] /\ missed \in SUBSET Messages
    /\ faults \in 0..MaxFaults

Init ==
    /\ stream = <<>> /\ state = [m \in Messages |-> "new"]
    /\ count = [m \in Messages |-> 0]
    /\ inbox = <<>> /\ tasks = <<>>
    /\ mark = [s \in Sessions |-> 0] /\ tracked = <<>> /\ offered = <<>>
    /\ since = [s \in Sessions |-> 0] /\ missed = {} /\ faults = 0

Fault(kind) == kind \in Faults /\ faults < MaxFaults /\ faults' = faults + 1

-----------------------------------------------------------------------------
(* The node service publishes the next span of session s.                   *)
Publish(s) ==
    /\ Len(stream) < MaxMessages
    /\ stream' = Append(stream, [session |-> s,
                   seq |-> Cardinality({m \in Published : Span(m).session = s}) + 1])
    /\ UNCHANGED <<state, count, inbox, tasks, allMarkVars, faults>>

(* The broker answers the pull request of fetch(), open while no batch is   *)
(* being handled: what is due again, or the next new message.               *)
Deliver(m) ==
    /\ m \in Published /\ tasks = <<>> /\ Len(inbox) < Batch
    /\ count[m] < MaxDeliver
    /\ \/ state[m] = "due"
       \/ state[m] = "new" /\ \A n \in 1..m - 1 : state[n] # "new"
    /\ state' = [state EXCEPT ![m] = "out"]
    /\ count' = [count EXCEPT ![m] = @ + 1]
    /\ inbox' = Append(inbox, m)
    /\ UNCHANGED <<stream, tasks, allMarkVars, faults>>

(* ack_wait passes without an ack.  (It is longer than fetch() waits.)      *)
AckWaitExpires(m) ==
    /\ state[m] = "out" /\ (tasks = <<>> => ~Contains(inbox, m))
    /\ state' = [state EXCEPT ![m] = "due"]
    /\ UNCHANGED <<stream, count, inbox, tasks, allMarkVars, faults>>

(* The connection breaks: what was on its way to the client is lost.        *)
TransitLost ==
    /\ Fault("transit") /\ inbox # <<>>
    /\ inbox' = <<>> /\ missed' = missed \cup ToSet(inbox)
    /\ UNCHANGED <<brokerVars, tasks, markVars>>

-----------------------------------------------------------------------------
(* fetch() returns up to a batch of messages, fewer when its time-out       *)
(* passes; a handler is started for each.                                   *)
Fetch ==
    /\ tasks = <<>>
    /\ \E n \in 1..Len(inbox) :
         /\ n <= Batch
         /\ tasks' = [i \in 1..n |-> [msg |-> inbox[i], pc |-> "start"]]
         /\ inbox' = SubSeq(inbox, n + 1, Len(inbox))
    /\ UNCHANGED <<brokerVars, allMarkVars, faults>>

(* Handlers start in the order they were created.                           *)
Starts(i) == i \in 1..Len(tasks) /\ tasks[i].pc = "start"
               /\ \A j \in 1..i - 1 : tasks[j].pc # "start"
At(i, pc) == i \in 1..Len(tasks) /\ tasks[i].pc = pc
GoesTo(i, pc) == tasks' = [tasks EXCEPT ![i].pc = pc]

(* Mutants: only the very last sequence is a duplicate; the next one is, too.*)
OnlyLast(m) == mark[Span(m).session] = Span(m).seq
OffByOne(m) == Span(m).seq <= mark[Span(m).session] + 1
IsDuplicate(m) == Span(m).seq <= mark[Span(m).session]

(* _record_sequence: advance the session's watermark; beyond MaxTracked     *)
(* sessions the oldest entry goes.                                          *)
TrackedWith(s) == IF Contains(tracked, s) THEN tracked ELSE Append(tracked, s)
Capped(s) == IF Len(TrackedWith(s)) > MaxTracked THEN Tail(TrackedWith(s))
             ELSE TrackedWith(s)

RecordSequence(m) ==
    LET s == Span(m).session IN
      /\ tracked' = Capped(s)
      /\ mark' = [r \in Sessions |->
                    IF ~Contains(Capped(s), r) THEN 0
                    ELSE IF r = s THEN Span(m).seq ELSE mark[r]]
      /\ since' = [r \in Sessions |-> IF Contains(Capped(s), r) THEN since[r]
                                     ELSE Len(offered) + 1]

(* _handle_message up to its ack: a message that is no span is terminated   *)
(* (an ack that is final, too), a duplicate is only acked.                  *)
Drop(i) ==
    /\ Starts(i)
    /\ tasks[i].msg \in Unparseable \/ IsDuplicate(tasks[i].msg)
    /\ GoesTo(i, "ack")
    /\ UNCHANGED <<brokerVars, inbox, allMarkVars, faults>>

Offer(i) ==
    /\ Starts(i)
    /\ ~(tasks[i].msg \in Unparseable \/ IsDuplicate(tasks[i].msg))
    /\ offered' = Append(offered, tasks[i].msg)
    /\ RecordSequence(tasks[i].msg)
    /\ GoesTo(i, "ack")
    /\ UNCHANGED <<brokerVars, inbox, missed, faults>>

(* ack() or term() reaches the broker, is lost on the way, or raises.       *)
AckLands(i) ==
    /\ At(i, "ack") /\ GoesTo(i, "done")
    /\ state' = [state EXCEPT ![tasks[i].msg] = "settled"]
    /\ UNCHANGED <<stream, count, inbox, allMarkVars, faults>>

AckLost(i) ==
    /\ At(i, "ack") /\ Fault("ack") /\ GoesTo(i, "done")
    /\ UNCHANGED <<brokerVars, inbox, allMarkVars>>

AckRaises(i) ==
    /\ At(i, "ack") /\ tasks[i].msg \notin Unparseable
    /\ Fault("ack") /\ GoesTo(i, "nak")
    /\ UNCHANGED <<brokerVars, inbox, allMarkVars>>

(* nak(): deliver again at once; in the same outage it fails, too, which is *)
(* swallowed.                                                               *)
NakLands(i) ==
    /\ At(i, "nak") /\ GoesTo(i, "done")
    /\ state' = [state EXCEPT ![tasks[i].msg] = IF @ = "out" THEN "due" ELSE @]
    /\ UNCHANGED <<stream, count, inbox, allMarkVars, faults>>

(* Mutant: its failure kills the consumer loop.                             *)
NakKills(i) ==
    /\ At(i, "nak") /\ GoesTo(i, "dead")
    /\ UNCHANGED <<brokerVars, inbox, allMarkVars, faults>>

NakFails(i) ==
    /\ At(i, "nak") /\ GoesTo(i, "done")
    /\ UNCHANGED <<brokerVars, inbox, allMarkVars, faults>>

(* gather() returns when every handler has.                                 *)
BatchDone ==
    /\ tasks # <<>> /\ \A i \in 1..Len(tasks) : tasks[i].pc = "done"
    /\ tasks' = <<>>
    /\ UNCHANGED <<brokerVars, inbox, allMarkVars, faults>>

(* The process restarts: watermarks and what it fetched are gone.           *)
Restart ==
    /\ Fault("restart")
    /\ inbox' = <<>> /\ tasks' = <<>>
    /\ mark' = [s \in Sessions |-> 0] /\ tracked' = <<>>
    /\ since' = [s \in Sessions |-> Len(offered)]
    /\ missed' = missed \cup ToSet(inbox)
                   \cup {tasks[i].msg : i \in 1..Len(tasks)}
    /\ UNCHANGED <<brokerVars, offered>>

-----------------------------------------------------------------------------
Handle(i) == Drop(i) \/ Offer(i) \/ AckLands(i) \/ AckLost(i) \/ AckRaises(i)
               \/ NakLands(i) \/ NakFails(i)

Next ==
    \/ \E s \in Sessions : Publish(s)
    \/ \E m \in Messages : Deliver(m) \/ AckWaitExpires(m)
    \/ \E i \in 1..Batch : Handle(i)
    \/ Fetch \/ BatchDone \/ TransitLost \/ Restart

Spec == Init /\ [][Next]_vars

(* The event loop runs the consumer, and the broker delivers what it can.   *)
Fairness ==
    /\ \A m \in Messages : SF_vars(Deliver(m)) /\ WF_vars(AckWaitExpires(m))
    /\ WF_vars(\E i \in 1..Batch : Handle(i))
    /\ WF_vars(Fetch) /\ WF_vars(BatchDone)

FairSpec == Spec /\ Fairness

-----------------------------------------------------------------------------
(* The separator gets a session's spans in sequence and none twice, however *)
(* the broker redelivers and however acks fail, as long as the process runs *)
(* and the session's watermark is not evicted (consumer.py 57-59).          *)
OfferedInOrder ==
    \A s \in Sessions : \A i, j \in since[s] + 1..Len(offered) :
      i < j /\ Span(offered[i]).session = s /\ Span(offered[j]).session = s
        => Span(offered[i]).seq < Span(offered[j]).seq

(* A span the broker need not deliver again was offered, unless a fault     *)
(* took it from the client before: only that makes a span a "duplicate"     *)
(* that was never buffered (consumer.py 173-180).                           *)
SettledWasOffered ==
    \A m \in Published :
      state[m] = "settled" => m \in Unparseable \cup missed \/ Contains(offered, m)

(* Every message leaves the broker's care, or used up its deliveries: no    *)
(* redelivery goes on for ever and no message is forgotten.                 *)
EveryMessageSettled ==
    \A m \in Messages :
      m \in Published ~> state[m] = "settled" \/ count[m] = MaxDeliver

(* Every span reaches the separator, unless a fault took it on its way.     *)
EverySpanOffered ==
    \A m \in Messages :
      m \in Published ~> m \in Unparseable \cup missed \/ Contains(offered, m)
=============================================================================
