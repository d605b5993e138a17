-------------------------- MODULE SentenceSeparator --------------------------
(***************************************************************************)
(* The sentence separator of the python service (SentenceSeparator in      *)
(* services/python/src/separator/kss_separator.py): deltas of recognised   *)
(* text are buffered per (session, segment), split into sentences by KSS   *)
(* in a worker thread, and pushed on.                                      *)
(*                                                                         *)
(* Five coroutines share the SegmentState objects: the store loop, the     *)
(* flush loop, the push loop, the timeout sweeper, and close_session       *)
(* called by the stop handler.  An action is the code between two awaits   *)
(* that can suspend: put() on an unbounded queue cannot, the await of      *)
(* asyncio.to_thread(splitter) can.  Text is a sequence of delta numbers.  *)
(* The splitter is external: it may cut its text anywhere, return nothing  *)
(* or raise.                                                               *)
(* Definitions introduced as mutants are not part of the specification     *)
(* (README, "Mutants").                                                    *)
(***************************************************************************)
EXTENDS Naturals, Sequences, FiniteSets, SequencesExt

CONSTANTS
    Sessions,
    MaxDeltas,    \* bound: deltas offered, over all sessions
    MaxSegment,   \* bound: segments of a session are 1..MaxSegment
    InputSize,    \* capacity of self.queue (1000 in the code)
    MaxFailures,  \* bound: failures of the splitter and of translate/push
    MaxQueued     \* bound: no time-out passes while this many states wait

ASSUME SeparatorAssumption ==
    /\ MaxDeltas \in Nat \ {0} /\ MaxSegment \in Nat \ {0}
    /\ MaxFailures \in Nat /\ MaxQueued \in Nat \ {0}
    /\ InputSize \in Nat \ {0}

VARIABLES
    deltas,      \* the deltas offered, in order
    segment,     \* the segment each session's recogniser is in
    input,       \* self.queue: numbers of deltas not stored yet
    stateByKey,  \* self.state_by_key: object of each key, 0 when absent
    state,       \* the SegmentState objects, numbered as they are created
    created,     \* number of objects created
    stateQueue,  \* self.state_queue
    flush,       \* the flush loop: object and text the splitter works on
    sentences,   \* self.sentence_queue
    pushed,      \* the text handed to the pusher, in order
    lost,        \* deltas of sentences whose translate/push raised
    failures,    \* failures so far
    disturbed    \* history: a segment was dropped from the map while the
                 \* splitter held its text, or the splitter failed on the
                 \* text of one dropped before

vars == <<deltas, segment, input, stateByKey, state, created, stateQueue,
          flush, sentences, pushed, lost, failures, disturbed>>

Ids == 1..MaxDeltas
Segments == 1..MaxSegment
Keys == Sessions \X Segments
NoFlush == [obj |-> 0, text |-> <<>>]
Empty == [buffer |-> <<>>, forceClosed |-> FALSE, sequence |-> 0]

IdsOf(text) == {text[i] : i \in 1..Len(text)}
Sentence == [text : Seq(Ids), session : Sessions, segment : Segments,
             sequence : Ids]

TypeOK ==
    /\ deltas \in Seq([session : Sessions, segment : Segments])
    /\ segment \in [Sessions -> Segments]
    /\ input \in Seq(Ids)
    /\ stateByKey \in [Keys -> 0..created]
    /\ created \in 0..MaxDeltas
    /\ state \in [Ids -> [buffer : Seq(Ids), forceClosed : BOOLEAN,
                          sequence : 0..MaxDeltas]]
    /\ stateQueue \in Seq(1..created)
    /\ flush.obj \in 0..created /\ flush.text \in Seq(Ids)
    /\ sentences \in Seq(Sentence) /\ pushed \in Seq(Ids)
    /\ lost \in SUBSET Ids
    /\ failures \in 0..MaxFailures /\ disturbed \in BOOLEAN

Init ==
    /\ deltas = <<>> /\ segment = [s \in Sessions |-> 1] /\ input = <<>>
    /\ stateByKey = [k \in Keys |-> 0]
    /\ state = [o \in Ids |-> Empty] /\ created = 0
    /\ stateQueue = <<>> /\ flush = NoFlush
    /\ sentences = <<>> /\ pushed = <<>> /\ lost = {} /\ failures = 0
    /\ disturbed = FALSE

-----------------------------------------------------------------------------
Mapped == {stateByKey[k] : k \in Keys} \ {0}
ObjectsOf(keys) == {stateByKey[k] : k \in keys} \ {0}
WithText(objs) == {o \in objs : state[o].buffer # <<>>}

(* The numbers of a set in order (there is one such sequence).  Dict        *)
(* iteration meets objects so: as they were created.                        *)
InOrder(S) ==
    {q \in [1..Cardinality(S) -> S] : \A i, j \in 1..Cardinality(S) : i < j => q[i] < q[j]}

(* Mutant: the dropped states are queued but not marked.                    *)
Unmarked(objs) == state

(* force_closed = True for the objects of objs.                             *)
Forced(objs) ==
    [o \in Ids |-> [state[o] EXCEPT !.forceClosed = @ \/ o \in objs]]

(* Dropping objects from the map, perhaps the one the splitter works on.    *)
Drops(objs) == disturbed' = (disturbed \/ flush.obj \in objs)

(* offer(): the recogniser of session s goes on in its segment or was       *)
(* rotated to the next.                                                     *)
Offer(s) ==
    /\ Len(deltas) < MaxDeltas /\ Len(input) < InputSize
    /\ \E seg \in {segment[s], segment[s] + 1} \cap Segments :
         /\ deltas' = Append(deltas, [session |-> s, segment |-> seg])
         /\ segment' = [segment EXCEPT ![s] = seg]
    /\ input' = Append(input, Len(deltas) + 1)
    /\ UNCHANGED <<stateByKey, state, created, stateQueue, flush, sentences,
                   pushed, lost, failures, disturbed>>

(* Mutant: the metadata is that of the first delta.                         *)
StoredFirst(st, d) ==
    [st EXCEPT !.buffer = Append(@, d),
               !.sequence = IF @ = 0 THEN d ELSE @]

(* Mutant: a new segment leaves the one before it in the map.               *)
NoStaleKeys(k) == {}

(* One event of the store loop.  When the key is new, the session's other   *)
(* segments are dropped, and force-flushed if they hold text.               *)
StaleKeys(k) ==
    IF stateByKey[k] # 0 THEN {} ELSE {j \in Keys : j[1] = k[1] /\ j # k}

(* state.buffer + event.source_text, and the event's metadata.              *)
Stored(st, d) ==
    [st EXCEPT !.buffer = Append(@, d), !.sequence = d]

StoreEvent ==
    /\ input # <<>>
    /\ input' = Tail(input)
    /\ LET d     == Head(input)
           key   == <<deltas[d].session, deltas[d].segment>>
           stale == ObjectsOf(StaleKeys(key))
           full  == WithText(stale)
           isNew == stateByKey[key] = 0
           obj   == IF isNew THEN created + 1 ELSE stateByKey[key]
       IN /\ Drops(stale)
          /\ stateByKey' = [k \in Keys |-> IF k = key THEN obj
                                           ELSE IF k \in StaleKeys(key) THEN 0
                                           ELSE stateByKey[k]]
          /\ created' = IF isNew THEN created + 1 ELSE created
          /\ state' = [Forced(full) EXCEPT ![obj] = Stored(@, d)]
          /\ \E forced \in InOrder(full) : stateQueue' = stateQueue \o forced \o <<obj>>
    /\ UNCHANGED <<deltas, segment, flush, sentences, pushed, lost, failures>>

-----------------------------------------------------------------------------
(* The flush loop takes a state: snapshot and clear, then the splitter runs *)
(* in a thread.  A state without text is skipped.                           *)
FlushTakes ==
    /\ flush = NoFlush /\ stateQueue # <<>>
    /\ stateQueue' = Tail(stateQueue)
    /\ LET o == Head(stateQueue) IN
         IF state[o].buffer = <<>>
         THEN UNCHANGED <<flush, state>>
         ELSE /\ flush' = [obj |-> o, text |-> state[o].buffer]
              /\ state' = [state EXCEPT ![o].buffer = <<>>]
    /\ UNCHANGED <<deltas, segment, input, stateByKey, created, sentences,
                   pushed, lost, failures, disturbed>>

(* The splits of a text into sentences: each by where its sentences end.    *)
Pieces(text, ends) ==
    [i \in 1..Len(ends) |-> SubSeq(text, IF i = 1 THEN 1 ELSE ends[i - 1] + 1, ends[i])]

Splits(text) ==
    {Pieces(text, ends) :
       ends \in UNION {InOrder(cuts \cup {Len(text)}) : cuts \in SUBSET (1..Len(text) - 1)}}

(* Mutants: the last sentence is always held back; the tail overwrites what *)
(* arrived meanwhile; the tail goes behind it.                              *)
ShippedAllButLast(n, closed) == n - 1
Overwritten(tail, buffer) == tail
RemergedBehind(tail, buffer) == buffer \o tail

(* How many of n sentences are shipped.                                     *)
Shipped(n, closed) == IF closed THEN n ELSE n - 1

(* The unfinished tail goes back in front of what arrived meanwhile.        *)
Remerged(tail, buffer) == tail \o buffer

(* The splitter returned sentences.  Whether the text ends a sentence       *)
(* (_is_sentence_closed) is chosen anew whenever it is split: the code      *)
(* decides the same text the same way, the model allows more.               *)
SplitReturns ==
    /\ flush # NoFlush
    /\ \E parts \in Splits(flush.text), ends \in BOOLEAN :
         LET o      == flush.obj
             closed == state[o].forceClosed \/ ends
             key    == deltas[Last(flush.text)]
         IN /\ sentences' = sentences \o
                 [i \in 1..Shipped(Len(parts), closed) |->
                    [text |-> parts[i], session |-> key.session,
                     segment |-> key.segment, sequence |-> state[o].sequence]]
            /\ state' = [state EXCEPT
                 ![o].forceClosed = FALSE,
                 ![o].buffer = IF closed THEN @ ELSE Remerged(Last(parts), @)]
    /\ flush' = NoFlush
    /\ UNCHANGED <<deltas, segment, input, stateByKey, created, stateQueue,
                   pushed, lost, failures, disturbed>>

(* The splitter raised or returned nothing: the text goes back; nobody      *)
(* queues the state again.                                                  *)
SplitFails ==
    /\ flush # NoFlush /\ failures < MaxFailures
    /\ failures' = failures + 1
    /\ disturbed' = (disturbed \/ flush.obj \notin Mapped)
    /\ state' = [state EXCEPT ![flush.obj].buffer = Remerged(flush.text, @)]
    /\ flush' = NoFlush
    /\ UNCHANGED <<deltas, segment, input, stateByKey, created, stateQueue,
                   sentences, pushed, lost>>

-----------------------------------------------------------------------------
(* One sweep: the mapped states with text that heard nothing for            *)
(* flush_timeout_seconds, whichever they are, are force-flushed.            *)
Sweep(due) ==
    /\ due # {} /\ due \subseteq WithText(Mapped)
    /\ Len(stateQueue) < MaxQueued
    /\ state' = Forced(due)
    /\ \E forced \in InOrder(due) : stateQueue' = stateQueue \o forced
    /\ UNCHANGED <<deltas, segment, input, stateByKey, created, flush,
                   sentences, pushed, lost, failures, disturbed>>

(* close_session(): drop the session's states, force-flush those with text. *)
CloseSession(s) ==
    LET keys == {k \in Keys : k[1] = s /\ stateByKey[k] # 0}
        full == WithText(ObjectsOf(keys))
    IN /\ keys # {} /\ Drops(ObjectsOf(keys))
       /\ stateByKey' = [k \in Keys |-> IF k \in keys THEN 0 ELSE stateByKey[k]]
       /\ state' = Forced(full)
       /\ \E forced \in InOrder(full) : stateQueue' = stateQueue \o forced
       /\ UNCHANGED <<deltas, segment, input, created, flush, sentences, pushed,
                      lost, failures>>

-----------------------------------------------------------------------------
(* The push loop: translate and push the oldest sentence, or lose it.       *)
Push ==
    /\ sentences # <<>>
    /\ sentences' = Tail(sentences)
    /\ pushed' = pushed \o Head(sentences).text
    /\ UNCHANGED <<deltas, segment, input, stateByKey, state, created,
                   stateQueue, flush, lost, failures, disturbed>>

PushFails ==
    /\ sentences # <<>> /\ failures < MaxFailures
    /\ failures' = failures + 1
    /\ sentences' = Tail(sentences)
    /\ lost' = lost \cup IdsOf(Head(sentences).text)
    /\ UNCHANGED <<deltas, segment, input, stateByKey, state, created,
                   stateQueue, flush, pushed, disturbed>>

Next ==
    \/ \E s \in Sessions : Offer(s) \/ CloseSession(s)
    \/ StoreEvent
    \/ FlushTakes \/ SplitReturns \/ SplitFails
    \/ \E due \in SUBSET Ids : Sweep(due)
    \/ Push \/ PushFails

Spec == Init /\ [][Next]_vars

(* The event loop runs each loop that can go on, the worker thread returns, *)
(* and time passes.                                                         *)
Fairness ==
    /\ WF_vars(StoreEvent)
    /\ WF_vars(FlushTakes)
    /\ WF_vars(SplitReturns \/ SplitFails)
    /\ \A o \in Ids : WF_vars(Sweep({o}))
    /\ WF_vars(Push \/ PushFails)

FairSpec == Spec /\ Fairness

-----------------------------------------------------------------------------
(* The text that has left, in order: what was pushed, then sentence after   *)
(* sentence.                                                                *)
Out(m) == IF m = 0 THEN pushed ELSE sentences[m].text

Spoken == UNION {IdsOf(Out(m)) : m \in 0..Len(sentences)}

(* Every place of a text: in the input, in the splitter, in what has left,  *)
(* or in a buffer.                                                          *)
Parts ==
    {<<"input", 0>>, <<"splitter", 0>>}
      \cup ({"out"} \X (0..Len(sentences))) \cup ({"buffer"} \X Ids)

TextOf(part) ==
    CASE part[1] = "input"    -> input
      [] part[1] = "splitter" -> flush.text
      [] part[1] = "out"      -> Out(part[2])
      [] part[1] = "buffer"   -> state[part[2]].buffer

Places == UNION {{part} \X (1..Len(TextOf(part))) : part \in Parts}

HeldAt(place) == TextOf(place[1])[place[2]]

(* Every offered delta is in exactly one place, unless its push failed: the  *)
(* snapshot-and-clear of the flush loop neither drops nor repeats what the   *)
(* store loop adds while the splitter runs (kss_separator.py 234-237).       *)
EachDeltaOnce ==
    /\ \A d \in 1..Len(deltas) : d \in lost \/ \E place \in Places : HeldAt(place) = d
    /\ \A p, q \in Places : HeldAt(p) = HeldAt(q) => p = q
    /\ \A place \in Places : HeldAt(place) \notin lost

(* A session's text leaves in the order it was spoken, across segments,     *)
(* re-merged tails, time-outs, failures and the end of the session.         *)
SpokenOrder ==
    \A m, n \in 0..Len(sentences) :
      \A i \in 1..Len(Out(m)), j \in 1..Len(Out(n)) :
        /\ m < n \/ (m = n /\ i < j)
        /\ deltas[Out(m)[i]].session = deltas[Out(n)[j]].session
        => Out(m)[i] < Out(n)[j]

(* The map holds one segment of a session at a time.                        *)
OneSegmentPerSession ==
    \A k, j \in Keys :
        k[1] = j[1] /\ stateByKey[k] # 0 /\ stateByKey[j] # 0 => k = j

(* A sentence never mixes sessions or segments, and the sequence number it  *)
(* carries is one of its own segment, not older than its text: a segment    *)
(* ends before the next one of its session begins.                          *)
SentenceOfOneSegment ==
    /\ OneSegmentPerSession
    /\ \A i \in 1..Len(sentences) :
         LET m == sentences[i] IN
           /\ \A d \in IdsOf(m.text) \cup {m.sequence} :
                deltas[d].session = m.session /\ deltas[d].segment = m.segment
           /\ \A d \in IdsOf(m.text) : d <= m.sequence

(* A segment that is no longer mapped leaves no text behind: its state is    *)
(* queued to be flushed and marked so that all of it is shipped, or the      *)
(* splitter has it.  (kss_separator.py 170-173 and 308-312: a rotated or     *)
(* stopped segment is force-flushed "instead of orphaning it forever".)      *)
DroppedIsFlushed ==
    \A o \in 1..created :
        state[o].buffer # <<>> /\ o \notin Mapped =>
            o \in IdsOf(stateQueue) /\ state[o].forceClosed

(* The same, as far as the code goes: unless a segment was dropped while the *)
(* splitter held its text.                                                   *)
NoStrandedText == disturbed \/ DroppedIsFlushed

(* Everything offered is shipped in the end, however long the speaker       *)
(* pauses inside a sentence, however the splitter cuts and whichever         *)
(* segments are dropped, unless the splitter held the text of one of them.   *)
EveryDeltaShipped ==
    \A d \in Ids :
        d \in IdsOf(input) ~> disturbed \/ d \in Spoken \cup lost

(* What has left is what the feed has spoken.                               *)
Feed == INSTANCE SentenceFeed WITH spoken <- Spoken

(* The separator implements the feed of SentenceFeed: each session hears    *)
(* its text in turn, a part of one segment at a time and, as long as no     *)
(* segment was dropped while the splitter held its text, without a gap.     *)
ImplementsSentenceFeed == Feed!FeedSpec
=============================================================================
