---------------------------- MODULE InterimChunker ----------------------------
(***************************************************************************)
(* From recognition results to spans: the sentence gate                    *)
(* (sessions/createSentenceSession.ts), which lets a result pass or not,   *)
(* and the chunker (usecases/InterimChunkOrchestratotr.ts), which cuts     *)
(* what is new in its text and gives it to the publisher.                  *)
(*                                                                         *)
(* The recognizer is external: each stream (segment) speaks utterances     *)
(* whose text grows with every result, the last of them final.  (That it   *)
(* may be revised is left out: the changed part is published again.)  A    *)
(* text is a sequence of Words, of which a result brings at most one.  Of  *)
(* what else the gate compares (punctuation, end time), it matters whether *)
(* the result differs in it; its heuristics and rate limit let any interim *)
(* pass or not.                                                            *)
(*                                                                         *)
(* One response may hold several results: the stream hands them over one   *)
(* after the other (burst), before any handler that awaits goes on.  Then  *)
(* the handlers go on in the order of the microtask queue (ready), before  *)
(* the next response, timer or connection; only the start of the publisher *)
(* takes longer.  Of the clock, what matters is how long ago the last span *)
(* was sent: under 5 ms (rapid), under throttleMs (fresh), or more (old).  *)
(* Definitions introduced as mutants are not part of the specification     *)
(* (README, "Mutants").                                                    *)
(***************************************************************************)
EXTENDS Naturals, FiniteSets, Sequences, SequencesExt

CONSTANTS
    Words,
    MaxLength,   \* bound: words of an utterance
    MaxSegment,  \* bound: segments
    MaxResults,  \* bound: results
    MaxFailures, \* bound: starts of the publisher that fail
    MaxCalls     \* bound: handlers under way at once

ASSUME ChunkerAssumption ==
    /\ MaxLength \in Nat /\ MaxSegment \in Nat
    /\ MaxResults \in Nat /\ MaxFailures \in Nat
    /\ MaxCalls \in Nat

VARIABLES
    lastTextByKey,    \* of each segment, the last text the gate has seen
    text,             \* the text that the next result is compared with
    currentSegmentId, \* 0: none yet
    queue,            \* the words not yet published
    sentAge,          \* the time since lastSentAt
    trailingTimer,    \* the segment it publishes under; 0: not set
    publisherStarted,
    call,             \* the calls of onSttResult and of the timer under way
    ready,            \* those among them that go on at once, in order
    burst,            \* the segment whose response is being handed over, or 0
    heard,            \* external: the utterance that each stream is in
    results, failures,
    spans,            \* history: the words published, each with its span's segment
    finals,           \* history: the words of final results
    odd               \* history: what happened that a property excepts

gateVars == <<lastTextByKey, heard, finals, results>>
textVars == <<text, currentSegmentId, queue>>
vars == <<lastTextByKey, text, currentSegmentId, queue, sentAge, trailingTimer,
          publisherStarted, call, ready, burst, heard, results, failures,
          spans, finals, odd>>

Segments == 1 .. MaxSegment
Calls == 1 .. MaxCalls
Texts == BoundedSeq(Words, MaxLength)
Results == [seg : Segments, utt : Nat, words : Texts, final : BOOLEAN]
Nothing == [seg |-> 0, utt |-> 0, words |-> <<>>, final |-> FALSE]
Idle == [at |-> "idle", then |-> "none", seg |-> 0, result |-> Nothing]
Tokens == [seg : Segments, utt : Nat, pos : 1 .. MaxLength, word : Words]

Underway == [at : {"start", "ensure", "publish", "return"},
             then : {"boundary", "final", "interim", "timer"},
             seg : Segments, result : Results \cup {Nothing}]

TypeOK ==
    /\ lastTextByKey \in [Segments -> Texts] /\ text \in Texts
    /\ currentSegmentId \in 0 .. MaxSegment /\ queue \in Seq(Tokens)
    /\ sentAge \in {"rapid", "fresh", "old"} /\ trailingTimer \in 0 .. MaxSegment
    /\ publisherStarted \in BOOLEAN
    /\ call \in [Calls -> {Idle} \cup Underway]
    /\ ready \in Seq(Calls) /\ burst \in 0 .. MaxSegment
    /\ heard \in [Segments -> [utt : Nat, words : Texts]]
    /\ results \in 0 .. MaxResults /\ failures \in 0 .. MaxFailures
    /\ spans \in Seq([under : Segments, token : Tokens])
    /\ finals \subseteq Tokens
    /\ odd \subseteq {"repeated", "overlapped", "resumed", "cold"}

Init ==
    /\ lastTextByKey = [s \in Segments |-> <<>>] /\ text = <<>>
    /\ currentSegmentId = 0 /\ queue = <<>> /\ sentAge = "old" /\ trailingTimer = 0
    /\ publisherStarted = FALSE
    /\ call = [c \in Calls |-> Idle] /\ ready = <<>> /\ burst = 0
    /\ heard = [s \in Segments |-> [utt |-> 0, words |-> <<>>]]
    /\ results = 0 /\ failures = 0 /\ spans = <<>> /\ finals = {} /\ odd = {}

-----------------------------------------------------------------------------
(* computeDelta: what is left of the new text between the beginning and the *)
(* end that it shares with the old one.                                     *)
Shared(p, q, n) == n <= Len(p) /\ n <= Len(q) /\ SubSeq(p, 1, n) = SubSeq(q, 1, n)
SharedStart(p, q) == Max({n \in 0 .. Len(q) : Shared(p, q, n)})
SharedEnd(p, q) ==
    LET left == Min({Len(p), Len(q)}) - SharedStart(p, q)
    IN  Max({n \in 0 .. left : Shared(Reverse(p), Reverse(q), n)})

Token(r, i) == [seg |-> r.seg, utt |-> r.utt, pos |-> i, word |-> r.words[i]]
TokensOf(r) == [i \in 1 .. Len(r.words) |-> Token(r, i)]
Delta(old, r) ==
    SubSeq(TokensOf(r), SharedStart(old, r.words) + 1,
           Len(r.words) - SharedEnd(old, r.words))

-----------------------------------------------------------------------------
(* publishSpan begins: it awaits the publisher's start, which every call    *)
(* asks for until one has succeeded.  rest are the calls ready after c.     *)
Done(c, rest) == call' = [call EXCEPT ![c] = Idle] /\ ready' = rest
GoesOn(c, at, rest) ==
    call' = [call EXCEPT ![c].at = at] /\ ready' = Append(rest, c)

PublishSpan(c, then, seg, result, rest) ==
    /\ call' = [call EXCEPT ![c] =
         [at |-> IF publisherStarted THEN "ensure" ELSE "start",
          then |-> then, seg |-> seg, result |-> result]]
    /\ ready' = IF publisherStarted THEN Append(rest, c) ELSE rest

\* Mutant: only finals are exempt from the rapid-publish guard.
ForcedFinal(then) == then = "final"

(* It goes on: the flush of a boundary or a final is never skipped.         *)
Forced(then) == then \in {"boundary", "final"}

Skips(c) == ~Forced(call[c].then) /\ sentAge = "rapid"

Sends(c) ==
    /\ queue' = <<>> /\ sentAge' = "rapid"
    /\ spans' = spans \o [i \in 1 .. Len(queue) |->
                             [under |-> call[c].seg, token |-> queue[i]]]

AfterStart(c, rest) ==
    \/ /\ Skips(c)
       /\ GoesOn(c, "return", rest) /\ UNCHANGED <<queue, sentAge, spans>>
    \/ /\ ~Skips(c)
       /\ Sends(c) /\ GoesOn(c, "publish", rest)

-----------------------------------------------------------------------------
(* onSttResult from the point where the segment is current: take what is    *)
(* new compared with base, and publish it or leave it to the timer.         *)
Accept(c, r, base, rest) ==
    LET slice == Delta(base, r)
    IN  /\ currentSegmentId' = r.seg /\ text' = r.words /\ queue' = queue \o slice
        /\ \/ /\ slice = <<>>
              /\ Done(c, rest) /\ UNCHANGED trailingTimer
           \/ /\ slice # <<>> /\ r.final
              /\ trailingTimer' = 0 /\ PublishSpan(c, "final", r.seg, Nothing, rest)
           \/ /\ slice # <<>> /\ ~r.final /\ sentAge = "old"
              /\ PublishSpan(c, "interim", r.seg, Nothing, rest)
              /\ UNCHANGED trailingTimer
           \/ /\ slice # <<>> /\ ~r.final /\ sentAge # "old"
              /\ trailingTimer' = r.seg /\ Done(c, rest)

\* Mutant: the baseline survives a final and a boundary.
KeepsBaseline == text

Baseline == <<>>

(* What follows a publishSpan: the rest of onSttResult, the new baseline    *)
(* after a final, the timer after an interim.                               *)
Returns(c, rest) ==
    LET k == call[c]
    IN  \/ /\ k.then = "boundary"
           /\ Accept(c, k.result, Baseline, rest)
        \/ /\ k.then = "final"
           /\ text' = Baseline /\ Done(c, rest)
           /\ UNCHANGED <<currentSegmentId, queue, trailingTimer>>
        \/ /\ k.then = "interim"
           /\ trailingTimer' = k.seg /\ Done(c, rest) /\ UNCHANGED textVars
        \/ /\ k.then = "timer"
           /\ Done(c, rest) /\ UNCHANGED <<textVars, trailingTimer>>

-----------------------------------------------------------------------------
(* A result of stream r.seg.  The gate drops one whose text it has just     *)
(* seen (unless it differs in something else), and lets a final pass.       *)
Hypotheses(seg, final) ==
    LET old == heard[seg].words
        grown == {Append(old, w) : w \in Words} \cap Texts
    IN  {[seg |-> seg, utt |-> heard[seg].utt, words |-> new, final |-> final] :
            new \in (grown \cup {old}) \ {<<>>}}

Duplicate(r, differs) == lastTextByKey[r.seg] = r.words /\ ~differs
Boundary(r) == currentSegmentId # 0 /\ currentSegmentId # r.seg

Oddities(r, ignored, accepted) ==
    {o \in {"repeated", "overlapped", "resumed", "cold"} :
      \/ o = "repeated" /\ r.final
         /\ (ignored \/ (accepted /\ ~Boundary(r) /\ text = r.words))
      \/ o = "overlapped" /\ accepted
         /\ \E d \in Calls : call[d].then \in {"boundary", "final"}
      \/ o = "resumed" /\ accepted /\ r.seg < currentSegmentId
      \/ o = "cold" /\ accepted /\ Boundary(r)
         /\ (~publisherStarted \/ \E d \in Calls : call[d].at = "start")}

Speaks(r) ==
    /\ heard' = [heard EXCEPT ![r.seg] =
         IF r.final THEN [utt |-> heard[r.seg].utt + 1, words |-> <<>>]
         ELSE [heard[r.seg] EXCEPT !.words = r.words]]
    /\ finals' = IF r.final THEN finals \cup ToSet(TokensOf(r)) ELSE finals

OnSttResult(c, r) ==
    \/ /\ Boundary(r) /\ queue # <<>>
       /\ PublishSpan(c, "boundary", currentSegmentId, r, ready)
       /\ UNCHANGED <<textVars, trailingTimer>>
    \/ /\ Boundary(r) /\ queue = <<>> /\ Accept(c, r, Baseline, ready)
    \/ /\ ~Boundary(r) /\ Accept(c, r, text, ready)

FreeCalls == {c \in Calls : call[c] = Idle}
NewCall == Min(FreeCalls)
AtRest == ready = <<>> /\ burst = 0

HandleInterim(c, r, differs, passes, more) ==
    LET ignored == Duplicate(r, differs)
        accepted == ~ignored /\ (r.final \/ passes)
    IN  /\ results < MaxResults /\ (AtRest \/ burst = r.seg)
        /\ FreeCalls # {}
        /\ results' = results + 1 /\ Speaks(r) /\ burst' = more
        /\ lastTextByKey' = [lastTextByKey EXCEPT ![r.seg] = r.words]
        /\ odd' = odd \cup Oddities(r, ignored, accepted)
        /\ \/ accepted /\ OnSttResult(c, r)
           \/ ~accepted /\ UNCHANGED <<textVars, trailingTimer, call, ready>>
        /\ UNCHANGED <<sentAge, publisherStarted, failures, spans>>

Result ==
    \E s \in Segments, f, differs, passes \in BOOLEAN : \E r \in Hypotheses(s, f) :
        \E more \in {0, s} : HandleInterim(NewCall, r, differs, passes, more)

(* The response ends.                                                       *)
ResponseEnds ==
    /\ burst # 0 /\ burst' = 0
    /\ UNCHANGED <<gateVars, textVars, sentAge, trailingTimer, publisherStarted,
                   call, ready, failures, spans, odd>>

-----------------------------------------------------------------------------
(* The call at the head of the microtask queue goes on.                     *)
Resume(c) ==
    /\ burst = 0 /\ ready # <<>> /\ Head(ready) = c
    /\ \/ /\ call[c].at = "ensure"
          /\ AfterStart(c, Tail(ready)) /\ UNCHANGED <<text, currentSegmentId, trailingTimer>>
       \/ /\ call[c].at = "publish"
          /\ GoesOn(c, "return", Tail(ready))
          /\ UNCHANGED <<textVars, sentAge, spans, trailingTimer>>
       \/ /\ call[c].at = "return"
          /\ Returns(c, Tail(ready)) /\ UNCHANGED <<sentAge, spans>>
    /\ UNCHANGED <<gateVars, publisherStarted, burst, failures, odd>>

(* The publisher's start that call c awaits returns, or raises: then its    *)
(* words stay in the queue.                                                 *)
StartReturns(c) ==
    /\ AtRest /\ call[c].at = "start"
    /\ publisherStarted' = TRUE
    /\ AfterStart(c, ready)
    /\ UNCHANGED <<gateVars, text, currentSegmentId, trailingTimer, burst,
                   failures, odd>>

StartFails(c) ==
    /\ AtRest /\ call[c].at = "start" /\ failures < MaxFailures
    /\ failures' = failures + 1
    /\ GoesOn(c, "return", ready)
    /\ UNCHANGED <<gateVars, textVars, sentAge, trailingTimer, publisherStarted,
                   burst, spans, odd>>

(* The trailing timer publishes if the last span is long enough ago.  It    *)
(* fires debounceMs after a result, or later when the loop was busy.        *)
TimerFires ==
    /\ AtRest /\ trailingTimer # 0 /\ FreeCalls # {}
    /\ trailingTimer' = 0
    /\ \/ sentAge = "old" /\ PublishSpan(NewCall, "timer", trailingTimer, Nothing, ready)
       \/ UNCHANGED <<call, ready>>
    /\ UNCHANGED <<gateVars, textVars, sentAge, publisherStarted, burst, failures,
                   spans, odd>>

TimePasses ==
    /\ AtRest /\ sentAge # "old"
    /\ sentAge' = IF sentAge = "rapid" THEN "fresh" ELSE "old"
    /\ UNCHANGED <<gateVars, textVars, trailingTimer, publisherStarted, call, ready,
                   burst, failures, spans, odd>>

Next ==
    \/ Result \/ ResponseEnds \/ TimerFires \/ TimePasses
    \/ \E c \in Calls : Resume(c) \/ StartReturns(c) \/ StartFails(c)

Spec == Init /\ [][Next]_vars

-----------------------------------------------------------------------------
(* A span holds words of the segment it is published under, although its    *)
(* words were queued by other calls (148-151): unless the segment changed   *)
(* before the publisher had started.                                        *)
SpanOfOneSegment ==
    "cold" \notin odd =>
      \A i \in 1 .. Len(spans) : spans[i].token.seg = spans[i].under

(* Once no call is under way, what the recognizer said finally was given to *)
(* the publisher or waits for its start.                                    *)
Published == [i \in 1 .. Len(spans) |-> spans[i].token] \o queue
Settled == AtRest /\ \A c \in Calls : call[c] = Idle
FinalsAreDelivered == Settled => finals \subseteq ToSet(Published)

(* No word is published twice, and those of an utterance are in order.      *)
OnceInOrder ==
    LET p == Published
    IN  \A i, j \in 1 .. Len(p) :
            i < j /\ p[i].seg = p[j].seg =>
              \/ p[i].utt < p[j].utt
              \/ p[i].utt = p[j].utt /\ p[i].pos < p[j].pos

(* What was said is published once and in order (41-43, 50-52, 72-78), if   *)
(* finals bring something new, no result overtakes the flush of a boundary  *)
(* or final before it, and none of a replaced stream comes late.            *)
SpokenTextOnce ==
    /\ odd \cap {"repeated", "overlapped"} = {} => FinalsAreDelivered
    /\ odd \cap {"repeated", "overlapped", "resumed"} = {} => OnceInOrder
=============================================================================
