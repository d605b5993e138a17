------------------------ MODULE PublishBuffer_proofs ------------------------
(***************************************************************************)
(* Proofs about PublishBuffer, for every number of spans, capacity, time   *)
(* to live, transit time and duplicate window that satisfy its assumption. *)
(***************************************************************************)
EXTENDS PublishBuffer, TLAPS

(* The queue q is the last Len(q) of the spans 1..n.                        *)
Recent(q, n) ==
    /\ q \in Seq(Spans)
    /\ Len(q) <= n
    /\ \A i \in 1..Len(q) : q[i] = n - Len(q) + i

QueueInv ==
    /\ Recent(queue, offered)
    /\ Len(queue) <= MaxBuffered
    /\ stopped => queue = <<>>

(* Broker, connection, attempt and queue hold spans in this order.          *)
HeadInv ==
    /\ head <= offered
    /\ queue # <<>> => head <= queue[1]

WireInv ==
    /\ \A i \in 1..Len(wire) : wire[i].span <= head
    /\ \A i, j \in 1..Len(wire) : i < j => wire[i].span <= wire[j].span

StreamInv ==
    /\ \A i \in 1..Len(stream) : stream[i] <= head
    /\ \A i \in 1..Len(stream), j \in 1..Len(wire) : stream[i] <= wire[j].span
    /\ \A i, j \in 1..Len(stream) : i < j => stream[i] < stream[j]

(* A span stored earlier is still inside the duplicate window when another  *)
(* request for it arrives.                                                  *)
AgeInv ==
    /\ \A i \in 1..Len(wire) :
         wire[i].span \in Stored =>
             storedAge[wire[i].span] <= TTL + wire[i].age
    /\ \A i \in 1..Len(queue) :
         queue[i] \in Stored /\ age[queue[i]] <= TTL =>
             storedAge[queue[i]] <= age[queue[i]]

IInv == TypeOK /\ QueueInv /\ HeadInv /\ WireInv /\ StreamInv /\ AgeInv

(* A connection closes by stop() or is lost, and carries nothing then; what  *)
(* the awaited publish of an open one answered for is in the stream.        *)
ReplyInv ==
    /\ conn = "closed" => stopped
    /\ conn = "lost" => wire = <<>>
    /\ conn = "open" /\ pc = "sending" /\ settled => head \in Stored

-----------------------------------------------------------------------------
(* Dropping the k oldest spans of a recent window leaves a recent window.   *)
LEMMA RecentSuffix ==
    ASSUME NEW q, NEW n \in Nat, Recent(q, n), NEW k \in 0..Len(q)
    PROVE  /\ SubSeq(q, k + 1, Len(q)) \in Seq(Spans)
           /\ Len(SubSeq(q, k + 1, Len(q))) = Len(q) - k
           /\ \A i \in 1..(Len(q) - k) : SubSeq(q, k + 1, Len(q))[i] = q[k + i]
           /\ Recent(SubSeq(q, k + 1, Len(q)), n)
<1> DEFINE r == SubSeq(q, k + 1, Len(q))
<1>1. q \in Seq(Spans) /\ Len(q) \in Nat
  BY DEF Recent
<1>2. Len(r) = Len(q) - k /\ r \in Seq(Spans)
  BY <1>1
<1>3. \A i \in 1..(Len(q) - k) : r[i] = q[k + i]
  BY <1>1
<1> HIDE DEF r
<1>4. ASSUME NEW i \in 1..Len(r)
      PROVE  r[i] = n - Len(r) + i
  <2>1. i \in 1..(Len(q) - k) /\ k + i \in 1..Len(q)
    BY <1>1, <1>2
  <2>2. r[i] = q[k + i]
    BY <2>1, <1>3
  <2>3. q[k + i] = n - Len(q) + (k + i)
    BY <2>1 DEF Recent
  <2> QED BY <2>1, <2>2, <2>3, <1>1, <1>2
<1>5. Recent(r, n)
  <2>1. Len(r) <= n
    BY <1>1, <1>2 DEF Recent
  <2> QED BY <2>1, <1>2, <1>4 DEF Recent
<1> QED BY <1>2, <1>3, <1>5 DEF r

(* Appending the next span extends it.                                      *)
LEMMA RecentAppend ==
    ASSUME NEW q, NEW n \in Nat, Recent(q, n), n + 1 \in Spans
    PROVE  Recent(Append(q, n + 1), n + 1)
<1>1. q \in Seq(Spans) /\ Len(q) \in Nat
  BY DEF Recent
<1>2. /\ Append(q, n + 1) \in Seq(Spans)
      /\ Len(Append(q, n + 1)) = Len(q) + 1
      /\ Append(q, n + 1)[Len(q) + 1] = n + 1
      /\ \A i \in 1..Len(q) : Append(q, n + 1)[i] = q[i]
  BY <1>1
<1>3. ASSUME NEW i \in 1..(Len(q) + 1)
      PROVE  Append(q, n + 1)[i] = (n + 1) - (Len(q) + 1) + i
  <2>1. CASE i = Len(q) + 1
    BY <2>1, <1>1, <1>2
  <2>2. CASE i # Len(q) + 1
    <3>1. i \in 1..Len(q)
      BY <2>2, <1>1
    <3> QED BY <3>1, <1>1, <1>2 DEF Recent
  <2> QED BY <2>1, <2>2
<1> QED BY <1>1, <1>2, <1>3 DEF Recent

(* Tail is the suffix without the oldest span.                              *)
LEMMA RecentTail ==
    ASSUME NEW q, NEW n \in Nat, Recent(q, n), q # <<>>
    PROVE  /\ Recent(Tail(q), n)
           /\ Len(Tail(q)) = Len(q) - 1
           /\ \A i \in 1..(Len(q) - 1) : Tail(q)[i] = q[i + 1]
<1>1. q \in Seq(Spans) /\ Len(q) \in Nat /\ Len(q) > 0
  BY DEF Recent
<1>2. /\ Tail(q) \in Seq(Spans) /\ Len(Tail(q)) = Len(q) - 1
      /\ \A i \in 1..(Len(q) - 1) : Tail(q)[i] = q[i + 1]
  BY <1>1
<1>3. ASSUME NEW i \in 1..Len(Tail(q))
      PROVE  Tail(q)[i] = n - Len(Tail(q)) + i
  <2>1. i + 1 \in 1..Len(q) /\ Tail(q)[i] = q[i + 1]
    BY <1>1, <1>2
  <2> QED BY <2>1, <1>1, <1>2 DEF Recent
<1> QED BY <1>1, <1>2, <1>3 DEF Recent

(* What a sequence holds, and what it holds after one more element.         *)
LEMMA SeqElements ==
    ASSUME NEW S, NEW w \in Seq(S)
    PROVE  /\ Len(w) \in Nat
           /\ \A i \in 1..Len(w) : w[i] \in S
OBVIOUS

LEMMA AppendElements ==
    ASSUME NEW S, NEW w \in Seq(S), NEW e \in S
    PROVE  /\ Append(w, e) \in Seq(S)
           /\ Len(Append(w, e)) = Len(w) + 1
           /\ \A i \in 1..(Len(w) + 1) :
                 \/ i \in 1..Len(w) /\ Append(w, e)[i] = w[i]
                 \/ i = Len(w) + 1 /\ Append(w, e)[i] = e
<1>1. Len(w) \in Nat /\ Append(w, e) \in Seq(S)
      /\ Len(Append(w, e)) = Len(w) + 1
  OBVIOUS
<1>2. \A i \in 1..Len(w) : Append(w, e)[i] = w[i]
  OBVIOUS
<1>3. Append(w, e)[Len(w) + 1] = e
  OBVIOUS
<1>4. \A i \in 1..(Len(w) + 1) : i \in 1..Len(w) \/ i = Len(w) + 1
  BY <1>1
<1> QED BY <1>1, <1>2, <1>3, <1>4

(* What a round of the drain loop finds: the queue q it works on is recent  *)
(* and holds only spans that were queued before or are new.                 *)
RoundPre(q, d) ==
    /\ offered' \in 0..MaxSpans
    /\ offered <= offered'
    /\ Recent(q, offered')
    /\ Len(q) <= MaxBuffered
    /\ stopped => q = <<>>
    /\ q # <<>> => head <= q[1]
    /\ \A i \in 1..Len(q) : q[i] \in Queued \/ q[i] > offered
    /\ d \in SUBSET Spans
    /\ draining' \in BOOLEAN
    /\ UNCHANGED <<age, stopped, conn, stream, storedAge>>

(* Whatever a round leaves in the queue, its spans keep the age bound.      *)
LEMMA QueueAges ==
    ASSUME IInv, NEW q, NEW d, RoundPre(q, d),
           queue' \in Seq(Spans),
           \A i \in 1..Len(queue') : queue'[i] \in {q[j] : j \in 1..Len(q)}
    PROVE  \A i \in 1..Len(queue') :
             queue'[i] \in Stored' /\ age'[queue'[i]] <= TTL =>
               storedAge'[queue'[i]] <= age'[queue'[i]]
<1> SUFFICES ASSUME NEW i \in 1..Len(queue'),
                    queue'[i] \in Stored', age'[queue'[i]] <= TTL
             PROVE  storedAge'[queue'[i]] <= age'[queue'[i]]
  OBVIOUS
<1> DEFINE s == queue'[i]
<1>1. s \in Queued \/ s > offered
  BY DEF RoundPre
<1>2. s \in Stored /\ age[s] <= TTL /\ s \in Spans
  BY DEF RoundPre, Stored
<1>3. ~(s > offered)
  <2>1. PICK j \in 1..Len(stream) : stream[j] = s
    BY <1>2 DEF Stored
  <2>2. stream[j] <= head /\ head <= offered
    BY DEF IInv, StreamInv, HeadInv
  <2>3. stream[j] \in Nat /\ head \in Nat /\ offered \in Nat
    BY <1>2, <2>1 DEF IInv, TypeOK, Spans
  <2> QED BY <2>1, <2>2, <2>3
<1>4. storedAge[s] <= age[s]
  BY <1>1, <1>2, <1>3 DEF Queued, IInv, AgeInv
<1> QED BY <1>4 DEF RoundPre

(* A round that ends the loop.                                              *)
LEMMA RoundExits ==
    ASSUME IInv, NEW q, NEW d, RoundPre(q, d),
           queue' = q \/ queue' = <<>>,
           dropped' \in SUBSET Spans, pc' = "exited", settled' = FALSE,
           UNCHANGED <<head, wire>>
    PROVE  IInv'
<1>1. /\ queue' \in Seq(Spans) /\ Recent(queue', offered')
      /\ \A i \in 1..Len(queue') : queue'[i] \in {q[j] : j \in 1..Len(q)}
      /\ Len(queue') <= MaxBuffered
      /\ stopped => queue' = <<>>
  <2>1. CASE queue' = q
    BY <2>1 DEF RoundPre, Recent
  <2>2. CASE queue' = <<>>
    <3>1. Len(queue') = 0 /\ queue' \in Seq(Spans) /\ offered' \in Nat
      BY <2>2 DEF RoundPre
    <3>2. Recent(queue', offered')
      BY <3>1 DEF Recent
    <3> QED BY <2>2, <3>1, <3>2, BufferAssumption
  <2> QED BY <2>1, <2>2
<1>2. TypeOK'
  BY <1>1 DEF IInv, TypeOK, RoundPre
<1>3. QueueInv'
  BY <1>1 DEF QueueInv, RoundPre
<1>4. HeadInv'
  BY DEF HeadInv, RoundPre, IInv, TypeOK
<1>5. WireInv' /\ StreamInv'
  BY DEF WireInv, StreamInv, RoundPre, IInv
<1>6. AgeInv'
  <2>1. \A i \in 1..Len(wire') :
          wire'[i].span \in Stored' =>
            storedAge'[wire'[i].span] <= TTL + wire'[i].age
    BY DEF AgeInv, Stored, RoundPre, IInv
  <2>2. \A i \in 1..Len(queue') :
          queue'[i] \in Stored' /\ age'[queue'[i]] <= TTL =>
            storedAge'[queue'[i]] <= age'[queue'[i]]
    BY <1>1, QueueAges
  <2> QED BY <2>1, <2>2 DEF AgeInv
<1> QED BY <1>2, <1>3, <1>4, <1>5, <1>6 DEF IInv

(* A round that starts an attempt for the oldest span that is not expired.  *)
LEMMA RoundSends ==
    ASSUME IInv, NEW q, NEW d, RoundPre(q, d),
           NEW k \in 0..Len(q), k < Len(q),
           age[q[k + 1]] <= TTL,
           queue' = SubSeq(q, k + 1, Len(q)),
           dropped' \in SUBSET Spans, pc' = "sending",
           head' = q[k + 1], InnerPublish(q[k + 1])
    PROVE  IInv'
<1> DEFINE s == q[k + 1]
<1>1. offered' \in Nat /\ Recent(q, offered') /\ q \in Seq(Spans)
  BY DEF RoundPre, Recent, Spans
<1>2. /\ queue' \in Seq(Spans) /\ Recent(queue', offered')
      /\ Len(queue') = Len(q) - k
      /\ \A i \in 1..(Len(q) - k) : queue'[i] = q[k + i]
  BY <1>1, RecentSuffix
<1>3. Len(q) \in Nat /\ k + 1 \in 1..Len(q)
  BY <1>1
<1>4. s \in Spans /\ s \in Nat /\ s <= offered' /\ queue'[1] = s
  <2>1. s \in Spans
    BY <1>1, <1>3
  <2>2. s = offered' - Len(q) + (k + 1)
    BY <1>1, <1>3 DEF Recent
  <2>3. queue'[1] = s
    <3>1. 1 \in 1..(Len(q) - k)
      BY <1>3
    <3> QED BY <1>2, <3>1
  <2>4. s <= offered'
    <3> HIDE DEF s
    <3> QED BY <1>1, <1>3, <2>2
  <2> QED BY <2>1, <2>3, <2>4 DEF Spans
<1>5. head \in Nat /\ head <= s
  <2>1. q # <<>> /\ q[1] = offered' - Len(q) + 1
    BY <1>1, <1>3 DEF Recent
  <2>2. s = offered' - Len(q) + (k + 1)
    BY <1>1, <1>3 DEF Recent
  <2>3. head \in Nat /\ head <= q[1]
    BY <2>1 DEF RoundPre, IInv, TypeOK
  <2> QED BY <2>1, <2>2, <2>3, <1>1, <1>3
<1> HIDE DEF s
<1>6. wire' = wire \/ wire' = Append(wire, [span |-> s, age |-> 0])
  BY DEF InnerPublish, s
<1>7. wire \in Seq([span : Spans, age : 0..MaxTransit]) /\ Len(wire) \in Nat
  BY DEF IInv, TypeOK
<1>8. [span |-> s, age |-> 0] \in [span : Spans, age : 0..MaxTransit]
  BY <1>4, BufferAssumption
<1>9. /\ wire' \in Seq([span : Spans, age : 0..MaxTransit])
      /\ \A i \in 1..Len(wire') :
            \/ i \in 1..Len(wire) /\ wire'[i] = wire[i]
            \/ i = Len(wire) + 1 /\ wire'[i] = [span |-> s, age |-> 0]
  <2>1. CASE wire' = wire
    BY <2>1, <1>7
  <2>2. CASE wire' = Append(wire, [span |-> s, age |-> 0])
    BY <2>2, <1>7, <1>8, AppendElements
  <2> QED BY <1>6, <2>1, <2>2
<1>10. /\ Len(wire') \in Nat
       /\ \A i \in 1..Len(wire) : wire[i].span \in Nat
  <2>1. \A i \in 1..Len(wire) : wire[i] \in [span : Spans, age : 0..MaxTransit]
    BY <1>7, SeqElements
  <2>2. Len(wire') \in Nat
    BY <1>9, SeqElements
  <2> QED BY <2>1, <2>2 DEF Spans
<1>11. head' = s
  BY DEF s
<1>12. TypeOK'
  <2>1. settled' \in BOOLEAN
    BY DEF InnerPublish
  <2>2. head' \in 0..MaxSpans
    BY <1>4, <1>11, BufferAssumption DEF Spans
  <2> QED BY <1>2, <1>9, <2>1, <2>2 DEF IInv, TypeOK, RoundPre
<1>13. QueueInv'
  <2>1. ~stopped
    BY <1>3, <1>1 DEF RoundPre
  <2>2. Len(queue') <= MaxBuffered
    BY <1>2, <1>3, BufferAssumption DEF RoundPre
  <2> QED BY <1>2, <2>1, <2>2 DEF QueueInv, RoundPre
<1>14. HeadInv'
  BY <1>4, <1>11 DEF HeadInv
<1>15. WireInv'
  <2>1. \A i \in 1..Len(wire) : wire[i].span <= s
    BY <1>5, <1>10, <1>4 DEF IInv, WireInv
  <2>2. \A i \in 1..Len(wire') : wire'[i].span <= head'
    <3> SUFFICES ASSUME NEW i \in 1..Len(wire') PROVE wire'[i].span <= s
      BY <1>11
    <3>1. CASE i \in 1..Len(wire) /\ wire'[i] = wire[i]
      BY <2>1, <3>1
    <3>2. CASE wire'[i] = [span |-> s, age |-> 0]
      BY <1>4, <3>2
    <3> QED BY <1>9, <3>1, <3>2
  <2>3. ASSUME NEW i \in 1..Len(wire'), NEW j \in 1..Len(wire'), i < j
        PROVE  wire'[i].span <= wire'[j].span
    <3>1. i \in 1..Len(wire) /\ wire'[i] = wire[i]
      <4>1. i # Len(wire) + 1
        <5>1. j \in 1..Len(wire) \/ j = Len(wire) + 1
          BY <1>9
        <5> QED BY <5>1, <1>7, <1>10, <2>3
      <4> QED BY <4>1, <1>9
    <3>2. CASE j \in 1..Len(wire) /\ wire'[j] = wire[j]
      BY <2>3, <3>1, <3>2 DEF IInv, WireInv
    <3>3. CASE wire'[j] = [span |-> s, age |-> 0]
      BY <2>1, <3>1, <3>3
    <3> QED BY <3>2, <3>3, <1>9
  <2> QED BY <2>2, <2>3 DEF WireInv
<1>16. StreamInv'
  <2>1. stream' = stream /\ stream \in Seq(Spans)
    BY DEF RoundPre, IInv, TypeOK
  <2>2. \A i \in 1..Len(stream) : stream[i] \in Nat /\ stream[i] <= s
    <3>1. \A i \in 1..Len(stream) : stream[i] \in Spans
      BY <2>1, SeqElements
    <3>2. \A i \in 1..Len(stream) : stream[i] \in Nat /\ stream[i] <= head
      BY <3>1 DEF IInv, StreamInv, Spans
    <3> QED BY <3>2, <1>4, <1>5
  <2>3. \A i \in 1..Len(stream), j \in 1..Len(wire') :
          stream[i] <= wire'[j].span
    <3> SUFFICES ASSUME NEW i \in 1..Len(stream), NEW j \in 1..Len(wire')
                 PROVE  stream[i] <= wire'[j].span
      OBVIOUS
    <3>1. CASE j \in 1..Len(wire) /\ wire'[j] = wire[j]
      BY <3>1 DEF IInv, StreamInv
    <3>2. CASE wire'[j] = [span |-> s, age |-> 0]
      BY <2>2, <3>2
    <3> QED BY <3>1, <3>2, <1>9
  <2> QED BY <2>1, <2>2, <2>3, <1>11 DEF IInv, StreamInv
<1>17. AgeInv'
  <2>1. \A i \in 1..Len(queue') :
          queue'[i] \in Stored' /\ age'[queue'[i]] <= TTL =>
            storedAge'[queue'[i]] <= age'[queue'[i]]
    <3>1. \A i \in 1..Len(queue') : queue'[i] \in {q[j] : j \in 1..Len(q)}
      BY <1>2, <1>3
    <3> QED BY <3>1, <1>2, QueueAges
  <2>2. ASSUME NEW i \in 1..Len(wire'), wire'[i].span \in Stored'
        PROVE  storedAge'[wire'[i].span] <= TTL + wire'[i].age
    <3>1. CASE i \in 1..Len(wire) /\ wire'[i] = wire[i]
      BY <2>2, <3>1 DEF IInv, AgeInv, Stored, RoundPre
    <3>2. CASE wire'[i] = [span |-> s, age |-> 0]
      <4>1. age[s] <= TTL /\ age[s] \in Nat /\ storedAge[s] \in Nat
        BY <1>4 DEF s, IInv, TypeOK
      <4>2. s \in Stored'
        BY <3>2, <2>2
      <4>3. storedAge'[s] <= age'[s]
        <5>1. queue'[1] = s /\ 1 \in 1..Len(queue')
          BY <1>2, <1>3, <1>4
        <5> QED BY <2>1, <4>1, <4>2, <5>1 DEF RoundPre
      <4> QED BY <3>2, <4>1, <4>3, BufferAssumption, SMTT(20) DEF RoundPre
    <3> QED BY <1>9, <3>1, <3>2
  <2> QED BY <2>1, <2>2 DEF AgeInv
<1> QED BY <1>12, <1>13, <1>14, <1>15, <1>16, <1>17 DEF IInv

(* A round of the drain loop keeps the invariant.                           *)
LEMMA RoundKeepsInv ==
    ASSUME IInv, NEW q, NEW d, RoundPre(q, d), DrainRound(q, d)
    PROVE  IInv'
<1>0. q \in Seq(Spans) /\ d \in SUBSET Spans /\ Len(q) \in Nat
  BY DEF RoundPre, Recent
<1>1. CASE stopped \/ q = <<>>
  BY <1>0, <1>1, RoundExits DEF DrainRound
<1>2. CASE ~(stopped \/ q = <<>>)
  <2>1. PICK k \in 0..Len(q) :
          /\ ExpiredPrefix(q, k)
          /\ queue' = SubSeq(q, k + 1, Len(q))
          /\ dropped' = d \cup {q[i] : i \in 1..k}
          /\ IF k = Len(q)
             THEN pc' = "exited" /\ settled' = FALSE /\ UNCHANGED <<head, wire>>
             ELSE pc' = "sending" /\ head' = q[k + 1] /\ InnerPublish(q[k + 1])
    BY <1>2 DEF DrainRound
  <2>2. dropped' \in SUBSET Spans
    <3>1. \A i \in 1..k : q[i] \in Spans
      BY <1>0
    <3> QED BY <1>0, <2>1, <3>1
  <2>3. CASE k = Len(q)
    <3>1. queue' = <<>>
      BY <1>0, <2>1, <2>3
    <3> QED BY <2>1, <2>2, <2>3, <3>1, RoundExits
  <2>4. CASE k # Len(q)
    <3>1. k < Len(q) /\ age[q[k + 1]] <= TTL
      BY <1>0, <2>1, <2>4 DEF ExpiredPrefix
    <3>2. pc' = "sending" /\ head' = q[k + 1] /\ InnerPublish(q[k + 1])
      BY <2>1, <2>4
    <3> QED BY <2>1, <2>2, <3>1, <3>2, RoundSends
  <2> QED BY <2>3, <2>4
<1> QED BY <1>1, <1>2

(* What publish() leaves in the queue: the latest spans, one more or none   *)
(* pushed out.                                                              *)
LEMMA KeptRecent ==
    ASSUME IInv, offered < MaxSpans, ~stopped
    PROVE  /\ Recent(Kept(offered + 1), offered + 1)
           /\ Len(Kept(offered + 1)) <= MaxBuffered
           /\ Overflow(offered + 1) \subseteq Spans
           /\ \A i \in 1..Len(Kept(offered + 1)) :
                 \/ Kept(offered + 1)[i] \in Queued
                 \/ Kept(offered + 1)[i] > offered
           /\ Kept(offered + 1) # <<>> => head <= Kept(offered + 1)[1]
<1> DEFINE n == offered + 1
           p == Pushed(n)
<1>1. /\ offered \in Nat /\ n \in Spans /\ MaxBuffered \in Nat
      /\ Recent(queue, offered)
      /\ queue \in Seq(Spans) /\ Len(queue) <= MaxBuffered /\ head <= offered
      /\ queue # <<>> => head <= queue[1]
      /\ head \in Nat /\ MaxBuffered > 0
  BY BufferAssumption DEF IInv, TypeOK, Spans, QueueInv, HeadInv
<1>2. Recent(p, n) /\ p \in Seq(Spans)
  BY <1>1, RecentAppend DEF Pushed, Recent
<1>3. /\ Len(queue) \in Nat /\ Len(p) = Len(queue) + 1
      /\ \A i \in 1..Len(p) :
            \/ i \in 1..Len(queue) /\ p[i] = queue[i]
            \/ i = Len(queue) + 1 /\ p[i] = n
  <2>1. queue \in Seq(Spans) /\ n \in Spans
    BY <1>1
  <2> HIDE DEF n
  <2>2. /\ Len(Append(queue, n)) = Len(queue) + 1
        /\ \A i \in 1..(Len(queue) + 1) :
              \/ i \in 1..Len(queue) /\ Append(queue, n)[i] = queue[i]
              \/ i = Len(queue) + 1 /\ Append(queue, n)[i] = n
    BY <2>1, AppendElements
  <2>3. Len(queue) \in Nat
    BY <2>1
  <2>4. p = Append(queue, n)
    BY DEF p, Pushed
  <2> HIDE DEF p
  <2> QED BY <2>2, <2>3, <2>4
<1> HIDE DEF p
<1>4. \A i \in 1..Len(p) : /\ p[i] \in Queued \/ p[i] > offered
                           /\ head <= p[i]
  <2> SUFFICES ASSUME NEW i \in 1..Len(p)
               PROVE  (p[i] \in Queued \/ p[i] > offered) /\ head <= p[i]
    OBVIOUS
  <2>1. CASE i \in 1..Len(queue) /\ p[i] = queue[i]
    <3>1. queue[1] = offered - Len(queue) + 1 /\ queue[i] = offered - Len(queue) + i
      BY <1>1, <1>3, <2>1 DEF Recent
    <3>2. queue # <<>> /\ head <= queue[1]
      BY <1>1, <2>1
    <3> QED BY <1>1, <1>3, <2>1, <3>1, <3>2 DEF Queued
  <2>2. CASE p[i] = n
    BY <2>2, <1>1
  <2> QED BY <1>3, <2>1, <2>2
<1>5. CASE Len(p) > MaxBuffered
  <2>1. Kept(n) = Tail(p) /\ Overflow(n) = {Head(p)} /\ p # <<>>
    BY <1>5, <1>2, <1>3 DEF Kept, Overflow, p
  <2>2. /\ Recent(Tail(p), n) /\ Len(Tail(p)) = Len(p) - 1
        /\ \A i \in 1..(Len(p) - 1) : Tail(p)[i] = p[i + 1]
    BY <1>1, <1>2, <2>1, RecentTail DEF Spans
  <2>3. Head(p) \in Spans
    BY <1>2, <2>1
  <2>4. \A i \in 1..Len(Tail(p)) : i + 1 \in 1..Len(p) /\ Tail(p)[i] = p[i + 1]
    BY <2>2, <1>3
  <2>5. Tail(p) # <<>> => 1 \in 1..Len(Tail(p))
    BY <2>2, <1>3 DEF Recent
  <2>6. Len(Tail(p)) <= MaxBuffered
    BY <1>1, <1>3, <2>2
  <2>7. \A i \in 1..Len(Tail(p)) : /\ Tail(p)[i] \in Queued \/ Tail(p)[i] > offered
                                  /\ head <= Tail(p)[i]
    BY <1>4, <2>4
  <2>8. Overflow(n) \subseteq Spans
    BY <2>1, <2>3
  <2>9. Tail(p) # <<>> => head <= Tail(p)[1]
    BY <2>5, <2>7
  <2> QED BY <2>1, <2>2, <2>6, <2>7, <2>8, <2>9
<1>6. CASE ~(Len(p) > MaxBuffered)
  <2>1. Kept(n) = p /\ Overflow(n) = {}
    BY <1>6 DEF Kept, Overflow, p
  <2>2. Len(p) <= MaxBuffered /\ 1 \in 1..Len(p)
    BY <1>1, <1>3, <1>6
  <2> QED BY <1>2, <1>4, <2>1, <2>2
<1> QED BY <1>5, <1>6

(* The queue after a successful attempt.                                    *)
LEMMA AfterSuccessRecent ==
    ASSUME IInv
    PROVE  /\ Recent(AfterSuccess, offered)
           /\ Len(AfterSuccess) <= MaxBuffered
           /\ stopped => AfterSuccess = <<>>
           /\ \A i \in 1..Len(AfterSuccess) : AfterSuccess[i] \in Queued
           /\ AfterSuccess # <<>> => head <= AfterSuccess[1]
<1>1. /\ offered \in Nat /\ MaxBuffered \in Nat /\ head \in Nat
      /\ Recent(queue, offered)
      /\ queue \in Seq(Spans) /\ Len(queue) \in Nat /\ Len(queue) <= MaxBuffered
      /\ queue # <<>> => head <= queue[1]
      /\ stopped => queue = <<>>
  BY BufferAssumption DEF IInv, TypeOK, Spans, QueueInv, HeadInv
<1>2. CASE queue # <<>> /\ Head(queue) = head
  <2>1. /\ AfterSuccess = Tail(queue) /\ Recent(Tail(queue), offered)
        /\ Len(Tail(queue)) = Len(queue) - 1
        /\ \A i \in 1..(Len(queue) - 1) : Tail(queue)[i] = queue[i + 1]
    BY <1>1, <1>2, RecentTail DEF AfterSuccess
  <2>2. \A i \in 1..Len(Tail(queue)) :
          i + 1 \in 1..Len(queue) /\ Tail(queue)[i] = queue[i + 1]
    BY <1>1, <2>1
  <2>3. ASSUME Tail(queue) # <<>> PROVE head <= Tail(queue)[1]
    <3>1. 1 \in 1..Len(Tail(queue)) /\ 2 \in 1..Len(queue) /\ 1 \in 1..Len(queue)
      BY <2>1, <2>3, <1>1 DEF Recent
    <3>2. Tail(queue)[1] = queue[2]
      BY <2>2, <3>1
    <3>3. /\ queue[1] = offered - Len(queue) + 1
          /\ queue[2] = offered - Len(queue) + 2
      BY <1>1, <3>1 DEF Recent
    <3>4. head <= queue[1]
      BY <1>1, <1>2
    <3>5. queue[1] \in Nat /\ queue[2] = queue[1] + 1 /\ head \in Nat
      BY <1>1, <3>1, <3>3 DEF Recent, Spans
    <3>6. head <= queue[2]
      BY <3>4, <3>5
    <3> QED BY <3>2, <3>6
  <2> QED BY <1>1, <1>2, <2>1, <2>2, <2>3 DEF Queued
<1>3. CASE ~(queue # <<>> /\ Head(queue) = head)
  <2>1. AfterSuccess = queue
    BY <1>3 DEF AfterSuccess
  <2> QED BY <1>1, <2>1 DEF Queued
<1> QED BY <1>2, <1>3

-----------------------------------------------------------------------------
LEMMA InitInv == Init => IInv
<1> SUFFICES ASSUME Init PROVE IInv
  OBVIOUS
<1>1. /\ Len(queue) = 0 /\ Len(wire) = 0 /\ Len(stream) = 0 /\ Stored = {}
      /\ queue = <<>>
  BY DEF Init, Stored
<1>2. TypeOK
  <2>1. /\ queue \in Seq(Spans) /\ stream \in Seq(Spans)
        /\ wire \in Seq([span : Spans, age : 0..MaxTransit])
    BY DEF Init
  <2>2. age \in [Spans -> 0..TTL + 1]
    <3>1. 0 \in 0..TTL + 1
      BY BufferAssumption
    <3> QED BY <3>1 DEF Init
  <2>3. storedAge \in [Spans -> 0..Window]
    <3>1. 0 \in 0..Window
      BY BufferAssumption
    <3> QED BY <3>1 DEF Init
  <2>4. offered \in 0..MaxSpans /\ head \in 0..MaxSpans
    BY BufferAssumption DEF Init
  <2> QED BY <2>1, <2>2, <2>3, <2>4 DEF Init, TypeOK
<1>3. QueueInv /\ HeadInv
  BY <1>1, BufferAssumption DEF Init, QueueInv, HeadInv, Recent
<1> QED BY <1>1, <1>2, <1>3 DEF WireInv, StreamInv, AgeInv, IInv, Init

(* publish(), in each of its three cases.                                   *)
LEMMA PublishKeepsInv ==
    ASSUME IInv, Publish
    PROVE  IInv'
<1>0. /\ offered \in Nat /\ MaxSpans \in Nat /\ MaxBuffered \in Nat
      /\ dropped \in SUBSET Spans
  BY BufferAssumption DEF IInv, TypeOK
<1>1. CASE PublishStopped
  <2>1. offered' \in 0..MaxSpans /\ offered + 1 \in Spans
    BY <1>0, <1>1 DEF PublishStopped, Spans
  <2>2. TypeOK'
    BY <2>1, <1>0, <1>1 DEF PublishStopped, IInv, TypeOK, loopVars, brokerVars
  <2>3. queue = <<>> /\ queue' = <<>> /\ Len(queue') = 0
    BY <1>1 DEF PublishStopped, IInv, QueueInv
  <2>4. QueueInv' /\ HeadInv'
    BY <2>1, <2>2, <2>3, <1>0, <1>1
       DEF PublishStopped, IInv, QueueInv, HeadInv, Recent, TypeOK, loopVars
  <2>5. WireInv' /\ StreamInv' /\ AgeInv'
    BY <1>1 DEF PublishStopped, IInv, WireInv, StreamInv, AgeInv, Stored,
                loopVars, brokerVars
  <2> QED BY <2>2, <2>4, <2>5 DEF IInv
<1>2. CASE PublishQueued
  <2> DEFINE q == Kept(offered + 1)
  <2>1. /\ Recent(q, offered + 1) /\ Len(q) <= MaxBuffered
        /\ Overflow(offered + 1) \subseteq Spans
        /\ \A i \in 1..Len(q) : q[i] \in Queued \/ q[i] > offered
        /\ q # <<>> => head <= q[1]
    BY <1>2, KeptRecent DEF PublishQueued
  <2>2. /\ queue' = q /\ offered' = offered + 1 /\ offered' \in 0..MaxSpans
        /\ UNCHANGED <<age, draining, stopped, pc, head, settled, wire, conn,
                       stream, storedAge>>
        /\ ~stopped
        /\ dropped' \in SUBSET Spans
    BY <1>0, <1>2, <2>1 DEF PublishQueued, loopVars, brokerVars
  <2> HIDE DEF q
  <2>3. TypeOK'
    BY <2>1, <2>2 DEF IInv, TypeOK, Recent
  <2>4. QueueInv' /\ HeadInv'
    BY <2>1, <2>2, <1>0 DEF IInv, QueueInv, HeadInv, TypeOK
  <2>5. WireInv' /\ StreamInv'
    BY <2>2 DEF IInv, WireInv, StreamInv
  <2>6. \A i \in 1..Len(wire') :
          wire'[i].span \in Stored' =>
            storedAge'[wire'[i].span] <= TTL + wire'[i].age
    BY <2>2 DEF IInv, AgeInv, Stored
  <2>7. RoundPre(q, dropped)
    BY <1>0, <2>1, <2>2 DEF RoundPre, IInv, TypeOK
  <2>8. AgeInv'
    <3>1. \A i \in 1..Len(queue') :
            queue'[i] \in Stored' /\ age'[queue'[i]] <= TTL =>
              storedAge'[queue'[i]] <= age'[queue'[i]]
      BY <2>1, <2>2, <2>7, QueueAges DEF Recent
    <3> QED BY <2>6, <3>1 DEF AgeInv
  <2> QED BY <2>3, <2>4, <2>5, <2>8 DEF IInv
<1>3. CASE PublishStartsDrain
  <2> DEFINE q == Kept(offered + 1)
             d == dropped \cup Overflow(offered + 1)
  <2>1. /\ Recent(q, offered + 1) /\ Len(q) <= MaxBuffered
        /\ Overflow(offered + 1) \subseteq Spans
        /\ \A i \in 1..Len(q) : q[i] \in Queued \/ q[i] > offered
        /\ q # <<>> => head <= q[1]
    BY <1>3, KeptRecent DEF PublishStartsDrain
  <2>2. /\ DrainRound(q, d) /\ offered' = offered + 1
        /\ UNCHANGED <<age, stopped, conn, stream, storedAge>>
        /\ ~stopped /\ draining' \in BOOLEAN /\ offered' \in 0..MaxSpans
    BY <1>0, <1>3 DEF PublishStartsDrain, brokerVars
  <2>3. d \in SUBSET Spans
    BY <1>0, <2>1
  <2> HIDE DEF q, d
  <2>4. RoundPre(q, d)
    BY <1>0, <2>1, <2>2, <2>3 DEF RoundPre
  <2> QED BY <2>2, <2>4, RoundKeepsInv
<1> QED BY <1>1, <1>2, <1>3 DEF Publish

(* The continuations of the drain loop.                                     *)
LEMMA DrainLoopKeepsInv ==
    ASSUME IInv, DrainLoop
    PROVE  IInv'
<1>0. /\ offered \in 0..MaxSpans /\ offered \in Nat /\ draining \in BOOLEAN
      /\ dropped \in SUBSET Spans
  BY BufferAssumption DEF IInv, TypeOK
<1>1. CASE AttemptSucceeds
  <2>1. RoundPre(AfterSuccess, dropped)
    BY <1>0, <1>1, AfterSuccessRecent DEF AttemptSucceeds, RoundPre, brokerVars
  <2> QED BY <1>1, <2>1, RoundKeepsInv DEF AttemptSucceeds
<1>2. CASE AttemptFails \/ ResetDraining
  <2>1. /\ UNCHANGED <<offered, queue, age, stopped, dropped, head, conn, wire,
                       stream, storedAge, settled>>
        /\ pc' \in {"idle", "sending", "sleeping", "due", "exited"}
        /\ draining' \in BOOLEAN
    BY <1>0, <1>2 DEF AttemptFails, ResetDraining, brokerVars
  <2> QED BY <2>1 DEF IInv, TypeOK, QueueInv, HeadInv, WireInv, StreamInv,
                      AgeInv, Stored, Recent
<1>3. CASE RetryDelayOver
  <2>1. RoundPre(queue, dropped)
    BY <1>0, <1>3
       DEF RetryDelayOver, RoundPre, brokerVars, IInv, QueueInv, HeadInv, Queued
  <2> QED BY <1>3, <2>1, RoundKeepsInv DEF RetryDelayOver
<1> QED BY <1>1, <1>2, <1>3 DEF DrainLoop

LEMMA StopKeepsInv ==
    ASSUME IInv, Stop
    PROVE  IInv'
<1>1. /\ queue' = <<>> /\ Len(queue') = 0 /\ queue' \in Seq(Spans)
      /\ stopped' = TRUE /\ offered \in Nat
      /\ UNCHANGED <<offered, age, draining, pc, head, settled, wire, conn,
                     stream, storedAge>>
  BY DEF Stop, loopVars, brokerVars, IInv, TypeOK
<1>2. dropped' \in SUBSET Spans
  <2>1. queue \in Seq(Spans) /\ dropped \in SUBSET Spans
    BY DEF IInv, TypeOK
  <2>2. Queued \subseteq Spans
    BY <2>1, SeqElements DEF Queued
  <2> QED BY <2>1, <2>2 DEF Stop
<1>3. TypeOK'
  BY <1>1, <1>2 DEF IInv, TypeOK
<1>4. QueueInv' /\ HeadInv'
  BY <1>1, BufferAssumption DEF QueueInv, HeadInv, Recent, IInv
<1>5. WireInv' /\ StreamInv' /\ AgeInv'
  BY <1>1 DEF WireInv, StreamInv, AgeInv, IInv, Stored
<1> QED BY <1>3, <1>4, <1>5 DEF IInv

(* Closing and reconnecting lose the requests under way.                    *)
LEMMA LinkKeepsInv ==
    ASSUME IInv, InnerStop \/ ClosedByPeer \/ Reconnect
    PROVE  IInv'
<1>1. /\ wire' = <<>> /\ Len(wire') = 0
      /\ wire' \in Seq([span : Spans, age : 0..MaxTransit])
      /\ conn' \in {"open", "closed", "lost"} /\ settled' \in BOOLEAN
      /\ UNCHANGED <<offered, queue, age, draining, stopped, dropped, pc, head,
                     stream, storedAge>>
  <2>1. CASE InnerStop \/ ClosedByPeer
    <3>1. PICK how \in {"closed", "lost"} : Close(how)
      BY <2>1 DEF InnerStop, ClosedByPeer
    <3>2. (pc = "sending") \in BOOLEAN
      OBVIOUS
    <3> QED BY <3>1, <3>2 DEF Close, brokerVars
  <2>2. CASE Reconnect
    BY <2>2 DEF Reconnect, brokerVars, IInv, TypeOK
  <2> QED BY <2>1, <2>2
<1>2. TypeOK' /\ QueueInv' /\ HeadInv'
  BY <1>1 DEF IInv, TypeOK, QueueInv, HeadInv, Recent
<1>3. WireInv' /\ StreamInv' /\ AgeInv'
  BY <1>1 DEF WireInv, StreamInv, AgeInv, IInv, Stored
<1> QED BY <1>2, <1>3 DEF IInv

(* The broker appends a span only above everything it holds: an equal one   *)
(* would be a duplicate inside the window.                                  *)
LEMMA BrokerKeepsInv ==
    ASSUME IInv, BrokerReceives
    PROVE  IInv'
<1> DEFINE s == wire[1].span
<1>1. /\ wire \in Seq([span : Spans, age : 0..MaxTransit]) /\ wire # <<>>
      /\ wire' = Tail(wire)
      /\ stream \in Seq(Spans) /\ storedAge \in [Spans -> 0..Window]
      /\ UNCHANGED <<offered, queue, age, draining, stopped, dropped, pc, head,
                     conn>>
      /\ settled' \in BOOLEAN
  BY DEF BrokerReceives, IInv, TypeOK
<1>2. Len(wire) \in Nat /\ Len(wire) > 0 /\ Len(stream) \in Nat
  BY <1>1
<1>3. /\ wire' \in Seq([span : Spans, age : 0..MaxTransit])
      /\ Len(wire') = Len(wire) - 1
      /\ \A i \in 1..Len(wire') : i + 1 \in 1..Len(wire) /\ wire'[i] = wire[i + 1]
  BY <1>1, <1>2
<1>4. /\ \A i \in 1..Len(wire) : wire[i] \in [span : Spans, age : 0..MaxTransit]
      /\ \A i \in 1..Len(stream) : stream[i] \in Spans
      /\ \A i \in 1..Len(queue) : queue[i] \in Spans
  BY <1>1, SeqElements DEF IInv, TypeOK
<1>5. /\ wire[1].span = Head(wire).span /\ s \in Spans /\ 1 \in 1..Len(wire)
  BY <1>1, <1>2, <1>4
<1>6. WireInv'
  BY <1>3, <1>1 DEF IInv, WireInv
<1>7. QueueInv' /\ HeadInv'
  BY <1>1 DEF IInv, QueueInv, HeadInv, Recent
<1> HIDE DEF s
<1>8. CASE Duplicate(s)
  <2>1. stream' = stream /\ storedAge' = storedAge /\ Stored' = Stored
    BY <1>8, <1>5 DEF s, BrokerReceives, brokerVars, Stored
  <2>2. TypeOK'
    BY <1>1, <1>3, <2>1 DEF IInv, TypeOK
  <2>3. StreamInv'
    BY <1>1, <1>3, <2>1 DEF IInv, StreamInv
  <2>4. AgeInv'
    BY <1>1, <1>3, <2>1 DEF IInv, AgeInv
  <2> QED BY <1>6, <1>7, <2>2, <2>3, <2>4 DEF IInv
<1>9. CASE ~Duplicate(s)
  <2>1. /\ stream' = Append(stream, s)
        /\ storedAge' = [storedAge EXCEPT ![s] = 0]
    BY <1>9, <1>5 DEF s, BrokerReceives
  <2>2. /\ stream' \in Seq(Spans) /\ Len(stream') = Len(stream) + 1
        /\ \A i \in 1..Len(stream') :
              \/ i \in 1..Len(stream) /\ stream'[i] = stream[i]
              \/ i = Len(stream) + 1 /\ stream'[i] = s
    BY <1>1, <1>5, <2>1, AppendElements DEF s
  <2>3. storedAge' \in [Spans -> 0..Window]
    <3>1. 0 \in 0..Window
      BY BufferAssumption
    <3> QED BY <1>1, <1>5, <2>1, <3>1 DEF s
  <2>4. TypeOK'
    BY <1>1, <1>3, <2>2, <2>3 DEF IInv, TypeOK
  <2>5. s \notin Stored
    <3>1. ASSUME s \in Stored PROVE storedAge[s] < Window
      <4>1. storedAge[s] <= TTL + wire[1].age
        BY <1>5, <3>1 DEF s, IInv, AgeInv
      <4>2. wire[1].age \in Nat /\ wire[1].age <= MaxTransit
        BY <1>4, <1>5, BufferAssumption
      <4>3. storedAge[s] \in Nat
        BY <1>1, <1>5 DEF s
      <4> QED BY <4>1, <4>2, <4>3, BufferAssumption
    <3> QED BY <3>1, <1>9 DEF Duplicate
  <2>6. \A i \in 1..Len(stream) : stream[i] < s
    <3> SUFFICES ASSUME NEW i \in 1..Len(stream) PROVE stream[i] < s
      OBVIOUS
    <3>1. stream[i] <= s
      BY <1>5 DEF s, IInv, StreamInv
    <3>2. stream[i] # s
      BY <2>5 DEF Stored
    <3>3. stream[i] \in Nat /\ s \in Nat
      BY <1>4, <1>5 DEF s, Spans
    <3> QED BY <3>1, <3>2, <3>3
  <2>7. StreamInv'
    <3>1. s <= head
      BY <1>5 DEF s, IInv, WireInv
    <3>2. \A i \in 1..Len(stream') : stream'[i] <= head'
      BY <1>1, <2>2, <3>1 DEF IInv, StreamInv
    <3>3. \A j \in 1..Len(wire') : s <= wire'[j].span
      <4> SUFFICES ASSUME NEW j \in 1..Len(wire') PROVE s <= wire'[j].span
        OBVIOUS
      <4>1. j + 1 \in 1..Len(wire) /\ wire'[j] = wire[j + 1] /\ 1 < j + 1
        BY <1>2, <1>3
      <4> QED BY <4>1, <1>5 DEF s, IInv, WireInv
    <3>4. \A i \in 1..Len(stream'), j \in 1..Len(wire') :
            stream'[i] <= wire'[j].span
      <4> SUFFICES ASSUME NEW i \in 1..Len(stream'), NEW j \in 1..Len(wire')
                   PROVE  stream'[i] <= wire'[j].span
        OBVIOUS
      <4>1. CASE i \in 1..Len(stream) /\ stream'[i] = stream[i]
        BY <4>1, <1>3 DEF IInv, StreamInv
      <4>2. CASE stream'[i] = s
        BY <4>2, <3>3
      <4> QED BY <4>1, <4>2, <2>2
    <3>5. ASSUME NEW i \in 1..Len(stream'), NEW j \in 1..Len(stream'), i < j
          PROVE  stream'[i] < stream'[j]
      <4>1. i \in 1..Len(stream) /\ stream'[i] = stream[i]
        BY <3>5, <2>2, <1>2
      <4>2. CASE j \in 1..Len(stream) /\ stream'[j] = stream[j]
        BY <3>5, <4>1, <4>2 DEF IInv, StreamInv
      <4>3. CASE stream'[j] = s
        BY <4>1, <4>3, <2>6
      <4> QED BY <4>2, <4>3, <2>2
    <3> QED BY <3>2, <3>4, <3>5 DEF StreamInv
  <2>8. AgeInv'
    <3>1. \A t \in Spans : t \in Stored' => t = s \/ t \in Stored
      BY <2>2 DEF Stored
    <3>2. /\ storedAge'[s] = 0
          /\ \A t \in Spans : t # s => storedAge'[t] = storedAge[t]
      BY <1>1, <1>5, <2>1 DEF s
    <3>3. ASSUME NEW i \in 1..Len(wire'), wire'[i].span \in Stored'
          PROVE  storedAge'[wire'[i].span] <= TTL + wire'[i].age
      <4>1. /\ i + 1 \in 1..Len(wire) /\ wire'[i] = wire[i + 1]
            /\ wire'[i].span \in Spans /\ wire'[i].age \in Nat
        BY <1>3, <1>4
      <4>2. CASE wire'[i].span = s
        BY <4>1, <4>2, <3>2, BufferAssumption
      <4>3. CASE wire'[i].span # s
        BY <4>1, <4>3, <3>1, <3>2, <3>3 DEF IInv, AgeInv
      <4> QED BY <4>2, <4>3
    <3>4. ASSUME NEW i \in 1..Len(queue'), queue'[i] \in Stored',
                 age'[queue'[i]] <= TTL
          PROVE  storedAge'[queue'[i]] <= age'[queue'[i]]
      <4>1. queue'[i] = queue[i] /\ queue[i] \in Spans /\ i \in 1..Len(queue)
            /\ age' = age /\ age[queue[i]] \in Nat
        BY <1>1, <1>4 DEF IInv, TypeOK
      <4>2. CASE queue[i] = s
        BY <4>1, <4>2, <3>2
      <4>3. CASE queue[i] # s
        BY <4>1, <4>3, <3>1, <3>2, <3>4 DEF IInv, AgeInv
      <4> QED BY <4>2, <4>3
    <3> QED BY <3>3, <3>4 DEF AgeInv
  <2> QED BY <1>6, <1>7, <2>4, <2>7, <2>8 DEF IInv
<1> QED BY <1>8, <1>9

(* Requests, queued spans and stored spans age together.                    *)
LEMMA TickKeepsInv ==
    ASSUME IInv, Tick
    PROVE  IInv'
<1>1. /\ wire \in Seq([span : Spans, age : 0..MaxTransit])
      /\ queue \in Seq(Spans) /\ stream \in Seq(Spans)
      /\ age \in [Spans -> 0..TTL + 1] /\ storedAge \in [Spans -> 0..Window]
      /\ UNCHANGED <<offered, queue, draining, stopped, dropped, head, settled,
                     conn, stream>>
      /\ pc' \in {"idle", "sending", "sleeping", "due", "exited"}
  BY DEF IInv, TypeOK, Tick
<1>2. /\ Len(wire) \in Nat
      /\ \A i \in 1..Len(wire) : wire[i] \in [span : Spans, age : 0..MaxTransit]
      /\ \A i \in 1..Len(wire) : wire[i].age < MaxTransit
      /\ \A i \in 1..Len(queue) : queue[i] \in Spans
  BY <1>1, SeqElements DEF Tick
<1>3. wire' = [i \in 1..Len(wire) |-> [wire[i] EXCEPT !.age = @ + 1]]
  BY DEF Tick
<1>4. \A i \in 1..Len(wire) :
        /\ wire'[i] \in [span : Spans, age : 0..MaxTransit]
        /\ wire'[i].span = wire[i].span /\ wire'[i].age = wire[i].age + 1
  <2> SUFFICES ASSUME NEW i \in 1..Len(wire)
               PROVE  /\ wire'[i] \in [span : Spans, age : 0..MaxTransit]
                      /\ wire'[i].span = wire[i].span
                      /\ wire'[i].age = wire[i].age + 1
    OBVIOUS
  <2> DEFINE w == wire[i]
  <2>1. w \in [span : Spans, age : 0..MaxTransit] /\ w.age < MaxTransit
    BY <1>2
  <2>2. wire'[i] = [w EXCEPT !.age = w.age + 1]
    BY <1>3
  <2> HIDE DEF w
  <2>3. w.age + 1 \in 0..MaxTransit
    BY <2>1, BufferAssumption
  <2>4. [w EXCEPT !.age = w.age + 1] = [span |-> w.span, age |-> w.age + 1]
    BY <2>1
  <2> QED BY <2>1, <2>2, <2>3, <2>4 DEF w
<1>5. /\ wire' \in Seq([span : Spans, age : 0..MaxTransit])
      /\ Len(wire') = Len(wire)
  BY <1>2, <1>3, <1>4
<1>6. \A s \in Spans :
        /\ age[s] \in 0..TTL + 1 /\ storedAge[s] \in 0..Window
        /\ age'[s] = IF s \in Queued /\ age[s] <= TTL THEN age[s] + 1 ELSE age[s]
        /\ storedAge'[s] = IF s \in Stored /\ storedAge[s] < Window
                           THEN storedAge[s] + 1 ELSE storedAge[s]
  BY <1>1 DEF Tick
<1>7. age' \in [Spans -> 0..TTL + 1]
  <2>1. \A s \in Spans : age'[s] \in 0..TTL + 1
    BY <1>6, BufferAssumption
  <2> QED BY <2>1 DEF Tick
<1>8. storedAge' \in [Spans -> 0..Window]
  <2>1. \A s \in Spans : storedAge'[s] \in 0..Window
    BY <1>6, BufferAssumption
  <2> QED BY <2>1 DEF Tick
<1>9. TypeOK'
  BY <1>1, <1>5, <1>7, <1>8 DEF IInv, TypeOK
<1>10. QueueInv' /\ HeadInv'
  BY <1>1 DEF IInv, QueueInv, HeadInv, Recent
<1>11. WireInv' /\ StreamInv'
  BY <1>1, <1>4, <1>5 DEF IInv, WireInv, StreamInv
<1>12. AgeInv'
  <2>1. Stored' = Stored
    BY <1>1 DEF Stored
  <2>2. ASSUME NEW i \in 1..Len(wire'), wire'[i].span \in Stored'
        PROVE  storedAge'[wire'[i].span] <= TTL + wire'[i].age
    <3>1. /\ i \in 1..Len(wire) /\ wire[i].span \in Spans
          /\ wire[i].age \in Nat
          /\ wire'[i].span = wire[i].span /\ wire'[i].age = wire[i].age + 1
      BY <1>2, <1>4, <1>5
    <3>2. storedAge[wire[i].span] <= TTL + wire[i].age
      BY <2>1, <2>2, <3>1 DEF IInv, AgeInv
    <3> DEFINE w == wire[i].span
               a == wire[i].age
    <3>3. /\ w \in Spans /\ storedAge[w] \in 0..Window
          /\ storedAge'[w] = IF w \in Stored /\ storedAge[w] < Window
                             THEN storedAge[w] + 1 ELSE storedAge[w]
      BY <1>6, <3>1
    <3>4. a \in Nat /\ storedAge[w] <= TTL + a
      BY <3>1, <3>2
    <3> HIDE DEF w, a
    <3>5. storedAge'[w] <= TTL + (a + 1)
      BY <3>3, <3>4, BufferAssumption
    <3> QED BY <3>1, <3>5 DEF w, a
  <2>3. ASSUME NEW i \in 1..Len(queue'), queue'[i] \in Stored',
               age'[queue'[i]] <= TTL
        PROVE  storedAge'[queue'[i]] <= age'[queue'[i]]
    <3>1. /\ i \in 1..Len(queue) /\ queue'[i] = queue[i]
          /\ queue[i] \in Spans /\ queue[i] \in Queued
      BY <1>1, <1>2 DEF Queued
    <3>2. age[queue[i]] <= TTL /\ age'[queue[i]] = age[queue[i]] + 1
      BY <1>6, <2>3, <3>1, BufferAssumption
    <3>3. storedAge[queue[i]] <= age[queue[i]]
      BY <2>1, <2>3, <3>1, <3>2 DEF IInv, AgeInv
    <3>4. /\ storedAge[queue[i]] \in Nat /\ age[queue[i]] \in Nat
          /\ storedAge'[queue[i]] <= storedAge[queue[i]] + 1
          /\ storedAge'[queue[i]] \in Nat
      <4> DEFINE q == queue[i]
      <4>1. /\ q \in Spans /\ age[q] \in 0..TTL + 1 /\ storedAge[q] \in 0..Window
            /\ storedAge'[q] = IF q \in Stored /\ storedAge[q] < Window
                               THEN storedAge[q] + 1 ELSE storedAge[q]
        BY <1>6, <3>1
      <4> HIDE DEF q
      <4>2. /\ storedAge[q] \in Nat /\ age[q] \in Nat
            /\ storedAge'[q] <= storedAge[q] + 1 /\ storedAge'[q] \in Nat
        BY <4>1, BufferAssumption
      <4> QED BY <4>2 DEF q
    <3> QED BY <3>1, <3>2, <3>3, <3>4
  <2> QED BY <2>2, <2>3 DEF AgeInv
<1> QED BY <1>9, <1>10, <1>11, <1>12 DEF IInv

-----------------------------------------------------------------------------
(* IInv is an inductive invariant of the buffer.                            *)
THEOREM BufferInvariant == Spec => []IInv
<1>1. Init => IInv
  BY InitInv
<1>2. IInv /\ [Next]_vars => IInv'
  <2> SUFFICES ASSUME IInv, [Next]_vars PROVE IInv'
    OBVIOUS
  <2>1. CASE Publish
    BY <2>1, PublishKeepsInv
  <2>2. CASE Stop
    BY <2>2, StopKeepsInv
  <2>3. CASE DrainLoop
    BY <2>3, DrainLoopKeepsInv
  <2>4. CASE Network
    <3>1. CASE InnerStop \/ ClosedByPeer \/ Reconnect
      BY <3>1, LinkKeepsInv
    <3>2. CASE BrokerReceives
      BY <3>2, BrokerKeepsInv
    <3> QED BY <2>4, <3>1, <3>2 DEF Network
  <2>5. CASE Tick
    BY <2>5, TickKeepsInv
  <2>6. CASE UNCHANGED vars
    <3> USE <2>6 DEF vars, IInv
    <3>1. TypeOK' /\ QueueInv' /\ HeadInv'
      BY DEF TypeOK, QueueInv, HeadInv, Recent
    <3>2. WireInv' /\ StreamInv' /\ AgeInv'
      BY DEF WireInv, StreamInv, AgeInv, Stored
    <3> QED BY <3>1, <3>2
  <2> QED BY <2>1, <2>2, <2>3, <2>4, <2>5, <2>6 DEF Next
<1> QED BY <1>1, <1>2, PTL DEF Spec

(* The variables keep their types.                                          *)
THEOREM BufferTypes == Spec => []TypeOK
<1>1. IInv => TypeOK
  BY DEF IInv
<1> QED BY <1>1, BufferInvariant, PTL

(* Spans reach the broker's stream in the order they were produced.         *)
THEOREM BufferOrder == Spec => []NoOvertaking
<1>1. IInv => NoOvertaking
  <2> SUFFICES ASSUME IInv, NEW i \in 1..Len(stream), NEW j \in 1..Len(stream),
                      i < j
               PROVE  stream[i] <= stream[j]
    BY DEF NoOvertaking
  <2>0. stream \in Seq(Spans)
    BY DEF IInv, TypeOK
  <2>1. stream[i] \in Spans /\ stream[j] \in Spans
    BY <2>0, SeqElements
  <2>2. stream[i] \in Nat /\ stream[j] \in Nat
    BY <2>1 DEF Spans
  <2> QED BY <2>2 DEF IInv, StreamInv
<1> QED BY <1>1, BufferInvariant, PTL

(* No span is stored twice, because it expires inside the duplicate window. *)
THEOREM BufferStoresOnce == Spec => []StoredOnce
<1>1. IInv => StoredOnce
  <2> SUFFICES ASSUME IInv, NEW i \in 1..Len(stream), NEW j \in 1..Len(stream),
                      i # j
               PROVE  stream[i] # stream[j]
    BY DEF StoredOnce
  <2>1. /\ stream \in Seq(Spans)
        /\ \A m, n \in 1..Len(stream) : m < n => stream[m] < stream[n]
    BY DEF IInv, StreamInv, TypeOK
  <2>2. stream[i] \in Spans /\ stream[j] \in Spans /\ Len(stream) \in Nat
    BY <2>1, SeqElements
  <2>3. stream[i] \in Nat /\ stream[j] \in Nat /\ (i < j \/ j < i)
    BY <2>2 DEF Spans
  <2> QED BY <2>1, <2>3
<1> QED BY <1>1, BufferInvariant, PTL

(* The buffer never holds more than its capacity, nor a gap.                *)
THEOREM BufferWindow == Spec => []QueueIsRecentWindow
<1>1. IInv => QueueIsRecentWindow
  BY DEF IInv, QueueInv, Recent, QueueIsRecentWindow
<1> QED BY <1>1, BufferInvariant, PTL

-----------------------------------------------------------------------------
(* A request is handed to the connection only by a round of the drain loop, *)
(* for a span that is not expired and before stop().                        *)
LEMMA RoundSendsFresh ==
    ASSUME NEW q, NEW d, DrainRound(q, d), q \in Seq(Spans),
           UNCHANGED <<age, stopped>>, wire \in Seq([span : Spans, age : 0..MaxTransit]),
           Len(wire') > Len(wire)
    PROVE  ~stopped /\ age[wire'[Len(wire')].span] <= TTL
<1>0. Len(wire) \in Nat /\ Len(q) \in Nat
  OBVIOUS
<1>1. wire' # wire
  BY <1>0
<1>2. ~stopped
  BY <1>1 DEF DrainRound
<1>3. PICK k \in 0..Len(q) :
        ExpiredPrefix(q, k) /\ k # Len(q) /\ InnerPublish(q[k + 1])
  BY <1>1 DEF DrainRound
<1>4. age[q[k + 1]] <= TTL
  BY <1>0, <1>3 DEF ExpiredPrefix
<1>5. wire' = Append(wire, [span |-> q[k + 1], age |-> 0])
  BY <1>1, <1>3 DEF InnerPublish
<1>6. wire'[Len(wire')] = [span |-> q[k + 1], age |-> 0]
  BY <1>0, <1>5
<1> QED BY <1>2, <1>4, <1>6

(* No attempt starts for an expired span or after stop().                   *)
THEOREM BufferAttemptsFresh == Spec => NoStaleAttempt
<1> DEFINE Fresh == Len(wire') > Len(wire) =>
                      ~stopped /\ age[wire'[Len(wire')].span] <= TTL
<1>1. IInv /\ [Next]_vars => Fresh
  <2> SUFFICES ASSUME IInv, [Next]_vars, Len(wire') > Len(wire)
               PROVE  ~stopped /\ age[wire'[Len(wire')].span] <= TTL
    OBVIOUS
  <2>1. /\ wire \in Seq([span : Spans, age : 0..MaxTransit]) /\ Len(wire) \in Nat
        /\ queue \in Seq(Spans)
    BY DEF IInv, TypeOK
  <2>2. wire' # wire
    BY <2>1
  <2>3. CASE PublishStartsDrain
    <3>1. Kept(offered + 1) \in Seq(Spans)
      BY <2>3, KeptRecent DEF PublishStartsDrain, Recent
    <3> QED BY <2>1, <2>3, <3>1, RoundSendsFresh DEF PublishStartsDrain
  <2>4. CASE AttemptSucceeds
    <3>1. AfterSuccess \in Seq(Spans)
      BY AfterSuccessRecent DEF Recent
    <3> QED BY <2>1, <2>4, <3>1, RoundSendsFresh DEF AttemptSucceeds
  <2>5. CASE RetryDelayOver
    BY <2>1, <2>5, RoundSendsFresh DEF RetryDelayOver
  <2>6. CASE InnerStop \/ ClosedByPeer \/ Reconnect
    <3>1. Len(wire') = 0
      BY <2>6 DEF InnerStop, ClosedByPeer, Close, Reconnect
    <3> QED BY <2>1, <3>1
  <2>7. CASE BrokerReceives
    <3>1. Len(wire') = Len(wire) - 1
      BY <2>1, <2>7 DEF BrokerReceives
    <3> QED BY <2>1, <3>1
  <2>8. CASE Tick
    <3>1. Len(wire') = Len(wire)
      BY <2>1, <2>8 DEF Tick
    <3> QED BY <2>1, <3>1
  <2>9. CASE PublishStopped \/ PublishQueued \/ Stop \/ AttemptFails
             \/ ResetDraining \/ UNCHANGED vars
    BY <2>2, <2>9 DEF PublishStopped, PublishQueued, Stop, AttemptFails,
                      ResetDraining, vars, loopVars
  <2> QED BY <2>3, <2>4, <2>5, <2>6, <2>7, <2>8, <2>9
          DEF Next, Publish, DrainLoop, Network
<1>2. [][IInv /\ [Next]_vars => Fresh]_vars
  BY <1>1, PTL
<1> QED BY <1>1, BufferInvariant, PTL DEF Spec, NoStaleAttempt

-----------------------------------------------------------------------------
(* A round of the drain loop splits the queue it works on into what stays   *)
(* queued and what is counted as dropped.                                   *)
LEMMA RoundSplits ==
    ASSUME NEW q, NEW d, DrainRound(q, d), q \in Seq(Spans)
    PROVE  /\ Queued' \subseteq {q[i] : i \in 1..Len(q)}
           /\ {q[i] : i \in 1..Len(q)} \subseteq Queued' \cup dropped'
           /\ d \subseteq dropped'
           /\ dropped' \subseteq d \cup {q[i] : i \in 1..Len(q)}
<1>1. CASE stopped \/ q = <<>>
  BY <1>1 DEF DrainRound, Queued
<1>2. CASE ~(stopped \/ q = <<>>)
  <2>0. Len(q) \in Nat
    OBVIOUS
  <2>1. PICK k \in 0..Len(q) :
          /\ queue' = SubSeq(q, k + 1, Len(q))
          /\ dropped' = d \cup {q[i] : i \in 1..k}
    BY <1>2 DEF DrainRound
  <2>2. /\ Len(queue') = Len(q) - k
        /\ \A i \in 1..(Len(q) - k) : queue'[i] = q[k + i]
    BY <2>0, <2>1
  <2>3. ASSUME NEW i \in 1..Len(q) PROVE q[i] \in Queued' \cup dropped'
    <3>1. CASE i \in 1..k
      BY <2>1, <3>1
    <3>2. CASE i \notin 1..k
      <4>1. i - k \in 1..(Len(q) - k) /\ k + (i - k) = i
        BY <2>0, <3>2
      <4>2. queue'[i - k] = q[i] /\ i - k \in 1..Len(queue')
        BY <2>2, <4>1
      <4> QED BY <4>2 DEF Queued
    <3> QED BY <3>1, <3>2
  <2>4. ASSUME NEW i \in 1..Len(queue') PROVE queue'[i] \in {q[j] : j \in 1..Len(q)}
    <3>1. k + i \in 1..Len(q) /\ queue'[i] = q[k + i]
      BY <2>0, <2>2
    <3> QED BY <3>1
  <2>5. {q[i] : i \in 1..k} \subseteq {q[i] : i \in 1..Len(q)}
    BY <2>0
  <2> QED BY <2>1, <2>3, <2>4, <2>5 DEF Queued
<1> QED BY <1>1, <1>2

(* Publishing keeps the old spans and the new one, or counts them.          *)
LEMMA KeptSplits ==
    ASSUME IInv, offered < MaxSpans
    PROVE  Queued \cup {offered + 1} =
             {Kept(offered + 1)[i] : i \in 1..Len(Kept(offered + 1))}
               \cup Overflow(offered + 1)
<1> DEFINE n == offered + 1
           p == Append(queue, n)
<1>1. queue \in Seq(Spans) /\ n \in Spans /\ Len(queue) \in Nat
  BY BufferAssumption DEF IInv, TypeOK, Spans
<1> HIDE DEF n
<1>2. /\ Len(p) = Len(queue) + 1 /\ p \in Seq(Spans) /\ p # <<>>
      /\ \A i \in 1..Len(queue) : p[i] = queue[i]
      /\ p[Len(queue) + 1] = n
  BY <1>1
<1> HIDE DEF p
<1>3. \A i \in 1..Len(p) : i \in 1..Len(queue) \/ i = Len(queue) + 1
  BY <1>1, <1>2
<1>4. /\ \A i \in 1..Len(queue) : i \in 1..Len(p)
      /\ Len(queue) + 1 \in 1..Len(p)
  BY <1>1, <1>2
<1>5. Queued \cup {n} = {p[i] : i \in 1..Len(p)}
  BY <1>2, <1>3, <1>4 DEF Queued
<1>6. CASE Len(p) > MaxBuffered
  <2>1. Kept(n) = Tail(p) /\ Overflow(n) = {p[1]}
    BY <1>6, <1>2 DEF Kept, Overflow, Pushed, p
  <2>2. /\ Len(Tail(p)) = Len(p) - 1
        /\ \A i \in 1..(Len(p) - 1) : Tail(p)[i] = p[i + 1]
    BY <1>2
  <2>3. \A i \in 1..Len(Tail(p)) : i + 1 \in 1..Len(p) /\ Tail(p)[i] = p[i + 1]
    BY <1>1, <1>2, <2>2
  <2>4. ASSUME NEW i \in 1..Len(p), i # 1
        PROVE  p[i] \in {Tail(p)[j] : j \in 1..Len(Tail(p))}
    <3>1. i - 1 \in 1..Len(Tail(p)) /\ (i - 1) + 1 = i
      BY <1>1, <1>2, <2>2, <2>4
    <3> QED BY <2>3, <3>1
  <2>5. 1 \in 1..Len(p)
    BY <1>1, <1>2
  <2>6. {p[i] : i \in 1..Len(p)} = {Tail(p)[j] : j \in 1..Len(Tail(p))} \cup {p[1]}
    BY <2>3, <2>4, <2>5
  <2> QED BY <1>5, <2>1, <2>6 DEF n
<1>7. CASE ~(Len(p) > MaxBuffered)
  <2>1. Kept(n) = p /\ Overflow(n) = {}
    BY <1>7 DEF Kept, Overflow, Pushed, p
  <2> QED BY <1>5, <2>1 DEF n
<1> QED BY <1>6, <1>7

(* A successful attempt takes at most the span it was for out of the queue. *)
LEMMA AfterSuccessSplits ==
    ASSUME IInv
    PROVE  /\ {AfterSuccess[i] : i \in 1..Len(AfterSuccess)} \subseteq Queued
           /\ \/ Queued \subseteq {AfterSuccess[i] : i \in 1..Len(AfterSuccess)}
              \/ /\ queue # <<>>
                 /\ Queued \subseteq
                      {AfterSuccess[i] : i \in 1..Len(AfterSuccess)} \cup {head}
<1>1. queue \in Seq(Spans) /\ Len(queue) \in Nat
  BY DEF IInv, TypeOK
<1>2. CASE queue # <<>> /\ Head(queue) = head
  <2>1. /\ AfterSuccess = Tail(queue) /\ queue[1] = head
        /\ Len(Tail(queue)) = Len(queue) - 1
        /\ \A i \in 1..(Len(queue) - 1) : Tail(queue)[i] = queue[i + 1]
    BY <1>1, <1>2 DEF AfterSuccess
  <2>2. \A i \in 1..Len(Tail(queue)) :
          i + 1 \in 1..Len(queue) /\ Tail(queue)[i] = queue[i + 1]
    BY <1>1, <2>1
  <2>3. ASSUME NEW i \in 1..Len(queue), i # 1
        PROVE  queue[i] \in {Tail(queue)[j] : j \in 1..Len(Tail(queue))}
    <3>1. i - 1 \in 1..Len(Tail(queue)) /\ (i - 1) + 1 = i
      BY <1>1, <2>1, <2>3
    <3> QED BY <2>2, <3>1
  <2> QED BY <1>2, <2>1, <2>2, <2>3 DEF Queued
<1>3. CASE ~(queue # <<>> /\ Head(queue) = head)
  BY <1>3 DEF AfterSuccess, Queued
<1> QED BY <1>2, <1>3

(* A reply is only given for a span that is in the stream.                  *)
LEMMA ReplyInvStep ==
    ASSUME IInv, ReplyInv, [Next]_vars
    PROVE  ReplyInv'
<1>1. ASSUME NEW q, NEW d, DrainRound(q, d), UNCHANGED <<conn, stopped>>
      PROVE  ReplyInv'
  BY <1>1 DEF DrainRound, InnerPublish, ReplyInv
<1>2. CASE Publish
  BY <1>1, <1>2 DEF Publish, PublishStopped, PublishQueued, PublishStartsDrain,
                    loopVars, brokerVars, ReplyInv, Stored
<1>3. CASE Stop
  BY <1>3 DEF Stop, loopVars, brokerVars, ReplyInv, Stored
<1>4. CASE DrainLoop
  BY <1>1, <1>4 DEF DrainLoop, AttemptSucceeds, AttemptFails, RetryDelayOver,
                    ResetDraining, ReplyInv
<1>5. CASE InnerStop \/ ClosedByPeer \/ Reconnect
  BY <1>5 DEF InnerStop, ClosedByPeer, Close, Reconnect, brokerVars, ReplyInv, Stored
<1>6. CASE BrokerReceives
  <2>1. Stored \subseteq Stored' /\ Head(wire).span \in Stored'
    <3>1. stream \in Seq(Spans)
      BY DEF IInv, TypeOK
    <3>2. CASE Duplicate(Head(wire).span)
      BY <1>6, <3>2 DEF BrokerReceives, Duplicate, brokerVars, Stored
    <3>3. CASE ~Duplicate(Head(wire).span)
      <4> DEFINE e == Head(wire).span
      <4>1. stream' = Append(stream, e)
        BY <1>6, <3>3 DEF BrokerReceives
      <4> HIDE DEF e
      <4>2. /\ Len(stream) \in Nat /\ Len(stream') = Len(stream) + 1
            /\ \A i \in 1..Len(stream) : stream'[i] = stream[i]
            /\ stream'[Len(stream) + 1] = e
        BY <3>1, <4>1
      <4>3. /\ \A i \in 1..Len(stream) : i \in 1..Len(stream')
            /\ Len(stream) + 1 \in 1..Len(stream')
        BY <4>2
      <4> QED BY <4>2, <4>3 DEF Stored, e
    <3> QED BY <3>2, <3>3
  <2> QED BY <1>6, <2>1 DEF BrokerReceives, ReplyInv
<1>7. CASE Tick
  BY <1>7 DEF Tick, ReplyInv, Stored
<1>8. CASE UNCHANGED vars
  BY <1>8 DEF vars, ReplyInv, Stored
<1> QED BY <1>2, <1>3, <1>4, <1>5, <1>6, <1>7, <1>8 DEF Next, Network

-----------------------------------------------------------------------------
(* Only losing the connection changes it to "lost", and nothing back.       *)
LEMMA LosesConnection ==
    ASSUME [Next]_vars, conn # "lost", conn' = "lost"
    PROVE  UNCHANGED <<offered, queue, dropped, stream>>
BY DEF Next, Publish, PublishStopped, PublishQueued, PublishStartsDrain, Stop,
       DrainLoop, AttemptSucceeds, AttemptFails, RetryDelayOver, ResetDraining,
       Network, InnerStop, ClosedByPeer, Close, Reconnect, BrokerReceives, Tick,
       vars, brokerVars

LEMMA OnceLost ==
    ASSUME [Next]_vars, conn = "lost"
    PROVE  conn' = "lost"
BY DEF Next, Publish, PublishStopped, PublishQueued, PublishStartsDrain, Stop,
       DrainLoop, AttemptSucceeds, AttemptFails, RetryDelayOver, ResetDraining,
       Network, InnerStop, ClosedByPeer, Close, Reconnect, BrokerReceives, Tick, vars

(* The feed as long as the connection is not lost, when Lost is dropped.    *)
Plain == INSTANCE SpanFeed WITH waiting <- Queued, lost <- dropped

(* Rounds of the drain loop, seen as spans leaving the feed.                *)
LEMMA RoundLeaves ==
    ASSUME NEW q, NEW d, NEW W, DrainRound(q, d), q \in Seq(Spans), stream' = stream,
           {q[i] : i \in 1..Len(q)} \subseteq W,
           W \subseteq {q[i] : i \in 1..Len(q)} \cup d \cup Stored,
           dropped \subseteq d, d \subseteq dropped \cup W
    PROVE  Plain!LeaveFrom(W)
<1>1. /\ Queued' \subseteq {q[i] : i \in 1..Len(q)}
      /\ {q[i] : i \in 1..Len(q)} \subseteq Queued' \cup dropped'
      /\ d \subseteq dropped'
      /\ dropped' \subseteq d \cup {q[i] : i \in 1..Len(q)}
  BY RoundSplits
<1> QED BY <1>1 DEF Plain!LeaveFrom, Plain!Delivered, Stored

(* With the connection not lost, every step of the buffer is a step of the  *)
(* feed or leaves it unchanged.                                             *)
LEMMA StepIsPlainStep ==
    ASSUME conn' # "lost", IInv, ReplyInv, [Next]_vars
    PROVE  [Plain!FeedNext]_(Plain!feedVars)
<1> USE DEF Plain!FeedNext, Plain!feedVars
<1>0. /\ offered \in Nat /\ dropped \in SUBSET Spans /\ queue \in Seq(Spans)
      /\ stream \in Seq(Spans)
      /\ stopped => queue = <<>>
  BY DEF IInv, TypeOK, QueueInv
<1>1. CASE PublishStopped
  <2>1. Plain!LeaveFrom(Queued \cup {offered + 1})
    BY <1>1 DEF PublishStopped, loopVars, Plain!LeaveFrom, Plain!Delivered, Queued
  <2> QED BY <1>1, <2>1 DEF PublishStopped, brokerVars, Plain!Offer
<1>2. CASE PublishQueued
  <2>1. /\ Queued' = {Kept(offered + 1)[i] : i \in 1..Len(Kept(offered + 1))}
        /\ dropped' = dropped \cup Overflow(offered + 1)
    BY <1>2 DEF PublishQueued, Queued
  <2>2. Queued \cup {offered + 1} = Queued' \cup Overflow(offered + 1)
    BY <1>2, <2>1, KeptSplits DEF PublishQueued
  <2>3. Plain!LeaveFrom(Queued \cup {offered + 1})
    BY <2>1, <2>2 DEF Plain!LeaveFrom
  <2> QED BY <1>2, <2>3 DEF PublishQueued, brokerVars, Plain!Offer
<1>3. CASE PublishStartsDrain
  <2> DEFINE q == Kept(offered + 1)
             d == dropped \cup Overflow(offered + 1)
             W == Queued \cup {offered + 1}
  <2>1. W = {q[i] : i \in 1..Len(q)} \cup Overflow(offered + 1)
    BY <1>3, KeptSplits DEF PublishStartsDrain
  <2>2. q \in Seq(Spans)
    BY <1>3, KeptRecent DEF PublishStartsDrain, Recent
  <2>3. DrainRound(q, d) /\ stream' = stream /\ offered' = offered + 1
    BY <1>3 DEF PublishStartsDrain, brokerVars
  <2>4. dropped \subseteq d /\ d \subseteq dropped \cup W
        /\ W \subseteq {q[i] : i \in 1..Len(q)} \cup d
        /\ {q[i] : i \in 1..Len(q)} \subseteq W
    BY <2>1
  <2> HIDE DEF q, d, W
  <2>5. Plain!LeaveFrom(W)
    BY <2>2, <2>3, <2>4, RoundLeaves
  <2> QED BY <2>3, <2>5 DEF Plain!Offer, W
<1>4. CASE Stop
  <2>1. Queued' = {} /\ dropped' = dropped \cup Queued /\ stream' = stream
        /\ offered' = offered
    BY <1>4 DEF Stop, Queued, brokerVars
  <2> QED BY <2>1 DEF Plain!Leave, Plain!LeaveFrom
<1>5. CASE AttemptSucceeds
  <2> DEFINE E == {AfterSuccess[i] : i \in 1..Len(AfterSuccess)}
  <2>1. /\ DrainRound(AfterSuccess, dropped) /\ stream' = stream
        /\ offered' = offered
    BY <1>5 DEF AttemptSucceeds, brokerVars
  <2>2. AfterSuccess \in Seq(Spans)
    BY AfterSuccessRecent DEF Recent
  <2>3. E \subseteq Queued /\ Queued \subseteq E \cup Stored
    <3>1. queue # <<>> => head \in Stored
      BY <1>0, <1>5 DEF AttemptSucceeds, ReplyInv, IInv, TypeOK
    <3> QED BY <3>1, AfterSuccessSplits
  <2>4. Plain!LeaveFrom(Queued)
    BY <2>1, <2>2, <2>3, RoundLeaves
  <2> QED BY <2>1, <2>4 DEF Plain!Leave
<1>6. CASE RetryDelayOver
  <2>1. DrainRound(queue, dropped) /\ stream' = stream /\ offered' = offered
    BY <1>6 DEF RetryDelayOver, brokerVars
  <2>2. Plain!LeaveFrom(Queued)
    <3>1. /\ {queue[i] : i \in 1..Len(queue)} = Queued
          /\ dropped \subseteq dropped \cup Queued
      BY DEF Queued
    <3> QED BY <1>0, <2>1, <3>1, RoundLeaves
  <2> QED BY <2>1, <2>2 DEF Plain!Leave
<1>7. CASE BrokerReceives
  <2>1. /\ offered' = offered /\ Queued' = Queued /\ dropped' = dropped
    BY <1>7 DEF BrokerReceives, Queued
  <2>2. CASE stream' = stream
    BY <2>1, <2>2
  <2>3. CASE stream' # stream
    <3> DEFINE s == Head(wire).span
    <3>1. /\ stream' = Append(stream, s) /\ ~Duplicate(s)
      BY <1>7, <2>3 DEF BrokerReceives, brokerVars
    <3>2. IInv'
      BY <1>7, BrokerKeepsInv
    <3>3. /\ Len(stream) \in Nat /\ Len(stream') = Len(stream) + 1
          /\ \A i \in 1..Len(stream) : stream'[i] = stream[i]
          /\ stream'[Len(stream) + 1] = s
          /\ stream' \in Seq(Spans)
      <4>1. stream' \in Seq(Spans)
        BY <3>2 DEF IInv, TypeOK
      <4> HIDE DEF s
      <4> QED BY <1>0, <3>1, <4>1
    <3>4. Len(stream) + 1 \in 1..Len(stream')
          /\ \A i \in 1..Len(stream) : i \in 1..Len(stream') /\ i < Len(stream) + 1
      BY <3>3
    <3>5. \A i \in 1..Len(stream) : stream[i] < s
      <4>1. \A i, j \in 1..Len(stream') : i < j => stream'[i] < stream'[j]
        BY <3>2 DEF IInv, StreamInv
      <4> HIDE DEF s
      <4> QED BY <3>3, <3>4, <4>1
    <3>6. s \in 1..offered
      <4>1. s \in Spans
        <5>1. stream'[Len(stream) + 1] \in Spans
          BY <3>3, <3>4, SeqElements
        <5> QED BY <3>3, <5>1
      <4>2. s <= head' /\ head' <= offered' /\ head' \in Nat
        <5>1. \A i \in 1..Len(stream') : stream'[i] <= head'
          BY <3>2 DEF IInv, StreamInv
        <5>2. head' <= offered'
          BY <3>2 DEF IInv, HeadInv
        <5>3. head' \in Nat
          BY <3>2 DEF IInv, TypeOK
        <5> HIDE DEF s
        <5> QED BY <3>3, <3>4, <5>1, <5>2, <5>3
      <4> HIDE DEF s
      <4> QED BY <1>0, <2>1, <4>1, <4>2 DEF Spans
    <3> HIDE DEF s
    <3> QED BY <2>1, <3>1, <3>5, <3>6 DEF Plain!Deliver
  <2> QED BY <2>2, <2>3
<1>8. CASE \/ AttemptFails \/ ResetDraining \/ Reconnect \/ Tick
           \/ InnerStop \/ ClosedByPeer \/ UNCHANGED vars
  BY <1>8 DEF AttemptFails, ResetDraining, InnerStop, ClosedByPeer, Close,
              Reconnect, Tick, vars, brokerVars, Queued
<1> QED BY <1>1, <1>2, <1>3, <1>4, <1>5, <1>6, <1>7, <1>8
        DEF Next, Publish, DrainLoop, Network

(* Such a step loses no span silently.                                      *)
LEMMA LossStep ==
    ASSUME IInv, ReplyInv, NoSilentLoss, [Next]_vars
    PROVE  NoSilentLoss'
<1> SUFFICES ASSUME conn' # "lost", NEW s \in 1..offered'
             PROVE  s \in Queued' \/ s \in dropped' \/ s \in Stored'
  BY DEF NoSilentLoss
<1>1. [Plain!FeedNext]_(Plain!feedVars)
  BY StepIsPlainStep
<1>2. offered \in Nat /\ stream \in Seq(Spans)
  BY DEF IInv, TypeOK
<1>3. conn # "lost"
  BY OnceLost
<1>4. s \in 1..offered => s \in Queued \/ s \in dropped \/ s \in Stored
  BY <1>3 DEF NoSilentLoss
<1>5. CASE Plain!Offer
  <2>1. s \in 1..offered \/ s = offered + 1
    BY <1>2, <1>5 DEF Plain!Offer
  <2> QED BY <1>4, <1>5, <2>1
          DEF Plain!Offer, Plain!LeaveFrom, Plain!Delivered, Stored
<1>6. CASE Plain!Leave
  BY <1>4, <1>6 DEF Plain!Leave, Plain!LeaveFrom, Plain!Delivered, Stored
<1>7. CASE Plain!Deliver
  <2>1. PICK t : stream' = Append(stream, t)
    BY <1>7 DEF Plain!Deliver
  <2>2. \A i \in 1..Len(stream) : i \in 1..Len(stream') /\ stream'[i] = stream[i]
    BY <1>2, <2>1
  <2> QED BY <1>4, <1>7, <2>2 DEF Plain!Deliver, Stored
<1>8. CASE UNCHANGED Plain!feedVars
  BY <1>4, <1>8 DEF Plain!feedVars, Stored
<1> QED BY <1>1, <1>5, <1>6, <1>7, <1>8 DEF Plain!FeedNext

(* What a step may do to the spans once the connection is lost: nothing is  *)
(* stored, one span may be offered, and spans leave the queue.              *)
Dwindles(W) ==
    /\ Queued' \subseteq W
    /\ dropped \subseteq dropped' /\ dropped' \subseteq dropped \cup W

LEMMA LostStep ==
    ASSUME IInv, ReplyInv, [Next]_vars, conn = "lost"
    PROVE  /\ stream' = stream /\ conn' = "lost"
           /\ \/ offered' = offered /\ Dwindles(Queued)
              \/ offered' = offered + 1 /\ Dwindles(Queued \cup {offered + 1})
<1> USE DEF Dwindles
<1>0. queue \in Seq(Spans)
  BY DEF IInv, TypeOK
<1>1. CASE PublishStopped
  BY <1>1 DEF PublishStopped, loopVars, brokerVars, Queued
<1>2. CASE PublishQueued
  BY <1>2, KeptSplits DEF PublishQueued, loopVars, brokerVars, Queued
<1>3. CASE PublishStartsDrain
  <2>1. Kept(offered + 1) \in Seq(Spans)
    BY <1>3, KeptRecent DEF PublishStartsDrain, Recent
  <2> QED BY <1>3, <2>1, KeptSplits, RoundSplits DEF PublishStartsDrain, brokerVars
<1>4. CASE Stop
  BY <1>4 DEF Stop, brokerVars, Queued
<1>5. CASE AttemptSucceeds
  <2>1. AfterSuccess \in Seq(Spans)
    BY AfterSuccessRecent DEF Recent
  <2> QED BY <1>5, <2>1, AfterSuccessSplits, RoundSplits DEF AttemptSucceeds, brokerVars
<1>6. CASE RetryDelayOver
  BY <1>0, <1>6, RoundSplits DEF RetryDelayOver, brokerVars, Queued
<1>7. CASE AttemptFails \/ ResetDraining \/ Tick \/ UNCHANGED vars
  BY <1>7 DEF AttemptFails, ResetDraining, Tick, vars, brokerVars, Queued
<1>8. CASE InnerStop \/ ClosedByPeer \/ Reconnect \/ BrokerReceives
  BY <1>8 DEF InnerStop, ClosedByPeer, Close, Reconnect, BrokerReceives, ReplyInv
<1> QED BY <1>1, <1>2, <1>3, <1>4, <1>5, <1>6, <1>7, <1>8
        DEF Next, Publish, DrainLoop, Network

(* Every step of the buffer is a step of the feed or leaves it unchanged.   *)
LEMMA StepIsFeedStep ==
    ASSUME IInv, ReplyInv, NoSilentLoss, [Next]_vars
    PROVE  [Feed!FeedNext]_(Feed!feedVars)
<1>0. offered \in Nat
  BY DEF IInv, TypeOK
<1>1. CASE conn' # "lost"
  <2>1. conn # "lost"
    BY <1>1, OnceLost
  <2>2. Lost = dropped /\ Lost' = dropped'
    BY <1>1, <2>1 DEF Lost
  <2>3. [Plain!FeedNext]_(Plain!feedVars)
    BY <1>1, StepIsPlainStep
  <2> QED BY <2>2, <2>3
          DEF Plain!FeedNext, Plain!feedVars, Plain!Offer, Plain!Leave, Plain!Deliver,
              Plain!LeaveFrom, Plain!Delivered,
              Feed!FeedNext, Feed!feedVars, Feed!Offer, Feed!Leave, Feed!Deliver,
              Feed!LeaveFrom, Feed!Delivered
<1>2. CASE conn = "lost"
  <2>1. /\ stream' = stream /\ conn' = "lost"
        /\ \/ offered' = offered /\ Dwindles(Queued)
           \/ offered' = offered + 1 /\ Dwindles(Queued \cup {offered + 1})
    BY <1>2, LostStep
  <2>2. Stored' = Stored
    BY <2>1 DEF Stored
  <2>3. Queued \subseteq 1..offered
    <3>1. /\ Len(queue) \in Nat /\ Len(queue) <= offered
          /\ \A i \in 1..Len(queue) : queue[i] = offered - Len(queue) + i
      BY DEF IInv, TypeOK, QueueInv, Recent
    <3>2. \A i \in 1..Len(queue) : queue[i] \in 1..offered
      BY <1>0, <3>1
    <3> QED BY <3>2 DEF Queued
  <2>4. ASSUME NEW W, Dwindles(W), W \subseteq 1..offered',
               Queued \subseteq W, W \cap (1..offered) \subseteq Queued,
               1..offered \subseteq 1..offered', 1..offered' \subseteq (1..offered) \cup W
        PROVE  Feed!LeaveFrom(W)
    <3> DEFINE gone  == (1..offered) \ (Queued \cup Stored)
               gone2 == (1..offered') \ (Queued' \cup Stored)
    <3>1. Lost = dropped \cup gone /\ Lost' = dropped' \cup gone2
      BY <1>2, <2>1, <2>2 DEF Lost
    <3>2. /\ dropped \subseteq dropped' /\ dropped' \subseteq dropped \cup W
          /\ Queued' \subseteq W
      BY <2>4 DEF Dwindles
    <3>3. gone \subseteq gone2 /\ gone2 \subseteq gone \cup W
      BY <2>4, <3>2
    <3>4. W \ Queued' \subseteq gone2 \cup Stored
      BY <2>4
    <3> HIDE DEF gone, gone2
    <3> QED BY <3>1, <3>2, <3>3, <3>4 DEF Feed!LeaveFrom, Feed!Delivered, Stored
  <2>5. CASE offered' = offered /\ Dwindles(Queued)
    <3>1. Feed!LeaveFrom(Queued)
      BY <2>3, <2>4, <2>5
    <3> QED BY <2>1, <2>5, <3>1 DEF Feed!FeedNext, Feed!Leave
  <2>6. CASE offered' = offered + 1 /\ Dwindles(Queued \cup {offered + 1})
    <3>1. 1..(offered + 1) = (1..offered) \cup {offered + 1} /\ offered + 1 \notin 1..offered
      BY <1>0
    <3>2. Feed!LeaveFrom(Queued \cup {offered + 1})
      BY <2>3, <2>4, <2>6, <3>1
    <3> QED BY <2>1, <2>6, <3>2 DEF Feed!FeedNext, Feed!Offer
  <2> QED BY <2>1, <2>5, <2>6
<1>3. CASE conn # "lost" /\ conn' = "lost"
  <2>1. /\ UNCHANGED <<offered, queue, dropped, stream>>
    BY <1>3, LosesConnection
  <2>2. Queued' = Queued /\ Stored' = Stored
    BY <2>1 DEF Queued, Stored
  <2>3. (1..offered) \ (Queued \cup Stored) \subseteq dropped
    BY <1>3 DEF NoSilentLoss
  <2>4. Lost = dropped /\ Lost' = dropped
    BY <1>3, <2>1, <2>2, <2>3 DEF Lost
  <2> QED BY <2>1, <2>2, <2>4 DEF Feed!feedVars
<1> QED BY <1>1, <1>2, <1>3

(* No span disappears without being stored or counted, while the connection *)
(* is not lost.                                                             *)
THEOREM BufferLosesNothingSilently == Spec => []NoSilentLoss
<1>1. Init => ReplyInv /\ NoSilentLoss
  BY DEF Init, ReplyInv, NoSilentLoss
<1>2. IInv /\ ReplyInv /\ [Next]_vars => ReplyInv'
  BY ReplyInvStep
<1>3. IInv /\ ReplyInv /\ NoSilentLoss /\ [Next]_vars => NoSilentLoss'
  BY LossStep
<1> QED BY <1>1, <1>2, <1>3, BufferInvariant, PTL DEF Spec

(* The publish buffer implements the ordered, accounted feed.               *)
THEOREM BufferImplementsFeed == Spec => ImplementsSpanFeed
<1>1. Init => ReplyInv /\ NoSilentLoss /\ Feed!FeedInit
  BY DEF Init, ReplyInv, NoSilentLoss, Feed!FeedInit, Queued, Lost
<1>2. IInv /\ ReplyInv /\ [Next]_vars => ReplyInv'
  BY ReplyInvStep
<1>3. IInv /\ ReplyInv /\ NoSilentLoss /\ [Next]_vars => NoSilentLoss'
  BY LossStep
<1>4. IInv /\ ReplyInv /\ NoSilentLoss /\ [Next]_vars
        => [Feed!FeedNext]_(Feed!feedVars)
  BY StepIsFeedStep
<1> QED BY <1>1, <1>2, <1>3, <1>4, BufferInvariant, PTL
        DEF Spec, ImplementsSpanFeed, Feed!FeedSpec
-----------------------------------------------------------------------------
(* What a waiting span's leaving rests on: a loop runs for it.  The drain  *)
(* loop runs exactly while `draining` is set, and never ends leaving spans *)
(* behind, unless publishes resolve at once on a lost connection.          *)
WaitingIsDriven ==
    queue # <<>> /\ conn # "lost" => pc \in {"sending", "sleeping", "due"}

DrivenInv == (draining <=> pc # "idle") /\ WaitingIsDriven

LEMMA RoundDrives ==
    ASSUME NEW q, NEW d, q \in Seq(Spans), DrainRound(q, d), stopped => q = <<>>
    PROVE  /\ pc' \in {"sending", "exited"}
           /\ queue' # <<>> => pc' = "sending"
<1>1. CASE stopped \/ q = <<>>
  BY <1>1 DEF DrainRound
<1>2. CASE ~(stopped \/ q = <<>>)
  <2>1. PICK k \in 0..Len(q) :
          /\ queue' = SubSeq(q, k + 1, Len(q))
          /\ IF k = Len(q) THEN pc' = "exited" ELSE pc' = "sending"
    BY <1>2 DEF DrainRound
  <2>2. k = Len(q) => queue' = <<>>
    BY <2>1
  <2> QED BY <2>1, <2>2
<1> QED BY <1>1, <1>2

LEMMA DrivenStep ==
    ASSUME IInv, ReplyInv, DrivenInv, [Next]_vars
    PROVE  DrivenInv'
<1> USE DEF DrivenInv, WaitingIsDriven
<1>0. /\ queue \in Seq(Spans) /\ (stopped => queue = <<>>) /\ (conn = "closed" => stopped)
      /\ conn \in {"open", "closed", "lost"} /\ draining \in BOOLEAN
      /\ pc \in {"idle", "sending", "sleeping", "due", "exited"}
  BY DEF IInv, TypeOK, QueueInv, ReplyInv
<1>1. CASE PublishStopped
  BY <1>1 DEF PublishStopped, loopVars
<1>2. CASE PublishQueued
  BY <1>0, <1>2 DEF PublishQueued, loopVars
<1>3. CASE PublishStartsDrain
  <2>1. Kept(offered + 1) \in Seq(Spans)
    BY <1>3, KeptRecent DEF PublishStartsDrain, Recent
  <2> QED BY <1>3, <2>1, RoundDrives DEF PublishStartsDrain
<1>4. CASE Stop
  BY <1>4 DEF Stop, loopVars
<1>5. CASE AttemptSucceeds
  <2>1. AfterSuccess \in Seq(Spans) /\ (stopped => AfterSuccess = <<>>)
    BY <1>0, AfterSuccessRecent DEF AfterSuccess, Recent
  <2> QED BY <1>5, <2>1, RoundDrives DEF AttemptSucceeds
<1>6. CASE RetryDelayOver
  BY <1>0, <1>6, RoundDrives DEF RetryDelayOver
<1>7. CASE AttemptFails \/ ResetDraining
  BY <1>7 DEF AttemptFails, ResetDraining
<1>8. CASE InnerStop \/ ClosedByPeer \/ Reconnect \/ BrokerReceives
  BY <1>0, <1>8 DEF InnerStop, ClosedByPeer, Close, Reconnect, BrokerReceives
<1>9. CASE Tick
  BY <1>9 DEF Tick
<1>10. CASE UNCHANGED vars
  BY <1>10 DEF vars
<1> QED BY <1>1, <1>2, <1>3, <1>4, <1>5, <1>6, <1>7, <1>8, <1>9, <1>10
        DEF Next, Publish, DrainLoop, Network

(* As long as the connection is not lost, spans wait only while the drain  *)
(* loop runs: no publish() finds `draining` set by a loop that is over, and*)
(* no wake-up is lost (retryingPublisher.ts 100-105).                      *)
THEOREM BufferIsDriven == Spec => []WaitingIsDriven
<1>1. Init => ReplyInv /\ DrivenInv
  BY DEF Init, ReplyInv, DrivenInv, WaitingIsDriven
<1>2. IInv /\ ReplyInv /\ [Next]_vars => ReplyInv'
  BY ReplyInvStep
<1>3. IInv /\ ReplyInv /\ DrivenInv /\ [Next]_vars => DrivenInv'
  BY DrivenStep
<1>4. DrivenInv => WaitingIsDriven
  BY DEF DrivenInv
<1> QED BY <1>1, <1>2, <1>3, <1>4, BufferInvariant, PTL DEF Spec
=============================================================================
