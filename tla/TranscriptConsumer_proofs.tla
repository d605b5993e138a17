----------------------- MODULE TranscriptConsumer_proofs -----------------------
(***************************************************************************)
(* The safety properties of the consumer, for any numbers of sessions and  *)
(* messages, any batch, any cap on the watermarks and any number of faults.*)
(* The order of offers follows from the watermark alone.  That a span is   *)
(* dropped as a duplicate only when it was offered needs the order of      *)
(* delivery: what was published before a message was handled before it, or *)
(* is ahead of it among the handlers and the messages delivered.           *)
(***************************************************************************)
EXTENDS TranscriptConsumer, TLAPS, FiniteSetTheorems

OfSession(s) == {m \in Published : Span(m).session = s}

(* What needs no more care: no span, taken by a fault, or offered.          *)
Handled(m) == m \in Unparseable \cup missed \/ Contains(offered, m)
InTasks(m) == \E i \in 1..Len(tasks) : tasks[i].msg = m
InInbox(m) == \E i \in 1..Len(inbox) : inbox[i] = m

(* A session's sequences rise with the stream, and the next one is above.   *)
StreamInv ==
    /\ Len(stream) <= MaxMessages
    /\ \A m \in Published : Span(m).seq <= Cardinality(OfSession(Span(m).session))
    /\ \A m, n \in Published :
         m < n /\ Span(m).session = Span(n).session => Span(m).seq < Span(n).seq

KnownInv ==
    /\ \A m \in Messages : state[m] # "new" => m \in Published
    /\ \A m, n \in Messages : state[m] = "new" /\ m < n => state[n] = "new"
    /\ \A i \in 1..Len(inbox) : state[inbox[i]] # "new"
    /\ \A i \in 1..Len(tasks) : state[tasks[i].msg] # "new"
    /\ \A i \in 1..Len(offered) : state[offered[i]] # "new"

(* The watermark is a published sequence, and no offer since it was created *)
(* is above it.                                                             *)
MarkInv ==
    \A s \in Sessions :
      /\ mark[s] = 0 \/ \E m \in OfSession(s) : mark[s] = Span(m).seq
      /\ \A i \in since[s] + 1..Len(offered) :
           Span(offered[i]).session = s => Span(offered[i]).seq <= mark[s]

(* No message is forgotten between its delivery and its handling, ...       *)
CareInv ==
    \A m \in Messages : state[m] # "new" => Handled(m) \/ InTasks(m) \/ InInbox(m)

(* ... none overtakes an earlier one, ...                                   *)
AheadInv ==
    /\ \A j \in 1..Len(tasks) : \A n \in Messages : n < tasks[j].msg =>
         Handled(n) \/ \E i \in 1..j - 1 : tasks[i].msg = n
    /\ \A j \in 1..Len(inbox) : \A n \in Messages : n < inbox[j] =>
         Handled(n) \/ InTasks(n) \/ \E i \in 1..j - 1 : inbox[i] = n

(* ... so what is acked, settled or not above the watermark was handled.    *)
HandledInv ==
    /\ \A i \in 1..Len(tasks) : tasks[i].pc # "start" => Handled(tasks[i].msg)
    /\ \A m \in Published : state[m] = "settled" => Handled(m)
    /\ \A m \in Published : IsDuplicate(m) => Handled(m)

BrokerInv == StreamInv /\ KnownInv
OrderInv == OfferedInOrder /\ MarkInv
SafeInv == CareInv /\ AheadInv /\ HandledInv
IInv == TypeOK /\ BrokerInv /\ OrderInv /\ SafeInv

-----------------------------------------------------------------------------
LEMMA InitIInv ==
    ASSUME Init
    PROVE  IInv
<1>1. TypeOK
  BY ConsumerAssumption DEF Init, TypeOK, Messages
<1>2. BrokerInv
  BY ConsumerAssumption DEF Init, BrokerInv, StreamInv, KnownInv, Published, Messages
<1>3. OrderInv
  BY DEF Init, OrderInv, OfferedInOrder, MarkInv
<1>4. SafeInv
  BY DEF Init, SafeInv, CareInv, AheadInv, HandledInv, Published, Messages
<1> QED BY <1>1, <1>2, <1>3, <1>4 DEF IInv

LEMMA ElementIn ==
    ASSUME NEW S, NEW q \in Seq(S), NEW i \in 1..Len(q)
    PROVE  q[i] \in S
OBVIOUS

LEMMA FunctionIsSeq ==
    ASSUME NEW S, NEW n \in Nat, NEW f, f \in [1..n -> S]
    PROVE  f \in Seq(S) /\ Len(f) = n
OBVIOUS

LEMMA ExceptElements ==
    ASSUME NEW S, NEW q \in Seq(S), NEW i \in 1..Len(q), NEW e
    PROVE  /\ Len([q EXCEPT ![i] = e]) = Len(q)
           /\ [q EXCEPT ![i] = e][i] = e
           /\ \A j \in 1..Len(q) : j # i => [q EXCEPT ![i] = e][j] = q[j]
OBVIOUS

LEMMA ExceptIn ==
    ASSUME NEW S, NEW q \in Seq(S), NEW i \in 1..Len(q), NEW e \in S
    PROVE  [q EXCEPT ![i] = e] \in Seq(S)
OBVIOUS

(* Numbers of messages are numbers, and those published are messages.       *)
LEMMA PublishedFacts ==
    ASSUME IInv
    PROVE  /\ Messages \subseteq Nat \ {0} /\ Published \subseteq Messages
           /\ Len(stream) \in Nat /\ MaxMessages \in Nat
           /\ \A m \in Published : Span(m) = stream[m] /\ Span(m).session \in Sessions
                                     /\ Span(m).seq \in Nat \ {0}
<1>1. /\ stream \in Seq([session : Sessions, seq : Nat \ {0}]) /\ Len(stream) <= MaxMessages
      /\ MaxMessages \in Nat
  BY ConsumerAssumption DEF IInv, TypeOK, BrokerInv, StreamInv
<1>2. Len(stream) \in Nat /\ Messages \subseteq Nat \ {0} /\ Published \subseteq Messages
  BY <1>1 DEF Messages, Published
<1>3. ASSUME NEW m \in Published
      PROVE  stream[m] \in [session : Sessions, seq : Nat \ {0}]
  BY <1>1, ElementIn DEF Published
<1>4. \A m \in Published : Span(m).session \in Sessions /\ Span(m).seq \in Nat \ {0}
  <2> TAKE m \in Published
  <2>1. Span(m) \in [session : Sessions, seq : Nat \ {0}]
    BY <1>3 DEF Span
  <2> QED BY <2>1
<1> QED BY <1>1, <1>2, <1>4 DEF Span

(* The elements of the sequences are messages.                              *)
LEMMA TaskFacts ==
    ASSUME NEW q \in Seq([msg : Messages, pc : {"start", "ack", "nak", "done"}])
    PROVE  /\ Len(q) \in Nat
           /\ \A i \in 1..Len(q) : /\ q[i].msg \in Messages
                                   /\ q[i] = [msg |-> q[i].msg, pc |-> q[i].pc]
                                   /\ q[i].pc \in {"start", "ack", "nak", "done"}
<1>1. \A i \in 1..Len(q) : q[i] \in [msg : Messages, pc : {"start", "ack", "nak", "done"}]
  BY ElementIn
<1>2. \A i \in 1..Len(q) : /\ q[i].msg \in Messages
                            /\ q[i] = [msg |-> q[i].msg, pc |-> q[i].pc]
                            /\ q[i].pc \in {"start", "ack", "nak", "done"}
  <2> TAKE i \in 1..Len(q)
  <2>1. q[i] \in [msg : Messages, pc : {"start", "ack", "nak", "done"}]
    BY <1>1
  <2> QED BY <2>1
<1> QED BY <1>2

LEMMA ElementFacts ==
    ASSUME TypeOK
    PROVE  /\ Len(offered) \in Nat /\ Len(inbox) \in Nat /\ Len(tasks) \in Nat
           /\ \A i \in 1..Len(offered) : offered[i] \in Messages
           /\ \A i \in 1..Len(inbox) : inbox[i] \in Messages
           /\ \A i \in 1..Len(tasks) : tasks[i].msg \in Messages
<1>1. offered \in Seq(Messages) /\ inbox \in Seq(Messages)
  BY DEF TypeOK
<1>2. \A i \in 1..Len(tasks) : tasks[i].msg \in Messages
  BY TaskFacts DEF TypeOK
<1> QED BY <1>1, <1>2 DEF TypeOK

(* A step that neither publishes nor delivers keeps the broker's part.      *)
LEMMA BrokerApart ==
    ASSUME IInv, UNCHANGED <<stream, offered>>,
           \A m \in Messages : state'[m] = "new" <=> state[m] = "new",
           TypeOK',
           \A i \in 1..Len(inbox') : state[inbox'[i]] # "new",
           \A i \in 1..Len(tasks') : state[tasks'[i].msg] # "new"
    PROVE  BrokerInv'
<1>1. StreamInv'
  BY DEF IInv, BrokerInv, StreamInv, OfSession, Published, Span
<1>2. /\ \A m \in Messages : state'[m] # "new" => m \in Published'
      /\ \A m, n \in Messages : state'[m] = "new" /\ m < n => state'[n] = "new"
  BY DEF IInv, BrokerInv, KnownInv, Published
<1>3. /\ \A i \in 1..Len(inbox') : state'[inbox'[i]] # "new"
      /\ \A i \in 1..Len(tasks') : state'[tasks'[i].msg] # "new"
      /\ \A i \in 1..Len(offered') : state'[offered'[i]] # "new"
  <2>1. /\ \A i \in 1..Len(inbox') : inbox'[i] \in Messages
        /\ \A i \in 1..Len(tasks') : tasks'[i].msg \in Messages
        /\ \A i \in 1..Len(offered') : offered'[i] \in Messages
    <3>1. offered' \in Seq(Messages) /\ inbox' \in Seq(Messages)
      BY DEF TypeOK
    <3>2. \A i \in 1..Len(tasks') : tasks'[i].msg \in Messages
      BY TaskFacts DEF TypeOK
    <3> QED BY <3>1, <3>2
  <2> QED BY <2>1 DEF IInv, BrokerInv, KnownInv
<1> QED BY <1>1, <1>2, <1>3 DEF BrokerInv, KnownInv

LEMMA OrderApart ==
    ASSUME IInv, UNCHANGED <<stream, markVars>>
    PROVE  OrderInv'
BY DEF IInv, OrderInv, OfferedInOrder, MarkInv, OfSession, Published, Span, markVars

LEMMA CareApart ==
    ASSUME IInv, UNCHANGED <<state, inbox, tasks, offered, missed>>
    PROVE  CareInv' /\ AheadInv'
BY DEF IInv, SafeInv, CareInv, AheadInv, Handled, InTasks, InInbox

-----------------------------------------------------------------------------
(* Publishing: the new span's sequence is above the session's others.       *)
LEMMA PublishKeeps ==
    ASSUME IInv, NEW s \in Sessions, Publish(s)
    PROVE  IInv'
<1> DEFINE C == Cardinality(OfSession(s))
<1> PICK L \in Nat : L = Len(stream) + 1
  BY PublishedFacts
<1>1. /\ L \in Messages /\ L \in Nat /\ L \notin Published /\ Published' = Published \cup {L}
      /\ Len(stream') = L /\ L <= MaxMessages
      /\ stream' = Append(stream, [session |-> s, seq |-> C + 1])
      /\ UNCHANGED <<state, count, inbox, tasks, mark, tracked, offered, since, missed, faults>>
  <2>1. Len(stream) \in Nat /\ MaxMessages \in Nat /\ Len(stream) < MaxMessages
    BY PublishedFacts DEF Publish
  <2>2. /\ stream' = Append(stream, [session |-> s, seq |-> C + 1])
        /\ stream \in Seq([session : Sessions, seq : Nat \ {0}])
    BY DEF Publish, OfSession, IInv, TypeOK
  <2>3. Len(stream') = L
    BY <2>2
  <2>4. UNCHANGED <<state, count, inbox, tasks, mark, tracked, offered, since, missed, faults>>
    BY DEF Publish, allMarkVars, markVars
  <2> QED BY <2>1, <2>2, <2>3, <2>4 DEF Published, Messages
<1>2. \A r \in Sessions : IsFiniteSet(OfSession(r)) /\ Cardinality(OfSession(r)) \in Nat
  <2> TAKE r \in Sessions
  <2>1. IsFiniteSet(Published)
    BY PublishedFacts, FS_Interval DEF Published
  <2>2. OfSession(r) \in SUBSET Published
    BY DEF OfSession
  <2> QED BY <2>1, <2>2, FS_Subset, FS_CardinalityType
<1>3. /\ stream'[L] = [session |-> s, seq |-> C + 1] /\ C \in Nat
      /\ \A m \in Published : stream'[m] = stream[m]
      /\ stream' \in Seq([session : Sessions, seq : Nat \ {0}])
  <2>1. C \in Nat
    BY <1>2
  <2>2. stream \in Seq([session : Sessions, seq : Nat \ {0}])
    BY DEF IInv, TypeOK
  <2>3. [session |-> s, seq |-> C + 1] \in [session : Sessions, seq : Nat \ {0}]
    BY <2>1
  <2> QED BY <1>1, <2>1, <2>2, <2>3 DEF Published
<1>4. TypeOK'
  BY <1>1, <1>3 DEF IInv, TypeOK
<1>5. \A r \in Sessions : OfSession(r)' = IF r = s THEN OfSession(r) \cup {L} ELSE OfSession(r)
  <2> TAKE r \in Sessions
  <2>1. \A m \in Published : Span(m)' = Span(m)
    BY <1>3 DEF Span
  <2>2. Span(L)'.session = s
    BY <1>3 DEF Span
  <2>3. OfSession(r)' = {m \in Published' : Span(m)'.session = r}
    BY DEF OfSession
  <2> QED BY <1>1, <2>1, <2>2, <2>3 DEF OfSession
<1>6. Cardinality(OfSession(s)') = C + 1
        /\ \A r \in Sessions : r # s => OfSession(r)' = OfSession(r)
  <2>1. L \notin OfSession(s)
    BY <1>1 DEF OfSession
  <2>2. Cardinality(OfSession(s) \cup {L}) = C + 1
    BY <1>2, <2>1, FS_AddElement
  <2>3. OfSession(s)' = OfSession(s) \cup {L}
    BY <1>5
  <2> QED BY <1>5, <2>2, <2>3
<1>7. StreamInv'
  <2>1. \A m \in Published' : (Span(m).seq <= Cardinality(OfSession(Span(m).session)))'
    <3> TAKE m \in Published'
    <3>1. CASE m = L
      BY <1>3, <1>6, <3>1 DEF Span
    <3>2. CASE m \in Published
      <4> PICK r \in Sessions : r = Span(m).session
        BY <3>2, PublishedFacts
      <4>1. Span(m)' = Span(m) /\ Span(m).seq \in Nat /\ Span(m).seq <= Cardinality(OfSession(r))
        BY <1>3, <3>2, PublishedFacts DEF Span, IInv, BrokerInv, StreamInv
      <4>2. Cardinality(OfSession(r)) \in Nat /\ Cardinality(OfSession(r)') \in Nat
        <5>1. CASE r = s
          BY <5>1, <1>2, <1>3, <1>6
        <5>2. CASE r # s
          BY <5>2, <1>2, <1>6
        <5> QED BY <5>1, <5>2
      <4>3. Cardinality(OfSession(r)) <= Cardinality(OfSession(r)')
        BY <1>2, <1>3, <1>6
      <4>4. Span(m).seq <= Cardinality(OfSession(r)')
        BY <4>1, <4>2, <4>3
      <4>5. Span(m)'.session = r /\ Span(m)'.seq = Span(m).seq
        BY <4>1
      <4> QED BY <4>4, <4>5
    <3> QED BY <1>1, <3>1, <3>2
  <2>2. \A m, n \in Published' :
          m < n /\ Span(m)'.session = Span(n)'.session => Span(m)'.seq < Span(n)'.seq
    <3> SUFFICES ASSUME NEW m \in Published', NEW n \in Published', m < n,
                        Span(m)'.session = Span(n)'.session
                 PROVE  Span(m)'.seq < Span(n)'.seq
      OBVIOUS
    <3>1. m \in Published /\ Span(m)' = Span(m)
      BY <1>1, <1>3, PublishedFacts DEF Published, Span
    <3>2. CASE n = L
      <4>1. Span(n)' = [session |-> s, seq |-> C + 1]
        BY <1>3, <3>2 DEF Span
      <4>2. Span(m).session = s /\ Span(m).seq <= C /\ Span(m).seq \in Nat
        BY <3>1, <4>1, PublishedFacts DEF IInv, BrokerInv, StreamInv
      <4> QED BY <3>1, <4>1, <4>2, <1>3
    <3>3. CASE n \in Published
      BY <1>3, <3>1, <3>3 DEF Span, IInv, BrokerInv, StreamInv
    <3> QED BY <1>1, <3>2, <3>3
  <2> QED BY <1>1, <2>1, <2>2 DEF StreamInv
<1>8. KnownInv'
  BY <1>1 DEF IInv, BrokerInv, KnownInv
<1>9. \A i \in 1..Len(offered) : offered[i] \in Published /\ Span(offered[i])' = Span(offered[i])
  <2> TAKE i \in 1..Len(offered)
  <2>1. offered[i] \in Published
    BY ElementFacts DEF IInv, BrokerInv, KnownInv
  <2> QED BY <1>1, <1>3, <2>1 DEF Span
<1>10. since \in [Sessions -> 0..Len(offered)] /\ Len(offered) \in Nat
  BY DEF IInv, TypeOK
<1>11. OrderInv'
  <2>1. OfferedInOrder'
    BY <1>1, <1>9, <1>10 DEF IInv, OrderInv, OfferedInOrder
  <2>2. ASSUME NEW r \in Sessions
        PROVE  mark'[r] = 0 \/ \E m \in OfSession(r)' : mark'[r] = Span(m)'.seq
    <3>1. mark[r] = 0 \/ \E m \in OfSession(r) : mark[r] = Span(m).seq
      BY DEF IInv, OrderInv, MarkInv
    <3>2. \A m \in OfSession(r) : m \in OfSession(r)' /\ Span(m)' = Span(m)
      BY <1>3, <1>5 DEF OfSession, Span
    <3> QED BY <1>1, <3>1, <3>2
  <2>3. ASSUME NEW r \in Sessions, NEW i \in since[r] + 1..Len(offered),
               (Span(offered[i]).session = r)'
        PROVE  (Span(offered[i]).seq <= mark[r])'
    <3>1. i \in 1..Len(offered)
      BY <1>10, <2>3
    <3>2. Span(offered[i])' = Span(offered[i])
      BY <1>9, <3>1
    <3>3. (offered[i])' = offered[i] /\ mark'[r] = mark[r]
      BY <1>1
    <3>4. Span(offered[i]).session = r
      BY <2>3, <3>2
    <3>5. Span(offered[i]).seq <= mark[r]
      BY <2>3, <3>4 DEF IInv, OrderInv, MarkInv
    <3> QED BY <3>2, <3>3, <3>5
  <2>4. since' = since /\ offered' = offered
    BY <1>1
  <2>5. \A r \in Sessions : \A i \in since'[r] + 1..Len(offered') :
          (Span(offered[i]).session = r)' => (Span(offered[i]).seq <= mark[r])'
    BY <2>3, <2>4
  <2>6. MarkInv'
    BY <2>2, <2>5 DEF MarkInv
  <2> QED BY <2>1, <2>6 DEF OrderInv
<1>12. \A m : Handled(m)' = Handled(m)
  BY <1>1 DEF Handled
<1>13. CareInv' /\ AheadInv'
  BY <1>1, CareApart
<1>14. HandledInv'
  <2>1. \A m \in Published : Handled(m)' = Handled(m) /\ IsDuplicate(m)' = IsDuplicate(m)
    BY <1>1, <1>3, <1>12 DEF IsDuplicate, Span
  <2>2. state[L] = "new"
    BY <1>1 DEF IInv, BrokerInv, KnownInv
  <2>3. ~IsDuplicate(L)'
    <3>1. mark[s] \in Nat /\ mark[s] <= C
      <4>1. mark[s] \in Nat
        BY DEF IInv, TypeOK
      <4>2. mark[s] = 0 \/ \E m \in OfSession(s) : mark[s] = Span(m).seq
        BY DEF IInv, OrderInv, MarkInv
      <4>3. \A m \in OfSession(s) : Span(m).seq <= C
        BY DEF IInv, BrokerInv, StreamInv, OfSession
      <4> QED BY <1>3, <4>1, <4>2, <4>3
    <3>2. Span(L)' = [session |-> s, seq |-> C + 1] /\ mark' = mark
      BY <1>1, <1>3 DEF Span
    <3>3. ~(C + 1 <= mark[s])
      BY <1>3, <3>1
    <3> QED BY <3>2, <3>3 DEF IsDuplicate
  <2>4. \A i \in 1..Len(tasks) : (tasks[i].pc # "start" => Handled(tasks[i].msg))'
    <3> TAKE i \in 1..Len(tasks)
    <3> PICK m : m = tasks[i].msg
      OBVIOUS
    <3>1. tasks[i].pc # "start" => Handled(m)'
      BY <1>12 DEF IInv, SafeInv, HandledInv
    <3> QED BY <1>1, <3>1
  <2>5. \A m \in Published' : state[m] = "settled" => Handled(m)'
    BY <1>1, <1>12, <2>2 DEF IInv, SafeInv, HandledInv
  <2>6. \A m \in Published' : IsDuplicate(m)' => Handled(m)'
    BY <1>1, <2>1, <2>3 DEF IInv, SafeInv, HandledInv
  <2>7. state' = state /\ tasks' = tasks
    BY <1>1
  <2> QED BY <2>4, <2>5, <2>6, <2>7 DEF HandledInv
<1> QED BY <1>4, <1>7, <1>8, <1>11, <1>13, <1>14 DEF IInv, BrokerInv, SafeInv

-----------------------------------------------------------------------------
(* A step of a handler.                                                     *)
LEMMA MoveFacts ==
    ASSUME TypeOK, NEW i \in 1..Len(tasks), NEW p \in {"ack", "nak", "done"}, GoesTo(i, p)
    PROVE  /\ Len(tasks') = Len(tasks) /\ Len(tasks) \in Nat /\ Len(tasks) <= Batch
           /\ tasks' \in Seq([msg : Messages, pc : {"start", "ack", "nak", "done"}])
           /\ \A j \in 1..Len(tasks) : j # i => tasks'[j] = tasks[j]
           /\ \A j \in 1..Len(tasks) : /\ tasks'[j].msg = tasks[j].msg
                                       /\ tasks'[j].pc # "start" => j = i \/ tasks[j].pc # "start"
<1>1. /\ tasks \in Seq([msg : Messages, pc : {"start", "ack", "nak", "done"}])
      /\ Len(tasks) \in Nat /\ Len(tasks) <= Batch
  BY DEF TypeOK
<1>2. /\ Len(tasks') = Len(tasks)
      /\ \A j \in 1..Len(tasks) : j # i => tasks'[j] = tasks[j]
      /\ tasks'[i] = [msg |-> tasks[i].msg, pc |-> p]
      /\ tasks' \in Seq([msg : Messages, pc : {"start", "ack", "nak", "done"}])
  <2> PICK m \in Messages, c \in {"start", "ack", "nak", "done"} : tasks[i] = [msg |-> m, pc |-> c]
    <3>1. /\ tasks[i].msg \in Messages /\ tasks[i].pc \in {"start", "ack", "nak", "done"}
          /\ tasks[i] = [msg |-> tasks[i].msg, pc |-> tasks[i].pc]
      BY <1>1, TaskFacts
    <3> QED BY <3>1
  <2>1. [tasks[i] EXCEPT !.pc = p] = [msg |-> m, pc |-> p]
    OBVIOUS
  <2>2. tasks' = [tasks EXCEPT ![i] = [tasks[i] EXCEPT !.pc = p]]
    BY DEF GoesTo
  <2>3. tasks' = [tasks EXCEPT ![i] = [msg |-> m, pc |-> p]] /\ tasks[i].msg = m
    BY <2>1, <2>2
  <2>4. [msg |-> m, pc |-> p] \in [msg : Messages, pc : {"start", "ack", "nak", "done"}]
    OBVIOUS
  <2>5. tasks' \in Seq([msg : Messages, pc : {"start", "ack", "nak", "done"}])
    BY <1>1, <2>3, <2>4, ExceptIn
  <2> QED BY <1>1, <2>3, <2>5, ExceptElements
<1>3. \A j \in 1..Len(tasks) : /\ tasks'[j].msg = tasks[j].msg
                               /\ tasks'[j].pc # "start" => j = i \/ tasks[j].pc # "start"
  BY <1>2
<1> QED BY <1>1, <1>2, <1>3

(* A handler takes a step from which its message needs no care.             *)
LEMMA TaskMoves ==
    ASSUME IInv, NEW i \in 1..Len(tasks), NEW p \in {"ack", "nak", "done"}, GoesTo(i, p),
           Handled(tasks[i].msg), UNCHANGED <<stream, inbox, markVars, missed, count>>,
           faults' \in 0..MaxFaults,
           state' \in [Messages -> {"new", "out", "due", "settled"}],
           \A m \in Messages : state'[m] = "new" <=> state[m] = "new",
           \A m \in Messages : state'[m] = "settled" => state[m] = "settled" \/ m = tasks[i].msg
    PROVE  IInv'
<1>1. /\ tasks \in Seq([msg : Messages, pc : {"start", "ack", "nak", "done"}])
      /\ Len(tasks) \in Nat /\ Len(tasks) <= Batch
  BY DEF IInv, TypeOK
<1>2. /\ Len(tasks') = Len(tasks)
      /\ tasks' \in Seq([msg : Messages, pc : {"start", "ack", "nak", "done"}])
      /\ \A j \in 1..Len(tasks) : /\ tasks'[j].msg = tasks[j].msg
                                  /\ tasks'[j].pc # "start" => j = i \/ tasks[j].pc # "start"
  BY MoveFacts DEF IInv
<1>5. TypeOK'
  BY <1>1, <1>2 DEF IInv, TypeOK, markVars
<1>6. BrokerInv'
  <2>1. \A j \in 1..Len(inbox') : state[inbox'[j]] # "new"
    BY DEF IInv, BrokerInv, KnownInv
  <2>2. \A j \in 1..Len(tasks') : state[tasks'[j].msg] # "new"
    BY <1>2 DEF IInv, BrokerInv, KnownInv
  <2> QED BY <1>5, <2>1, <2>2, BrokerApart DEF markVars
<1>7. OrderInv'
  BY OrderApart
<1>8. \A m : (Handled(m)' <=> Handled(m)) /\ (InTasks(m)' <=> InTasks(m)) /\ (InInbox(m)' <=> InInbox(m))
  BY <1>2 DEF Handled, InTasks, InInbox, markVars
<1>9. CareInv'
  BY <1>8 DEF IInv, SafeInv, CareInv
<1>10. AheadInv'
  <2>1. ASSUME NEW j \in 1..Len(tasks), NEW n \in Messages, n < tasks[j].msg, ~Handled(n)
        PROVE  \E k \in 1..j - 1 : tasks'[k].msg = n
    <3>1. PICK k \in 1..j - 1 : tasks[k].msg = n
      BY <2>1 DEF IInv, SafeInv, AheadInv
    <3> QED BY <1>1, <1>2, <3>1
  <2>2. \A j \in 1..Len(tasks') : \A n \in Messages : n < tasks'[j].msg =>
          Handled(n)' \/ \E k \in 1..j - 1 : tasks'[k].msg = n
    BY <1>2, <1>8, <2>1
  <2>3. \A j \in 1..Len(inbox) : \A n \in Messages : n < inbox[j] =>
          Handled(n)' \/ InTasks(n)' \/ \E k \in 1..j - 1 : inbox[k] = n
    BY <1>8 DEF IInv, SafeInv, AheadInv
  <2>4. inbox' = inbox
    OBVIOUS
  <2> QED BY <2>2, <2>3, <2>4 DEF AheadInv
<1>11. HandledInv'
  <2>1. ASSUME NEW j \in 1..Len(tasks'), tasks'[j].pc # "start"
        PROVE  Handled(tasks'[j].msg)
    BY <1>2, <2>1 DEF IInv, SafeInv, HandledInv
  <2>2. ASSUME NEW m \in Published, state'[m] = "settled"
        PROVE  Handled(m)
    BY <2>2, PublishedFacts DEF IInv, SafeInv, HandledInv
  <2>3. \A m \in Published : IsDuplicate(m)' => Handled(m)
    BY DEF IInv, SafeInv, HandledInv, IsDuplicate, Span, markVars
  <2>4. Published' = Published
    BY DEF Published
  <2>5. \A j \in 1..Len(tasks') : tasks'[j].pc # "start" => Handled(tasks[j].msg)'
    BY <1>2, <1>8, <2>1
  <2> QED BY <1>8, <2>1, <2>2, <2>3, <2>4 DEF HandledInv
<1> QED BY <1>5, <1>6, <1>7, <1>9, <1>10, <1>11 DEF IInv, SafeInv

-----------------------------------------------------------------------------
(* What a handler does that is not an offer.                                *)
LEMMA DropKeeps ==
    ASSUME IInv, NEW i \in 1..Batch, Drop(i)
    PROVE  IInv'
<1>1. /\ i \in 1..Len(tasks) /\ GoesTo(i, "ack")
      /\ UNCHANGED <<stream, state, count, inbox, markVars, missed, faults>>
  BY DEF Drop, Starts, brokerVars, allMarkVars
<1>2. tasks[i].msg \in Published
  BY <1>1, ElementFacts DEF IInv, BrokerInv, KnownInv
<1>3. Handled(tasks[i].msg)
  BY <1>2 DEF Drop, Handled, IInv, SafeInv, HandledInv
<1>4. faults' \in 0..MaxFaults /\ state' \in [Messages -> {"new", "out", "due", "settled"}]
  BY <1>1 DEF IInv, TypeOK
<1> QED BY <1>1, <1>3, <1>4, TaskMoves

LEMMA AckLandsKeeps ==
    ASSUME IInv, NEW i \in 1..Batch, AckLands(i)
    PROVE  IInv'
<1>1. /\ i \in 1..Len(tasks) /\ tasks[i].pc = "ack" /\ GoesTo(i, "done")
      /\ state' = [state EXCEPT ![tasks[i].msg] = "settled"]
      /\ UNCHANGED <<stream, count, inbox, markVars, missed, faults>>
  BY DEF AckLands, At, allMarkVars
<1>2. Handled(tasks[i].msg) /\ state[tasks[i].msg] # "new" /\ tasks[i].msg \in Messages
  BY <1>1, ElementFacts DEF IInv, SafeInv, HandledInv, BrokerInv, KnownInv
<1>3. faults' \in 0..MaxFaults /\ state \in [Messages -> {"new", "out", "due", "settled"}]
  BY <1>1 DEF IInv, TypeOK
<1>4. /\ state' \in [Messages -> {"new", "out", "due", "settled"}]
      /\ \A m \in Messages : state'[m] = "new" <=> state[m] = "new"
      /\ \A m \in Messages : state'[m] = "settled" => state[m] = "settled" \/ m = tasks[i].msg
  BY <1>1, <1>2, <1>3
<1> QED BY <1>1, <1>2, <1>3, <1>4, TaskMoves

LEMMA AckFailsKeeps ==
    ASSUME IInv, NEW i \in 1..Batch, AckLost(i) \/ AckRaises(i)
    PROVE  IInv'
<1>1. /\ i \in 1..Len(tasks) /\ tasks[i].pc = "ack" /\ (GoesTo(i, "done") \/ GoesTo(i, "nak"))
      /\ UNCHANGED <<stream, state, count, inbox, markVars, missed>>
      /\ faults < MaxFaults /\ faults' = faults + 1
  BY DEF AckLost, AckRaises, At, Fault, brokerVars, allMarkVars
<1>2. Handled(tasks[i].msg)
  BY <1>1 DEF IInv, SafeInv, HandledInv
<1>3. faults' \in 0..MaxFaults /\ state' \in [Messages -> {"new", "out", "due", "settled"}]
  BY <1>1, ConsumerAssumption DEF IInv, TypeOK
<1> QED BY <1>1, <1>2, <1>3, TaskMoves

LEMMA NakKeeps ==
    ASSUME IInv, NEW i \in 1..Batch, NakLands(i) \/ NakFails(i)
    PROVE  IInv'
<1>1. /\ i \in 1..Len(tasks) /\ tasks[i].pc = "nak" /\ GoesTo(i, "done")
      /\ \/ state' = [state EXCEPT ![tasks[i].msg] = IF @ = "out" THEN "due" ELSE @]
         \/ state' = state
      /\ UNCHANGED <<stream, count, inbox, markVars, missed, faults>>
  BY DEF NakLands, NakFails, At, brokerVars, allMarkVars
<1>2. Handled(tasks[i].msg) /\ tasks[i].msg \in Messages
  BY <1>1, ElementFacts DEF IInv, SafeInv, HandledInv
<1>3. faults' \in 0..MaxFaults /\ state \in [Messages -> {"new", "out", "due", "settled"}]
  BY <1>1 DEF IInv, TypeOK
<1>4. /\ state' \in [Messages -> {"new", "out", "due", "settled"}]
      /\ \A m \in Messages : state'[m] = "new" <=> state[m] = "new"
      /\ \A m \in Messages : state'[m] = "settled" => state[m] = "settled" \/ m = tasks[i].msg
  BY <1>1, <1>2, <1>3
<1> QED BY <1>1, <1>2, <1>3, <1>4, TaskMoves

-----------------------------------------------------------------------------
(* The broker.                                                             *)
LEMMA DeliverKeeps ==
    ASSUME IInv, NEW m \in Messages, Deliver(m)
    PROVE  IInv'
<1> PICK L \in Nat : L = Len(inbox)
  BY ElementFacts DEF IInv
<1>1. /\ m \in Published /\ tasks = <<>> /\ L < Batch /\ count[m] < MaxDeliver
      /\ state[m] = "due" \/ (state[m] = "new" /\ \A n \in 1..m - 1 : state[n] # "new")
      /\ state' = [state EXCEPT ![m] = "out"] /\ count' = [count EXCEPT ![m] = @ + 1]
      /\ inbox' = Append(inbox, m)
      /\ UNCHANGED <<stream, tasks, markVars, missed, faults>>
  BY DEF Deliver, allMarkVars
<1>2. m \in Nat /\ m > 0 /\ Messages \subseteq Nat \ {0} /\ Published \subseteq Messages
  BY PublishedFacts
<1>3. inbox \in Seq(Messages) /\ L \in Nat /\ state \in [Messages -> {"new", "out", "due", "settled"}]
  BY DEF IInv, TypeOK
<1>4. /\ Len(inbox') = L + 1 /\ inbox'[L + 1] = m
      /\ \A j \in 1..L : inbox'[j] = inbox[j]
      /\ inbox' \in Seq(Messages)
  BY <1>1, <1>3
<1>5. /\ state' \in [Messages -> {"new", "out", "due", "settled"}] /\ state'[m] = "out"
      /\ \A n \in Messages : n # m => state'[n] = state[n]
  BY <1>1, <1>3
<1>6. TypeOK'
  <2>1. count' \in [Messages -> 0..MaxDeliver]
    BY <1>1, ConsumerAssumption DEF IInv, TypeOK
  <2> QED BY <1>1, <1>4, <1>5, <2>1 DEF IInv, TypeOK, markVars
<1>7. BrokerInv'
  <2>1. StreamInv'
    BY <1>1 DEF IInv, BrokerInv, StreamInv, OfSession, Published, Span
  <2>2. \A n \in Messages : state'[n] # "new" => n \in Published'
    BY <1>1, <1>5 DEF IInv, BrokerInv, KnownInv, Published
  <2>3. \A k, n \in Messages : state'[k] = "new" /\ k < n => state'[n] = "new"
    <3> SUFFICES ASSUME NEW k \in Messages, NEW n \in Messages, state'[k] = "new", k < n
                 PROVE  state'[n] = "new"
      OBVIOUS
    <3>1. k # m /\ state[k] = "new" /\ state[n] = "new"
      BY <1>5 DEF IInv, BrokerInv, KnownInv
    <3>2. n # m
      BY <1>1, <1>2, <3>1
    <3> QED BY <1>5, <3>1, <3>2
  <2>4. \A j \in 1..Len(inbox') : state'[inbox'[j]] # "new"
    <3> TAKE j \in 1..Len(inbox')
    <3>1. CASE j = L + 1
      BY <1>4, <1>5, <3>1
    <3>2. CASE j \in 1..L
      <4>1. inbox[j] \in Messages /\ state[inbox[j]] # "new"
        BY <3>2, ElementFacts DEF IInv, BrokerInv, KnownInv
      <4> QED BY <1>4, <1>5, <3>2, <4>1
    <3> QED BY <1>3, <1>4, <3>1, <3>2
  <2>5. \A j \in 1..Len(offered) : state'[offered[j]] # "new"
    <3> TAKE j \in 1..Len(offered)
    <3>1. offered[j] \in Messages /\ state[offered[j]] # "new"
      BY ElementFacts DEF IInv, BrokerInv, KnownInv
    <3> QED BY <1>5, <3>1
  <2>6. offered' = offered /\ tasks' = <<>>
    BY <1>1 DEF markVars
  <2> QED BY <2>1, <2>2, <2>3, <2>4, <2>5, <2>6 DEF BrokerInv, KnownInv
<1>8. OrderInv'
  BY <1>1, OrderApart
<1>9. \A n : /\ Handled(n)' <=> Handled(n)
             /\ ~InTasks(n) /\ ~InTasks(n)'
             /\ InInbox(n)' <=> (InInbox(n) \/ n = m)
  <2>1. \A n : Handled(n)' <=> Handled(n)
    BY <1>1 DEF Handled, markVars
  <2>2. \A n : ~InTasks(n) /\ ~InTasks(n)'
    BY <1>1 DEF InTasks
  <2>3. \A n : InInbox(n)' <=> InInbox(n) \/ n = m
    <3> TAKE n
    <3>1. ASSUME InInbox(n)'
          PROVE  InInbox(n) \/ n = m
      <4>1. PICK k \in 1..L + 1 : inbox'[k] = n
        BY <1>4, <3>1 DEF InInbox
      <4>2. k \in 1..L \/ k = L + 1
        BY <4>1
      <4> QED BY <1>3, <1>4, <4>1, <4>2 DEF InInbox
    <3>2. ASSUME InInbox(n)
          PROVE  InInbox(n)'
      <4>1. PICK k \in 1..L : inbox[k] = n
        BY <1>3, <3>2 DEF InInbox
      <4>2. k \in 1..L + 1 /\ inbox'[k] = n
        BY <1>4, <4>1
      <4> QED BY <1>4, <4>2 DEF InInbox
    <3>3. InInbox(m)'
      <4>1. L + 1 \in 1..Len(inbox')
        BY <1>4
      <4> QED BY <1>4, <4>1 DEF InInbox
    <3> QED BY <3>1, <3>2, <3>3
  <2> QED BY <2>1, <2>2, <2>3
<1>10. CareInv'
  <2> SUFFICES ASSUME NEW n \in Messages, state'[n] # "new"
               PROVE  Handled(n)' \/ InTasks(n)' \/ InInbox(n)'
    BY DEF CareInv
  <2>1. CASE n = m
    BY <1>9, <2>1
  <2>2. CASE n # m
    <3>1. state[n] # "new"
      BY <1>5, <2>2
    <3>2. Handled(n) \/ InTasks(n) \/ InInbox(n)
      BY <3>1 DEF IInv, SafeInv, CareInv
    <3> QED BY <1>9, <3>2
  <2> QED BY <2>1, <2>2
<1>11. AheadInv'
  <2>1. ASSUME NEW j \in 1..L + 1, NEW n \in Messages, n < inbox'[j], ~Handled(n)
        PROVE  \E k \in 1..j - 1 : inbox'[k] = n
    <3>1. CASE j = L + 1
      <4>1. n < m /\ n \in Nat /\ n # 0
        BY <1>2, <1>4, <2>1, <3>1
      <4>2. state[n] # "new"
        BY <1>1, <1>2, <4>1 DEF IInv, BrokerInv, KnownInv
      <4>3. InInbox(n)
        <5>1. Handled(n) \/ InTasks(n) \/ InInbox(n)
          BY <4>2 DEF IInv, SafeInv, CareInv
        <5> QED BY <1>9, <2>1, <5>1
      <4> QED BY <1>3, <1>4, <3>1, <4>3 DEF InInbox
    <3>2. CASE j \in 1..L
      <4>1. PICK k \in 1..j - 1 : inbox[k] = n
        <5>1. Handled(n) \/ InTasks(n) \/ \E k \in 1..j - 1 : inbox[k] = n
          BY <1>4, <2>1, <3>2 DEF IInv, SafeInv, AheadInv
        <5> QED BY <1>9, <2>1, <5>1
      <4> QED BY <1>3, <1>4, <3>2, <4>1
    <3> QED BY <1>3, <3>1, <3>2
  <2>2. Len(inbox') = L + 1 /\ Len(tasks') = 0
    BY <1>1, <1>4
  <2>3. \A j \in 1..Len(inbox') : \A n \in Messages : n < inbox'[j] =>
          Handled(n)' \/ \E k \in 1..j - 1 : inbox'[k] = n
    BY <1>9, <2>1, <2>2
  <2> QED BY <2>2, <2>3 DEF AheadInv
<1>12. HandledInv'
  <2>1. \A n \in Published : state'[n] = "settled" => Handled(n)
    BY <1>2, <1>5 DEF IInv, SafeInv, HandledInv
  <2>2. \A n \in Published : IsDuplicate(n)' => Handled(n)
    BY <1>1 DEF IInv, SafeInv, HandledInv, IsDuplicate, Span, markVars
  <2>3. Published' = Published /\ Len(tasks') = 0
    BY <1>1 DEF Published
  <2>4. \A n \in Published : (state'[n] = "settled" => Handled(n)') /\ (IsDuplicate(n)' => Handled(n)')
    BY <1>9, <2>1, <2>2
  <2> QED BY <2>3, <2>4 DEF HandledInv
<1> QED BY <1>6, <1>7, <1>8, <1>10, <1>11, <1>12 DEF IInv, SafeInv

LEMMA AckWaitExpiresKeeps ==
    ASSUME IInv, NEW m \in Messages, AckWaitExpires(m)
    PROVE  IInv'
<1>1. /\ state[m] = "out" /\ state' = [state EXCEPT ![m] = "due"]
      /\ UNCHANGED <<stream, count, inbox, tasks, markVars, missed, faults>>
  BY DEF AckWaitExpires, allMarkVars
<1>2. state \in [Messages -> {"new", "out", "due", "settled"}]
  BY DEF IInv, TypeOK
<1>3. /\ state' \in [Messages -> {"new", "out", "due", "settled"}]
      /\ \A n \in Messages : state'[n] = "new" <=> state[n] = "new"
      /\ \A n \in Messages : state'[n] = "settled" => state[n] = "settled"
  BY <1>1, <1>2
<1>4. TypeOK'
  BY <1>1, <1>3 DEF IInv, TypeOK, markVars
<1>5. BrokerInv'
  BY <1>1, <1>3, <1>4, BrokerApart DEF markVars, IInv, BrokerInv, KnownInv
<1>6. OrderInv'
  BY <1>1, OrderApart
<1>7. \A n : (Handled(n)' <=> Handled(n)) /\ (InTasks(n)' <=> InTasks(n)) /\ (InInbox(n)' <=> InInbox(n))
  BY <1>1 DEF Handled, InTasks, InInbox, markVars
<1>8. CareInv'
  BY <1>3, <1>7 DEF IInv, SafeInv, CareInv
<1>9. AheadInv'
  BY <1>1 DEF IInv, SafeInv, AheadInv, Handled, InTasks, markVars
<1>10. HandledInv'
  <2>1. \A n \in Published : state'[n] = "settled" => Handled(n)
    BY <1>3, PublishedFacts DEF IInv, SafeInv, HandledInv
  <2>2. Published' = Published
    BY <1>1 DEF Published
  <2>3. \A n \in Published : IsDuplicate(n)' => Handled(n)
    BY <1>1 DEF IInv, SafeInv, HandledInv, IsDuplicate, Span, markVars
  <2>4. \A j \in 1..Len(tasks') : (tasks[j].pc # "start" => Handled(tasks[j].msg))'
    BY <1>1 DEF IInv, SafeInv, HandledInv, Handled, markVars
  <2> QED BY <1>7, <2>1, <2>2, <2>3, <2>4 DEF HandledInv
<1> QED BY <1>4, <1>5, <1>6, <1>8, <1>9, <1>10 DEF IInv, SafeInv

-----------------------------------------------------------------------------
(* Batches.                                                                *)
LEMMA FetchKeeps ==
    ASSUME IInv, Fetch
    PROVE  IInv'
<1> PICK n \in 1..Len(inbox) :
           /\ n <= Batch
           /\ tasks' = [i \in 1..n |-> [msg |-> inbox[i], pc |-> "start"]]
           /\ inbox' = SubSeq(inbox, n + 1, Len(inbox))
  BY DEF Fetch
<1> PICK L \in Nat : L = Len(inbox)
  BY ElementFacts DEF IInv
<1>1. tasks = <<>> /\ UNCHANGED <<stream, state, count, markVars, missed, faults>>
  BY DEF Fetch, brokerVars, allMarkVars
<1>2. inbox \in Seq(Messages) /\ n \in 1..L
  BY DEF IInv, TypeOK
<1>3. /\ inbox' \in Seq(Messages) /\ Len(inbox') = L - n
      /\ \A j \in 1..L - n : inbox'[j] = inbox[n + j]
  BY <1>2
<1>4. /\ tasks' \in Seq([msg : Messages, pc : {"start", "ack", "nak", "done"}])
      /\ Len(tasks') = n
      /\ \A j \in 1..n : tasks'[j].msg = inbox[j] /\ tasks'[j].pc = "start"
  <2>1. \A j \in 1..n : inbox[j] \in Messages
    BY <1>2, ElementFacts DEF IInv
  <2>2. \A j \in 1..n : [msg |-> inbox[j], pc |-> "start"]
                          \in [msg : Messages, pc : {"start", "ack", "nak", "done"}]
    BY <2>1
  <2> QED BY <1>2, <2>2, FunctionIsSeq
<1>5. TypeOK'
  BY <1>1, <1>3, <1>4 DEF IInv, TypeOK, markVars
<1>6. BrokerInv'
  <2>1. \A j \in 1..L : state[inbox[j]] # "new"
    BY DEF IInv, BrokerInv, KnownInv
  <2>2. \A j \in 1..Len(inbox') : state[inbox'[j]] # "new"
    BY <1>2, <1>3, <2>1
  <2>3. \A j \in 1..Len(tasks') : state[tasks'[j].msg] # "new"
    BY <1>2, <1>4, <2>1
  <2> QED BY <1>1, <1>5, <2>2, <2>3, BrokerApart DEF markVars
<1>7. OrderInv'
  BY <1>1, OrderApart
<1>8. \A m : /\ Handled(m)' <=> Handled(m)
             /\ ~InTasks(m)
             /\ InInbox(m) => (InTasks(m)' \/ InInbox(m)')
  <2> TAKE m
  <2>1. Handled(m)' <=> Handled(m)
    BY <1>1 DEF Handled, markVars
  <2>2. ~InTasks(m)
    BY <1>1 DEF InTasks
  <2>3. ASSUME InInbox(m)
        PROVE  InTasks(m)' \/ InInbox(m)'
    <3>1. PICK k \in 1..L : inbox[k] = m
      BY <2>3 DEF InInbox
    <3>2. CASE k \in 1..n
      BY <1>4, <3>1, <3>2 DEF InTasks
    <3>3. CASE k \in n + 1..L
      <4>1. k - n \in 1..L - n /\ n + (k - n) = k
        BY <1>2, <3>1, <3>3
      <4>2. inbox'[k - n] = inbox[n + (k - n)]
        BY <1>3, <4>1
      <4> QED BY <1>3, <3>1, <4>1, <4>2 DEF InInbox
    <3> QED BY <1>2, <3>1, <3>2, <3>3
  <2> QED BY <2>1, <2>2, <2>3
<1>9. CareInv'
  <2> SUFFICES ASSUME NEW m \in Messages, state[m] # "new"
               PROVE  Handled(m)' \/ InTasks(m)' \/ InInbox(m)'
    BY <1>1 DEF CareInv
  <2>1. Handled(m) \/ InTasks(m) \/ InInbox(m)
    BY DEF IInv, SafeInv, CareInv
  <2> QED BY <1>8, <2>1
<1>10. AheadInv'
  <2>1. ASSUME NEW j \in 1..L, NEW m \in Messages, m < inbox[j], ~Handled(m)
        PROVE  \E k \in 1..j - 1 : inbox[k] = m
    <3>1. Handled(m) \/ InTasks(m) \/ \E k \in 1..j - 1 : inbox[k] = m
      BY <2>1 DEF IInv, SafeInv, AheadInv
    <3> QED BY <1>8, <2>1, <3>1
  <2>2. ASSUME NEW j \in 1..n, NEW m \in Messages, m < tasks'[j].msg, ~Handled(m)
        PROVE  \E k \in 1..j - 1 : tasks'[k].msg = m
    <3>1. j \in 1..L /\ m < inbox[j]
      BY <1>2, <1>4, <2>2
    <3>2. PICK k \in 1..j - 1 : inbox[k] = m
      BY <2>1, <2>2, <3>1
    <3>3. k \in 1..n
      BY <1>2, <3>2
    <3> QED BY <1>4, <3>2, <3>3
  <2>3. ASSUME NEW j \in 1..L - n, NEW m \in Messages, m < inbox'[j], ~Handled(m)
        PROVE  InTasks(m)' \/ \E k \in 1..j - 1 : inbox'[k] = m
    <3>1. PICK k \in 1..n + j - 1 : inbox[k] = m
      BY <1>2, <1>3, <2>1, <2>3
    <3>2. CASE k \in 1..n
      BY <1>4, <3>1, <3>2 DEF InTasks
    <3>3. CASE k \in n + 1..n + j - 1
      <4>1. k - n \in 1..j - 1 /\ k - n \in 1..L - n /\ n + (k - n) = k
        BY <1>2, <3>3
      <4>2. inbox'[k - n] = inbox[n + (k - n)]
        BY <1>3, <4>1
      <4> QED BY <3>1, <4>1, <4>2
    <3>4. k \in 1..n \/ k \in n + 1..n + j - 1
      BY <1>2, <3>1
    <3> QED BY <3>2, <3>3, <3>4
  <2>4. \A j \in 1..Len(tasks') : \A m \in Messages : m < tasks'[j].msg =>
          Handled(m)' \/ \E k \in 1..j - 1 : tasks'[k].msg = m
    BY <1>4, <1>8, <2>2
  <2>5. \A j \in 1..Len(inbox') : \A m \in Messages : m < inbox'[j] =>
          Handled(m)' \/ InTasks(m)' \/ \E k \in 1..j - 1 : inbox'[k] = m
    BY <1>3, <1>8, <2>3
  <2> QED BY <2>4, <2>5 DEF AheadInv
<1>11. HandledInv'
  <2>1. \A m \in Published : (state'[m] = "settled" => Handled(m)') /\ (IsDuplicate(m)' => Handled(m)')
    BY <1>1, <1>8 DEF IInv, SafeInv, HandledInv, IsDuplicate, Span, markVars
  <2>2. Published' = Published
    BY <1>1 DEF Published
  <2>3. \A j \in 1..Len(tasks') : tasks'[j].pc = "start"
    BY <1>4
  <2> QED BY <2>1, <2>2, <2>3 DEF HandledInv
<1> QED BY <1>5, <1>6, <1>7, <1>9, <1>10, <1>11 DEF IInv, SafeInv

(* The handlers go when all are done, or all at once with what was fetched  *)
(* and what was on its way: then a fault took what they did not handle.     *)
LEMMA TasksGo ==
    ASSUME IInv, tasks' = <<>> \/ tasks' = tasks, inbox' = <<>> \/ inbox' = inbox,
           UNCHANGED <<stream, state, count, offered>>, TypeOK', OrderInv',
           \A s \in Sessions : mark'[s] = mark[s] \/ mark'[s] = 0,
           missed \subseteq missed',
           \A m \in Messages : InTasks(m) /\ tasks' = <<>> => Handled(m)',
           \A m \in Messages : InInbox(m) /\ inbox' = <<>> => Handled(m)'
    PROVE  IInv'
<1>1. \A m \in Messages : /\ Handled(m) => Handled(m)'
                          /\ InTasks(m) => (Handled(m)' \/ (tasks' = tasks /\ InTasks(m)'))
                          /\ InInbox(m) => (Handled(m)' \/ (inbox' = inbox /\ InInbox(m)'))
  <2> TAKE m \in Messages
  <2>1. Handled(m) => Handled(m)'
    BY DEF Handled
  <2>2. tasks' = tasks => (InTasks(m) <=> InTasks(m)')
    BY DEF InTasks
  <2>3. inbox' = inbox => (InInbox(m) <=> InInbox(m)')
    BY DEF InInbox
  <2> QED BY <2>1, <2>2, <2>3
<1>2. BrokerInv'
  <2>1. \A i \in 1..Len(inbox') : state[inbox'[i]] # "new"
    BY DEF IInv, BrokerInv, KnownInv
  <2>2. \A i \in 1..Len(tasks') : state[tasks'[i].msg] # "new"
    BY DEF IInv, BrokerInv, KnownInv
  <2> QED BY <2>1, <2>2, BrokerApart
<1>3. CareInv'
  <2> SUFFICES ASSUME NEW m \in Messages, state[m] # "new"
               PROVE  Handled(m)' \/ InTasks(m)' \/ InInbox(m)'
    BY DEF CareInv
  <2>1. Handled(m) \/ InTasks(m) \/ InInbox(m)
    BY DEF IInv, SafeInv, CareInv
  <2> QED BY <1>1, <2>1
<1>4. AheadInv'
  <2>1. ASSUME tasks' = tasks, NEW j \in 1..Len(tasks), NEW n \in Messages, n < tasks[j].msg
        PROVE  Handled(n)' \/ \E i \in 1..j - 1 : tasks[i].msg = n
    <3>1. Handled(n) \/ \E i \in 1..j - 1 : tasks[i].msg = n
      BY <2>1 DEF IInv, SafeInv, AheadInv
    <3> QED BY <1>1, <3>1
  <2>2. ASSUME inbox' = inbox, NEW j \in 1..Len(inbox), NEW n \in Messages, n < inbox[j]
        PROVE  Handled(n)' \/ InTasks(n)' \/ \E i \in 1..j - 1 : inbox[i] = n
    <3>1. Handled(n) \/ InTasks(n) \/ \E i \in 1..j - 1 : inbox[i] = n
      BY <2>2 DEF IInv, SafeInv, AheadInv
    <3> QED BY <1>1, <3>1
  <2>3. \A j \in 1..Len(tasks') : \A n \in Messages : n < tasks'[j].msg =>
          Handled(n)' \/ \E i \in 1..j - 1 : tasks'[i].msg = n
    BY <2>1
  <2>4. \A j \in 1..Len(inbox') : \A n \in Messages : n < inbox'[j] =>
          Handled(n)' \/ InTasks(n)' \/ \E i \in 1..j - 1 : inbox'[i] = n
    BY <2>2
  <2> QED BY <2>3, <2>4 DEF AheadInv
<1>5. HandledInv'
  <2>1. ASSUME NEW m \in Published, IsDuplicate(m)'
        PROVE  Handled(m)'
    <3>1. Span(m)' = Span(m) /\ Span(m).session \in Sessions /\ Span(m).seq \in Nat \ {0}
      BY PublishedFacts DEF Span
    <3>2. Span(m).seq <= mark'[Span(m).session]
      BY <2>1, <3>1 DEF IsDuplicate
    <3>3. Span(m).seq <= mark[Span(m).session]
      BY <3>1, <3>2
    <3> QED BY <1>1, <3>3, PublishedFacts DEF IInv, SafeInv, HandledInv, IsDuplicate
  <2>2. \A m \in Published : state'[m] = "settled" => Handled(m)'
    BY <1>1, PublishedFacts DEF IInv, SafeInv, HandledInv
  <2>3. Published' = Published
    BY DEF Published
  <2>4. \A i \in 1..Len(tasks') : (tasks[i].pc # "start" => Handled(tasks[i].msg))'
    <3> TAKE i \in 1..Len(tasks')
    <3>1. tasks' = tasks /\ i \in 1..Len(tasks) /\ tasks[i].msg \in Messages
      BY ElementFacts DEF IInv
    <3> PICK m \in Messages : m = tasks[i].msg
      BY <3>1
    <3>2. tasks[i].pc # "start" => Handled(m)'
      BY <1>1, <3>1 DEF IInv, SafeInv, HandledInv
    <3> QED BY <3>1, <3>2
  <2> QED BY <2>1, <2>2, <2>3, <2>4 DEF HandledInv
<1> QED BY <1>2, <1>3, <1>4, <1>5 DEF IInv, SafeInv

LEMMA BatchDoneKeeps ==
    ASSUME IInv, BatchDone
    PROVE  IInv'
<1>1. /\ \A i \in 1..Len(tasks) : tasks[i].pc = "done"
      /\ tasks' = <<>> /\ UNCHANGED <<stream, state, count, inbox, markVars, missed, faults>>
  BY DEF BatchDone, brokerVars, allMarkVars
<1>2. TypeOK' /\ OrderInv'
  <2>1. tasks' \in Seq([msg : Messages, pc : {"start", "ack", "nak", "done"}]) /\ Len(tasks') <= Batch
    BY <1>1, ConsumerAssumption
  <2> QED BY <1>1, <2>1, OrderApart DEF IInv, TypeOK, markVars
<1>3. \A m \in Messages : InTasks(m) => Handled(m)'
  BY <1>1 DEF IInv, SafeInv, HandledInv, InTasks, Handled, markVars
<1>4. \A m \in Messages : InInbox(m) /\ inbox' = <<>> => Handled(m)'
  BY <1>1 DEF InInbox
<1> QED BY <1>1, <1>2, <1>3, <1>4, TasksGo DEF markVars

LEMMA TransitLostKeeps ==
    ASSUME IInv, TransitLost
    PROVE  IInv'
<1>1. /\ inbox' = <<>> /\ missed' = missed \cup ToSet(inbox)
      /\ UNCHANGED <<stream, state, count, tasks, markVars>>
      /\ faults < MaxFaults /\ faults' = faults + 1
  BY DEF TransitLost, Fault, brokerVars
<1>2. \A m \in Messages : InInbox(m) => m \in missed'
  BY <1>1, ElementFacts DEF InInbox, ToSet, IInv
<1>3. missed' \in SUBSET Messages
  BY <1>1 DEF IInv, TypeOK, ToSet
<1>4. TypeOK' /\ OrderInv'
  BY <1>1, <1>3, ConsumerAssumption, OrderApart DEF IInv, TypeOK, markVars
<1>5. \A m \in Messages : InTasks(m) /\ tasks' = <<>> => Handled(m)'
  BY <1>1 DEF InTasks
<1>6. \A m \in Messages : InInbox(m) => Handled(m)'
  BY <1>2 DEF Handled
<1> QED BY <1>1, <1>4, <1>5, <1>6, TasksGo DEF markVars

LEMMA RestartKeeps ==
    ASSUME IInv, Restart
    PROVE  IInv'
<1>1. /\ inbox' = <<>> /\ tasks' = <<>> /\ tracked' = <<>>
      /\ mark' = [s \in Sessions |-> 0] /\ since' = [s \in Sessions |-> Len(offered)]
      /\ missed' = missed \cup ToSet(inbox) \cup {tasks[i].msg : i \in 1..Len(tasks)}
      /\ UNCHANGED <<stream, state, count, offered>>
      /\ faults < MaxFaults /\ faults' = faults + 1
  BY DEF Restart, Fault, brokerVars
<1>2. \A m \in Messages : InInbox(m) => m \in missed'
  BY <1>1, ElementFacts DEF InInbox, ToSet, IInv
<1>3. \A m \in Messages : InTasks(m) => m \in missed'
  BY <1>1 DEF InTasks
<1>4. missed' \in SUBSET Messages
  <2>1. ToSet(inbox) \subseteq Messages
    BY DEF IInv, TypeOK, ToSet
  <2>2. {tasks[i].msg : i \in 1..Len(tasks)} \subseteq Messages
    BY ElementFacts DEF IInv
  <2> QED BY <1>1, <2>1, <2>2 DEF IInv, TypeOK
<1>5. TypeOK'
  BY <1>1, <1>4, ConsumerAssumption DEF IInv, TypeOK
<1>6. OrderInv'
  <2>1. Len(offered) \in Nat
    BY ElementFacts DEF IInv
  <2> QED BY <1>1, <2>1 DEF OrderInv, OfferedInOrder, MarkInv
<1>7. \A m \in Messages : (InTasks(m) \/ InInbox(m)) => Handled(m)'
  BY <1>2, <1>3 DEF Handled
<1> QED BY <1>1, <1>5, <1>6, <1>7, TasksGo

-----------------------------------------------------------------------------
(* An offer.  The watermarks kept are the session's and those kept before.  *)
LEMMA CappedFacts ==
    ASSUME TypeOK, NEW s \in Sessions
    PROVE  /\ Capped(s) \in Seq(Sessions) /\ Len(Capped(s)) <= MaxTracked
           /\ \A r \in Sessions : Contains(Capped(s), r) => r = s \/ Contains(tracked, r)
<1>1. tracked \in Seq(Sessions) /\ Len(tracked) \in Nat /\ Len(tracked) <= MaxTracked
  BY DEF TypeOK
<1>2. MaxTracked \in Nat /\ MaxTracked > 0
  BY ConsumerAssumption
<1>3. /\ TrackedWith(s) \in Seq(Sessions) /\ Len(TrackedWith(s)) <= MaxTracked + 1
      /\ \A r : Contains(TrackedWith(s), r) => r = s \/ Contains(tracked, r)
  BY <1>1, <1>2 DEF TrackedWith, Contains
<1>4. CASE Len(TrackedWith(s)) > MaxTracked
  <2> PICK q \in Seq(Sessions) : q = TrackedWith(s)
    BY <1>3
  <2>1. Capped(s) = Tail(q) /\ q # <<>>
    BY <1>2, <1>4 DEF Capped
  <2>2. /\ Tail(q) \in Seq(Sessions) /\ Len(Tail(q)) = Len(q) - 1
        /\ \A i \in 1..Len(Tail(q)) : Tail(q)[i] = q[i + 1] /\ i + 1 \in 1..Len(q)
    BY <2>1
  <2>3. \A r : Contains(Tail(q), r) => Contains(q, r)
    BY <2>2 DEF Contains
  <2> QED BY <1>2, <1>3, <2>1, <2>2, <2>3
<1>5. CASE ~(Len(TrackedWith(s)) > MaxTracked)
  <2>1. Capped(s) = TrackedWith(s)
    BY <1>5 DEF Capped
  <2>2. Len(TrackedWith(s)) \in Nat
    BY <1>3
  <2> QED BY <1>2, <1>3, <1>5, <2>1, <2>2
<1> QED BY <1>4, <1>5

LEMMA OfferKeeps ==
    ASSUME IInv, NEW i \in 1..Batch, Offer(i)
    PROVE  IInv'
<1>1. i \in 1..Len(tasks) /\ tasks[i].msg \in Published /\ tasks[i].msg \in Messages
  BY ElementFacts DEF IInv, BrokerInv, KnownInv, Offer, Starts
<1> PICK m \in Published : m = tasks[i].msg
  BY <1>1
<1> PICK s \in Sessions : s = Span(m).session
  BY PublishedFacts
<1> PICK L \in Nat : L = Len(offered)
  BY ElementFacts DEF IInv
<1> DEFINE kept(r) == Contains(Capped(s), r)
<1>2. /\ GoesTo(i, "ack") /\ ~IsDuplicate(m) /\ offered' = Append(offered, m)
      /\ \A j \in 1..i - 1 : tasks[j].pc # "start"
      /\ UNCHANGED <<stream, state, count, inbox, missed, faults>>
  BY DEF Offer, Starts, brokerVars
<1>3. /\ tracked' = Capped(s)
      /\ mark' = [r \in Sessions |-> IF ~kept(r) THEN 0
                                     ELSE IF r = s THEN Span(m).seq ELSE mark[r]]
      /\ since' = [r \in Sessions |-> IF kept(r) THEN since[r] ELSE L + 1]
  BY DEF Offer, RecordSequence
<1> HIDE DEF kept
<1>4. Span(m).seq \in Nat \ {0} /\ mark[s] \in Nat /\ mark[s] < Span(m).seq
  <2>1. Span(m).seq \in Nat \ {0}
    BY PublishedFacts
  <2>2. mark[s] \in Nat
    BY DEF IInv, TypeOK
  <2>3. ~(Span(m).seq <= mark[s])
    BY <1>2 DEF IsDuplicate
  <2> QED BY <2>1, <2>2, <2>3
<1>5. /\ offered' \in Seq(Messages) /\ Len(offered') = L + 1 /\ offered'[L + 1] = m
      /\ \A j \in 1..L : offered'[j] = offered[j]
  BY <1>1, <1>2 DEF IInv, TypeOK
<1>6. /\ mark \in [Sessions -> Nat] /\ since \in [Sessions -> 0..L]
      /\ \A r \in Sessions : mark[r] # 0 <=> Contains(tracked, r)
  BY DEF IInv, TypeOK, Contains
<1>7. /\ mark' \in [Sessions -> Nat] /\ since' \in [Sessions -> 0..L + 1]
      /\ \A r \in Sessions : mark'[r] # 0 <=> kept(r)
  <2>1. \A r \in Sessions : kept(r) => r = s \/ Contains(tracked, r)
    BY CappedFacts DEF IInv, kept
  <2> QED BY <1>3, <1>4, <1>6, <2>1
<1>8. /\ Len(tasks') = Len(tasks) /\ Len(tasks) \in Nat /\ Len(tasks) <= Batch
      /\ tasks' \in Seq([msg : Messages, pc : {"start", "ack", "nak", "done"}])
      /\ \A j \in 1..Len(tasks) : /\ tasks'[j].msg = tasks[j].msg
                                  /\ tasks'[j].pc # "start" => j = i \/ tasks[j].pc # "start"
  BY <1>1, <1>2, MoveFacts DEF IInv
<1>9. TypeOK'
  <2>1. /\ tracked' \in Seq(Sessions) /\ Len(tracked') <= MaxTracked
        /\ \A r \in Sessions : mark'[r] # 0 <=> \E j \in 1..Len(tracked') : tracked'[j] = r
    BY <1>3, <1>7, CappedFacts DEF IInv, kept, Contains
  <2> QED BY <1>2, <1>5, <1>7, <1>8, <2>1 DEF IInv, TypeOK
<1>10. \A n \in Published : Span(n)' = Span(n)
  BY <1>2 DEF Span
<1>11. \A j \in 1..L : offered[j] \in Published /\ offered'[j] = offered[j]
  BY <1>5, ElementFacts DEF IInv, BrokerInv, KnownInv
<1>12. BrokerInv'
  <2>1. StreamInv'
    BY <1>2 DEF IInv, BrokerInv, StreamInv, OfSession, Published, Span
  <2>2. \A j \in 1..Len(tasks') : state'[tasks'[j].msg] # "new"
    BY <1>2, <1>8 DEF IInv, BrokerInv, KnownInv
  <2>3. \A j \in 1..Len(offered') : state'[offered'[j]] # "new"
    <3>1. state[m] # "new"
      BY <1>1 DEF IInv, BrokerInv, KnownInv
    <3>2. \A j \in 1..L : state[offered[j]] # "new"
      BY DEF IInv, BrokerInv, KnownInv
    <3> QED BY <1>2, <1>5, <3>1, <3>2
  <2> QED BY <1>2, <2>1, <2>2, <2>3 DEF IInv, BrokerInv, KnownInv, Published
<1>13. \A j \in since[s] + 1..L : Span(offered[j]).session = s => Span(offered[j]).seq <= mark[s]
  BY DEF IInv, OrderInv, MarkInv
<1>14. OfferedInOrder'
  <2> SUFFICES ASSUME NEW r \in Sessions, NEW a \in since'[r] + 1..L + 1,
                      NEW b \in since'[r] + 1..L + 1, a < b,
                      (Span(offered[a]).session = r)', (Span(offered[b]).session = r)'
               PROVE  (Span(offered[a]).seq < Span(offered[b]).seq)'
    BY <1>5 DEF OfferedInOrder
  <2>1. /\ kept(r) /\ since'[r] = since[r] /\ since[r] \in 0..L
    BY <1>3, <1>6
  <2>2. a \in 1..L /\ a \in since[r] + 1..L
    BY <2>1
  <2> PICK k \in Published : k = offered[a] /\ k = offered'[a]
    BY <1>11, <2>2
  <2>3. Span(k)' = Span(k) /\ Span(k).session = r /\ Span(k).seq \in Nat
    BY <1>10, PublishedFacts DEF Span
  <2>4. CASE b = L + 1
    <3>1. offered'[b] = m /\ r = s
      BY <1>5, <1>10, <2>4 DEF Span
    <3>2. Span(k).seq <= mark[s]
      BY <1>13, <2>2, <2>3, <3>1
    <3>3. Span(k).seq < Span(m).seq
      BY <1>4, <2>3, <3>2
    <3> QED BY <1>2, <3>1, <3>3 DEF Span
  <2>5. CASE b \in since[r] + 1..L
    <3> PICK n \in Published : n = offered[b] /\ n = offered'[b]
      BY <1>11, <2>1, <2>5
    <3>1. Span(k).seq < Span(n).seq
      <4>1. Span(n).session = r
        BY <1>2 DEF Span
      <4> QED BY <2>2, <2>3, <2>5, <4>1 DEF IInv, OrderInv, OfferedInOrder
    <3> QED BY <1>2, <3>1 DEF Span
  <2> QED BY <2>1, <2>4, <2>5
<1>15. MarkInv'
  <2>1. ASSUME NEW r \in Sessions
        PROVE  mark'[r] = 0 \/ \E n \in OfSession(r)' : mark'[r] = Span(n)'.seq
    <3>1. \A n \in OfSession(r) : n \in OfSession(r)' /\ Span(n)' = Span(n)
      BY <1>2 DEF OfSession, Published, Span
    <3>2. mark[r] = 0 \/ \E n \in OfSession(r) : mark[r] = Span(n).seq
      BY DEF IInv, OrderInv, MarkInv
    <3>3. m \in OfSession(s)
      BY DEF OfSession
    <3> QED BY <1>3, <3>1, <3>2, <3>3
  <2>2. ASSUME NEW r \in Sessions, NEW a \in since'[r] + 1..L + 1, (Span(offered[a]).session = r)'
        PROVE  (Span(offered[a]).seq)' <= mark'[r]
    <3>1. /\ kept(r) /\ since'[r] = since[r] /\ since[r] \in 0..L
          /\ mark'[r] = IF r = s THEN Span(m).seq ELSE mark[r]
      BY <1>3, <1>6
    <3>2. CASE a = L + 1
      <4>1. offered'[a] = m /\ r = s
        BY <1>5, <1>10, <2>2, <3>2 DEF Span
      <4> QED BY <1>2, <1>4, <3>1, <4>1 DEF Span
    <3>3. CASE a \in since[r] + 1..L
      <4> PICK k \in Published : k = offered[a] /\ k = offered'[a]
        BY <1>11, <3>1, <3>3
      <4>1. Span(k).session = r /\ Span(k).seq \in Nat
        BY <1>2, <2>2, PublishedFacts DEF Span
      <4>2. Span(k).seq <= mark[r]
        BY <3>3, <4>1 DEF IInv, OrderInv, MarkInv
      <4>3. Span(k).seq <= mark'[r]
        BY <1>4, <3>1, <4>1, <4>2
      <4> QED BY <1>2, <4>3 DEF Span
    <3> QED BY <3>1, <3>2, <3>3
  <2>3. Len(offered') = L + 1
    BY <1>5
  <2> QED BY <2>1, <2>2, <2>3 DEF MarkInv
<1>16. \A n : /\ Handled(n) => Handled(n)'
              /\ InTasks(n)' <=> InTasks(n)
              /\ InInbox(n)' <=> InInbox(n)
  <2> TAKE n
  <2>1. InTasks(n)' <=> InTasks(n)
    BY <1>8 DEF InTasks
  <2>2. InInbox(n)' <=> InInbox(n)
    BY <1>2 DEF InInbox
  <2>3. Contains(offered, n) => Contains(offered', n)
    BY <1>5 DEF Contains
  <2> QED BY <1>2, <2>1, <2>2, <2>3 DEF Handled
<1>17. Handled(m)'
  <2>1. L + 1 \in 1..Len(offered') /\ offered'[L + 1] = m
    BY <1>5
  <2> QED BY <2>1 DEF Handled, Contains
<1>18. CareInv'
  <2> SUFFICES ASSUME NEW n \in Messages, state[n] # "new"
               PROVE  Handled(n)' \/ InTasks(n)' \/ InInbox(n)'
    BY <1>2 DEF CareInv
  <2>1. Handled(n) \/ InTasks(n) \/ InInbox(n)
    BY DEF IInv, SafeInv, CareInv
  <2> QED BY <1>16, <2>1
<1>19. AheadInv'
  <2>1. ASSUME NEW j \in 1..Len(tasks), NEW n \in Messages, n < tasks[j].msg, ~Handled(n)
        PROVE  \E k \in 1..j - 1 : tasks'[k].msg = n
    <3>1. PICK k \in 1..j - 1 : tasks[k].msg = n
      BY <2>1 DEF IInv, SafeInv, AheadInv
    <3> QED BY <1>8, <3>1
  <2>2. \A j \in 1..Len(tasks') : \A n \in Messages : n < tasks'[j].msg =>
          Handled(n)' \/ \E k \in 1..j - 1 : tasks'[k].msg = n
    BY <1>8, <1>16, <2>1
  <2>3. ASSUME NEW j \in 1..Len(inbox), NEW n \in Messages, n < inbox[j]
        PROVE  Handled(n)' \/ InTasks(n)' \/ \E k \in 1..j - 1 : inbox[k] = n
    <3>1. Handled(n) \/ InTasks(n) \/ \E k \in 1..j - 1 : inbox[k] = n
      BY <2>3 DEF IInv, SafeInv, AheadInv
    <3> QED BY <1>16, <3>1
  <2> QED BY <1>2, <2>2, <2>3 DEF AheadInv
<1>20. HandledInv'
  <2>1. ASSUME NEW n \in Published, n < m
        PROVE  Handled(n)
    <3>1. Handled(n) \/ \E j \in 1..i - 1 : tasks[j].msg = n
      BY <1>1, <2>1, PublishedFacts DEF IInv, SafeInv, AheadInv
    <3>2. \A j \in 1..i - 1 : j \in 1..Len(tasks)
      BY <1>1, <1>8
    <3> QED BY <1>2, <3>1, <3>2 DEF IInv, SafeInv, HandledInv
  <2>2. ASSUME NEW n \in Published, Span(n).session = s, Span(n).seq <= Span(m).seq
        PROVE  Handled(n)'
    <3>1. n \in Nat /\ m \in Nat /\ Span(n).seq \in Nat /\ Span(m).seq \in Nat
      BY PublishedFacts
    <3>2. ~(m < n)
      BY <2>2, <3>1 DEF IInv, BrokerInv, StreamInv
    <3>3. n = m \/ n < m
      BY <3>1, <3>2
    <3> QED BY <1>16, <1>17, <2>1, <3>3
  <2>3. ASSUME NEW n \in Published, IsDuplicate(n)'
        PROVE  Handled(n)'
    <3> PICK r \in Sessions : r = Span(n).session
      BY PublishedFacts
    <3>1. Span(n).seq \in Nat \ {0} /\ Span(n).seq <= mark'[r]
      BY <1>10, <2>3, PublishedFacts DEF IsDuplicate
    <3>2. CASE kept(r) /\ r = s
      BY <1>3, <2>2, <3>1, <3>2
    <3>3. CASE kept(r) /\ r # s
      <4>1. Span(n).seq <= mark[r]
        BY <1>3, <3>1, <3>3
      <4> QED BY <1>16, <4>1 DEF IInv, SafeInv, HandledInv, IsDuplicate
    <3>4. CASE ~kept(r)
      BY <1>3, <3>1, <3>4
    <3> QED BY <3>2, <3>3, <3>4
  <2>4. \A n \in Published : state'[n] = "settled" => Handled(n)'
    BY <1>2, <1>16 DEF IInv, SafeInv, HandledInv
  <2>5. \A j \in 1..Len(tasks') : (tasks[j].pc # "start" => Handled(tasks[j].msg))'
    <3> TAKE j \in 1..Len(tasks')
    <3> PICK n : n = tasks[j].msg /\ n = tasks'[j].msg
      BY <1>8
    <3>1. tasks'[j].pc # "start" => Handled(n)'
      BY <1>8, <1>16, <1>17 DEF IInv, SafeInv, HandledInv
    <3> QED BY <3>1
  <2>6. Published' = Published
    BY <1>2 DEF Published
  <2> QED BY <2>3, <2>4, <2>5, <2>6 DEF HandledInv
<1> QED BY <1>9, <1>12, <1>14, <1>15, <1>18, <1>19, <1>20 DEF IInv, OrderInv, SafeInv

-----------------------------------------------------------------------------
LEMMA StutterKeeps ==
    ASSUME IInv, UNCHANGED vars
    PROVE  IInv'
<1>1. UNCHANGED <<stream, state, count, inbox, tasks, markVars, missed, faults>>
  BY DEF vars, markVars
<1>2. TypeOK' /\ OrderInv'
  BY <1>1, OrderApart DEF IInv, TypeOK, markVars
<1>3. \A m \in Messages : /\ InTasks(m) /\ tasks' = <<>> => Handled(m)'
                          /\ InInbox(m) /\ inbox' = <<>> => Handled(m)'
  BY <1>1 DEF InTasks, InInbox
<1> QED BY <1>1, <1>2, <1>3, TasksGo DEF markVars

LEMMA NextKeeps ==
    ASSUME IInv, [Next]_vars
    PROVE  IInv'
<1>1. ASSUME NEW i \in 1..Batch, Handle(i)
      PROVE  IInv'
  BY <1>1, DropKeeps, OfferKeeps, AckLandsKeeps, AckFailsKeeps, NakKeeps DEF Handle
<1> QED
  BY <1>1, PublishKeeps, DeliverKeeps, AckWaitExpiresKeeps, TransitLostKeeps, FetchKeeps,
     BatchDoneKeeps, RestartKeeps, StutterKeeps DEF Next

(* The inductive invariant holds in every behaviour (consumer.py 157-200).  *)
THEOREM ConsumerInvariant == Spec => []IInv
<1>1. Init => IInv
  BY InitIInv
<1>2. IInv /\ [Next]_vars => IInv'
  BY NextKeeps
<1> QED BY <1>1, <1>2, PTL DEF Spec

(* The consumer's state and the broker's have their types.                  *)
THEOREM ConsumerTypes == Spec => []TypeOK
<1>1. IInv => TypeOK
  BY DEF IInv
<1> QED BY <1>1, ConsumerInvariant, PTL

(* A session's spans reach the separator in sequence and none twice, for as *)
(* long as its watermark is kept (consumer.py 173-186).                     *)
THEOREM ConsumerOrder == Spec => []OfferedInOrder
<1>1. IInv => OfferedInOrder
  BY DEF IInv, OrderInv
<1> QED BY <1>1, ConsumerInvariant, PTL

(* What the broker need not deliver again was offered, is no span, or was   *)
(* taken by a fault (consumer.py 173-193).                                  *)
THEOREM ConsumerSettles == Spec => []SettledWasOffered
<1>1. IInv => SettledWasOffered
  BY DEF IInv, SafeInv, HandledInv, Handled, SettledWasOffered
<1> QED BY <1>1, ConsumerInvariant, PTL
(* No message is forgotten: each that was ever delivered was handled, or a *)
(* handler or the client's inbox still holds it, whatever is redelivered,  *)
(* evicted or restarted (consumer.py 87-100, 173-193).                     *)
THEOREM ConsumerForgetsNone == Spec => []CareInv
<1>1. IInv => CareInv
  BY DEF IInv, SafeInv
<1> QED BY <1>1, ConsumerInvariant, PTL
=============================================================================
