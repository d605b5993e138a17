------------------------ MODULE SentenceSeparator_proofs ------------------------
(***************************************************************************)
(* Safety of the sentence separator, for any numbers of sessions, segments *)
(* and deltas, any size of its input and any failures.  A SegmentState     *)
(* keeps the key of the delta it was created for, although it outlives its *)
(* place in the map: so its text is of one segment, and not newer than its *)
(* metadata.  And what leaves the map while no splitter holds its text is  *)
(* marked and queued until it is shipped.  A session's objects are queued, *)
(* split and filled in the order of their creation: so its text leaves in  *)
(* the order it was spoken, and no delta is dropped or repeated.           *)
(***************************************************************************)
EXTENDS SentenceSeparator, TLAPS, FiniteSetTheorems, SequenceTheorems

Offered == 1..Len(deltas)
KeyOf(d) == <<deltas[d].session, deltas[d].segment>>
Objects == 1..created

(* Deltas wait in the order they were offered, and each creates at most one *)
(* object.                                                                  *)
InputInv ==
    /\ Len(deltas) <= MaxDeltas /\ created + Len(input) <= Len(deltas)
    /\ \A i \in 1..Len(input) : input[i] \in Offered
    /\ \A i, j \in 1..Len(input) : i < j => input[i] < input[j]

FlushInv == flush = NoFlush \/ (flush.obj \in Objects /\ flush.text # <<>>)

(* The deltas of an object are of its key and not newer than its metadata.  *)
Fits(o, d) == d \in Offered /\ KeyOf(d) = KeyOf(state[o].sequence) /\ d <= state[o].sequence

ObjectInv ==
    /\ \A o \in Objects :
         /\ state[o].sequence \in Offered
         /\ \A i \in 1..Len(input) : state[o].sequence < input[i]
         /\ \A i \in 1..Len(state[o].buffer) : Fits(o, state[o].buffer[i])
    /\ \A o \in Ids \ Objects : state[o].buffer = <<>>
    /\ flush # NoFlush =>
         \A i \in 1..Len(flush.text) : Fits(flush.obj, flush.text[i])

MapInv ==
    /\ OneSegmentPerSession
    /\ \A k \in Keys : stateByKey[k] # 0 => KeyOf(state[stateByKey[k]].sequence) = k

SentenceFits(m) ==
    \A d \in IdsOf(m.text) \cup {m.sequence} :
      d \in Offered /\ KeyOf(d) = <<m.session, m.segment>> /\ d <= m.sequence

SentenceInv == \A i \in 1..Len(sentences) : SentenceFits(sentences[i])

(* What the splitter holds of a dropped object is all of its text.          *)
DropInv ==
    ~disturbed =>
      /\ DroppedIsFlushed
      /\ flush # NoFlush /\ flush.obj \notin Mapped =>
           state[flush.obj].forceClosed /\ state[flush.obj].buffer = <<>>

IInv == TypeOK /\ InputInv /\ FlushInv /\ ObjectInv /\ MapInv /\ SentenceInv /\ DropInv

-----------------------------------------------------------------------------
(* Sequences and records.                                                  *)
LEMMA ElementIn ==
    ASSUME NEW S, NEW q \in Seq(S), NEW i \in 1..Len(q)
    PROVE  q[i] \in S
OBVIOUS

LEMMA TailFacts ==
    ASSUME NEW S, NEW q \in Seq(S), q # <<>>
    PROVE  /\ Tail(q) \in Seq(S) /\ Len(q) \in Nat /\ Len(q) >= 1
           /\ Len(Tail(q)) = Len(q) - 1 /\ Head(q) = q[1]
           /\ \A i \in 1..Len(Tail(q)) : i + 1 \in 1..Len(q) /\ Tail(q)[i] = q[i + 1]
OBVIOUS

LEMMA FunctionIsSeq ==
    ASSUME NEW S, NEW n \in Nat, NEW f, f = [i \in 1..n |-> f[i]],
           \A i \in 1..n : f[i] \in S
    PROVE  f \in Seq(S) /\ Len(f) = n
<1>1. f \in [1..n -> S]
  OBVIOUS
<1>2. f \in Seq(S)
  BY <1>1
<1>3. DOMAIN f = 1..n /\ DOMAIN f = 1..Len(f) /\ Len(f) \in Nat
  BY <1>1, <1>2
<1> QED BY <1>2, <1>3

LEMMA SeqGrows ==
    ASSUME NEW S, NEW T, S \subseteq T, NEW q \in Seq(S)
    PROVE  q \in Seq(T)
<1>1. PICK n \in Nat : n = Len(q)
  OBVIOUS
<1>3. q \in [1..n -> S]
  BY <1>1
<1>2. q \in [1..n -> T]
  BY <1>3
<1> QED BY <1>2

LEMMA JoinFacts ==
    ASSUME NEW S, NEW p \in Seq(S), NEW q \in Seq(S)
    PROVE  /\ p \o q \in Seq(S) /\ Len(p \o q) = Len(p) + Len(q)
           /\ Len(p) \in Nat /\ Len(q) \in Nat
           /\ \A i \in 1..Len(p) : (p \o q)[i] = p[i]
           /\ \A i \in 1..Len(q) : (p \o q)[Len(p) + i] = q[i]
           /\ \A i \in 1..Len(p \o q) : \/ i \in 1..Len(p)
                                        \/ i - Len(p) \in 1..Len(q) /\ (p \o q)[i] = q[i - Len(p)]
<1>1. /\ p \o q \in Seq(S) /\ Len(p \o q) = Len(p) + Len(q)
      /\ Len(p) \in Nat /\ Len(q) \in Nat
  OBVIOUS
<1>2. \A i \in 1..Len(p) + Len(q) : (p \o q)[i] = IF i <= Len(p) THEN p[i] ELSE q[i - Len(p)]
  OBVIOUS
<1>3. \A i \in 1..Len(p) : (p \o q)[i] = p[i]
  BY <1>1, <1>2
<1>4. \A i \in 1..Len(q) : (p \o q)[Len(p) + i] = q[i]
  <2> TAKE i \in 1..Len(q)
  <2>1. Len(p) + i \in 1..Len(p) + Len(q) /\ ~(Len(p) + i <= Len(p)) /\ (Len(p) + i) - Len(p) = i
    BY <1>1
  <2> QED BY <1>2, <2>1
<1>5. \A i \in 1..Len(p \o q) : \/ i \in 1..Len(p)
                                \/ i - Len(p) \in 1..Len(q) /\ (p \o q)[i] = q[i - Len(p)]
  <2> TAKE i \in 1..Len(p \o q)
  <2>1. CASE i <= Len(p)
    BY <1>1, <2>1
  <2>2. CASE ~(i <= Len(p))
    <3>1. i \in 1..Len(p) + Len(q) /\ i - Len(p) \in 1..Len(q)
      BY <1>1, <2>2
    <3> QED BY <1>2, <2>2, <3>1
  <2> QED BY <2>1, <2>2
<1> QED BY <1>1, <1>3, <1>4, <1>5

LEMMA JoinIds ==
    ASSUME NEW S, NEW p \in Seq(S), NEW q \in Seq(S)
    PROVE  IdsOf(p \o q) = IdsOf(p) \cup IdsOf(q)
<1>1. ASSUME NEW x \in IdsOf(p \o q)
      PROVE  x \in IdsOf(p) \cup IdsOf(q)
  <2>1. PICK i \in 1..Len(p \o q) : x = (p \o q)[i]
    BY DEF IdsOf
  <2>2. CASE i \in 1..Len(p)
    BY <2>1, <2>2, JoinFacts DEF IdsOf
  <2>3. CASE i - Len(p) \in 1..Len(q) /\ (p \o q)[i] = q[i - Len(p)]
    BY <2>1, <2>3 DEF IdsOf
  <2> QED BY <2>2, <2>3, JoinFacts
<1>2. ASSUME NEW i \in 1..Len(p)
      PROVE  p[i] \in IdsOf(p \o q)
  <2>1. i \in 1..Len(p \o q) /\ (p \o q)[i] = p[i]
    BY JoinFacts
  <2> QED BY <2>1 DEF IdsOf
<1>3. ASSUME NEW i \in 1..Len(q)
      PROVE  q[i] \in IdsOf(p \o q)
  <2>1. Len(p) + i \in 1..Len(p \o q) /\ (p \o q)[Len(p) + i] = q[i]
    BY JoinFacts
  <2> QED BY <2>1 DEF IdsOf
<1> QED BY <1>1, <1>2, <1>3 DEF IdsOf

LEMMA OrderFacts ==
    ASSUME NEW S, S \subseteq Nat, IsFiniteSet(S), NEW q \in InOrder(S)
    PROVE  q \in Seq(S) /\ Len(q) = Cardinality(S) /\ IdsOf(q) = S
<1>1. Cardinality(S) \in Nat /\ q \in [1..Cardinality(S) -> S]
  BY FS_CardinalityType DEF InOrder
<1>2. q \in Seq(S) /\ Len(q) = Cardinality(S)
  BY <1>1
<1>3. \A i, j \in 1..Cardinality(S) : i # j => q[i] # q[j]
  <2>1. \A i, j \in 1..Cardinality(S) : i < j => q[i] < q[j]
    BY DEF InOrder
  <2>2. \A i \in 1..Cardinality(S) : q[i] \in Nat
    BY <1>1
  <2>3. \A i, j \in 1..Cardinality(S) : i < j => q[i] # q[j]
    BY <2>1, <2>2
  <2> QED BY <1>1, <2>3
<1>4. q \in Injection(1..Cardinality(S), S)
  BY <1>1, <1>3 DEF Injection, IsInjective
<1>5. Cardinality(1..Cardinality(S)) = Cardinality(S)
  BY <1>1, FS_Interval
<1>6. q \in Surjection(1..Cardinality(S), S)
  BY <1>4, <1>5, FS_Injection
<1> QED BY <1>1, <1>2, <1>6 DEF IdsOf, Surjection

Record == [buffer : Seq(Ids), forceClosed : BOOLEAN, sequence : 0..MaxDeltas]

LEMMA RecordFacts ==
    ASSUME NEW e \in Record
    PROVE  /\ e.buffer \in Seq(Ids) /\ e.forceClosed \in BOOLEAN /\ e.sequence \in 0..MaxDeltas
           /\ e = [buffer |-> e.buffer, forceClosed |-> e.forceClosed, sequence |-> e.sequence]
BY DEF Record

(* A record with another buffer.                                            *)
LEMMA BufferFacts ==
    ASSUME NEW e \in Record, NEW b \in Seq(Ids)
    PROVE  /\ [e EXCEPT !.buffer = b] \in Record
           /\ [e EXCEPT !.buffer = b].buffer = b
           /\ [e EXCEPT !.buffer = b].sequence = e.sequence
           /\ [e EXCEPT !.buffer = b].forceClosed = e.forceClosed
<1>1. PICK f \in BOOLEAN : f = e.forceClosed
  BY RecordFacts
<1>2. /\ e = [buffer |-> e.buffer, forceClosed |-> f, sequence |-> e.sequence]
      /\ e.sequence \in 0..MaxDeltas
  BY <1>1, RecordFacts
<1>3. [e EXCEPT !.buffer = b] = [buffer |-> b, forceClosed |-> f, sequence |-> e.sequence]
  BY <1>2
<1>4. [e EXCEPT !.buffer = b] \in Record
  BY <1>2, <1>3 DEF Record
<1> QED BY <1>1, <1>3, <1>4

(* The record of an object whose text was split.                            *)
LEMMA SplitRecordFacts ==
    ASSUME NEW e \in Record, NEW c \in BOOLEAN, NEW b \in Seq(Ids)
    PROVE  /\ [e EXCEPT !.forceClosed = c, !.buffer = b] \in Record
           /\ [e EXCEPT !.forceClosed = c, !.buffer = b].buffer = b
           /\ [e EXCEPT !.forceClosed = c, !.buffer = b].sequence = e.sequence
<1>1. PICK f \in BOOLEAN : f = e.forceClosed
  BY RecordFacts
<1>2. /\ e = [buffer |-> e.buffer, forceClosed |-> f, sequence |-> e.sequence]
      /\ e.sequence \in 0..MaxDeltas
  BY <1>1, RecordFacts
<1>3. [e EXCEPT !.forceClosed = c]
        = [buffer |-> e.buffer, forceClosed |-> c, sequence |-> e.sequence]
  BY <1>2
<1>4. [e EXCEPT !.forceClosed = c, !.buffer = b] = [[e EXCEPT !.forceClosed = c] EXCEPT !.buffer = b]
  BY <1>2
<1>5. [buffer |-> e.buffer, forceClosed |-> c, sequence |-> e.sequence] \in Record
  BY RecordFacts DEF Record
<1> DEFINE g == [e EXCEPT !.forceClosed = c]
<1>6. g \in Record /\ g.sequence = e.sequence
  BY <1>3, <1>5
<1> HIDE DEF g
<1>7. /\ [g EXCEPT !.buffer = b] \in Record
      /\ [g EXCEPT !.buffer = b].buffer = b
      /\ [g EXCEPT !.buffer = b].sequence = g.sequence
  BY <1>6, BufferFacts
<1>8. [e EXCEPT !.forceClosed = c, !.buffer = b] = [g EXCEPT !.buffer = b]
  BY <1>4 DEF g
<1> QED BY <1>6, <1>7, <1>8

(* The objects after force_closed = True for some of them.                  *)
LEMMA ForcedFacts ==
    ASSUME state \in [Ids -> Record], NEW objs
    PROVE  /\ Forced(objs) \in [Ids -> Record]
           /\ \A o \in Ids : /\ Forced(objs)[o].buffer = state[o].buffer
                             /\ Forced(objs)[o].sequence = state[o].sequence
                             /\ state[o].forceClosed => Forced(objs)[o].forceClosed
                             /\ o \in objs => Forced(objs)[o].forceClosed
<1>1. ASSUME NEW o \in Ids
      PROVE  /\ Forced(objs)[o] \in Record
             /\ Forced(objs)[o].buffer = state[o].buffer
             /\ Forced(objs)[o].sequence = state[o].sequence
             /\ Forced(objs)[o].forceClosed = (state[o].forceClosed \/ o \in objs)
  <2> DEFINE f == state[o].forceClosed \/ o \in objs
  <2>1. f \in BOOLEAN
    BY Zenon
  <2>2. /\ state[o].buffer \in Seq(Ids) /\ state[o].sequence \in 0..MaxDeltas
        /\ state[o] = [buffer |-> state[o].buffer, forceClosed |-> state[o].forceClosed,
                       sequence |-> state[o].sequence]
    BY RecordFacts
  <2>3. Forced(objs)[o] = [state[o] EXCEPT !.forceClosed = f]
    BY DEF Forced
  <2> HIDE DEF f
  <2>4. Forced(objs)[o] = [buffer |-> state[o].buffer, forceClosed |-> f,
                           sequence |-> state[o].sequence]
    BY <2>2, <2>3
  <2>5. Forced(objs)[o] \in Record
    BY <2>1, <2>2, <2>4 DEF Record
  <2>6. /\ Forced(objs)[o].buffer = state[o].buffer
        /\ Forced(objs)[o].sequence = state[o].sequence
        /\ Forced(objs)[o].forceClosed = f
    BY <2>4
  <2> QED BY <2>5, <2>6 DEF f
<1>2. Forced(objs) \in [Ids -> Record]
  <2>1. Forced(objs) = [o \in Ids |-> Forced(objs)[o]]
    BY DEF Forced
  <2> QED BY <1>1, <2>1
<1> QED BY <1>1, <1>2

LEMMA NumberFacts ==
    ASSUME TypeOK
    PROVE  /\ MaxDeltas \in Nat \ {0} /\ created \in Nat /\ created <= MaxDeltas
           /\ Objects \subseteq Ids /\ Ids \subseteq Nat
           /\ Len(deltas) \in Nat /\ Len(input) \in Nat
           /\ state \in [Ids -> Record]
           /\ \A o \in Ids : state[o].buffer \in Seq(Ids)
           /\ \A k \in Keys : stateByKey[k] \in 0..created
           /\ Mapped \subseteq Objects
<1>1. /\ MaxDeltas \in Nat \ {0} /\ created \in 0..MaxDeltas
      /\ Len(deltas) \in Nat /\ Len(input) \in Nat /\ state \in [Ids -> Record]
      /\ stateByKey \in [Keys -> 0..created]
  BY SeparatorAssumption DEF TypeOK, Record
<1>2. \A o \in Ids : state[o].buffer \in Seq(Ids)
  BY <1>1, RecordFacts
<1>3. \A k \in Keys : stateByKey[k] \in 0..created
  BY <1>1
<1>4. Mapped \subseteq Objects
  BY <1>1, <1>3 DEF Mapped, Objects
<1> QED BY <1>1, <1>2, <1>3, <1>4 DEF Objects, Ids

-----------------------------------------------------------------------------
LEMMA InitIInv ==
    ASSUME Init
    PROVE  IInv
<1> USE SeparatorAssumption
<1>1. TypeOK
  <2>1. Empty \in [buffer : Seq(Ids), forceClosed : BOOLEAN, sequence : 0..MaxDeltas]
    BY DEF Empty
  <2>2. state \in [Ids -> [buffer : Seq(Ids), forceClosed : BOOLEAN, sequence : 0..MaxDeltas]]
    BY <2>1 DEF Init
  <2>3. segment \in [Sessions -> Segments] /\ stateByKey \in [Keys -> 0..created]
    BY DEF Init, Segments
  <2>4. flush.obj \in 0..created /\ flush.text \in Seq(Ids)
    BY DEF Init, NoFlush
  <2>5. /\ deltas \in Seq([session : Sessions, segment : Segments]) /\ input \in Seq(Ids)
        /\ stateQueue \in Seq(1..created) /\ sentences \in Seq(Sentence) /\ pushed \in Seq(Ids)
    BY DEF Init
  <2>6. created \in 0..MaxDeltas /\ failures \in 0..MaxFailures
    BY DEF Init
  <2>7. lost \in SUBSET Ids /\ disturbed \in BOOLEAN
    BY Zenon DEF Init
  <2> QED BY <2>2, <2>3, <2>4, <2>5, <2>6, <2>7 DEF TypeOK
<1>2. InputInv /\ FlushInv /\ ObjectInv /\ SentenceInv
  BY DEF Init, InputInv, FlushInv, ObjectInv, SentenceInv, Objects, Empty
<1>3. MapInv /\ Mapped = {}
  BY DEF Init, MapInv, OneSegmentPerSession, Mapped
<1>4. DropInv
  BY DEF Init, DropInv, DroppedIsFlushed
<1> QED BY <1>1, <1>2, <1>3, <1>4 DEF IInv

(* Text moves between objects and the splitter, and objects leave the map.  *)
LEMMA TextMoves ==
    ASSUME IInv, UNCHANGED <<deltas, input, created>>,
           \A o \in Objects : state'[o].sequence = state[o].sequence,
           \A o \in Ids \ Objects : state'[o].buffer = state[o].buffer,
           \A k \in Keys : stateByKey'[k] = stateByKey[k] \/ stateByKey'[k] = 0,
           \A o \in Objects : \A i \in 1..Len(state'[o].buffer) : Fits(o, state'[o].buffer[i]),
           FlushInv',
           flush' # NoFlush => \A i \in 1..Len(flush'.text) : Fits(flush'.obj, flush'.text[i]),
           \A i \in 1..Len(sentences') : SentenceFits(sentences'[i])
    PROVE  InputInv' /\ FlushInv' /\ ObjectInv' /\ MapInv' /\ SentenceInv'
<1>1. InputInv'
  BY DEF IInv, InputInv, Offered
<1>2. \A o \in Objects : \A d : Fits(o, d) => Fits(o, d)'
  BY DEF Fits, Offered, KeyOf
<1>3. ObjectInv'
  <2>1. \A o \in Objects : /\ state'[o].sequence \in Offered
                           /\ \A i \in 1..Len(input) : state'[o].sequence < input[i]
    BY DEF IInv, ObjectInv
  <2>2. \A o \in Objects : (\A i \in 1..Len(state[o].buffer) : Fits(o, state[o].buffer[i]))'
    BY DEF Fits, Offered, KeyOf
  <2>3. (flush # NoFlush => \A i \in 1..Len(flush.text) : Fits(flush.obj, flush.text[i]))'
    BY DEF FlushInv, Objects, Fits, Offered, KeyOf
  <2>4. \A o \in Ids \ Objects : state'[o].buffer = <<>>
    BY DEF IInv, ObjectInv
  <2> QED BY <2>1, <2>2, <2>3, <2>4 DEF ObjectInv, Offered, Objects
<1>4. MapInv'
  <2>1. OneSegmentPerSession'
    BY DEF IInv, MapInv, OneSegmentPerSession
  <2>2. \A k \in Keys : (stateByKey[k] # 0 => KeyOf(state[stateByKey[k]].sequence) = k)'
    <3> SUFFICES ASSUME NEW k \in Keys, stateByKey'[k] # 0
                 PROVE  (KeyOf(state[stateByKey[k]].sequence) = k)'
      OBVIOUS
    <3>1. stateByKey'[k] = stateByKey[k] /\ stateByKey[k] \in Objects
      BY NumberFacts DEF IInv, Objects
    <3>2. KeyOf(state[stateByKey[k]].sequence) = k
      BY <3>1 DEF IInv, MapInv
    <3> QED BY <3>1, <3>2 DEF KeyOf
  <2> QED BY <2>1, <2>2 DEF MapInv
<1>5. SentenceInv'
  BY DEF SentenceInv, SentenceFits, Offered, KeyOf
<1> QED BY <1>1, <1>3, <1>4, <1>5

LEMMA DropApart ==
    ASSUME IInv, UNCHANGED <<stateByKey, state, created, stateQueue, flush, disturbed>>
    PROVE  DropInv'
BY DEF IInv, DropInv, DroppedIsFlushed, Mapped

-----------------------------------------------------------------------------
(* The recogniser offers a delta.                                          *)
LEMMA OfferKeeps ==
    ASSUME IInv, NEW s \in Sessions, Offer(s)
    PROVE  IInv'
<1> PICK L \in Nat : L = Len(deltas) + 1
  BY NumberFacts DEF IInv
<1> PICK seg \in Segments :
           /\ deltas' = Append(deltas, [session |-> s, segment |-> seg])
           /\ segment' = [segment EXCEPT ![s] = seg]
  BY DEF Offer
<1>1. /\ Len(deltas) < MaxDeltas /\ input' = Append(input, L)
      /\ UNCHANGED <<stateByKey, state, created, stateQueue, flush, sentences,
                     pushed, lost, failures, disturbed>>
  BY DEF Offer
<1>2. /\ Len(deltas) \in Nat /\ L \in Ids /\ MaxDeltas \in Nat
  BY <1>1, NumberFacts DEF IInv, Ids
<1>3. /\ deltas' \in Seq([session : Sessions, segment : Segments]) /\ Len(deltas') = L
      /\ \A d \in Offered : deltas'[d] = deltas[d]
  <2>1. [session |-> s, segment |-> seg] \in [session : Sessions, segment : Segments]
    OBVIOUS
  <2>2. deltas \in Seq([session : Sessions, segment : Segments])
    BY DEF IInv, TypeOK
  <2> QED BY <2>1, <2>2 DEF Offered
<1>4. /\ input' \in Seq(Ids) /\ Len(input') = Len(input) + 1 /\ Len(input) \in Nat
      /\ input'[Len(input) + 1] = L
      /\ \A i \in 1..Len(input) : input'[i] = input[i] /\ input[i] \in Offered
  BY <1>1, <1>2, SMTT(20) DEF IInv, TypeOK, InputInv
<1>5. TypeOK'
  <2>1. segment' \in [Sessions -> Segments]
    BY DEF IInv, TypeOK
  <2> QED BY <1>1, <1>3, <1>4, <2>1 DEF IInv, TypeOK
<1>6. \A d \in Offered : d \in Offered' /\ KeyOf(d)' = KeyOf(d) /\ d < L
  BY <1>2, <1>3 DEF Offered, KeyOf
<1>7. InputInv'
  <2>1. Len(deltas') <= MaxDeltas /\ created' + Len(input') <= Len(deltas')
    BY <1>1, <1>2, <1>3, <1>4, NumberFacts DEF IInv, InputInv
  <2>2. \A i \in 1..Len(input') : i \in 1..Len(input) \/ i = Len(input) + 1
    BY <1>4
  <2>3. L \in Offered'
    BY <1>2, <1>3 DEF Offered, Ids
  <2>4. \A i \in 1..Len(input') : input'[i] \in Offered'
    BY <1>4, <1>6, <2>2, <2>3
  <2>5. \A i, j \in 1..Len(input') : i < j => input'[i] < input'[j]
    <3> SUFFICES ASSUME NEW i \in 1..Len(input'), NEW j \in 1..Len(input'), i < j
                 PROVE  input'[i] < input'[j]
      OBVIOUS
    <3>1. i \in 1..Len(input)
      BY <1>4
    <3>2. CASE j \in 1..Len(input)
      BY <1>4, <3>1, <3>2 DEF IInv, InputInv
    <3>3. CASE j = Len(input) + 1
      BY <1>4, <1>6, <3>1, <3>3
    <3> QED BY <2>2, <3>2, <3>3
  <2> QED BY <2>1, <2>4, <2>5 DEF InputInv
<1>8. \A o \in Objects : state[o].sequence \in Offered
  BY DEF IInv, ObjectInv
<1>9. \A o \in Objects : \A d : Fits(o, d) => Fits(o, d)'
  BY <1>1, <1>6, <1>8 DEF Fits, KeyOf
<1>10. ObjectInv'
  <2>1. ASSUME NEW o \in Objects, NEW i \in 1..Len(input')
        PROVE  state[o].sequence < input'[i]
    <3>1. CASE i \in 1..Len(input)
      BY <1>4, <3>1 DEF IInv, ObjectInv
    <3>2. CASE i = Len(input) + 1
      BY <1>4, <1>6, <1>8, <3>2
    <3> QED BY <1>4, <3>1, <3>2
  <2>2. \A o \in Objects : state[o].sequence \in Offered'
    BY <1>6, <1>8
  <2>3. \A o \in Objects : (\A i \in 1..Len(state[o].buffer) : Fits(o, state[o].buffer[i]))'
    <3> TAKE o \in Objects
    <3>1. \A i \in 1..Len(state[o].buffer) : Fits(o, state[o].buffer[i])
      BY DEF IInv, ObjectInv
    <3>2. \A d : Fits(o, d) => Fits(o, d)'
      BY <1>9
    <3>3. (state[o].buffer)' = state[o].buffer
      BY <1>1
    <3> QED BY ONLY <3>1, <3>2, <3>3
  <2>4. flush # NoFlush => (\A i \in 1..Len(flush.text) : Fits(flush.obj, flush.text[i]))'
    <3> SUFFICES ASSUME flush # NoFlush
                 PROVE  (\A i \in 1..Len(flush.text) : Fits(flush.obj, flush.text[i]))'
      OBVIOUS
    <3> PICK o, t : o = flush.obj /\ t = flush.text
      OBVIOUS
    <3>1. o \in Objects /\ \A i \in 1..Len(t) : Fits(o, t[i])
      BY DEF IInv, ObjectInv, FlushInv
    <3>2. \A d : Fits(o, d) => Fits(o, d)'
      BY <1>9, <3>1
    <3>3. \A i \in 1..Len(t) : Fits(o, t[i])'
      BY ONLY <3>1, <3>2
    <3>4. flush' = flush
      BY <1>1
    <3> QED BY <3>3, <3>4 DEF Fits, KeyOf
  <2>5. \A o \in Ids \ Objects : state[o].buffer = <<>>
    BY DEF IInv, ObjectInv
  <2> QED BY <1>1, <2>1, <2>2, <2>3, <2>4, <2>5 DEF ObjectInv, Objects
<1>11. MapInv'
  <2>1. ASSUME NEW k \in Keys, stateByKey[k] # 0
        PROVE  (KeyOf(state[stateByKey[k]].sequence) = k)'
    <3>1. stateByKey[k] \in Objects
      BY <2>1, NumberFacts DEF IInv, Objects
    <3>2. KeyOf(state[stateByKey[k]].sequence) = k
      BY <2>1 DEF IInv, MapInv
    <3> QED BY <1>1, <1>6, <1>8, <3>1, <3>2 DEF KeyOf
  <2> QED BY <1>1, <2>1 DEF IInv, MapInv, OneSegmentPerSession
<1>12. SentenceInv'
  <2>1. \A m : SentenceFits(m) => SentenceFits(m)'
    BY <1>6 DEF SentenceFits
  <2> SUFFICES ASSUME NEW i \in 1..Len(sentences')
               PROVE  SentenceFits(sentences[i])'
    BY DEF SentenceInv
  <2> PICK m : m = sentences[i] /\ m = sentences'[i]
    BY <1>1
  <2>2. SentenceFits(m)'
    BY <1>1, <2>1 DEF IInv, SentenceInv
  <2> QED BY <2>2
<1>13. FlushInv' /\ DropInv'
  BY <1>1, DropApart DEF IInv, FlushInv, Objects
<1> QED BY <1>5, <1>7, <1>10, <1>11, <1>12, <1>13 DEF IInv

-----------------------------------------------------------------------------
(* The oldest sentence is pushed or lost.                                   *)
LEMMA PushKeeps ==
    ASSUME IInv, Push \/ PushFails
    PROVE  IInv'
<1>1. /\ sentences # <<>> /\ sentences' = Tail(sentences)
      /\ UNCHANGED <<deltas, segment, input, stateByKey, state, created, stateQueue, flush,
                     disturbed>>
  BY DEF Push, PushFails
<1>2. \/ /\ pushed' = pushed \o Head(sentences).text /\ lost' = lost /\ failures' = failures
      \/ /\ lost' = lost \cup IdsOf(Head(sentences).text) /\ pushed' = pushed
         /\ failures < MaxFailures /\ failures' = failures + 1
  BY DEF Push, PushFails
<1>3. /\ sentences \in Seq(Sentence) /\ sentences' \in Seq(Sentence)
      /\ Len(sentences') = Len(sentences) - 1 /\ Len(sentences) \in Nat
      /\ \A i \in 1..Len(sentences') : i + 1 \in 1..Len(sentences)
                                       /\ sentences'[i] = sentences[i + 1]
  BY <1>1 DEF IInv, TypeOK
<1>4. Head(sentences).text \in Seq(Ids)
  <2>1. Head(sentences) \in Sentence
    BY <1>1, <1>3
  <2> QED BY <2>1 DEF Sentence
<1>5. TypeOK'
  <2>1. pushed' \in Seq(Ids)
    <3>1. pushed \in Seq(Ids)
      BY DEF IInv, TypeOK
    <3>2. pushed \o Head(sentences).text \in Seq(Ids)
      BY <1>4, <3>1, JoinFacts
    <3>3. pushed' = pushed \/ pushed' = pushed \o Head(sentences).text
      BY <1>2
    <3> QED BY <3>1, <3>2, <3>3
  <2>2. lost' \in SUBSET Ids
    <3>1. IdsOf(Head(sentences).text) \subseteq Ids
      BY <1>4, ElementIn DEF IdsOf
    <3> QED BY <1>2, <3>1 DEF IInv, TypeOK
  <2>3. failures' \in 0..MaxFailures
    BY <1>2, SeparatorAssumption DEF IInv, TypeOK
  <2> QED BY <1>1, <1>3, <2>1, <2>2, <2>3 DEF IInv, TypeOK
<1>6. \A i \in 1..Len(sentences') : SentenceFits(sentences'[i])
  BY <1>3 DEF IInv, SentenceInv
<1>7. InputInv' /\ FlushInv' /\ ObjectInv' /\ MapInv' /\ SentenceInv'
  <2>1. FlushInv'
    BY <1>1 DEF IInv, FlushInv, Objects
  <2>2. \A o \in Objects : \A i \in 1..Len(state'[o].buffer) : Fits(o, state'[o].buffer[i])
    BY <1>1 DEF IInv, ObjectInv
  <2>3. flush' # NoFlush => \A i \in 1..Len(flush'.text) : Fits(flush'.obj, flush'.text[i])
    BY <1>1 DEF IInv, ObjectInv
  <2> QED BY <1>1, <1>6, <2>1, <2>2, <2>3, TextMoves
<1> QED BY <1>1, <1>5, <1>7, DropApart DEF IInv

-----------------------------------------------------------------------------
(* The splitter takes the text of an object, and what it returns fits it.   *)
LEMMA FlushTakesKeeps ==
    ASSUME IInv, FlushTakes
    PROVE  IInv'
<1>1. /\ flush = NoFlush /\ stateQueue # <<>> /\ stateQueue' = Tail(stateQueue)
      /\ UNCHANGED <<deltas, segment, input, stateByKey, created, sentences, pushed, lost,
                     failures, disturbed>>
  BY DEF FlushTakes
<1> PICK o : o = Head(stateQueue)
  OBVIOUS
<1>2. \/ /\ state[o].buffer = <<>> /\ UNCHANGED <<flush, state>>
      \/ /\ state[o].buffer # <<>> /\ flush' = [obj |-> o, text |-> state[o].buffer]
         /\ state' = [state EXCEPT ![o].buffer = <<>>]
  BY DEF FlushTakes
<1>3. /\ o \in Objects /\ o \in Ids /\ o # 0
      /\ stateQueue' \in Seq(1..created)
      /\ IdsOf(stateQueue) \subseteq {o} \cup IdsOf(stateQueue')
  <2>1. /\ stateQueue \in Seq(1..created) /\ Len(stateQueue) \in Nat /\ Len(stateQueue) > 0
        /\ o \in 1..created /\ o = stateQueue[1]
        /\ stateQueue' \in Seq(1..created) /\ Len(stateQueue') = Len(stateQueue) - 1
        /\ \A i \in 1..Len(stateQueue') : stateQueue'[i] = stateQueue[i + 1]
    BY <1>1 DEF IInv, TypeOK
  <2>2. \A i \in 1..Len(stateQueue) :
          i = 1 \/ (i - 1 \in 1..Len(stateQueue') /\ stateQueue'[i - 1] = stateQueue[i])
    BY <2>1
  <2>3. ASSUME NEW x \in IdsOf(stateQueue), x # o
        PROVE  x \in IdsOf(stateQueue')
    <3>1. PICK i \in 1..Len(stateQueue) : x = stateQueue[i]
      BY DEF IdsOf
    <3>2. i - 1 \in 1..Len(stateQueue') /\ stateQueue'[i - 1] = x
      BY <2>1, <2>2, <2>3, <3>1
    <3> QED BY <3>2 DEF IdsOf
  <2>4. o \in Objects /\ o \in Ids /\ o # 0
    BY <2>1, NumberFacts DEF IInv, Objects
  <2> QED BY <2>1, <2>3, <2>4
<1>4. /\ state \in [Ids -> Record] /\ state[o].buffer \in Seq(Ids) /\ Objects \subseteq Ids
      /\ created \in Nat
  BY <1>3, NumberFacts DEF IInv
<1>5. CASE state[o].buffer = <<>>
  <2>1. UNCHANGED <<flush, state>>
    BY <1>2, <1>5
  <2>2. TypeOK'
    BY <1>1, <1>3, <2>1 DEF IInv, TypeOK
  <2>3. InputInv' /\ FlushInv' /\ ObjectInv' /\ MapInv' /\ SentenceInv'
    <3>1. FlushInv'
      BY <1>1, <2>1 DEF IInv, FlushInv, Objects
    <3>2. \A p \in Objects : \A i \in 1..Len(state'[p].buffer) : Fits(p, state'[p].buffer[i])
      BY <2>1 DEF IInv, ObjectInv
    <3>3. flush' = NoFlush
      BY <1>1, <2>1
    <3>4. \A i \in 1..Len(sentences') : SentenceFits(sentences'[i])
      BY <1>1 DEF IInv, SentenceInv
    <3> QED BY <1>1, <2>1, <3>1, <3>2, <3>3, <3>4, TextMoves
  <2>4. DropInv'
    <3>1. ~disturbed => DroppedIsFlushed
      BY DEF IInv, DropInv
    <3>2. DroppedIsFlushed => DroppedIsFlushed'
      BY <1>1, <1>3, <1>5, <2>1 DEF DroppedIsFlushed, Mapped
    <3>3. flush' = NoFlush /\ disturbed' = disturbed
      BY <1>1, <2>1
    <3>4. DroppedIsFlushed' => DropInv'
      BY <3>3 DEF DropInv, NoFlush
    <3>5. disturbed => DropInv'
      BY <3>3 DEF DropInv
    <3> QED BY <3>1, <3>2, <3>4, <3>5
  <2> QED BY <2>2, <2>3, <2>4 DEF IInv
<1>6. CASE state[o].buffer # <<>>
  <2> PICK text \in Seq(Ids) : text = state[o].buffer
    BY <1>4
  <2>1. /\ flush' = [obj |-> o, text |-> text] /\ text # <<>>
        /\ state' = [state EXCEPT ![o] = [state[o] EXCEPT !.buffer = <<>>]]
    BY <1>2, <1>6
  <2>2. /\ [state[o] EXCEPT !.buffer = <<>>] \in Record
        /\ [state[o] EXCEPT !.buffer = <<>>].buffer = <<>>
        /\ [state[o] EXCEPT !.buffer = <<>>].sequence = state[o].sequence
        /\ [state[o] EXCEPT !.buffer = <<>>].forceClosed = state[o].forceClosed
    <3>1. state[o] \in Record /\ <<>> \in Seq(Ids)
      BY <1>3, <1>4
    <3> QED BY <3>1, BufferFacts
  <2>3. /\ state' \in [Ids -> Record] /\ state'[o].buffer = <<>>
        /\ \A p \in Ids : p # o => state'[p] = state[p]
        /\ state'[o].sequence = state[o].sequence
        /\ state'[o].forceClosed = state[o].forceClosed
    BY <1>3, <1>4, <2>1, <2>2
  <2>4. TypeOK'
    <3>1. flush'.obj \in 0..created /\ flush'.text \in Seq(Ids)
      BY <1>3, <1>4, <2>1 DEF Objects
    <3> QED BY <1>1, <1>3, <2>3, <3>1 DEF IInv, TypeOK, Record
  <2>5. InputInv' /\ FlushInv' /\ ObjectInv' /\ MapInv' /\ SentenceInv'
    <3>1. FlushInv'
      BY <1>1, <1>3, <2>1 DEF FlushInv, Objects
    <3>2. \A p \in Objects : \A i \in 1..Len(state'[p].buffer) : Fits(p, state'[p].buffer[i])
      <4> TAKE p \in Objects
      <4>1. CASE p = o
        BY <2>3, <4>1
      <4>2. CASE p # o
        BY <1>4, <2>3, <4>2 DEF IInv, ObjectInv
      <4> QED BY <4>1, <4>2
    <3>3. \A i \in 1..Len(flush'.text) : Fits(flush'.obj, flush'.text[i])
      <4>1. \A i \in 1..Len(text) : Fits(o, text[i])
        BY <1>3 DEF IInv, ObjectInv
      <4> QED BY <2>1, <4>1
    <3>4. \A i \in 1..Len(sentences') : SentenceFits(sentences'[i])
      BY <1>1 DEF IInv, SentenceInv
    <3>5. /\ \A p \in Objects : state'[p].sequence = state[p].sequence
          /\ \A p \in Ids \ Objects : state'[p].buffer = state[p].buffer
      BY <1>3, <1>4, <2>3
    <3> QED BY <1>1, <3>1, <3>2, <3>3, <3>4, <3>5, TextMoves
  <2>6. DropInv'
    <3> SUFFICES ASSUME ~disturbed
                 PROVE  /\ DroppedIsFlushed'
                        /\ o \notin Mapped => state'[o].forceClosed /\ state'[o].buffer = <<>>
      BY <1>1, <2>1 DEF DropInv, Mapped
    <3>1. Mapped' = Mapped
      BY <1>1 DEF Mapped
    <3>2. DroppedIsFlushed
      BY DEF IInv, DropInv
    <3>3. DroppedIsFlushed'
      BY <1>1, <1>3, <1>4, <2>3, <3>1, <3>2 DEF DroppedIsFlushed, Objects
    <3>4. o \notin Mapped => state[o].forceClosed
      BY <1>3, <1>6, <3>2 DEF DroppedIsFlushed, Objects
    <3> QED BY <2>3, <3>3, <3>4
  <2> QED BY <2>4, <2>5, <2>6 DEF IInv
<1> QED BY <1>5, <1>6

-----------------------------------------------------------------------------
(* A set of numbers has a least one: its intervals 0..y are ordered by       *)
(* inclusion, which is well-founded on finite sets.                         *)
LEMMA Least ==
    ASSUME NEW S \in SUBSET Nat, S # {}
    PROVE  \E x \in S : \A y \in S : x <= y
<1> DEFINE T == {0..y : y \in S}
<1>1. T \subseteq FiniteSubsetsOf(Nat) /\ T # {}
  <2>1. \A y \in S : 0..y \in FiniteSubsetsOf(Nat)
    BY FS_Interval DEF FiniteSubsetsOf
  <2> QED BY <2>1
<1>2. PICK X \in T : \A Y \in T : <<Y, X>> \notin StrictSubsetOrdering(Nat)
  BY <1>1, FS_StrictSubsetOrderingWellFounded, WFMin
<1>3. PICK x \in S : X = 0..x
  BY <1>2
<1>4. ASSUME NEW y \in S, y < x
      PROVE  FALSE
  <2>1. 0..y \in T /\ <<0..y, 0..x>> \in (SUBSET Nat) \X (SUBSET Nat)
    OBVIOUS
  <2>2. 0..y \subseteq 0..x /\ x \in 0..x /\ x \notin 0..y
    BY <1>4
  <2> QED BY <1>2, <1>3, <2>1, <2>2 DEF StrictSubsetOrdering
<1> QED BY <1>4

(* Where the sentences of a text of L deltas end: each after the one before, *)
(* the last where the text ends.                                            *)
LEMMA EndsFacts ==
    ASSUME NEW L \in Nat \ {0}, NEW S, S \subseteq 1..L, L \in S, NEW ends \in InOrder(S)
    PROVE  \E n \in Nat \ {0} :
             /\ ends \in [1..n -> 1..L] /\ Len(ends) = n /\ ends[n] = L
             /\ \A i, j \in 1..n : i < j => ends[i] < ends[j]
<1>1. IsFiniteSet(S)
  <2>1. IsFiniteSet(1..L)
    BY FS_Interval
  <2> QED BY <2>1, FS_Subset
<1> PICK n \in Nat : n = Cardinality(S)
  BY <1>1, FS_CardinalityType
<1>2. n # 0
  BY <1>1, FS_EmptySet
<1>3. ends \in [1..n -> S] /\ \A i, j \in 1..n : i < j => ends[i] < ends[j]
  BY Zenon DEF InOrder
<1>4. ends \in [1..n -> 1..L]
  BY <1>3
<1>5. Len(ends) = n
  BY <1>4
<1>6. ends[n] = L
  <2>1. IdsOf(ends) = S
    <3>1. S \subseteq Nat
      OBVIOUS
    <3> QED BY <1>1, <3>1, OrderFacts
  <2>2. PICK i \in 1..n : ends[i] = L
    BY <1>5, <2>1 DEF IdsOf
  <2>3. n \in 1..n /\ ends[n] \in 1..L
    BY <1>2, <1>4
  <2>4. i < n => ends[i] < ends[n]
    BY <1>3, <2>3
  <2> QED BY <2>2, <2>3, <2>4
<1> QED BY <1>2, <1>3, <1>4, <1>5, <1>6

(* Each part of a split text begins behind position start of the text, and   *)
(* every position is in one part.                                           *)
Cuts(text, parts, start) ==
    /\ start \in [1..Len(parts) -> Nat]
    /\ \A i \in 1..Len(parts) : \A p \in 1..Len(parts[i]) :
         start[i] + p \in 1..Len(text) /\ parts[i][p] = text[start[i] + p]
    /\ \A i, j \in 1..Len(parts) : i < j => start[i] + Len(parts[i]) <= start[j]
    /\ \A k \in 1..Len(text) : \E i \in 1..Len(parts) : k - start[i] \in 1..Len(parts[i])

LEMMA PartOfText ==
    ASSUME NEW T, NEW text \in Seq(T), NEW b \in Nat, NEW e \in Nat, b < e, e <= Len(text)
    PROVE  /\ SubSeq(text, b + 1, e) \in Seq(T) /\ Len(SubSeq(text, b + 1, e)) = e - b
           /\ \A p \in 1..(e - b) : b + p \in 1..Len(text) /\ SubSeq(text, b + 1, e)[p] = text[b + p]
<1>1. Len(text) \in Nat /\ \A k \in (b + 1)..e : text[k] \in T
  OBVIOUS
<1>2. /\ SubSeq(text, b + 1, e) \in Seq(T) /\ Len(SubSeq(text, b + 1, e)) = e - b
      /\ \A p \in 1..(e - b) : SubSeq(text, b + 1, e)[p] = text[(b + 1) + p - 1]
  BY <1>1, SubSeqProperties
<1>3. \A p \in 1..(e - b) : b + p \in 1..Len(text) /\ (b + 1) + p - 1 = b + p
  BY <1>1
<1> QED BY <1>2, <1>3

LEMMA SplitFacts ==
    ASSUME NEW text \in Seq(Ids), text # <<>>, NEW parts \in Splits(text)
    PROVE  /\ parts \in Seq(Seq(Ids)) /\ Len(parts) \in Nat \ {0}
           /\ \E start : Cuts(text, parts, start)
<1> PICK L \in Nat \ {0} : L = Len(text)
  OBVIOUS
<1>1. PICK cuts \in SUBSET (1..(L - 1)) :
             \E ends \in InOrder(cuts \cup {L}) : parts = Pieces(text, ends)
  BY DEF Splits
<1> PICK S : S = cuts \cup {L}
  OBVIOUS
<1>2. PICK ends \in InOrder(S) : parts = Pieces(text, ends)
  BY <1>1
<1>3. S \subseteq 1..L /\ L \in S
  <2>1. \A x \in 1..(L - 1) : x \in 1..L
    OBVIOUS
  <2>2. cuts \subseteq 1..(L - 1)
    BY <1>1
  <2>3. L \in 1..L
    OBVIOUS
  <2> QED BY <2>1, <2>2, <2>3
<1> PICK n \in Nat \ {0} : /\ ends \in [1..n -> 1..L] /\ Len(ends) = n /\ ends[n] = L
                           /\ \A i, j \in 1..n : i < j => ends[i] < ends[j]
  BY <1>3, EndsFacts
<1> DEFINE start == [i \in 1..n |-> IF i = 1 THEN 0 ELSE ends[i - 1]]
<1>4. \A i \in 1..n : ends[i] \in 1..L /\ start[i] \in Nat /\ start[i] < ends[i]
  <2> TAKE i \in 1..n
  <2>1. ends[i] \in 1..L
    OBVIOUS
  <2>2. CASE i = 1
    BY <2>1, <2>2
  <2>3. CASE i # 1
    <3>1. i - 1 \in 1..n /\ i - 1 < i
      BY <2>3
    <3>2. ends[i - 1] \in 1..L /\ ends[i - 1] < ends[i] /\ start[i] = ends[i - 1]
      BY <2>3, <3>1
    <3> QED BY <2>1, <3>2
  <2> QED BY <2>2, <2>3
<1>5. ASSUME NEW i \in 1..n
      PROVE  /\ parts[i] \in Seq(Ids) /\ Len(parts[i]) = ends[i] - start[i]
             /\ \A p \in 1..Len(parts[i]) : /\ start[i] + p \in 1..L
                                            /\ parts[i][p] = text[start[i] + p]
  <2> PICK b, e : b = start[i] /\ e = ends[i]
    OBVIOUS
  <2>1. b \in Nat /\ e \in Nat /\ b < e /\ e <= L
    BY <1>4
  <2>2. parts[i] = SubSeq(text, b + 1, e)
    <3>1. b + 1 = IF i = 1 THEN 1 ELSE ends[i - 1] + 1
      BY <1>4
    <3> QED BY <1>2, <3>1 DEF Pieces
  <2>3. /\ parts[i] \in Seq(Ids) /\ Len(parts[i]) = e - b
        /\ \A p \in 1..(e - b) : b + p \in 1..L /\ parts[i][p] = text[b + p]
    BY ONLY <2>1, <2>2, PartOfText, text \in Seq(Ids), L = Len(text)
  <2> QED BY <2>3
<1>6. parts \in Seq(Seq(Ids)) /\ Len(parts) = n
  <2>1. \A i \in 1..n : parts[i] \in Seq(Ids)
    BY <1>5
  <2>2. parts = [i \in 1..n |-> parts[i]]
    BY <1>2 DEF Pieces
  <2> QED BY <2>1, <2>2, FunctionIsSeq
<1>7. \A i, j \in 1..n : i < j => start[i] + Len(parts[i]) <= start[j]
  <2> SUFFICES ASSUME NEW i \in 1..n, NEW j \in 1..n, i < j
               PROVE  start[i] + Len(parts[i]) <= start[j]
    OBVIOUS
  <2>1. j - 1 \in 1..n /\ start[j] = ends[j - 1] /\ (i = j - 1 \/ i < j - 1)
    OBVIOUS
  <2>2. ends[i] <= ends[j - 1]
    BY <1>4, <2>1
  <2>3. start[i] + Len(parts[i]) = ends[i]
    BY <1>4, <1>5
  <2> QED BY <2>1, <2>2, <2>3
<1>8. ASSUME NEW k \in 1..L
      PROVE  \E i \in 1..n : k - start[i] \in 1..Len(parts[i])
  <2> DEFINE E == {i \in 1..n : k <= ends[i]}
  <2>1. E \in SUBSET Nat /\ n \in E
    OBVIOUS
  <2>2. PICK i \in E : \A j \in E : i <= j
    <3> HIDE DEF E
    <3> QED BY <2>1, Least
  <2>3. start[i] < k
    <3>1. CASE i = 1
      BY <3>1
    <3>2. CASE i # 1
      <4>1. i - 1 \in 1..n /\ ~(i <= i - 1) /\ start[i] = ends[i - 1]
        BY <2>2, <3>2
      <4>2. ~(k <= ends[i - 1]) /\ ends[i - 1] \in 1..L
        BY <2>2, <4>1
      <4> QED BY <4>1, <4>2
    <3> QED BY <3>1, <3>2
  <2>4. i \in 1..n /\ k <= ends[i]
    BY <2>2
  <2>5. k - start[i] \in 1..Len(parts[i])
    <3>1. Len(parts[i]) = ends[i] - start[i] /\ start[i] \in Nat /\ ends[i] \in Nat
      BY <1>4, <1>5, <2>4
    <3> HIDE DEF start
    <3> QED BY <2>3, <2>4, <3>1
  <2> QED BY <2>4, <2>5
<1>9. start \in [1..Len(parts) -> Nat]
  BY <1>4, <1>6
<1> HIDE DEF start
<1>10. Cuts(text, parts, start)
  BY <1>5, <1>6, <1>7, <1>8, <1>9 DEF Cuts
<1> QED BY <1>6, <1>10

(* The parts have no other deltas than the text.                            *)
LEMMA PartIds ==
    ASSUME NEW text, NEW parts, NEW start, Cuts(text, parts, start)
    PROVE  \A i \in 1..Len(parts) : IdsOf(parts[i]) \subseteq IdsOf(text)
<1> TAKE i \in 1..Len(parts)
<1>1. \A p \in 1..Len(parts[i]) : start[i] + p \in 1..Len(text) /\ parts[i][p] = text[start[i] + p]
  BY DEF Cuts
<1> QED BY <1>1 DEF IdsOf

(* What a step with the splitter's result does with the text of object o:    *)
(* parts of it become sentences, and perhaps the last goes back into its     *)
(* buffer.                                                                   *)
SplitDoes(o, text, parts, start, added, buf) ==
    /\ flush # NoFlush /\ flush' = NoFlush /\ o = flush.obj /\ text = flush.text
    /\ UNCHANGED <<deltas, segment, input, stateByKey, created, stateQueue, pushed, lost,
                   failures, disturbed>>
    /\ o \in Objects /\ o \in Ids /\ text \in Seq(Ids) /\ text # <<>>
    /\ state \in [Ids -> Record] /\ state[o].buffer \in Seq(Ids) /\ Objects \subseteq Ids
    /\ parts \in Seq(Seq(Ids)) /\ Len(parts) \in Nat \ {0} /\ Cuts(text, parts, start)
    /\ sentences \in Seq(Sentence) /\ added \in Seq(Sentence) /\ sentences' = sentences \o added
    /\ Len(added) \in 0..Len(parts)
    /\ \A i \in 1..Len(added) : added[i].text = parts[i] /\ SentenceFits(added[i])
    /\ buf \in Seq(Ids) /\ \A i \in 1..Len(buf) : Fits(o, buf[i])
    /\ \/ Len(added) = Len(parts) /\ buf = state[o].buffer
       \/ ~state[o].forceClosed /\ Len(added) = Len(parts) - 1 /\ buf = parts[Len(parts)] \o state[o].buffer
    /\ state' \in [Ids -> Record]
    /\ state'[o].buffer = buf /\ state'[o].sequence = state[o].sequence
    /\ \A p \in Ids : p # o => state'[p] = state[p]

LEMMA SplitEffect ==
    ASSUME IInv, SplitReturns
    PROVE  \E o, text, parts, start, added, buf : SplitDoes(o, text, parts, start, added, buf)
<1>0. PICK parts \in Splits(flush.text), ends \in BOOLEAN :
           LET o      == flush.obj
               closed == state[o].forceClosed \/ ends
               key    == deltas[Last(flush.text)]
           IN /\ sentences' = sentences \o
                   [i \in 1..Shipped(Len(parts), closed) |->
                      [text |-> parts[i], session |-> key.session,
                       segment |-> key.segment, sequence |-> state[o].sequence]]
              /\ state' = [state EXCEPT
                   ![o].forceClosed = FALSE,
                   ![o].buffer = IF closed THEN @ ELSE Remerged(Last(parts), @)]
  BY DEF SplitReturns
<1> DEFINE o      == flush.obj
           key    == deltas[Last(flush.text)]
           seq    == state[o].sequence
           closed == state[o].forceClosed \/ ends
           n      == Shipped(Len(parts), closed)
           new    == [i \in 1..n |-> [text |-> parts[i], session |-> key.session,
                                      segment |-> key.segment, sequence |-> seq]]
           buf    == IF closed THEN state[o].buffer ELSE Remerged(Last(parts), state[o].buffer)
<1>1. /\ flush # NoFlush /\ flush' = NoFlush
      /\ UNCHANGED <<deltas, segment, input, stateByKey, created, stateQueue, pushed, lost,
                     failures, disturbed>>
  BY DEF SplitReturns
<1>2. /\ o \in Objects /\ o \in Ids /\ flush.text \in Seq(Ids) /\ flush.text # <<>>
      /\ state \in [Ids -> Record] /\ state[o] \in Record /\ state[o].buffer \in Seq(Ids)
      /\ Objects \subseteq Ids
  <2>1. o \in Objects /\ flush.text \in Seq(Ids) /\ flush.text # <<>>
    BY <1>1 DEF IInv, FlushInv, TypeOK
  <2> QED BY <2>1, NumberFacts DEF IInv
<1>3. /\ parts \in Seq(Seq(Ids)) /\ Len(parts) \in Nat \ {0}
      /\ \A i \in 1..Len(parts) : IdsOf(parts[i]) \subseteq IdsOf(flush.text)
  <2> PICK text \in Seq(Ids) : text = flush.text
    BY <1>2
  <2>1. /\ parts \in Seq(Seq(Ids)) /\ Len(parts) \in Nat \ {0}
        /\ \E start : Cuts(text, parts, start)
    BY <1>2, SplitFacts
  <2> QED BY <2>1, PartIds
<1>4. n \in 0..Len(parts)
  BY <1>3 DEF Shipped
<1>5. Last(flush.text) \in IdsOf(flush.text) /\ Last(parts) \in Seq(Ids)
      /\ IdsOf(Last(parts)) \subseteq IdsOf(flush.text)
  <2>1. Len(flush.text) \in 1..Len(flush.text) /\ Len(parts) \in 1..Len(parts)
    BY <1>2, <1>3
  <2>2. Last(flush.text) \in IdsOf(flush.text)
    BY <2>1 DEF Last, IdsOf
  <2>3. Last(parts) \in Seq(Ids) /\ IdsOf(Last(parts)) \subseteq IdsOf(flush.text)
    BY <1>3, <2>1 DEF Last
  <2> QED BY <2>2, <2>3
<1>6. /\ \A d \in IdsOf(flush.text) : Fits(o, d)
      /\ seq \in Offered /\ Offered \subseteq Ids
      /\ \A d \in Offered : /\ deltas[d] \in [session : Sessions, segment : Segments]
                            /\ deltas[d].session \in Sessions /\ deltas[d].segment \in Segments
  <2>1. \A d \in IdsOf(flush.text) : Fits(o, d)
    BY <1>1 DEF IInv, ObjectInv, IdsOf
  <2>2. seq \in Offered
    BY <1>2 DEF IInv, ObjectInv
  <2>3. Offered \subseteq Ids
    BY NumberFacts DEF IInv, InputInv, Offered, Ids
  <2>4. \A d \in Offered : deltas[d] \in [session : Sessions, segment : Segments]
    <3>1. deltas \in Seq([session : Sessions, segment : Segments])
      BY DEF IInv, TypeOK
    <3> QED BY <3>1, ElementIn DEF Offered
  <2> QED BY <2>1, <2>2, <2>3, <2>4
<1>7. /\ \A i \in 1..Len(parts) : parts[i] \in Seq(Ids)
      /\ key.session \in Sessions /\ key.segment \in Segments /\ seq \in Ids
      /\ <<key.session, key.segment>> = KeyOf(seq) /\ seq \in Nat
  <2>1. Fits(o, Last(flush.text))
    BY <1>5, <1>6
  <2>2. seq \in Nat
    BY <1>6, NumberFacts DEF IInv
  <2> QED BY <1>3, <1>6, <2>1, <2>2, ElementIn DEF Fits, KeyOf
<1>8. sentences' = sentences \o new /\ sentences \in Seq(Sentence)
  BY <1>0 DEF IInv, TypeOK
<1>9. \A i \in 1..n : new[i] \in Sentence /\ SentenceFits(new[i])
  <2> TAKE i \in 1..n
  <2>1. i \in 1..Len(parts)
    BY <1>3, <1>4
  <2>2. /\ new[i].text = parts[i] /\ new[i].session = key.session
        /\ new[i].segment = key.segment /\ new[i].sequence = seq
    OBVIOUS
  <2>3. new[i] \in Sentence
    BY <1>7, <2>1 DEF Sentence
  <2>4. ASSUME NEW d \in IdsOf(parts[i]) \cup {seq}
        PROVE  d \in Offered /\ KeyOf(d) = KeyOf(seq) /\ d <= seq
    <3>1. CASE d = seq
      BY <1>6, <1>7, <3>1
    <3>2. CASE d \in IdsOf(parts[i])
      BY <1>3, <1>6, <2>1, <3>2 DEF Fits
    <3> QED BY <3>1, <3>2
  <2>5. SentenceFits(new[i])
    BY <1>7, <2>2, <2>4 DEF SentenceFits
  <2> QED BY <2>3, <2>5
<1>10. buf \in Seq(Ids) /\ \A i \in 1..Len(buf) : Fits(o, buf[i])
  <2>1. \A i \in 1..Len(state[o].buffer) : Fits(o, state[o].buffer[i])
    BY <1>2 DEF IInv, ObjectInv
  <2>2. CASE closed
    BY <1>2, <2>1, <2>2
  <2>3. CASE ~closed
    <3>1. buf = Last(parts) \o state[o].buffer
      BY <2>3 DEF Remerged
    <3>2. \A i \in 1..Len(Last(parts)) : Fits(o, Last(parts)[i])
      BY <1>5, <1>6 DEF IdsOf
    <3> HIDE DEF buf, o
    <3> PICK p \in Seq(Ids), q \in Seq(Ids) : p = Last(parts) /\ q = state[o].buffer
      BY <1>2, <1>5
    <3>3. buf = p \o q
      BY <3>1
    <3>4. \A i \in 1..Len(buf) : Fits(o, buf[i])
      <4> TAKE i \in 1..Len(buf)
      <4>1. CASE i \in 1..Len(p)
        BY <3>2, <3>3, <4>1, JoinFacts
      <4>2. CASE i - Len(p) \in 1..Len(q) /\ buf[i] = q[i - Len(p)]
        BY <2>1, <4>2
      <4> QED BY <3>3, <4>1, <4>2, JoinFacts
    <3> QED BY <3>3, <3>4, JoinFacts
  <2> QED BY <2>2, <2>3
<1>11. /\ state' \in [Ids -> Record]
       /\ state'[o].buffer = buf /\ state'[o].sequence = seq
       /\ \A p \in Ids : p # o => state'[p] = state[p]
  <2>1. state' = [state EXCEPT ![o] = [state[o] EXCEPT !.forceClosed = FALSE, !.buffer = buf]]
    BY <1>0, <1>2
  <2>2. state[o] = [buffer |-> state[o].buffer, forceClosed |-> state[o].forceClosed,
                    sequence |-> seq] /\ seq \in 0..MaxDeltas
    BY <1>2, RecordFacts
  <2> PICK e \in Record : e = state[o]
    BY <1>2
  <2>3. state' = [state EXCEPT ![o] = [e EXCEPT !.forceClosed = FALSE, !.buffer = buf]]
    BY <2>1
  <2> HIDE DEF buf, o
  <2> PICK c \in BOOLEAN : c = FALSE
    BY Zenon
  <2>0. [e EXCEPT !.forceClosed = FALSE, !.buffer = buf] = [e EXCEPT !.forceClosed = c, !.buffer = buf]
    BY Zenon
  <2> DEFINE f == [e EXCEPT !.forceClosed = c, !.buffer = buf]
  <2>f. f \in Record /\ f.buffer = buf /\ f.sequence = e.sequence
    <3>1. buf \in Seq(Ids)
      BY <1>10
    <3>2. \A b \in Seq(Ids) :
            /\ [e EXCEPT !.forceClosed = c, !.buffer = b] \in Record
            /\ [e EXCEPT !.forceClosed = c, !.buffer = b].buffer = b
            /\ [e EXCEPT !.forceClosed = c, !.buffer = b].sequence = e.sequence
      BY SplitRecordFacts, ZenonT(40)
    <3> QED BY <3>1, <3>2, Zenon
  <2>4. state' = [state EXCEPT ![o] = f]
    BY <2>0, <2>3
  <2> HIDE DEF f
  <2>5. state' \in [Ids -> Record] /\ state'[o] = f
    BY <1>2, <2>4, <2>f
  <2>6. \A p \in Ids : p # o => state'[p] = state[p]
    BY <1>2, <2>4
  <2> QED BY <2>5, <2>6, <2>f
<1>12. \/ n = Len(parts) /\ buf = state[o].buffer
       \/ ~state[o].forceClosed /\ n = Len(parts) - 1 /\ buf = parts[Len(parts)] \o state[o].buffer
  BY <1>3 DEF Shipped, Remerged, Last
<1>13. PICK start : Cuts(flush.text, parts, start)
  <2> PICK text \in Seq(Ids) : text = flush.text
    BY <1>2
  <2>1. \E start : Cuts(text, parts, start)
    BY <1>2, SplitFacts
  <2> QED BY <2>1
<1>14. \A i \in 1..n : new[i].text = parts[i]
  OBVIOUS
<1> HIDE DEF n
<1> PICK added \in Seq(Sentence) : /\ added = new /\ Len(added) = n
                                   /\ \A i \in 1..Len(added) : added[i].text = parts[i] /\ SentenceFits(added[i])
  <2>1. new \in [1..n -> Sentence] /\ n \in Nat
    BY <1>3, <1>4, <1>9
  <2> HIDE DEF new
  <2>2. new \in Seq(Sentence) /\ Len(new) = n
    BY <2>1
  <2> QED BY <1>9, <1>14, <2>2
<1> HIDE DEF new, key, buf, closed
<1>15. sentences' = sentences \o added
  BY <1>8
<1>16. SplitDoes(o, flush.text, parts, start, added, buf)
  BY <1>1, <1>2, <1>3, <1>4, <1>8, <1>10, <1>11, <1>12, <1>13, <1>15 DEF SplitDoes
<1> QED BY <1>16

(* What the splitter returned becomes sentences, and a tail goes back.       *)
LEMMA SplitReturnsKeeps ==
    ASSUME IInv, SplitReturns
    PROVE  IInv'
<1> PICK o, text, parts, start, added, buf : SplitDoes(o, text, parts, start, added, buf)
  BY SplitEffect
<1>1. /\ flush # NoFlush /\ flush' = NoFlush /\ o = flush.obj
      /\ UNCHANGED <<deltas, segment, input, stateByKey, created, stateQueue, pushed, lost,
                     failures, disturbed>>
  BY DEF SplitDoes
<1>2. /\ o \in Objects /\ o \in Ids /\ state \in [Ids -> Record] /\ Objects \subseteq Ids
      /\ state[o].buffer \in Seq(Ids)
  BY DEF SplitDoes
<1>8. /\ sentences \in Seq(Sentence) /\ added \in Seq(Sentence) /\ sentences' = sentences \o added
      /\ \A i \in 1..Len(added) : SentenceFits(added[i])
  BY DEF SplitDoes
<1>10. buf \in Seq(Ids) /\ \A i \in 1..Len(buf) : Fits(o, buf[i])
  BY DEF SplitDoes
<1>11. /\ state' \in [Ids -> Record]
       /\ state'[o].buffer = buf /\ state'[o].sequence = state[o].sequence
       /\ \A p \in Ids : p # o => state'[p] = state[p]
  BY DEF SplitDoes
<1>12. /\ sentences' \in Seq(Sentence)
       /\ \A i \in 1..Len(sentences') : SentenceFits(sentences'[i])
  <2>1. sentences' = sentences \o added
    BY <1>8
  <2>2. \A i \in 1..Len(sentences) : SentenceFits(sentences[i])
    BY DEF IInv, SentenceInv
  <2>3. \A i \in 1..Len(sentences') : SentenceFits(sentences'[i])
    <3> TAKE i \in 1..Len(sentences')
    <3>1. CASE i \in 1..Len(sentences)
      BY <1>8, <2>1, <2>2, <3>1, JoinFacts
    <3>2. CASE i - Len(sentences) \in 1..Len(added) /\ sentences'[i] = added[i - Len(sentences)]
      BY <1>8, <3>2
    <3>3. \/ i \in 1..Len(sentences)
          \/ /\ i - Len(sentences) \in 1..Len(added)
             /\ (sentences \o added)[i] = added[i - Len(sentences)]
      BY <1>8, <2>1, JoinFacts
    <3> QED BY <2>1, <3>1, <3>2, <3>3
  <2> QED BY <1>8, <2>1, <2>3, JoinFacts
<1>13. TypeOK'
  <2>1. flush'.obj \in 0..created /\ flush'.text \in Seq(Ids)
    BY <1>1, NumberFacts DEF NoFlush, IInv
  <2> QED BY <1>1, <1>11, <1>12, <2>1 DEF IInv, TypeOK, Record
<1>14. InputInv' /\ FlushInv' /\ ObjectInv' /\ MapInv' /\ SentenceInv'
  <2>1. \A p \in Objects : \A i \in 1..Len(state'[p].buffer) : Fits(p, state'[p].buffer[i])
    <3> TAKE p \in Objects
    <3>1. CASE p = o
      BY <1>10, <1>11, <3>1
    <3>2. CASE p # o
      BY <1>2, <1>11, <3>2 DEF IInv, ObjectInv
    <3> QED BY <3>1, <3>2
  <2>2. /\ FlushInv' /\ \A p \in Objects : state'[p].sequence = state[p].sequence
        /\ \A p \in Ids \ Objects : state'[p].buffer = state[p].buffer
    BY <1>1, <1>2, <1>11 DEF FlushInv
  <2> QED BY <1>1, <1>12, <2>1, <2>2, TextMoves
<1>15. DropInv'
  <2>1. Mapped' = Mapped
    BY <1>1 DEF Mapped
  <2>2. SUFFICES ASSUME ~disturbed
                 PROVE  DroppedIsFlushed'
    BY <1>1 DEF DropInv
  <2>3. DroppedIsFlushed /\ (o \notin Mapped => state[o].forceClosed /\ state[o].buffer = <<>>)
    BY <1>1, <2>2 DEF IInv, DropInv
  <2>4. o \notin Mapped => state'[o].buffer = <<>>
    BY <1>11, <2>3 DEF SplitDoes
  <2> QED BY <1>1, <1>2, <1>11, <2>1, <2>3, <2>4 DEF DroppedIsFlushed, Objects
<1> QED BY <1>13, <1>14, <1>15 DEF IInv

(* The splitter failed: the text goes back in front.                         *)
LEMMA SplitFailsKeeps ==
    ASSUME IInv, SplitFails
    PROVE  IInv'
<1> DEFINE o   == flush.obj
           buf == Remerged(flush.text, state[o].buffer)
<1>1. /\ flush # NoFlush /\ flush' = NoFlush
      /\ failures < MaxFailures /\ failures' = failures + 1
      /\ UNCHANGED <<deltas, segment, input, stateByKey, created, stateQueue, sentences, pushed,
                     lost>>
  BY DEF SplitFails
<1>2. /\ o \in Objects /\ o \in Ids /\ flush.text \in Seq(Ids)
      /\ state \in [Ids -> Record] /\ state[o] \in Record /\ state[o].buffer \in Seq(Ids)
      /\ Objects \subseteq Ids
  <2>1. o \in Objects /\ flush.text \in Seq(Ids)
    BY <1>1 DEF IInv, FlushInv, TypeOK
  <2> QED BY <2>1, NumberFacts DEF IInv
<1>3. buf \in Seq(Ids) /\ \A i \in 1..Len(buf) : Fits(o, buf[i])
  <2>1. \A i \in 1..Len(state[o].buffer) : Fits(o, state[o].buffer[i])
    BY <1>2 DEF IInv, ObjectInv
  <2>2. \A i \in 1..Len(flush.text) : Fits(o, flush.text[i])
    BY <1>1 DEF IInv, ObjectInv
  <2> PICK p \in Seq(Ids), q \in Seq(Ids) : p = flush.text /\ q = state[o].buffer
    BY <1>2
  <2>3. buf = p \o q
    BY DEF Remerged
  <2> HIDE DEF buf, o
  <2>4. \A i \in 1..Len(buf) : Fits(o, buf[i])
    <3>1. IdsOf(buf) = IdsOf(p) \cup IdsOf(q)
      BY <2>3, JoinIds
    <3>2. \A d \in IdsOf(p) \cup IdsOf(q) : Fits(o, d)
      BY <2>1, <2>2 DEF IdsOf
    <3> QED BY <3>1, <3>2 DEF IdsOf
  <2> QED BY <2>3, <2>4, JoinFacts
<1>4. /\ state' \in [Ids -> Record]
      /\ state'[o].buffer = buf /\ state'[o].sequence = state[o].sequence
      /\ \A p \in Ids : p # o => state'[p] = state[p]
  <2> DEFINE f == [state[o] EXCEPT !.buffer = buf]
  <2>1. state' = [state EXCEPT ![o] = f]
    BY <1>2 DEF SplitFails
  <2>2. f \in Record /\ f.buffer = buf /\ f.sequence = state[o].sequence
    BY <1>2, <1>3, BufferFacts
  <2> HIDE DEF buf, o, f
  <2>3. state' \in [Ids -> Record] /\ state'[o] = f
    BY <1>2, <2>1, <2>2
  <2>4. \A p \in Ids : p # o => state'[p] = state[p]
    BY <1>2, <2>1
  <2> QED BY <2>2, <2>3, <2>4
<1>5. TypeOK'
  <2>1. flush'.obj \in 0..created /\ flush'.text \in Seq(Ids)
    BY <1>1, NumberFacts DEF NoFlush, IInv
  <2>2. failures' \in 0..MaxFailures
    BY <1>1, SeparatorAssumption DEF IInv, TypeOK
  <2>3. disturbed' \in BOOLEAN
    BY Zenon DEF SplitFails
  <2> QED BY <1>1, <1>4, <2>1, <2>2, <2>3 DEF IInv, TypeOK, Record
<1>6. InputInv' /\ FlushInv' /\ ObjectInv' /\ MapInv' /\ SentenceInv'
  <2>1. \A p \in Objects : \A i \in 1..Len(state'[p].buffer) : Fits(p, state'[p].buffer[i])
    <3> TAKE p \in Objects
    <3>1. CASE p = o
      BY <1>3, <1>4, <3>1
    <3>2. CASE p # o
      BY <1>2, <1>4, <3>2 DEF IInv, ObjectInv
    <3> QED BY <3>1, <3>2
  <2>2. /\ FlushInv' /\ \A p \in Objects : state'[p].sequence = state[p].sequence
        /\ \A p \in Ids \ Objects : state'[p].buffer = state[p].buffer
    BY <1>1, <1>2, <1>4 DEF FlushInv
  <2>3. \A i \in 1..Len(sentences') : SentenceFits(sentences'[i])
    BY <1>1 DEF IInv, SentenceInv
  <2> QED BY <1>1, <2>1, <2>2, <2>3, TextMoves
<1>7. DropInv'
  <2>1. Mapped' = Mapped
    BY <1>1 DEF Mapped
  <2>2. SUFFICES ASSUME ~disturbed, o \in Mapped
                 PROVE  DroppedIsFlushed'
    BY <1>1 DEF DropInv, SplitFails
  <2>3. DroppedIsFlushed
    BY <2>2 DEF IInv, DropInv
  <2> HIDE DEF o
  <2> QED BY <1>1, <1>2, <1>4, <2>1, <2>2, <2>3 DEF DroppedIsFlushed, Objects
<1> QED BY <1>5, <1>6, <1>7 DEF IInv

-----------------------------------------------------------------------------
(* States are marked and queued, and some perhaps leave the map.             *)
LEMMA ForceKeeps ==
    ASSUME IInv, NEW full, full \subseteq Objects, NEW forced \in InOrder(full),
           state' = Forced(full), stateQueue' = stateQueue \o forced,
           stateByKey' \in [Keys -> 0..created],
           \A k \in Keys : stateByKey'[k] = stateByKey[k] \/ stateByKey'[k] = 0,
           \A o \in WithText(Mapped) : o \in Mapped' \/ o \in full,
           disturbed' \in BOOLEAN,
           ~disturbed' => ~disturbed /\ (flush.obj \in Mapped => flush.obj \in Mapped'),
           UNCHANGED <<deltas, segment, input, created, flush, sentences, pushed, lost, failures>>
    PROVE  IInv'
<1>1. /\ state \in [Ids -> Record] /\ Objects \subseteq Ids /\ full \subseteq Nat
      /\ created \in Nat /\ Mapped \subseteq Objects
  BY NumberFacts DEF IInv
<1>2. forced \in Seq(1..created) /\ IdsOf(forced) = full
  <2>1. IsFiniteSet(full)
    <3>1. IsFiniteSet(Objects)
      BY <1>1, FS_Interval DEF Objects
    <3> QED BY <3>1, FS_Subset
  <2>2. forced \in Seq(full) /\ IdsOf(forced) = full
    BY <1>1, <2>1, OrderFacts
  <2>3. forced \in Seq(1..created)
    <3>1. full \subseteq 1..created
      BY DEF Objects
    <3> QED BY <2>2, <3>1, SeqGrows
  <2> QED BY <2>2, <2>3
<1>3. /\ stateQueue' \in Seq(1..created)
      /\ IdsOf(stateQueue') = IdsOf(stateQueue) \cup full
  <2>1. stateQueue \in Seq(1..created)
    BY DEF IInv, TypeOK
  <2> QED BY <1>2, <2>1, JoinFacts, JoinIds
<1>4. /\ state' \in [Ids -> Record]
      /\ \A o \in Ids : /\ state'[o].buffer = state[o].buffer
                        /\ state'[o].sequence = state[o].sequence
                        /\ state[o].forceClosed => state'[o].forceClosed
                        /\ o \in full => state'[o].forceClosed
  BY <1>1, ForcedFacts
<1>5. TypeOK'
  BY <1>3, <1>4 DEF IInv, TypeOK, Record
<1>6. InputInv' /\ FlushInv' /\ ObjectInv' /\ MapInv' /\ SentenceInv'
  <2>1. \A p \in Objects : \A i \in 1..Len(state'[p].buffer) : Fits(p, state'[p].buffer[i])
    BY <1>1, <1>4 DEF IInv, ObjectInv
  <2>2. /\ FlushInv' /\ \A p \in Objects : state'[p].sequence = state[p].sequence
        /\ \A p \in Ids \ Objects : state'[p].buffer = state[p].buffer
    BY <1>1, <1>4 DEF IInv, FlushInv, Objects
  <2>3. \A i \in 1..Len(sentences') : SentenceFits(sentences'[i])
    BY DEF IInv, SentenceInv
  <2>4. flush' # NoFlush => \A i \in 1..Len(flush'.text) : Fits(flush'.obj, flush'.text[i])
    BY DEF IInv, ObjectInv
  <2> QED BY <2>1, <2>2, <2>3, <2>4, TextMoves
<1>7. DropInv'
  <2> SUFFICES ASSUME ~disturbed'
               PROVE  /\ DroppedIsFlushed'
                      /\ flush # NoFlush /\ flush.obj \notin Mapped' =>
                           state'[flush.obj].forceClosed /\ state'[flush.obj].buffer = <<>>
    BY DEF DropInv
  <2>1. /\ DroppedIsFlushed
        /\ flush # NoFlush /\ flush.obj \notin Mapped =>
             state[flush.obj].forceClosed /\ state[flush.obj].buffer = <<>>
    BY DEF IInv, DropInv
  <2>2. ASSUME NEW o \in Objects, state'[o].buffer # <<>>, o \notin Mapped'
        PROVE  o \in IdsOf(stateQueue') /\ state'[o].forceClosed
    <3>1. CASE o \in full
      BY <1>1, <1>3, <1>4, <3>1
    <3>2. CASE o \notin full
      <4>1. o \notin Mapped
        BY <1>1, <1>4, <2>2, <3>2 DEF WithText
      <4> QED BY <1>1, <1>3, <1>4, <2>1, <2>2, <4>1 DEF DroppedIsFlushed, Objects
    <3> QED BY <3>1, <3>2
  <2>3. DroppedIsFlushed'
    BY <2>2 DEF DroppedIsFlushed, Objects
  <2>4. ASSUME flush # NoFlush, flush.obj \notin Mapped'
        PROVE  state'[flush.obj].forceClosed /\ state'[flush.obj].buffer = <<>>
    <3>1. flush.obj \in Objects /\ flush.obj \notin Mapped
      BY <2>4 DEF IInv, FlushInv
    <3> QED BY <1>1, <1>4, <2>1, <2>4, <3>1
  <2> QED BY <2>3, <2>4
<1> QED BY <1>5, <1>6, <1>7 DEF IInv

LEMMA SweepKeeps ==
    ASSUME IInv, NEW due, Sweep(due)
    PROVE  IInv'
<1>1. PICK forced \in InOrder(due) : stateQueue' = stateQueue \o forced
  BY DEF Sweep
<1>2. /\ due \subseteq Mapped /\ state' = Forced(due)
      /\ UNCHANGED <<deltas, segment, input, stateByKey, created, flush, sentences, pushed, lost,
                     failures, disturbed>>
  BY DEF Sweep, WithText
<1>3. due \subseteq Objects /\ Mapped' = Mapped
  BY <1>2, NumberFacts DEF IInv, Mapped
<1>4. stateByKey' \in [Keys -> 0..created] /\ disturbed' \in BOOLEAN
  BY <1>2 DEF IInv, TypeOK
<1>5. \A o \in WithText(Mapped) : o \in Mapped' \/ o \in due
  BY <1>3 DEF WithText
<1> QED BY <1>1, <1>2, <1>3, <1>4, <1>5, ForceKeeps

LEMMA CloseSessionKeeps ==
    ASSUME IInv, NEW s \in Sessions, CloseSession(s)
    PROVE  IInv'
<1> DEFINE keys == {k \in Keys : k[1] = s /\ stateByKey[k] # 0}
           full == WithText(ObjectsOf(keys))
<1>1. /\ Drops(ObjectsOf(keys))
      /\ stateByKey' = [k \in Keys |-> IF k \in keys THEN 0 ELSE stateByKey[k]]
      /\ state' = Forced(full)
      /\ \E forced \in InOrder(full) : stateQueue' = stateQueue \o forced
      /\ UNCHANGED <<deltas, segment, input, created, flush, sentences, pushed, lost, failures>>
  BY DEF CloseSession
<1>2. PICK forced \in InOrder(full) : stateQueue' = stateQueue \o forced
  BY <1>1
<1>3. ObjectsOf(keys) \subseteq Mapped /\ full \subseteq ObjectsOf(keys)
  BY DEF ObjectsOf, Mapped, WithText
<1>4. full \subseteq Objects
  BY <1>3, NumberFacts DEF IInv
<1>5. /\ stateByKey' \in [Keys -> 0..created]
      /\ \A k \in Keys : stateByKey'[k] = stateByKey[k] \/ stateByKey'[k] = 0
  <2>1. created \in Nat /\ \A k \in Keys : stateByKey[k] \in 0..created
    BY NumberFacts DEF IInv
  <2> HIDE DEF keys
  <2> QED BY <1>1, <2>1
<1>6. \A o \in Mapped : o \in Mapped' \/ o \in ObjectsOf(keys)
  <2> TAKE o \in Mapped
  <2>1. PICK k \in Keys : o = stateByKey[k] /\ o # 0
    BY DEF Mapped
  <2>2. CASE k \in keys
    BY <2>1, <2>2 DEF ObjectsOf
  <2>3. CASE k \notin keys
    <3>1. stateByKey'[k] = o
      BY <1>1, <2>1, <2>3
    <3> QED BY <2>1, <3>1 DEF Mapped
  <2> QED BY <2>2, <2>3
<1>7. \A o \in WithText(Mapped) : o \in Mapped' \/ o \in full
  BY <1>6 DEF WithText
<1>8. disturbed' \in BOOLEAN
  BY <1>1, Zenon DEF Drops
<1>9. ~disturbed' => ~disturbed /\ (flush.obj \in Mapped => flush.obj \in Mapped')
  BY <1>1, <1>6 DEF Drops
<1> HIDE DEF keys, full
<1> QED BY <1>1, <1>2, <1>4, <1>5, <1>7, <1>8, <1>9, ForceKeeps

-----------------------------------------------------------------------------
(* The record of an object that took a delta.                                *)
LEMMA StoredFacts ==
    ASSUME NEW e \in Record, NEW d \in Ids, Ids \subseteq 0..MaxDeltas
    PROVE  /\ Stored(e, d) \in Record
           /\ Stored(e, d).buffer = Append(e.buffer, d)
           /\ Stored(e, d).sequence = d
           /\ Stored(e, d).forceClosed = e.forceClosed
<1> DEFINE g == [e EXCEPT !.buffer = Append(e.buffer, d)]
<1>1. Append(e.buffer, d) \in Seq(Ids) /\ d \in 0..MaxDeltas
  BY RecordFacts
<1>2. /\ g \in Record /\ g.buffer = Append(e.buffer, d)
      /\ g.sequence = e.sequence /\ g.forceClosed = e.forceClosed
  BY <1>1, BufferFacts
<1>3. Stored(e, d) = [g EXCEPT !.sequence = d]
  BY <1>1, RecordFacts DEF Stored
<1> HIDE DEF g
<1>4. PICK f \in BOOLEAN : f = g.forceClosed
  BY <1>2, RecordFacts
<1>5. g = [buffer |-> g.buffer, forceClosed |-> f, sequence |-> g.sequence] /\ g.buffer \in Seq(Ids)
  BY <1>2, <1>4, RecordFacts
<1>6. [g EXCEPT !.sequence = d] = [buffer |-> g.buffer, forceClosed |-> f, sequence |-> d]
  BY <1>5
<1>7. [g EXCEPT !.sequence = d] \in Record
  BY <1>1, <1>5, <1>6 DEF Record
<1>8. /\ [g EXCEPT !.sequence = d].buffer = g.buffer /\ [g EXCEPT !.sequence = d].sequence = d
      /\ [g EXCEPT !.sequence = d].forceClosed = f
  BY <1>6
<1> QED BY <1>2, <1>3, <1>4, <1>7, <1>8

(* What a step of the store loop does with delta d of object obj: the key is *)
(* new for the object, or the objects of the session's other keys leave.     *)
StoreDoes(d, key, stale, full, obj) ==
    /\ d = Head(input) /\ key = KeyOf(d)
    /\ stale = ObjectsOf(StaleKeys(key)) /\ full = WithText(stale)
    /\ obj = IF stateByKey[key] = 0 THEN created + 1 ELSE stateByKey[key]
    /\ /\ input # <<>> /\ input' = Tail(input) /\ Drops(stale)
       /\ stateByKey' = [k \in Keys |-> IF k = key THEN obj
                                        ELSE IF k \in StaleKeys(key) THEN 0
                                        ELSE stateByKey[k]]
       /\ created' = IF stateByKey[key] = 0 THEN created + 1 ELSE created
       /\ state' = [Forced(full) EXCEPT ![obj] = Stored(@, d)]
       /\ \E forced \in InOrder(full) : stateQueue' = stateQueue \o forced \o <<obj>>
       /\ UNCHANGED <<deltas, segment, flush, sentences, pushed, lost, failures>>
    /\ /\ created \in Nat /\ MaxDeltas \in Nat /\ Objects \subseteq Ids /\ Ids \subseteq Nat
       /\ state \in [Ids -> Record] /\ Mapped \subseteq Objects
       /\ \A k \in Keys : stateByKey[k] \in 0..created
       /\ \A o \in Ids : state[o].buffer \in Seq(Ids)
    /\ /\ input \in Seq(Ids) /\ input' \in Seq(Ids) /\ Len(input) \in Nat /\ Len(input) >= 1
       /\ Len(input') = Len(input) - 1 /\ d = input[1]
       /\ \A i \in 1..Len(input') : i + 1 \in 1..Len(input) /\ input'[i] = input[i + 1]
    /\ /\ d \in Offered /\ Offered \subseteq Ids /\ key \in Keys
       /\ \A i \in 1..Len(input') : d < input'[i] /\ input'[i] \in Offered
       /\ \A o \in Objects : /\ state[o].sequence \in Offered /\ state[o].sequence < d
                             /\ \A i \in 1..Len(input') : state[o].sequence < input'[i]
       /\ created + 1 <= MaxDeltas
    /\ /\ created' \in 0..MaxDeltas /\ created' \in Nat /\ obj \in 1..created'
       /\ Objects' = 1..created' /\ Objects' = Objects \cup {obj} /\ obj \in Ids /\ obj # 0
       /\ Objects' \subseteq Ids
    /\ full \subseteq stale /\ stale \subseteq Mapped /\ full \subseteq Objects
    /\ /\ state' \in [Ids -> Record]
       /\ state'[obj].buffer = Append(state[obj].buffer, d) /\ state'[obj].sequence = d
       /\ \A o \in Ids : o # obj =>
            /\ state'[o].buffer = state[o].buffer /\ state'[o].sequence = state[o].sequence
            /\ state[o].forceClosed => state'[o].forceClosed
            /\ o \in full => state'[o].forceClosed
    /\ /\ stateByKey' \in [Keys -> 0..created'] /\ stateByKey'[key] = obj
       /\ \A k \in Keys : k # key => \/ stateByKey'[k] = stateByKey[k] /\ k \notin StaleKeys(key)
                                     \/ stateByKey'[k] = 0 /\ k \in StaleKeys(key)
    /\ /\ stateQueue' \in Seq(1..created')
       /\ IdsOf(stateQueue') = (IdsOf(stateQueue) \cup full) \cup {obj}

LEMMA StoreEffect ==
    ASSUME IInv, StoreEvent
    PROVE  \E d, key, stale, full, obj : StoreDoes(d, key, stale, full, obj)
<1> PICK d : d = Head(input)
  OBVIOUS
<1> PICK key : key = KeyOf(d)
  OBVIOUS
<1> PICK stale : stale = ObjectsOf(StaleKeys(key))
  OBVIOUS
<1> PICK full : full = WithText(stale)
  OBVIOUS
<1> PICK obj : obj = IF stateByKey[key] = 0 THEN created + 1 ELSE stateByKey[key]
  OBVIOUS
<1>1. /\ input # <<>> /\ input' = Tail(input) /\ Drops(stale)
      /\ stateByKey' = [k \in Keys |-> IF k = key THEN obj
                                       ELSE IF k \in StaleKeys(key) THEN 0
                                       ELSE stateByKey[k]]
      /\ created' = IF stateByKey[key] = 0 THEN created + 1 ELSE created
      /\ state' = [Forced(full) EXCEPT ![obj] = Stored(@, d)]
      /\ \E forced \in InOrder(full) : stateQueue' = stateQueue \o forced \o <<obj>>
      /\ UNCHANGED <<deltas, segment, flush, sentences, pushed, lost, failures>>
  BY DEF StoreEvent, KeyOf
<1>2. /\ created \in Nat /\ MaxDeltas \in Nat /\ Objects \subseteq Ids /\ Ids \subseteq Nat
      /\ state \in [Ids -> Record] /\ Mapped \subseteq Objects
      /\ \A k \in Keys : stateByKey[k] \in 0..created
      /\ \A o \in Ids : state[o].buffer \in Seq(Ids)
  BY NumberFacts DEF IInv
<1>3. /\ input \in Seq(Ids) /\ input' \in Seq(Ids) /\ Len(input) \in Nat /\ Len(input) >= 1
      /\ Len(input') = Len(input) - 1 /\ d = input[1]
      /\ \A i \in 1..Len(input') : i + 1 \in 1..Len(input) /\ input'[i] = input[i + 1]
  <2>1. input \in Seq(Ids)
    BY DEF IInv, TypeOK
  <2> QED BY <1>1, <2>1, TailFacts
<1>4. /\ d \in Offered /\ Offered \subseteq Ids /\ key \in Keys
      /\ \A i \in 1..Len(input') : d < input'[i] /\ input'[i] \in Offered
      /\ \A o \in Objects : /\ state[o].sequence \in Offered /\ state[o].sequence < d
                            /\ \A i \in 1..Len(input') : state[o].sequence < input'[i]
      /\ created + 1 <= MaxDeltas
  <2>1. 1 \in 1..Len(input)
    BY <1>3
  <2>2. d \in Offered
    BY <1>3, <2>1 DEF IInv, InputInv
  <2>3. Offered \subseteq Ids
    BY NumberFacts DEF IInv, InputInv, Offered, Ids
  <2>4. key \in Keys
    <3>1. deltas \in Seq([session : Sessions, segment : Segments])
      BY DEF IInv, TypeOK
    <3>2. deltas[d] \in [session : Sessions, segment : Segments]
      BY <2>2, <3>1, ElementIn DEF Offered
    <3> QED BY <3>2 DEF KeyOf, Keys
  <2>5. \A i \in 1..Len(input') : d < input'[i] /\ input'[i] \in Offered
    <3> TAKE i \in 1..Len(input')
    <3>1. i + 1 \in 1..Len(input) /\ 1 < i + 1
      BY <1>3
    <3> QED BY <1>3, <2>1, <3>1 DEF IInv, InputInv
  <2>6. \A o \in Objects : /\ state[o].sequence \in Offered /\ state[o].sequence < d
                           /\ \A i \in 1..Len(input') : state[o].sequence < input'[i]
    BY <1>3, <2>1 DEF IInv, ObjectInv
  <2>7. created + 1 <= MaxDeltas
    BY <1>2, <1>3, NumberFacts DEF IInv, InputInv
  <2> QED BY <2>2, <2>3, <2>4, <2>5, <2>6, <2>7
<1>5. /\ created' \in 0..MaxDeltas /\ created' \in Nat /\ obj \in 1..created'
      /\ Objects' = 1..created' /\ Objects' = Objects \cup {obj} /\ obj \in Ids /\ obj # 0
      /\ Objects' \subseteq Ids
  <2>1. CASE stateByKey[key] = 0
    <3>1. created' = created + 1 /\ obj = created + 1
      BY <1>1, <2>1
    <3>2. created' \in 0..MaxDeltas /\ created' \in Nat /\ obj \in 1..created' /\ obj \in Ids
      BY <1>2, <1>4, <3>1 DEF Ids
    <3>3. \A o : o \in 1..created' <=> (o \in 1..created \/ o = obj)
      BY <1>2, <3>1
    <3>4. Objects' = 1..created' /\ Objects' = Objects \cup {obj}
      BY <3>3 DEF Objects
    <3> QED BY <1>2, <3>2, <3>4
  <2>2. CASE stateByKey[key] # 0
    <3>1. created' = created /\ obj \in 1..created
      BY <1>1, <1>2, <1>4, <2>2
    <3>2. Objects' = Objects /\ obj \in Objects
      BY <3>1 DEF Objects
    <3>3. obj \in Nat /\ obj # 0 /\ created' \in 0..MaxDeltas
      BY <1>2, <3>1 DEF IInv, TypeOK
    <3> QED BY <1>2, <3>1, <3>2, <3>3 DEF Objects
  <2> QED BY <2>1, <2>2
<1>6. full \subseteq stale /\ stale \subseteq Mapped /\ full \subseteq Objects
  <2>1. stale \subseteq Mapped
    BY DEF ObjectsOf, StaleKeys, Mapped
  <2>2. full \subseteq stale
    BY DEF WithText
  <2> QED BY <1>2, <2>1, <2>2
<1>7. /\ state' \in [Ids -> Record]
      /\ state'[obj].buffer = Append(state[obj].buffer, d) /\ state'[obj].sequence = d
      /\ \A o \in Ids : o # obj =>
           /\ state'[o].buffer = state[o].buffer /\ state'[o].sequence = state[o].sequence
           /\ state[o].forceClosed => state'[o].forceClosed
           /\ o \in full => state'[o].forceClosed
  <2> DEFINE mid == Forced(full)
             f   == Stored(mid[obj], d)
  <2>1. /\ mid \in [Ids -> Record]
        /\ \A o \in Ids : /\ mid[o].buffer = state[o].buffer /\ mid[o].sequence = state[o].sequence
                          /\ state[o].forceClosed => mid[o].forceClosed
                          /\ o \in full => mid[o].forceClosed
    BY <1>2, ForcedFacts
  <2>2. state' = [mid EXCEPT ![obj] = f]
    BY <1>1, <1>5, <2>1
  <2> HIDE DEF mid
  <2>3. mid[obj] \in Record /\ d \in Ids /\ Ids \subseteq 0..MaxDeltas
    <3>1. obj \in Ids /\ d \in Ids
      BY <1>2, <1>4, <1>5
    <3>2. mid[obj] \in Record
      BY <2>1, <3>1
    <3>3. Ids \subseteq 0..MaxDeltas
      BY <1>2 DEF Ids
    <3> QED BY <3>1, <3>2, <3>3
  <2>4. f \in Record /\ f.buffer = Append(mid[obj].buffer, d) /\ f.sequence = d
    BY <2>3, StoredFacts
  <2> HIDE DEF f
  <2>5. state' \in [Ids -> Record] /\ state'[obj] = f
    BY <1>5, <2>1, <2>2, <2>4
  <2>6. \A o \in Ids : o # obj => state'[o] = mid[o]
    BY <2>1, <2>2
  <2>7. mid[obj].buffer = state[obj].buffer
    BY <1>5, <2>1
  <2> QED BY <2>1, <2>4, <2>5, <2>6, <2>7
<1>8. /\ stateByKey' \in [Keys -> 0..created'] /\ stateByKey'[key] = obj
      /\ \A k \in Keys : k # key => \/ stateByKey'[k] = stateByKey[k] /\ k \notin StaleKeys(key)
                                    \/ stateByKey'[k] = 0 /\ k \in StaleKeys(key)
  <2>1. \A k \in Keys : stateByKey[k] \in 0..created'
    BY <1>1, <1>2
  <2>2. obj \in 0..created' /\ 0 \in 0..created'
    BY <1>5
  <2>3. stateByKey' = [k \in Keys |-> IF k = key THEN obj
                                      ELSE IF k \in StaleKeys(key) THEN 0 ELSE stateByKey[k]]
    BY <1>1
  <2>4. \A k \in Keys : (IF k = key THEN obj ELSE IF k \in StaleKeys(key) THEN 0 ELSE stateByKey[k])
                          \in 0..created'
    BY <2>1, <2>2
  <2> QED BY <1>4, <2>3, <2>4
<1>9. /\ stateQueue' \in Seq(1..created')
      /\ IdsOf(stateQueue') = (IdsOf(stateQueue) \cup full) \cup {obj}
  <2>1. PICK forced \in InOrder(full) : stateQueue' = stateQueue \o forced \o <<obj>>
    BY <1>1
  <2>2. IsFiniteSet(full) /\ full \subseteq Nat /\ full \subseteq 1..created'
    <3>1. IsFiniteSet(Objects)
      BY <1>2, FS_Interval DEF Objects
    <3> QED BY <1>2, <1>5, <1>6, <3>1, FS_Subset
  <2>3. forced \in Seq(full) /\ IdsOf(forced) = full
    BY <2>2, OrderFacts
  <2>4. forced \in Seq(1..created')
    BY <2>2, <2>3, SeqGrows
  <2>5. stateQueue \in Seq(1..created')
    <3>1. stateQueue \in Seq(1..created) /\ 1..created \subseteq 1..created'
      BY <1>1, <1>2 DEF IInv, TypeOK
    <3> QED BY <3>1, SeqGrows
  <2>6. <<obj>> \in Seq(1..created') /\ IdsOf(<<obj>>) = {obj}
    BY <1>5 DEF IdsOf
  <2> DEFINE head == stateQueue \o forced
  <2>7. head \in Seq(1..created') /\ IdsOf(head) = IdsOf(stateQueue) \cup full
    <3>1. head \in Seq(1..created')
      BY <2>4, <2>5, JoinFacts
    <3>2. IdsOf(head) = IdsOf(stateQueue) \cup IdsOf(forced)
      BY <2>4, <2>5, JoinIds
    <3> QED BY <2>3, <3>1, <3>2
  <2>8. stateQueue' = head \o <<obj>>
    BY <2>1
  <2> HIDE DEF head
  <2>9. PICK last \in Seq(1..created') : last = <<obj>>
    BY <2>6
  <2>10. last \in Seq(1..created')
    BY <2>9
  <2>11. head \o last \in Seq(1..created') /\ IdsOf(head \o last) = IdsOf(head) \cup IdsOf(last)
    BY <2>7, <2>10, JoinFacts, JoinIds
  <2> QED BY <2>6, <2>7, <2>8, <2>9, <2>11
<1>10. StoreDoes(d, key, stale, full, obj)
  BY <1>1, <1>2, <1>3, <1>4, <1>5, <1>6, <1>7, <1>8, <1>9 DEF StoreDoes
<1> QED BY <1>10

(* The store loop takes the oldest delta.                                    *)
LEMMA StoreEventKeeps ==
    ASSUME IInv, StoreEvent
    PROVE  IInv'
<1>0. PICK d, key, stale, full, obj : StoreDoes(d, key, stale, full, obj)
  BY StoreEffect
<1> /\ d = Head(input) /\ key = KeyOf(d)
    /\ stale = ObjectsOf(StaleKeys(key)) /\ full = WithText(stale)
    /\ obj = IF stateByKey[key] = 0 THEN created + 1 ELSE stateByKey[key]
  BY <1>0 DEF StoreDoes
<1>1. /\ input # <<>> /\ input' = Tail(input) /\ Drops(stale)
      /\ stateByKey' = [k \in Keys |-> IF k = key THEN obj
                                       ELSE IF k \in StaleKeys(key) THEN 0
                                       ELSE stateByKey[k]]
      /\ created' = IF stateByKey[key] = 0 THEN created + 1 ELSE created
      /\ state' = [Forced(full) EXCEPT ![obj] = Stored(@, d)]
      /\ \E forced \in InOrder(full) : stateQueue' = stateQueue \o forced \o <<obj>>
      /\ UNCHANGED <<deltas, segment, flush, sentences, pushed, lost, failures>>
  BY <1>0 DEF StoreDoes
<1>2. /\ created \in Nat /\ MaxDeltas \in Nat /\ Objects \subseteq Ids /\ Ids \subseteq Nat
      /\ state \in [Ids -> Record] /\ Mapped \subseteq Objects
      /\ \A k \in Keys : stateByKey[k] \in 0..created
      /\ \A o \in Ids : state[o].buffer \in Seq(Ids)
  BY <1>0 DEF StoreDoes
<1>3. /\ input \in Seq(Ids) /\ input' \in Seq(Ids) /\ Len(input) \in Nat /\ Len(input) >= 1
      /\ Len(input') = Len(input) - 1 /\ d = input[1]
      /\ \A i \in 1..Len(input') : i + 1 \in 1..Len(input) /\ input'[i] = input[i + 1]
  BY <1>0 DEF StoreDoes
<1>4. /\ d \in Offered /\ Offered \subseteq Ids /\ key \in Keys
      /\ \A i \in 1..Len(input') : d < input'[i] /\ input'[i] \in Offered
      /\ \A o \in Objects : /\ state[o].sequence \in Offered /\ state[o].sequence < d
                            /\ \A i \in 1..Len(input') : state[o].sequence < input'[i]
      /\ created + 1 <= MaxDeltas
  BY <1>0 DEF StoreDoes
<1>5. /\ created' \in 0..MaxDeltas /\ created' \in Nat /\ obj \in 1..created'
      /\ Objects' = 1..created' /\ Objects' = Objects \cup {obj} /\ obj \in Ids /\ obj # 0
      /\ Objects' \subseteq Ids
  BY <1>0 DEF StoreDoes
<1>6. full \subseteq stale /\ stale \subseteq Mapped /\ full \subseteq Objects
  BY <1>0 DEF StoreDoes
<1>7. /\ state' \in [Ids -> Record]
      /\ state'[obj].buffer = Append(state[obj].buffer, d) /\ state'[obj].sequence = d
      /\ \A o \in Ids : o # obj =>
           /\ state'[o].buffer = state[o].buffer /\ state'[o].sequence = state[o].sequence
           /\ state[o].forceClosed => state'[o].forceClosed
           /\ o \in full => state'[o].forceClosed
  BY <1>0 DEF StoreDoes
<1>8. /\ stateByKey' \in [Keys -> 0..created'] /\ stateByKey'[key] = obj
      /\ \A k \in Keys : k # key => \/ stateByKey'[k] = stateByKey[k] /\ k \notin StaleKeys(key)
                                    \/ stateByKey'[k] = 0 /\ k \in StaleKeys(key)
  BY <1>0 DEF StoreDoes
<1>9. /\ stateQueue' \in Seq(1..created')
      /\ IdsOf(stateQueue') = (IdsOf(stateQueue) \cup full) \cup {obj}
  BY <1>0 DEF StoreDoes
<1>10. TypeOK'
  <2>1. flush'.obj \in 0..created' /\ flush'.text \in Seq(Ids)
    BY <1>1, <1>2 DEF IInv, TypeOK
  <2>2. disturbed' \in BOOLEAN
    BY <1>1, Zenon DEF Drops
  <2> QED BY <1>1, <1>3, <1>5, <1>7, <1>8, <1>9, <2>1, <2>2 DEF IInv, TypeOK, Record
<1>11. InputInv'
  <2>1. created' + Len(input') <= Len(deltas')
    BY <1>1, <1>2, <1>3, NumberFacts DEF IInv, InputInv
  <2>2. \A i, j \in 1..Len(input') : i < j => input'[i] < input'[j]
    <3> TAKE i, j \in 1..Len(input')
    <3>1. i + 1 \in 1..Len(input) /\ j + 1 \in 1..Len(input)
          /\ input'[i] = input[i + 1] /\ input'[j] = input[j + 1]
      BY <1>3
    <3>2. i < j => i + 1 < j + 1
      BY <1>3
    <3> QED BY <3>1, <3>2 DEF IInv, InputInv
  <2> QED BY <1>1, <1>4, <2>1, <2>2 DEF IInv, InputInv, Offered
<1>12. FlushInv'
  BY <1>1, <1>5 DEF IInv, FlushInv
(* An object that is already there had deltas of the same key.              *)
<1>13. obj \in Objects => KeyOf(state[obj].sequence) = key
  BY <1>2, <1>4 DEF IInv, MapInv, Objects
<1>14. \A x : Fits(obj, x) /\ obj \in Objects => x \in Offered /\ KeyOf(x) = key /\ x <= d
  <2> TAKE x
  <2>1. ASSUME Fits(obj, x), obj \in Objects
        PROVE  x \in Offered /\ KeyOf(x) = key /\ x <= d
    <3>1. x \in Nat /\ state[obj].sequence \in Nat /\ d \in Nat
      BY <1>2, <1>4, <2>1 DEF Fits
    <3> QED BY <1>4, <1>13, <2>1, <3>1 DEF Fits
  <2> QED BY <2>1
<1>15. \A x, o : o \in Objects /\ Fits(o, x) => Fits(o, x)'
  <2> TAKE x, o
  <2>1. ASSUME o \in Objects, Fits(o, x), o = obj
        PROVE  Fits(o, x)'
    <3>1. x \in Offered /\ KeyOf(x) = key /\ x <= d
      BY <1>14, <2>1
    <3> QED BY <1>1, <1>7, <2>1, <3>1 DEF Fits, Offered, KeyOf
  <2>2. ASSUME o \in Objects, Fits(o, x), o # obj
        PROVE  Fits(o, x)'
    <3>1. state'[o].sequence = state[o].sequence
      BY <1>2, <1>7, <2>2
    <3> QED BY <1>1, <2>2, <3>1 DEF Fits, Offered, KeyOf
  <2> QED BY <2>1, <2>2
<1>16. ObjectInv'
  <2>1. ASSUME NEW o \in Objects'
        PROVE  /\ state'[o].sequence \in Offered'
               /\ \A i \in 1..Len(input') : state'[o].sequence < input'[i]
    <3>1. CASE o = obj
      <4>1. state'[o].sequence = d /\ Offered' = Offered
        BY <1>1, <1>7, <3>1 DEF Offered
      <4> QED BY <1>4, <4>1
    <3>2. CASE o # obj
      <4>1. o \in Objects /\ state'[o].sequence = state[o].sequence
        BY <1>2, <1>5, <1>7, <3>2
      <4> QED BY <1>1, <1>4, <4>1 DEF Offered
    <3> QED BY <3>1, <3>2
  <2>2. ASSUME NEW o \in Objects, NEW q, q = state[o].buffer, NEW i \in 1..Len(q)
        PROVE  Fits(o, q[i])'
    <3> PICK x : x = q[i]
      OBVIOUS
    <3>1. Fits(o, x)
      BY <2>2 DEF IInv, ObjectInv
    <3> QED BY <1>15, <3>1
  <2>3. ASSUME NEW o \in Objects', NEW q, q = state'[o].buffer, NEW i \in 1..Len(q)
        PROVE  Fits(o, q[i])'
    <3>1. CASE o # obj
      <4>1. o \in Objects /\ q = state[o].buffer
        BY <1>2, <1>5, <1>7, <2>3, <3>1
      <4> QED BY <2>2, <4>1
    <3>2. CASE o = obj
      <4> PICK b \in Seq(Ids) : b = state[obj].buffer
        BY <1>2, <1>5
      <4>0. d \in Ids
        BY <1>4
      <4>1. q = Append(b, d)
        BY <1>7, <2>3, <3>2
      <4>2. CASE i \in 1..Len(b)
        <5>1. q[i] = b[i]
          BY ONLY <4>0, <4>1, <4>2, b \in Seq(Ids)
        <5>2. obj \in Objects
          <6>1. obj \notin Objects => b = <<>>
            BY <1>5 DEF IInv, ObjectInv
          <6> QED BY <4>2, <6>1
        <5> QED BY <2>2, <3>2, <4>2, <5>1, <5>2
      <4>3. CASE i \notin 1..Len(b)
        <5>1. q[i] = d
          <6>1. Len(b) \in Nat /\ Len(q) = Len(b) + 1 /\ q[Len(b) + 1] = d
            BY ONLY <4>0, <4>1, b \in Seq(Ids)
          <6>2. i = Len(b) + 1
            BY <2>3, <4>3, <6>1
          <6> QED BY <6>1, <6>2
        <5>2. Fits(obj, d)'
          <6>1. d \in Nat /\ state'[obj].sequence = d /\ d \in Offered'
            BY <1>1, <1>2, <1>4, <1>7 DEF Offered
          <6> QED BY <6>1 DEF Fits
        <5> QED BY <3>2, <5>1, <5>2
      <4> QED BY <4>2, <4>3
    <3> QED BY <3>1, <3>2
  <2>4. \A o \in Objects' : (\A i \in 1..Len(state[o].buffer) : Fits(o, state[o].buffer[i]))'
    <3> TAKE o \in Objects'
    <3> PICK q : q = state'[o].buffer
      OBVIOUS
    <3>1. \A i \in 1..Len(q) : Fits(o, q[i])'
      BY <2>3
    <3> QED BY <3>1 DEF Fits, Offered, KeyOf
  <2>5. \A o \in Ids \ Objects' : state'[o].buffer = <<>>
    <3> TAKE o \in Ids \ Objects'
    <3>1. o # obj /\ o \in Ids \ Objects
      BY <1>5
    <3> QED BY <1>7, <3>1 DEF IInv, ObjectInv
  <2>6. flush' # NoFlush => (\A i \in 1..Len(flush.text) : Fits(flush.obj, flush.text[i]))'
    <3> SUFFICES ASSUME flush # NoFlush
                 PROVE  (\A i \in 1..Len(flush.text) : Fits(flush.obj, flush.text[i]))'
      BY <1>1
    <3> PICK o, q : o = flush.obj /\ q = flush.text
      OBVIOUS
    <3>1. o \in Objects /\ \A i \in 1..Len(q) : Fits(o, q[i])
      BY DEF IInv, ObjectInv, FlushInv
    <3>2. \A i \in 1..Len(q) : Fits(o, q[i])'
      <4> TAKE i \in 1..Len(q)
      <4> PICK x : x = q[i]
        OBVIOUS
      <4>1. Fits(o, x)
        BY <3>1
      <4> QED BY <1>15, <3>1, <4>1
    <3>3. flush' = flush
      BY <1>1
    <3> QED BY <3>2, <3>3 DEF Fits, KeyOf
  <2> QED BY <2>1, <2>4, <2>5, <2>6 DEF ObjectInv
<1>17. MapInv'
  <2>1. \A k \in Keys : k # key /\ stateByKey'[k] # 0 => stateByKey'[k] = stateByKey[k]
    BY <1>8
  <2>2. OneSegmentPerSession'
    <3> SUFFICES ASSUME NEW k \in Keys, NEW j \in Keys, k[1] = j[1], stateByKey'[k] # 0,
                        stateByKey'[j] # 0
                 PROVE  k = j
      BY DEF OneSegmentPerSession
    <3>1. CASE stateByKey[key] # 0
      <4>1. stateByKey[k] # 0 /\ stateByKey[j] # 0
        BY <2>1, <3>1
      <4> QED BY <4>1 DEF IInv, MapInv, OneSegmentPerSession
    <3>2. CASE stateByKey[key] = 0
      <4>1. \A m \in Keys : m[1] = key[1] /\ m # key => stateByKey'[m] = 0
        BY <1>8, <3>2 DEF StaleKeys
      <4>2. CASE k = key
        BY <4>1, <4>2
      <4>3. CASE j = key
        BY <4>1, <4>3
      <4>4. CASE k # key /\ j # key
        BY <2>1, <4>4 DEF IInv, MapInv, OneSegmentPerSession
      <4> QED BY <4>2, <4>3, <4>4
    <3> QED BY <3>1, <3>2
  <2>3. ASSUME NEW k \in Keys, stateByKey'[k] # 0
        PROVE  (KeyOf(state[stateByKey[k]].sequence) = k)'
    <3>1. CASE k = key
      BY <1>1, <1>7, <1>8, <3>1 DEF KeyOf
    <3>2. CASE k # key
      <4> PICK o : o = stateByKey[k]
        OBVIOUS
      <4>1. stateByKey'[k] = o /\ o \in Objects /\ KeyOf(state[o].sequence) = k
        BY <1>2, <2>1, <2>3, <3>2 DEF IInv, MapInv, Objects
      <4>2. o # obj
        BY <1>13, <3>2, <4>1
      <4>3. state'[o].sequence = state[o].sequence
        BY <1>2, <1>7, <4>1, <4>2
      <4> QED BY <1>1, <4>1, <4>3 DEF KeyOf
    <3> QED BY <3>1, <3>2
  <2> QED BY <2>2, <2>3 DEF MapInv
<1>18. SentenceInv'
  <2>1. deltas' = deltas /\ sentences' = sentences
    BY <1>1
  <2> QED BY <2>1 DEF IInv, SentenceInv, SentenceFits, Offered, KeyOf
<1>19. DropInv'
  <2> SUFFICES ASSUME ~disturbed'
               PROVE  /\ DroppedIsFlushed'
                      /\ flush # NoFlush /\ flush.obj \notin Mapped' =>
                           state'[flush.obj].forceClosed /\ state'[flush.obj].buffer = <<>>
    BY <1>1 DEF DropInv
  <2>1. /\ flush.obj \notin stale /\ DroppedIsFlushed
        /\ flush # NoFlush /\ flush.obj \notin Mapped =>
             state[flush.obj].forceClosed /\ state[flush.obj].buffer = <<>>
    BY <1>1 DEF Drops, IInv, DropInv
  <2>2. obj \in Mapped'
    BY <1>4, <1>5, <1>8 DEF Mapped
  <2>3. \A o \in Mapped : o \in Mapped' \/ o \in stale
    <3> TAKE o \in Mapped
    <3>1. PICK k \in Keys : o = stateByKey[k] /\ o # 0
      BY DEF Mapped
    <3>2. CASE k = key
      BY <1>8, <2>2, <3>1, <3>2
    <3>3. CASE k # key /\ k \notin StaleKeys(key)
      <4>1. stateByKey'[k] = o
        BY <1>8, <3>1, <3>3
      <4> QED BY <3>1, <4>1 DEF Mapped
    <3>4. CASE k \in StaleKeys(key)
      BY <3>1, <3>4 DEF ObjectsOf
    <3> QED BY <3>2, <3>3, <3>4
  <2>4. ASSUME NEW o \in Objects', state'[o].buffer # <<>>, o \notin Mapped'
        PROVE  o \in IdsOf(stateQueue') /\ state'[o].forceClosed
    <3>1. o # obj /\ o \in Objects /\ o \in Ids
      BY <1>2, <1>5, <2>2, <2>4
    <3>2. state[o].buffer # <<>>
      BY <1>7, <2>4, <3>1
    <3>3. CASE o \in Mapped
      <4>1. o \in full
        BY <2>3, <2>4, <3>2, <3>3 DEF WithText
      <4> QED BY <1>7, <1>9, <3>1, <4>1
    <3>4. CASE o \notin Mapped
      <4>1. o \in IdsOf(stateQueue) /\ state[o].forceClosed
        BY <2>1, <3>1, <3>2, <3>4 DEF DroppedIsFlushed, Objects
      <4> QED BY <1>7, <1>9, <3>1, <4>1
    <3> QED BY <3>3, <3>4
  <2>5. DroppedIsFlushed'
    BY <2>4 DEF DroppedIsFlushed, Objects
  <2>6. ASSUME flush # NoFlush, flush.obj \notin Mapped'
        PROVE  state'[flush.obj].forceClosed /\ state'[flush.obj].buffer = <<>>
    <3>1. flush.obj \in Ids /\ flush.obj # obj /\ flush.obj \notin Mapped
      BY <1>2, <2>1, <2>2, <2>3, <2>6 DEF IInv, FlushInv
    <3> QED BY <1>7, <2>1, <2>6, <3>1
  <2> QED BY <2>5, <2>6
<1> QED BY <1>10, <1>11, <1>12, <1>16, <1>17, <1>18, <1>19 DEF IInv

-----------------------------------------------------------------------------
LEMMA StutterKeeps ==
    ASSUME IInv, UNCHANGED vars
    PROVE  IInv'
<1>1. /\ UNCHANGED <<deltas, segment, input, stateByKey, state, created, stateQueue>>
      /\ UNCHANGED <<flush, sentences, pushed, lost, failures, disturbed>>
  BY DEF vars
<1>2. TypeOK'
  BY <1>1 DEF IInv, TypeOK
<1>3. InputInv' /\ FlushInv' /\ ObjectInv' /\ MapInv' /\ SentenceInv'
  <2>1. FlushInv'
    BY <1>1 DEF IInv, FlushInv, Objects
  <2>2. \A o \in Objects : \A i \in 1..Len(state'[o].buffer) : Fits(o, state'[o].buffer[i])
    BY <1>1 DEF IInv, ObjectInv
  <2>3. flush' # NoFlush => \A i \in 1..Len(flush'.text) : Fits(flush'.obj, flush'.text[i])
    BY <1>1 DEF IInv, ObjectInv
  <2>4. \A i \in 1..Len(sentences') : SentenceFits(sentences'[i])
    BY <1>1 DEF IInv, SentenceInv
  <2> QED BY <1>1, <2>1, <2>2, <2>3, <2>4, TextMoves
<1>4. DropInv'
  BY <1>1, DropApart
<1> QED BY <1>2, <1>3, <1>4 DEF IInv

LEMMA NextKeeps ==
    ASSUME IInv, [Next]_vars
    PROVE  IInv'
<1>1. CASE \E s \in Sessions : Offer(s) \/ CloseSession(s)
  BY <1>1, OfferKeeps, CloseSessionKeeps
<1>2. CASE StoreEvent
  BY <1>2, StoreEventKeeps
<1>3. CASE FlushTakes
  BY <1>3, FlushTakesKeeps
<1>4. CASE SplitReturns
  BY <1>4, SplitReturnsKeeps
<1>5. CASE SplitFails
  BY <1>5, SplitFailsKeeps
<1>6. CASE \E due \in SUBSET Ids : Sweep(due)
  BY <1>6, SweepKeeps
<1>7. CASE Push \/ PushFails
  BY <1>7, PushKeeps
<1>8. CASE UNCHANGED vars
  BY <1>8, StutterKeeps
<1> QED BY <1>1, <1>2, <1>3, <1>4, <1>5, <1>6, <1>7, <1>8 DEF Next

(* The invariant holds in every state of the separator.                     *)
THEOREM SeparatorInvariant == Spec => []IInv
<1>1. Init => IInv
  BY InitIInv
<1>2. IInv /\ [Next]_vars => IInv'
  BY NextKeeps
<1> QED BY <1>1, <1>2, PTL DEF Spec

(* Every variable of the separator keeps its type (kss_separator.py 22-85).  *)
THEOREM SeparatorTypes == Spec => []TypeOK
<1>1. IInv => TypeOK
  BY DEF IInv
<1> QED BY <1>1, SeparatorInvariant, PTL

(* No sentence mixes sessions or segments, and its sequence number is one of *)
(* its own segment, not older than its text, although the splitter cuts text *)
(* of objects that have left the map (kss_separator.py 165-175, 244-268).    *)
THEOREM SeparatorSentences == Spec => []SentenceOfOneSegment
<1>1. IInv => SentenceOfOneSegment
  <2> SUFFICES ASSUME IInv
               PROVE  SentenceOfOneSegment
    OBVIOUS
  <2>1. OneSegmentPerSession
    BY DEF IInv, MapInv
  <2>2. ASSUME NEW i \in 1..Len(sentences), NEW d \in IdsOf(sentences[i].text) \cup {sentences[i].sequence}
        PROVE  /\ deltas[d].session = sentences[i].session
               /\ deltas[d].segment = sentences[i].segment /\ d <= sentences[i].sequence
    <3>1. SentenceFits(sentences[i])
      BY DEF IInv, SentenceInv
    <3>2. KeyOf(d) = <<sentences[i].session, sentences[i].segment>> /\ d <= sentences[i].sequence
      BY <3>1 DEF SentenceFits
    <3> QED BY <3>2 DEF KeyOf
  <2> QED BY <2>1, <2>2 DEF SentenceOfOneSegment
<1> QED BY <1>1, SeparatorInvariant, PTL

(* Text of a segment that has left the map is queued and marked to be        *)
(* shipped whole, unless the splitter held the segment's text when it left   *)
(* (kss_separator.py 165-175 and 303-314).                                   *)
THEOREM SeparatorDrops == Spec => []NoStrandedText
<1>1. IInv => NoStrandedText
  BY DEF IInv, DropInv, NoStrandedText
<1> QED BY <1>1, SeparatorInvariant, PTL

-----------------------------------------------------------------------------
(* The order of the text.  An object is the youngest of its session while it *)
(* is mapped, and only then does it take deltas or is queued: so the objects *)
(* of a session are queued, split and filled in the order of their creation. *)
SessionOf(o) == deltas[state[o].sequence].session
Sorted(q) == \A i, j \in 1..Len(q) : i < j => q[i] < q[j]
Splitting(o) == flush # NoFlush /\ flush.obj = o
TextsOf(o) == IdsOf(state[o].buffer) \cup (IF Splitting(o) THEN IdsOf(flush.text) ELSE {})

(* What can still be shipped.                                               *)
Live(o) == o \in Mapped \cup IdsOf(stateQueue) \/ Splitting(o)

QueueOrder ==
    /\ \A i, j \in 1..Len(stateQueue) :
         i < j /\ SessionOf(stateQueue[i]) = SessionOf(stateQueue[j])
           => stateQueue[i] <= stateQueue[j]
    /\ \A o \in Mapped, p \in Objects : SessionOf(o) = SessionOf(p) => p <= o
    /\ \A o \in IdsOf(stateQueue), p \in Objects :
         Splitting(p) /\ SessionOf(o) = SessionOf(p) => p <= o

(* An object has no text older than the last delta of an older object.      *)
Aged ==
    \A o, p \in Objects : SessionOf(o) = SessionOf(p) /\ o < p =>
      \A y \in TextsOf(p) : state[o].sequence < y

(* The splitter holds text that is older than the buffer's.                 *)
TextOrder ==
    /\ Sorted(flush.text)
    /\ \A o \in Objects : Sorted(state[o].buffer)
    /\ \A o \in Objects : Splitting(o) =>
         \A x \in IdsOf(flush.text), y \in IdsOf(state[o].buffer) : x < y
    /\ Aged

(* What has left, whether or not its push failed.                           *)
Gone == Spoken \cup lost

OutOrder ==
    /\ SpokenOrder
    /\ Gone \subseteq Offered
    /\ \A x \in Gone, y \in IdsOf(input) : x < y
    /\ \A o \in Objects : Live(o) =>
         \A x \in Gone, y \in TextsOf(o) : deltas[x].session = SessionOf(o) => x < y

OrderInv == QueueOrder /\ TextOrder /\ OutOrder

-----------------------------------------------------------------------------
LEMMA ObjectFacts ==
    ASSUME IInv, NEW o \in Objects
    PROVE  /\ o \in Ids /\ o \in Nat /\ state[o].sequence \in Offered
           /\ Offered \subseteq Nat
           /\ \A y \in TextsOf(o) : Fits(o, y) /\ deltas[y].session = SessionOf(o)
           /\ \A y \in TextsOf(o) : y \in Offered /\ y <= state[o].sequence
           /\ \A z \in IdsOf(input) : state[o].sequence < z /\ z \in Offered
<1>1. o \in Ids /\ o \in Nat /\ state[o].sequence \in Offered
  BY NumberFacts DEF IInv, ObjectInv
<1>2. Offered \subseteq Nat
  BY DEF Offered
<1>3. \A y \in TextsOf(o) : Fits(o, y)
  BY DEF IInv, ObjectInv, TextsOf, Splitting, IdsOf
<1>4. \A y \in TextsOf(o) : y \in Offered /\ y <= state[o].sequence /\ deltas[y].session = SessionOf(o)
  BY <1>3 DEF Fits, KeyOf, SessionOf
<1>5. \A z \in IdsOf(input) : state[o].sequence < z /\ z \in Offered
  BY DEF IInv, ObjectInv, InputInv, IdsOf
<1> QED BY <1>1, <1>2, <1>3, <1>4, <1>5

(* One object of a session is mapped.                                       *)
LEMMA MappedAlone ==
    ASSUME IInv, NEW o \in Mapped, NEW p \in Mapped, SessionOf(o) = SessionOf(p)
    PROVE  o = p
<1>1. PICK k \in Keys, j \in Keys : o = stateByKey[k] /\ p = stateByKey[j] /\ o # 0 /\ p # 0
  BY DEF Mapped
<1>2. KeyOf(state[o].sequence) = k /\ KeyOf(state[p].sequence) = j
  BY <1>1 DEF IInv, MapInv
<1>3. k[1] = SessionOf(o) /\ j[1] = SessionOf(p)
  BY <1>2 DEF KeyOf, SessionOf
<1> QED BY <1>1, <1>3 DEF IInv, MapInv, OneSegmentPerSession

LEMMA QueueFacts ==
    ASSUME IInv
    PROVE  /\ stateQueue \in Seq(Objects) /\ IdsOf(stateQueue) \subseteq Objects
           /\ \A i \in 1..Len(stateQueue) : stateQueue[i] \in Objects
           /\ Mapped \subseteq Objects /\ \A o : Live(o) => o \in Objects
<1>1. stateQueue \in Seq(Objects) /\ IdsOf(stateQueue) \subseteq Objects
  BY ElementIn DEF IInv, TypeOK, Objects, IdsOf
<1>2. Mapped \subseteq Objects
  BY NumberFacts DEF IInv
<1>3. \A o : Splitting(o) => o \in Objects
  BY DEF Splitting, IInv, FlushInv
<1>4. \A i \in 1..Len(stateQueue) : stateQueue[i] \in Objects
  BY <1>1, ElementIn
<1> QED BY <1>1, <1>2, <1>3, <1>4 DEF Live

LEMMA JoinSorted ==
    ASSUME NEW p \in Seq(Nat), NEW q \in Seq(Nat), Sorted(p), Sorted(q),
           \A x \in IdsOf(p), y \in IdsOf(q) : x < y
    PROVE  Sorted(p \o q)
<1> SUFFICES ASSUME NEW i \in 1..Len(p \o q), NEW j \in 1..Len(p \o q), i < j
             PROVE  (p \o q)[i] < (p \o q)[j]
  BY DEF Sorted
<1>1. /\ Len(p) \in Nat /\ Len(q) \in Nat /\ Len(p \o q) = Len(p) + Len(q)
      /\ \A k \in 1..Len(p) : (p \o q)[k] = p[k]
      /\ \A k \in 1..Len(p \o q) : \/ k \in 1..Len(p)
                                   \/ k - Len(p) \in 1..Len(q) /\ (p \o q)[k] = q[k - Len(p)]
  BY JoinFacts
<1>2. CASE j \in 1..Len(p)
  <2>1. i \in 1..Len(p)
    BY <1>1, <1>2
  <2> QED BY <1>1, <1>2, <2>1 DEF Sorted
<1>3. CASE j - Len(p) \in 1..Len(q) /\ (p \o q)[j] = q[j - Len(p)]
  <2>1. CASE i \in 1..Len(p)
    BY <1>1, <1>3, <2>1 DEF IdsOf
  <2>2. CASE i - Len(p) \in 1..Len(q) /\ (p \o q)[i] = q[i - Len(p)]
    <3>1. i - Len(p) < j - Len(p)
      BY <1>1
    <3> QED BY <1>3, <2>2, <3>1 DEF Sorted
  <2> QED BY <1>1, <2>1, <2>2
<1> QED BY <1>1, <1>2, <1>3

-----------------------------------------------------------------------------
(* The queue of states.                                                     *)
SessionsKept == \A o \in Objects : o \in Objects' /\ SessionOf(o)' = SessionOf(o)

LEMMA QueueFrame ==
    ASSUME IInv, QueueOrder, stateQueue' = stateQueue, created' = created, Mapped' \subseteq Mapped,
           SessionsKept, \A o : Splitting(o)' => Splitting(o)
    PROVE  QueueOrder'
<1>1. Objects' = Objects
  BY DEF Objects
<1>2. \A o \in Objects : SessionOf(o)' = SessionOf(o)
  BY DEF SessionsKept
<1>3. (\A i, j \in 1..Len(stateQueue) :
         i < j /\ SessionOf(stateQueue[i]) = SessionOf(stateQueue[j])
           => stateQueue[i] <= stateQueue[j])'
  <2> PICK q : q = stateQueue
    OBVIOUS
  <2>1. \A i \in 1..Len(q) : q[i] \in Objects
    BY QueueFacts
  <2>2. \A i, j \in 1..Len(q) : i < j /\ SessionOf(q[i]) = SessionOf(q[j]) => q[i] <= q[j]
    BY DEF QueueOrder
  <2>3. \A i \in 1..Len(q) : SessionOf(q[i])' = SessionOf(q[i])
    <3> TAKE i \in 1..Len(q)
    <3> PICK o \in Objects : o = q[i]
      BY <2>1
    <3> QED BY <1>2
  <2>4. \A i, j \in 1..Len(q) : i < j /\ SessionOf(q[i])' = SessionOf(q[j])' => q[i] <= q[j]
    BY <2>2, <2>3
  <2> QED BY <2>4 DEF SessionOf
<1>4. (\A o \in Mapped, p \in Objects : SessionOf(o) = SessionOf(p) => p <= o)'
  <2>1. \A o \in Mapped', p \in Objects : SessionOf(o)' = SessionOf(p)' => p <= o
    <3> TAKE o \in Mapped', p \in Objects
    <3>1. o \in Mapped /\ o \in Objects
      BY QueueFacts
    <3>2. SessionOf(o)' = SessionOf(o) /\ SessionOf(p)' = SessionOf(p)
      BY <1>2, <3>1
    <3> QED BY <3>1, <3>2 DEF QueueOrder
  <2> QED BY <1>1, <2>1
<1>5. (\A o \in IdsOf(stateQueue), p \in Objects :
         Splitting(p) /\ SessionOf(o) = SessionOf(p) => p <= o)'
  <2>1. ASSUME NEW o \in IdsOf(stateQueue), NEW p \in Objects, Splitting(p)',
               SessionOf(o)' = SessionOf(p)'
        PROVE  p <= o
    <3>1. o \in Objects /\ Splitting(p)
      BY <2>1, QueueFacts
    <3>2. SessionOf(o)' = SessionOf(o) /\ SessionOf(p)' = SessionOf(p)
      BY <1>2, <3>1
    <3> QED BY <2>1, <3>1, <3>2 DEF QueueOrder
  <2>2. IdsOf(stateQueue') = IdsOf(stateQueue)
    OBVIOUS
  <2> QED BY <1>1, <2>1, <2>2
<1> QED BY <1>3, <1>4, <1>5 DEF QueueOrder

(* Objects are queued that are the youngest of their sessions.              *)
LEMMA QueueGrows ==
    ASSUME IInv, QueueOrder, NEW more \in Seq(Objects'), stateQueue' = stateQueue \o more,
           SessionsKept, \A o : Splitting(o)' => Splitting(o),
           \A i \in 1..Len(more) : \A p \in Objects : SessionOf(more[i])' = SessionOf(p) => p <= more[i],
           \A i, j \in 1..Len(more) :
             i < j /\ SessionOf(more[i])' = SessionOf(more[j])' => more[i] <= more[j],
           \A o \in Mapped', p \in Objects' : SessionOf(o)' = SessionOf(p)' => p <= o
    PROVE  QueueOrder'
<1> PICK q : q = stateQueue
  OBVIOUS
<1> PICK r : r = stateQueue'
  OBVIOUS
<1>1. /\ q \in Seq(Objects) /\ \A i \in 1..Len(q) : q[i] \in Objects
      /\ \A o \in Objects : o \in Objects' /\ SessionOf(o)' = SessionOf(o)
  BY QueueFacts DEF SessionsKept
<1>2. q \in Seq(Objects')
  BY <1>1, SeqGrows
<1>3. /\ Len(q) \in Nat /\ Len(more) \in Nat /\ Len(r) = Len(q) + Len(more)
      /\ \A i \in 1..Len(q) : r[i] = q[i]
      /\ \A i \in 1..Len(r) : \/ i \in 1..Len(q)
                              \/ i - Len(q) \in 1..Len(more) /\ r[i] = more[i - Len(q)]
  BY <1>2, JoinFacts
<1>4. ASSUME NEW i \in 1..Len(r), NEW j \in 1..Len(r), i < j, SessionOf(r[i])' = SessionOf(r[j])'
      PROVE  r[i] <= r[j]
  <2>1. CASE j \in 1..Len(q)
    <3>1. i \in 1..Len(q)
      BY <1>3, <1>4, <2>1
    <3> PICK o \in Objects, p \in Objects : o = q[i] /\ p = q[j]
      BY <1>1, <2>1, <3>1
    <3>2. SessionOf(o)' = SessionOf(o) /\ SessionOf(p)' = SessionOf(p) /\ r[i] = o /\ r[j] = p
      BY <1>1, <1>3, <2>1, <3>1
    <3> QED BY <1>4, <2>1, <3>1, <3>2 DEF QueueOrder
  <2>2. CASE j - Len(q) \in 1..Len(more) /\ r[j] = more[j - Len(q)]
    <3>1. CASE i \in 1..Len(q)
      <4> PICK o \in Objects : o = q[i]
        BY <1>1, <3>1
      <4>1. SessionOf(o)' = SessionOf(o) /\ r[i] = o
        BY <1>1, <1>3, <3>1
      <4> QED BY <1>4, <2>2, <4>1
    <3>2. CASE i - Len(q) \in 1..Len(more) /\ r[i] = more[i - Len(q)]
      <4>1. i - Len(q) < j - Len(q)
        BY <1>3, <1>4
      <4> QED BY <1>4, <2>2, <3>2, <4>1
    <3> QED BY <1>3, <3>1, <3>2
  <2> QED BY <1>3, <2>1, <2>2
<1>5. (\A i, j \in 1..Len(stateQueue) :
         i < j /\ SessionOf(stateQueue[i]) = SessionOf(stateQueue[j])
           => stateQueue[i] <= stateQueue[j])'
  BY <1>4 DEF SessionOf
<1>6. ASSUME NEW o \in IdsOf(r), NEW p \in Objects', Splitting(p)', SessionOf(o)' = SessionOf(p)'
      PROVE  p <= o
  <2>1. Splitting(p) /\ p \in Objects /\ SessionOf(p)' = SessionOf(p)
    BY <1>1, <1>6, QueueFacts DEF Live
  <2>2. PICK i \in 1..Len(r) : o = r[i]
    BY <1>6 DEF IdsOf
  <2>3. CASE i \in 1..Len(q)
    <3>1. o \in IdsOf(stateQueue) /\ o \in Objects /\ SessionOf(o)' = SessionOf(o)
      BY <1>1, <1>3, <2>2, <2>3 DEF IdsOf
    <3> QED BY <1>6, <2>1, <3>1 DEF QueueOrder
  <2>4. CASE i - Len(q) \in 1..Len(more) /\ r[i] = more[i - Len(q)]
    BY <1>6, <2>1, <2>2, <2>4
  <2> QED BY <1>3, <2>3, <2>4
<1>7. (\A o \in IdsOf(stateQueue), p \in Objects :
         Splitting(p) /\ SessionOf(o) = SessionOf(p) => p <= o)'
  <2>1. IdsOf(stateQueue)' = IdsOf(r)
    BY DEF IdsOf
  <2> QED BY <1>6, <2>1
<1>8. (\A o \in Mapped, p \in Objects : SessionOf(o) = SessionOf(p) => p <= o)'
  OBVIOUS
<1> QED BY <1>5, <1>7, <1>8 DEF QueueOrder

(* Mapped states are queued by the sweeper or the end of a session.          *)
LEMMA QueueForced ==
    ASSUME IInv, QueueOrder, NEW full, full \subseteq Mapped, NEW forced \in InOrder(full),
           stateQueue' = stateQueue \o forced, created' = created, Mapped' \subseteq Mapped,
           SessionsKept, \A o : Splitting(o)' => Splitting(o)
    PROVE  QueueOrder'
<1>1. /\ Objects' = Objects /\ Mapped \subseteq Objects
      /\ \A o \in Objects : SessionOf(o)' = SessionOf(o) /\ o \in Nat
  BY QueueFacts, ObjectFacts DEF Objects, SessionsKept
<1>2. forced \in Seq(full)
  <2>1. IsFiniteSet(Objects)
    BY NumberFacts, FS_Interval DEF IInv, Objects
  <2>2. IsFiniteSet(full)
    BY <1>1, <2>1, FS_Subset
  <2>3. full \subseteq Nat
    BY <1>1
  <2> QED BY <2>2, <2>3, OrderFacts
<1>3. forced \in Seq(Objects') /\ \A i \in 1..Len(forced) : forced[i] \in Mapped
  <2>1. full \subseteq Objects'
    BY <1>1
  <2> QED BY <1>2, <2>1, SeqGrows, ElementIn
<1>4. \A i \in 1..Len(forced) : \A p \in Objects :
        SessionOf(forced[i])' = SessionOf(p) => p <= forced[i]
  <2> SUFFICES ASSUME NEW o \in Mapped, NEW p \in Objects, SessionOf(o)' = SessionOf(p)
               PROVE  p <= o
    BY <1>3
  <2> QED BY <1>1 DEF QueueOrder
<1>5. \A i, j \in 1..Len(forced) :
        i < j /\ SessionOf(forced[i])' = SessionOf(forced[j])' => forced[i] <= forced[j]
  <2> SUFFICES ASSUME NEW o \in Mapped, NEW p \in Mapped, SessionOf(o)' = SessionOf(p)'
               PROVE  o <= p
    BY <1>3
  <2>1. o = p
    BY <1>1, MappedAlone
  <2> QED BY <1>1, <2>1
<1>6. \A o \in Mapped', p \in Objects' : SessionOf(o)' = SessionOf(p)' => p <= o
  <2> TAKE o \in Mapped', p \in Objects'
  <2>1. o \in Mapped /\ o \in Objects /\ p \in Objects
    BY <1>1
  <2>2. SessionOf(o)' = SessionOf(o) /\ SessionOf(p)' = SessionOf(p)
    BY <1>1, <2>1
  <2> QED BY <2>1, <2>2 DEF QueueOrder
<1> QED BY <1>3, <1>4, <1>5, <1>6, QueueGrows

(* What the store loop does to the sessions of the objects.                 *)
LEMMA StoreSessions ==
    ASSUME IInv, QueueOrder, NEW d, NEW key, NEW stale, NEW full, NEW obj,
           StoreDoes(d, key, stale, full, obj)
    PROVE  /\ SessionsKept /\ SessionOf(obj)' = key[1] /\ deltas[d].session = key[1]
           /\ \A o \in Objects : o = obj => SessionOf(o) = key[1]
           /\ \A o \in stale : o \in Mapped /\ SessionOf(o) = key[1] /\ o < obj
           /\ \A p \in Objects : SessionOf(p) = key[1] => p <= obj
           /\ \A o \in Mapped' : o = obj \/ (o \in Mapped /\ o # obj /\ SessionOf(o) # key[1])
<1>1. /\ key = KeyOf(d) /\ stale = ObjectsOf(StaleKeys(key))
      /\ obj = IF stateByKey[key] = 0 THEN created + 1 ELSE stateByKey[key]
      /\ deltas' = deltas /\ created \in Nat /\ Mapped \subseteq Objects /\ key \in Keys
      /\ Objects' = Objects \cup {obj} /\ obj \in Ids /\ Objects \subseteq Ids /\ obj # 0
  BY DEF StoreDoes
<1>2. /\ state'[obj].sequence = d
      /\ \A o \in Ids : o # obj => state'[o].sequence = state[o].sequence
  BY DEF StoreDoes
<1>3. /\ stateByKey'[key] = obj
      /\ \A k \in Keys : k # key => \/ stateByKey'[k] = stateByKey[k] /\ k \notin StaleKeys(key)
                                    \/ stateByKey'[k] = 0 /\ k \in StaleKeys(key)
  BY DEF StoreDoes
<1>4. deltas[d].session = key[1] /\ SessionOf(obj)' = key[1]
  <2>1. deltas[d].session = key[1]
    BY <1>1 DEF KeyOf
  <2> QED BY <1>1, <1>2, <2>1 DEF SessionOf
<1>5. \A o \in Mapped : \A k \in Keys : stateByKey[k] = o => SessionOf(o) = k[1]
  <2> SUFFICES ASSUME NEW o \in Mapped, NEW k \in Keys, stateByKey[k] = o
               PROVE  SessionOf(o) = k[1]
    OBVIOUS
  <2>1. o # 0
    BY DEF Mapped
  <2>2. KeyOf(state[o].sequence) = k
    BY <2>1 DEF IInv, MapInv
  <2> QED BY <2>2 DEF KeyOf, SessionOf
<1>6. stateByKey[key] # 0 => obj \in Mapped /\ SessionOf(obj) = key[1]
  BY <1>1, <1>5 DEF Mapped
<1>7. \A o \in Objects : o \in Nat /\ o <= created
  BY <1>1 DEF Objects
<1>8. \A o \in Objects : o = obj => SessionOf(o) = key[1]
  BY <1>1, <1>6, <1>7
<1>9. SessionsKept
  <2>1. ASSUME NEW o \in Objects
        PROVE  o \in Objects' /\ SessionOf(o)' = SessionOf(o)
    <3>1. CASE o = obj
      BY <1>1, <1>4, <1>8, <3>1
    <3>2. CASE o # obj
      BY <1>1, <1>2, <3>2 DEF SessionOf
    <3> QED BY <3>1, <3>2
  <2> QED BY <2>1 DEF SessionsKept
<1>10. \A o \in stale : o \in Mapped /\ SessionOf(o) = key[1] /\ o < obj
  <2> TAKE o \in stale
  <2>1. PICK k \in StaleKeys(key) : o = stateByKey[k] /\ o # 0
    BY <1>1 DEF ObjectsOf
  <2>2. stateByKey[key] = 0 /\ k \in Keys /\ k[1] = key[1]
    BY <2>1 DEF StaleKeys
  <2>3. o \in Mapped
    BY <2>1, <2>2 DEF Mapped
  <2> QED BY <1>1, <1>5, <1>7, <2>1, <2>2, <2>3
<1>11. \A p \in Objects : SessionOf(p) = key[1] => p <= obj
  <2>1. CASE stateByKey[key] = 0
    BY <1>1, <1>7, <2>1
  <2>2. CASE stateByKey[key] # 0
    BY <1>6, <2>2 DEF QueueOrder
  <2> QED BY <2>1, <2>2
<1>12. \A o \in Mapped' : o = obj \/ (o \in Mapped /\ o # obj /\ SessionOf(o) # key[1])
  <2> SUFFICES ASSUME NEW o \in Mapped', o # obj
               PROVE  o \in Mapped /\ SessionOf(o) # key[1]
    OBVIOUS
  <2>1. PICK k \in Keys : o = stateByKey'[k] /\ o # 0
    BY DEF Mapped
  <2>2. k # key /\ stateByKey[k] = o /\ k \notin StaleKeys(key)
    BY <1>3, <2>1
  <2>3. o \in Mapped /\ SessionOf(o) = k[1]
    <3>1. o \in Mapped
      BY <2>1, <2>2 DEF Mapped
    <3> QED BY <1>5, <2>2, <3>1
  <2>4. k[1] # key[1]
    <3>1. CASE stateByKey[key] = 0
      BY <2>2, <3>1 DEF StaleKeys
    <3>2. CASE stateByKey[key] # 0
      BY <1>1, <2>1, <2>2, <3>2 DEF IInv, MapInv, OneSegmentPerSession
    <3> QED BY <3>1, <3>2
  <2> QED BY <2>3, <2>4
<1> QED BY <1>4, <1>8, <1>9, <1>10, <1>11, <1>12

LEMMA QueueStore ==
    ASSUME IInv, QueueOrder, NEW d, NEW key, NEW stale, NEW full, NEW obj,
           StoreDoes(d, key, stale, full, obj)
    PROVE  QueueOrder'
<1>1. /\ SessionsKept /\ SessionOf(obj)' = key[1]
      /\ \A o \in stale : o \in Mapped /\ SessionOf(o) = key[1] /\ o < obj
      /\ \A p \in Objects : SessionOf(p) = key[1] => p <= obj
      /\ \A o \in Mapped' : o = obj \/ (o \in Mapped /\ o # obj /\ SessionOf(o) # key[1])
  BY StoreSessions
<1>2. /\ full \subseteq stale /\ full \subseteq Objects /\ Mapped \subseteq Objects
      /\ Objects' = Objects \cup {obj} /\ obj \in Ids /\ Ids \subseteq Nat /\ Objects \subseteq Ids
      /\ stateQueue \in Seq(Objects) /\ flush' = flush
      /\ \E forced \in InOrder(full) : stateQueue' = stateQueue \o forced \o <<obj>>
      /\ \A o \in Objects : SessionOf(o)' = SessionOf(o)
  BY <1>1, QueueFacts DEF StoreDoes, SessionsKept
<1>3. PICK forced \in InOrder(full) : stateQueue' = stateQueue \o forced \o <<obj>>
  BY <1>2
<1>4. forced \in Seq(full)
  <2>1. IsFiniteSet(Objects)
    BY NumberFacts, FS_Interval DEF IInv, Objects
  <2>2. IsFiniteSet(full)
    BY <1>2, <2>1, FS_Subset
  <2>3. full \subseteq Nat
    BY <1>2
  <2> QED BY <2>2, <2>3, OrderFacts
<1> PICK more : more = forced \o <<obj>>
  OBVIOUS
<1>5. /\ more \in Seq(Objects') /\ stateQueue' = stateQueue \o more /\ Len(forced) \in Nat
      /\ Len(more) = Len(forced) + 1
      /\ \A i \in 1..Len(more) : \/ more[i] = obj /\ i = Len(forced) + 1
                                 \/ i \in 1..Len(forced) /\ more[i] \in full
  <2>1. /\ forced \in Seq(Objects') /\ stateQueue \in Seq(Objects')
    <3>1. full \subseteq Objects' /\ Objects \subseteq Objects'
      BY <1>2
    <3> QED BY <1>2, <1>4, <3>1, SeqGrows
  <2>2. obj \in Objects'
    BY <1>2
  <2> PICK O : O = Objects'
    OBVIOUS
  <2>3. forced \in Seq(O) /\ stateQueue \in Seq(O) /\ obj \in O /\ \A i \in 1..Len(forced) : forced[i] \in full
    BY <1>4, <2>1, <2>2, ElementIn
  <2>4. PICK last \in Seq(O) : last = <<obj>> /\ Len(last) = 1 /\ last[1] = obj
    <3>1. <<obj>> \in Seq(O)
      BY <2>3
    <3>2. Len(<<obj>>) = 1 /\ <<obj>>[1] = obj
      OBVIOUS
    <3> QED BY <3>1, <3>2, Zenon
  <2>5. /\ more \in Seq(O) /\ Len(more) = Len(forced) + 1 /\ Len(forced) \in Nat
        /\ \A i \in 1..Len(forced) : more[i] = forced[i]
        /\ \A i \in 1..Len(more) : \/ i \in 1..Len(forced)
                                   \/ i - Len(forced) \in 1..Len(last) /\ more[i] = last[i - Len(forced)]
    BY <2>3, <2>4, JoinFacts
  <2>6. stateQueue' = stateQueue \o more
    <3>1. (stateQueue \o forced) \o last = stateQueue \o (forced \o last)
      BY <2>3, <2>4, ConcatAssociative
    <3> QED BY <1>3, <2>4, <3>1
  <2>7. \A i \in 1..Len(more) : \/ more[i] = obj /\ i = Len(forced) + 1
                                \/ i \in 1..Len(forced) /\ more[i] \in full
    <3> TAKE i \in 1..Len(more)
    <3>1. CASE i \in 1..Len(forced)
      BY <2>3, <2>5, <3>1
    <3>2. CASE i - Len(forced) \in 1..Len(last) /\ more[i] = last[i - Len(forced)]
      <4>1. i \in Nat /\ Len(forced) \in Nat /\ i - Len(forced) = 1
        BY <2>4, <2>5, <3>2
      <4>2. i = Len(forced) + 1
        BY <4>1
      <4>3. more[i] = obj
        BY <2>4, <3>2, <4>1, Zenon
      <4> QED BY <4>2, <4>3, Zenon
    <3> QED BY <2>5, <3>1, <3>2
  <2> QED BY <2>5, <2>6, <2>7
<1>6. \A o \in full : o \in Objects /\ o \in Mapped /\ SessionOf(o)' = key[1] /\ SessionOf(o) = key[1] /\ o < obj
  BY <1>1, <1>2
<1>7. ASSUME NEW i \in 1..Len(more), NEW p \in Objects, SessionOf(more[i])' = SessionOf(p)
      PROVE  p <= more[i]
  <2>1. CASE more[i] = obj
    BY <1>1, <1>7, <2>1
  <2>2. CASE more[i] \in full
    BY <1>6, <1>7, <2>2 DEF QueueOrder
  <2> QED BY <1>5, <2>1, <2>2
<1>8. ASSUME NEW i \in 1..Len(more), NEW j \in 1..Len(more), i < j
      PROVE  more[i] <= more[j]
  <2>1. i \in 1..Len(forced) /\ more[i] \in full
    BY <1>5, <1>8
  <2>2. CASE more[j] = obj
    <3> PICK o : o = more[i]
      OBVIOUS
    <3>1. o < obj /\ o \in Nat /\ obj \in Nat
      BY <1>2, <1>6, <2>1
    <3> QED BY <2>2, <3>1
  <2>3. CASE more[j] \in full
    <3> PICK o, p : o = more[i] /\ p = more[j]
      OBVIOUS
    <3>1. o = p /\ o \in Nat
      BY <1>2, <1>6, <2>1, <2>3, MappedAlone
    <3> QED BY <3>1
  <2> QED BY <1>5, <2>2, <2>3
<1>9. ASSUME NEW o \in Mapped', NEW p \in Objects', SessionOf(o)' = SessionOf(p)'
      PROVE  p <= o
  <2>1. CASE o = obj
    <3>1. CASE p = obj
      BY <1>2, <2>1, <3>1
    <3>2. CASE p # obj
      BY <1>1, <1>2, <1>9, <2>1, <3>2
    <3> QED BY <3>1, <3>2
  <2>2. CASE o \in Mapped /\ o # obj /\ SessionOf(o) # key[1]
    <3>1. p # obj /\ p \in Objects
      BY <1>1, <1>2, <1>9, <2>2
    <3>2. SessionOf(o) = SessionOf(p)
      BY <1>2, <1>9, <2>2, <3>1
    <3> QED BY <2>2, <3>1, <3>2 DEF QueueOrder
  <2> QED BY <1>1, <2>1, <2>2
<1>10. \A o : Splitting(o)' => Splitting(o)
  BY <1>2 DEF Splitting
<1> QED BY <1>1, <1>5, <1>7, <1>8, <1>9, <1>10, QueueGrows

-----------------------------------------------------------------------------
(* What a step of the flush loop does with object o: nothing when it has no  *)
(* text, else its text goes to the splitter.                                *)
TakeDoes(o) ==
    /\ flush = NoFlush /\ stateQueue # <<>> /\ o = Head(stateQueue) /\ o \in Objects /\ o \in Ids
    /\ stateQueue' = Tail(stateQueue)
    /\ UNCHANGED <<deltas, segment, input, stateByKey, created, sentences, pushed, lost,
                   failures, disturbed>>
    /\ state \in [Ids -> Record] /\ state[o].buffer \in Seq(Ids)
    /\ \/ state[o].buffer = <<>> /\ UNCHANGED <<flush, state>>
       \/ /\ flush' = [obj |-> o, text |-> state[o].buffer] /\ flush' # NoFlush
          /\ state'[o].buffer = <<>> /\ state'[o].sequence = state[o].sequence
          /\ \A p \in Ids : p # o => state'[p] = state[p]

LEMMA TakeEffect ==
    ASSUME IInv, FlushTakes
    PROVE  \E o : TakeDoes(o)
<1>1. /\ flush = NoFlush /\ stateQueue # <<>> /\ stateQueue' = Tail(stateQueue)
      /\ UNCHANGED <<deltas, segment, input, stateByKey, created, sentences, pushed, lost,
                     failures, disturbed>>
  BY DEF FlushTakes
<1> PICK o : o = Head(stateQueue)
  OBVIOUS
<1>2. o \in Objects /\ o \in Ids /\ o # 0
  <2>1. o \in Objects
    BY <1>1, QueueFacts
  <2> QED BY <2>1, NumberFacts DEF IInv, Objects
<1>3. state \in [Ids -> Record] /\ state[o] \in Record /\ state[o].buffer \in Seq(Ids)
  BY <1>2, NumberFacts DEF IInv
<1>4. CASE state[o].buffer = <<>>
  <2>1. UNCHANGED <<flush, state>>
    BY <1>4 DEF FlushTakes
  <2> QED BY <1>1, <1>2, <1>3, <1>4, <2>1 DEF TakeDoes
<1>5. CASE state[o].buffer # <<>>
  <2> DEFINE e == [state[o] EXCEPT !.buffer = <<>>]
  <2>1. flush' = [obj |-> o, text |-> state[o].buffer] /\ state' = [state EXCEPT ![o] = e]
    BY <1>3, <1>5 DEF FlushTakes
  <2>2. e.buffer = <<>> /\ e.sequence = state[o].sequence
    <3>1. <<>> \in Seq(Ids)
      OBVIOUS
    <3> QED BY <1>3, <3>1, BufferFacts
  <2> HIDE DEF e
  <2>3. state'[o] = e /\ \A p \in Ids : p # o => state'[p] = state[p]
    BY <1>2, <1>3, <2>1
  <2>4. flush' # NoFlush
    BY <1>2, <2>1 DEF NoFlush
  <2> QED BY <1>1, <1>2, <1>3, <2>1, <2>2, <2>3, <2>4 DEF TakeDoes
<1> QED BY <1>4, <1>5

(* What a failure of the splitter does: the text goes back into the buffer.  *)
FailDoes(o, text, buf) ==
    /\ flush # NoFlush /\ flush' = NoFlush /\ o = flush.obj /\ text = flush.text
    /\ UNCHANGED <<deltas, segment, input, stateByKey, created, stateQueue, sentences, pushed, lost>>
    /\ o \in Objects /\ o \in Ids /\ text \in Seq(Ids) /\ text # <<>>
    /\ state \in [Ids -> Record] /\ state[o].buffer \in Seq(Ids) /\ Objects \subseteq Ids
    /\ buf = text \o state[o].buffer
    /\ state'[o].buffer = buf /\ state'[o].sequence = state[o].sequence
    /\ \A p \in Ids : p # o => state'[p] = state[p]

LEMMA FailEffect ==
    ASSUME IInv, SplitFails
    PROVE  \E o, text, buf : FailDoes(o, text, buf)
<1> PICK o, text : o = flush.obj /\ text = flush.text
  OBVIOUS
<1> PICK buf : buf = text \o state[o].buffer
  OBVIOUS
<1>1. /\ flush # NoFlush /\ flush' = NoFlush
      /\ UNCHANGED <<deltas, segment, input, stateByKey, created, stateQueue, sentences, pushed, lost>>
      /\ state' = [state EXCEPT ![o].buffer = Remerged(text, @)]
  BY DEF SplitFails
<1>2. /\ o \in Objects /\ o \in Ids /\ text \in Seq(Ids) /\ text # <<>>
      /\ state \in [Ids -> Record] /\ state[o] \in Record /\ state[o].buffer \in Seq(Ids)
      /\ Objects \subseteq Ids
  <2>1. o \in Objects /\ text \in Seq(Ids) /\ text # <<>>
    BY <1>1 DEF IInv, FlushInv, TypeOK
  <2> QED BY <2>1, NumberFacts DEF IInv
<1>3. buf \in Seq(Ids)
  BY <1>2, JoinFacts
<1> DEFINE e == [state[o] EXCEPT !.buffer = buf]
<1>4. state' = [state EXCEPT ![o] = e]
  BY <1>1, <1>2 DEF Remerged
<1>5. e.buffer = buf /\ e.sequence = state[o].sequence
  BY <1>2, <1>3, BufferFacts, ZenonT(40)
<1> HIDE DEF e
<1>6. state'[o] = e /\ \A p \in Ids : p # o => state'[p] = state[p]
  BY <1>2, <1>4
<1>7. FailDoes(o, text, buf)
  BY <1>1, <1>2, <1>5, <1>6 DEF FailDoes
<1> QED BY <1>7

LEMMA QueueTake ==
    ASSUME IInv, QueueOrder, NEW o, TakeDoes(o)
    PROVE  QueueOrder'
<1> PICK q : q = stateQueue
  OBVIOUS
<1> PICK r : r = stateQueue'
  OBVIOUS
<1>1. /\ q \in Seq(Objects) /\ q # <<>> /\ r = Tail(q) /\ o = Head(q)
      /\ \A i \in 1..Len(q) : q[i] \in Objects
      /\ Objects' = Objects /\ Mapped' = Mapped
      /\ \A p \in Objects : SessionOf(p)' = SessionOf(p)
  <2>1. \A p \in Objects : state'[p].sequence = state[p].sequence
    BY ObjectFacts DEF TakeDoes
  <2> QED BY <2>1, QueueFacts DEF TakeDoes, Objects, Mapped, SessionOf
<1>2. /\ Len(q) \in Nat /\ Len(q) >= 1 /\ Len(r) = Len(q) - 1 /\ o = q[1]
      /\ \A i \in 1..Len(r) : i + 1 \in 1..Len(q) /\ r[i] = q[i + 1]
  BY <1>1, TailFacts
<1>3. \A i \in 1..Len(r) : r[i] \in Objects
  BY <1>1, <1>2
<1>4. ASSUME NEW i \in 1..Len(r), NEW j \in 1..Len(r), i < j, SessionOf(r[i])' = SessionOf(r[j])'
      PROVE  r[i] <= r[j]
  <2>1. SessionOf(r[i])' = SessionOf(r[i]) /\ SessionOf(r[j])' = SessionOf(r[j])
    <3> PICK a \in Objects, b \in Objects : a = r[i] /\ b = r[j]
      BY <1>3
    <3> QED BY <1>1
  <2>2. i + 1 < j + 1 /\ i + 1 \in 1..Len(q) /\ j + 1 \in 1..Len(q)
    BY <1>2, <1>4
  <2> QED BY <1>2, <1>4, <2>1, <2>2 DEF QueueOrder
<1>5. (\A i, j \in 1..Len(stateQueue) :
         i < j /\ SessionOf(stateQueue[i]) = SessionOf(stateQueue[j])
           => stateQueue[i] <= stateQueue[j])'
  BY <1>4 DEF SessionOf
<1>6. (\A m \in Mapped, p \in Objects : SessionOf(m) = SessionOf(p) => p <= m)'
  <2>1. \A m \in Mapped, p \in Objects : SessionOf(m)' = SessionOf(p)' => p <= m
    BY <1>1, QueueFacts DEF QueueOrder
  <2> QED BY <1>1, <2>1
<1>7. ASSUME NEW m \in IdsOf(r), NEW p \in Objects, Splitting(p)', SessionOf(m)' = SessionOf(p)'
      PROVE  p <= m
  <2>1. p = o
    BY <1>7 DEF TakeDoes, Splitting
  <2>2. PICK i \in 1..Len(r) : m = r[i]
    BY <1>7 DEF IdsOf
  <2>3. m \in Objects /\ SessionOf(m) = SessionOf(p)
    BY <1>1, <1>3, <1>7, <2>2
  <2>4. 1 \in 1..Len(q) /\ i + 1 \in 1..Len(q) /\ 1 < i + 1 /\ q[i + 1] = m
    BY <1>2, <2>2
  <2> QED BY <1>2, <2>1, <2>3, <2>4 DEF QueueOrder
<1>8. (\A m \in IdsOf(stateQueue), p \in Objects :
         Splitting(p) /\ SessionOf(m) = SessionOf(p) => p <= m)'
  <2>1. IdsOf(stateQueue)' = IdsOf(r)
    BY DEF IdsOf
  <2> QED BY <1>1, <1>7, <2>1
<1> QED BY <1>5, <1>6, <1>8 DEF QueueOrder

-----------------------------------------------------------------------------
(* The texts of the objects.                                                *)
SequencesKept == \A o \in Objects : state'[o].sequence = state[o].sequence

LEMMA AgeFrame ==
    ASSUME Aged, SessionsKept, SequencesKept, created' = created,
           \A p \in Objects : TextsOf(p)' \subseteq TextsOf(p)
    PROVE  Aged'
<1>1. Objects' = Objects
  BY DEF Objects
<1>2. ASSUME NEW o \in Objects, NEW p \in Objects, SessionOf(o)' = SessionOf(p)', o < p,
             NEW y \in TextsOf(p)'
      PROVE  state'[o].sequence < y
  <2>1. SessionOf(o) = SessionOf(p) /\ y \in TextsOf(p)
    BY <1>2 DEF SessionsKept
  <2>2. state'[o].sequence = state[o].sequence
    BY DEF SequencesKept
  <2> QED BY <1>2, <2>1, <2>2 DEF Aged
<1> QED BY <1>1, <1>2 DEF Aged

LEMMA TextFrame ==
    ASSUME TextOrder, SessionsKept, SequencesKept, created' = created, flush' = flush,
           \A o \in Objects : state'[o].buffer = state[o].buffer
    PROVE  TextOrder'
<1>1. /\ Objects' = Objects /\ \A o : Splitting(o)' = Splitting(o)
      /\ \A p \in Objects : TextsOf(p)' = TextsOf(p)
  BY DEF Objects, Splitting, TextsOf
<1>2. Sorted(flush.text)'
  BY DEF TextOrder, Sorted
<1>3. (\A o \in Objects : Sorted(state[o].buffer))'
  <2>1. \A o \in Objects : Sorted(state[o].buffer)'
    BY DEF TextOrder, Sorted
  <2> QED BY <1>1, <2>1
<1>4. (\A o \in Objects : Splitting(o) =>
         \A x \in IdsOf(flush.text), y \in IdsOf(state[o].buffer) : x < y)'
  BY <1>1 DEF TextOrder
<1>5. Aged'
  BY <1>1, AgeFrame DEF TextOrder
<1> QED BY <1>2, <1>3, <1>4, <1>5 DEF TextOrder

LEMMA TextTake ==
    ASSUME IInv, TextOrder, NEW o, TakeDoes(o)
    PROVE  TextOrder' /\ SessionsKept /\ \A p \in Objects : TextsOf(p)' \subseteq TextsOf(p)
<1>1. /\ flush = NoFlush /\ o \in Objects /\ Objects' = Objects /\ deltas' = deltas /\ created' = created
      /\ \A p \in Objects : p \in Ids
  BY ObjectFacts DEF TakeDoes, Objects
<1>2. SequencesKept /\ SessionsKept
  <2>1. \A p \in Objects : state'[p].sequence = state[p].sequence
    BY <1>1 DEF TakeDoes
  <2> QED BY <1>1, <2>1 DEF SequencesKept, SessionsKept, SessionOf
<1>3. CASE UNCHANGED <<flush, state>>
  <2>1. \A p \in Objects : TextsOf(p)' = TextsOf(p)
    BY <1>3 DEF TextsOf, Splitting
  <2> QED BY <1>1, <1>2, <1>3, <2>1, TextFrame
<1>4. CASE /\ flush' = [obj |-> o, text |-> state[o].buffer] /\ flush' # NoFlush
           /\ state'[o].buffer = <<>> /\ state'[o].sequence = state[o].sequence
           /\ \A p \in Ids : p # o => state'[p] = state[p]
  <2>1. flush'.text = state[o].buffer /\ flush'.obj = o
    BY <1>4
  <2>2. Sorted(flush.text)'
    BY <1>1, <2>1 DEF TextOrder, Sorted
  <2>3. \A p \in Objects : Sorted(state[p].buffer)'
    <3> TAKE p \in Objects
    <3>1. CASE p = o
      BY <1>4, <3>1 DEF Sorted
    <3>2. CASE p # o
      <4>1. state'[p].buffer = state[p].buffer /\ Sorted(state[p].buffer)
        BY <1>1, <1>4, <3>2 DEF TextOrder
      <4> QED BY <4>1 DEF Sorted
    <3> QED BY <3>1, <3>2
  <2>4. (\A p \in Objects : Splitting(p) =>
           \A x \in IdsOf(flush.text), y \in IdsOf(state[p].buffer) : x < y)'
    BY <1>4, <2>1 DEF Splitting, IdsOf
  <2>5. \A p \in Objects : TextsOf(p)' \subseteq TextsOf(p)
    <3> TAKE p \in Objects
    <3>1. CASE p = o
      BY <1>4, <2>1, <3>1 DEF TextsOf, IdsOf
    <3>2. CASE p # o
      BY <1>1, <1>4, <2>1, <3>2 DEF TextsOf, Splitting
    <3> QED BY <3>1, <3>2
  <2>6. Aged'
    BY <1>1, <1>2, <2>5, AgeFrame DEF TextOrder
  <2>7. (\A p \in Objects : Sorted(state[p].buffer))'
    BY <1>1, <2>3
  <2> QED BY <1>2, <2>2, <2>4, <2>5, <2>6, <2>7 DEF TextOrder
<1> QED BY <1>3, <1>4 DEF TakeDoes

LEMMA AppendSorted ==
    ASSUME NEW q \in Seq(Nat), NEW d \in Nat, Sorted(q), \A x \in IdsOf(q) : x < d
    PROVE  Sorted(Append(q, d)) /\ IdsOf(Append(q, d)) = IdsOf(q) \cup {d}
<1> PICK r : r = Append(q, d)
  OBVIOUS
<1>1. /\ Len(r) = Len(q) + 1 /\ Len(q) \in Nat /\ r[Len(q) + 1] = d
      /\ \A i \in 1..Len(q) : r[i] = q[i]
  OBVIOUS
<1>2. \A i \in 1..Len(r) : i \in 1..Len(q) \/ i = Len(q) + 1
  BY <1>1
<1>3. Sorted(r)
  <2> SUFFICES ASSUME NEW i \in 1..Len(r), NEW j \in 1..Len(r), i < j
               PROVE  r[i] < r[j]
    BY DEF Sorted
  <2>1. i \in 1..Len(q)
    BY <1>1
  <2> QED BY <1>1, <1>2, <2>1 DEF Sorted, IdsOf
<1>4. IdsOf(r) = IdsOf(q) \cup {d}
  <2>1. \A i \in 1..Len(r) : r[i] \in IdsOf(q) \cup {d}
    BY <1>1, <1>2 DEF IdsOf
  <2>2. \A i \in 1..Len(q) : i \in 1..Len(r) /\ q[i] = r[i]
    BY <1>1
  <2>3. Len(q) + 1 \in 1..Len(r)
    BY <1>1
  <2> QED BY <1>1, <2>1, <2>2, <2>3 DEF IdsOf
<1> QED BY <1>3, <1>4

(* The store loop adds a delta to the end of one object's text.              *)
LEMMA StoreTexts ==
    ASSUME IInv, NEW d, NEW key, NEW stale, NEW full, NEW obj,
           StoreDoes(d, key, stale, full, obj)
    PROVE  /\ \A p \in Objects : p # obj => TextsOf(p)' = TextsOf(p)
           /\ obj \in Objects => TextsOf(obj)' = TextsOf(obj) \cup {d}
           /\ obj \notin Objects => TextsOf(obj)' = {d} /\ state[obj].buffer = <<>>
           /\ IdsOf(state'[obj].buffer) = IdsOf(state[obj].buffer) \cup {d}
           /\ \A p : Splitting(p)' <=> Splitting(p)
           /\ d \in IdsOf(input) /\ d \in Offered
<1>1. /\ d = Head(input) /\ input # <<>> /\ d = input[1] /\ Len(input) \in Nat /\ Len(input) >= 1
      /\ d \in Offered /\ obj \in Ids /\ Objects \subseteq Ids /\ flush' = flush
      /\ state[obj].buffer \in Seq(Ids) /\ d \in Ids /\ Ids \subseteq Nat
      /\ state'[obj].buffer = Append(state[obj].buffer, d)
      /\ \A o \in Ids : o # obj => state'[o].buffer = state[o].buffer
  BY DEF StoreDoes
<1>2. \A p : Splitting(p)' <=> Splitting(p)
  BY <1>1 DEF Splitting
<1>3. IdsOf(state'[obj].buffer) = IdsOf(state[obj].buffer) \cup {d}
  <2> PICK q \in Seq(Ids) : q = state[obj].buffer
    BY <1>1
  <2>1. IdsOf(q \o <<d>>) = IdsOf(q) \cup IdsOf(<<d>>)
    <3>1. <<d>> \in Seq(Ids)
      BY <1>1
    <3> QED BY <3>1, JoinIds
  <2>2. IdsOf(<<d>>) = {d}
    BY DEF IdsOf
  <2>3. Append(q, d) = q \o <<d>>
    BY <1>1, AppendIsConcat
  <2> QED BY <1>1, <2>1, <2>2, <2>3
<1>4. d \in IdsOf(input)
  <2>1. 1 \in 1..Len(input)
    BY <1>1
  <2> QED BY <1>1, <2>1 DEF IdsOf
<1>5. \A p \in Objects : p # obj => TextsOf(p)' = TextsOf(p)
  BY <1>1, <1>2 DEF TextsOf
<1>6. TextsOf(obj)' = TextsOf(obj) \cup {d}
  BY <1>1, <1>2, <1>3 DEF TextsOf
<1>7. obj \notin Objects => TextsOf(obj) = {} /\ state[obj].buffer = <<>>
  <2> HAVE obj \notin Objects
  <2>1. state[obj].buffer = <<>>
    BY <1>1 DEF IInv, ObjectInv
  <2>2. ~Splitting(obj)
    BY QueueFacts DEF Live
  <2> QED BY <2>1, <2>2 DEF TextsOf, IdsOf
<1> QED BY <1>1, <1>2, <1>3, <1>4, <1>5, <1>6, <1>7

LEMMA TextStore ==
    ASSUME IInv, QueueOrder, TextOrder, NEW d, NEW key, NEW stale, NEW full, NEW obj,
           StoreDoes(d, key, stale, full, obj)
    PROVE  TextOrder'
<1>1. /\ \A p \in Objects : p # obj => TextsOf(p)' = TextsOf(p)
      /\ obj \in Objects => TextsOf(obj)' = TextsOf(obj) \cup {d}
      /\ obj \notin Objects => TextsOf(obj)' = {d} /\ state[obj].buffer = <<>>
      /\ IdsOf(state'[obj].buffer) = IdsOf(state[obj].buffer) \cup {d}
      /\ \A p : Splitting(p)' <=> Splitting(p)
      /\ d \in IdsOf(input)
  BY StoreTexts
<1>2. /\ SessionsKept /\ SessionOf(obj)' = key[1]
      /\ \A p \in Objects : SessionOf(p) = key[1] => p <= obj
  BY StoreSessions
<1>3. /\ flush' = flush /\ Objects' = Objects \cup {obj} /\ obj \in Ids /\ Objects \subseteq Ids
      /\ state[obj].buffer \in Seq(Ids) /\ Ids \subseteq Nat /\ d \in Nat
      /\ state'[obj].buffer = Append(state[obj].buffer, d)
      /\ \A o \in Ids : o # obj => /\ state'[o].buffer = state[o].buffer
                                   /\ state'[o].sequence = state[o].sequence
  BY DEF StoreDoes
<1>4. \A o \in Objects : state[o].sequence < d /\ \A y \in TextsOf(o) : y < d
  <2> TAKE o \in Objects
  <2>1. /\ state[o].sequence < d /\ state[o].sequence \in Nat
        /\ \A y \in TextsOf(o) : y \in Nat /\ y <= state[o].sequence
    BY <1>1, ObjectFacts
  <2> QED BY <1>3, <2>1
<1>5. Sorted(flush.text)'
  BY <1>3 DEF TextOrder, Sorted
<1>6. (\A p \in Objects : Sorted(state[p].buffer))'
  <2>1. ASSUME NEW p \in Objects'
        PROVE  Sorted(state'[p].buffer)
    <3>1. CASE p = obj
      <4> PICK q \in Seq(Nat) : q = state[obj].buffer
        BY <1>3, SeqGrows
      <4>1. Sorted(q) /\ \A x \in IdsOf(q) : x < d
        <5>1. CASE obj \in Objects
          BY <1>4, <5>1 DEF TextOrder, TextsOf
        <5>2. CASE obj \notin Objects
          BY <1>1, <5>2 DEF Sorted, IdsOf
        <5> QED BY <5>1, <5>2
      <4> QED BY <1>3, <3>1, <4>1, AppendSorted
    <3>2. CASE p # obj
      BY <1>3, <3>2 DEF TextOrder
    <3> QED BY <3>1, <3>2
  <2> QED BY <2>1 DEF Sorted
<1>7. (\A o \in Objects : Splitting(o) =>
         \A x \in IdsOf(flush.text), y \in IdsOf(state[o].buffer) : x < y)'
  <2> SUFFICES ASSUME NEW o \in Objects', Splitting(o), NEW x \in IdsOf(flush.text),
                      NEW y \in IdsOf(state'[o].buffer)
               PROVE  x < y
    BY <1>1, <1>3
  <2>1. o \in Objects
    BY QueueFacts DEF Live
  <2>2. CASE o = obj /\ y = d
    BY <1>4, <2>1, <2>2 DEF TextsOf
  <2>3. CASE y \in IdsOf(state[o].buffer)
    BY <2>1, <2>3 DEF TextOrder
  <2>4. o # obj => IdsOf(state'[o].buffer) = IdsOf(state[o].buffer)
    BY <1>3, <2>1
  <2> QED BY <1>1, <2>2, <2>3, <2>4
<1>8. ASSUME NEW o \in Objects', NEW p \in Objects', SessionOf(o)' = SessionOf(p)', o < p,
             NEW y \in TextsOf(p)'
      PROVE  state'[o].sequence < y
  <2>1. \A q \in Objects : SessionOf(q)' = SessionOf(q)
    BY <1>2 DEF SessionsKept
  <2>2. o # obj
    <3> SUFFICES ASSUME o = obj
                 PROVE  FALSE
      OBVIOUS
    <3>1. p # obj /\ p \in Objects
      <4>1. o \in Nat /\ p \in Nat
        BY <1>3
      <4> QED BY <1>3, <1>8, <4>1
    <3>2. SessionOf(o)' = key[1]
      BY <1>2
    <3>3. SessionOf(p) = key[1] /\ o \in Nat /\ p \in Nat
      BY <1>3, <1>8, <2>1, <3>1, <3>2
    <3> QED BY <1>2, <1>8, <3>1, <3>3
  <2>3. o \in Objects /\ state'[o].sequence = state[o].sequence
    BY <1>3, <2>2
  <2>4. CASE y = d
    BY <1>4, <2>3, <2>4
  <2>5. CASE p \in Objects /\ y \in TextsOf(p)
    BY <1>8, <2>1, <2>3, <2>5 DEF TextOrder, Aged
  <2>6. CASE p = obj
    <3>1. p \in Objects => y = d \/ y \in TextsOf(p)
      BY <1>1, <1>8, <2>6
    <3>2. p \notin Objects => y = d
      BY <1>1, <1>8, <2>6
    <3> QED BY <2>4, <2>5, <3>1, <3>2
  <2>7. CASE p # obj
    <3>1. p \in Objects /\ y \in TextsOf(p)
      BY <1>1, <1>3, <1>8, <2>7
    <3> QED BY <2>5, <3>1
  <2> QED BY <2>6, <2>7
<1>9. Aged'
  BY <1>8 DEF Aged
<1> QED BY <1>5, <1>6, <1>7, <1>9 DEF TextOrder

(* The splitter's text, or what is left of it, goes back in front.           *)
LEMMA TextRefill ==
    ASSUME IInv, TextOrder, NEW o \in Objects, flush # NoFlush, flush' = NoFlush, o = flush.obj,
           SessionsKept, SequencesKept, created' = created,
           NEW buf, state'[o].buffer = buf, Sorted(buf), IdsOf(buf) \subseteq TextsOf(o),
           \A p \in Objects : p # o => state'[p].buffer = state[p].buffer
    PROVE  TextOrder' /\ \A p \in Objects : TextsOf(p)' \subseteq TextsOf(p)
<1>1. Objects' = Objects /\ \A p : ~Splitting(p)'
  BY DEF Objects, Splitting
<1>2. \A p \in Objects : TextsOf(p)' \subseteq TextsOf(p)
  <2> TAKE p \in Objects
  <2>1. TextsOf(p)' = IdsOf(state'[p].buffer)
    BY <1>1 DEF TextsOf
  <2>2. CASE p = o
    BY <2>1, <2>2
  <2>3. CASE p # o
    BY <2>1, <2>3 DEF TextsOf
  <2> QED BY <2>2, <2>3
<1>3. Sorted(flush.text)'
  BY DEF Sorted, NoFlush
<1>4. (\A p \in Objects : Sorted(state[p].buffer))'
  <2>1. ASSUME NEW p \in Objects
        PROVE  Sorted(state'[p].buffer)
    <3>1. CASE p = o
      BY <3>1
    <3>2. CASE p # o
      BY <3>2 DEF TextOrder
    <3> QED BY <3>1, <3>2
  <2> QED BY <1>1, <2>1 DEF Sorted
<1>5. (\A p \in Objects : Splitting(p) =>
         \A x \in IdsOf(flush.text), y \in IdsOf(state[p].buffer) : x < y)'
  BY <1>1
<1>6. Aged'
  BY <1>2, AgeFrame DEF TextOrder
<1> QED BY <1>2, <1>3, <1>4, <1>5, <1>6 DEF TextOrder

LEMMA TextFail ==
    ASSUME IInv, TextOrder, NEW o, NEW text, NEW buf, FailDoes(o, text, buf)
    PROVE  TextOrder' /\ SessionsKept /\ \A p \in Objects : TextsOf(p)' \subseteq TextsOf(p)
<1>1. /\ flush # NoFlush /\ flush' = NoFlush /\ o = flush.obj /\ text = flush.text
      /\ deltas' = deltas /\ created' = created
      /\ o \in Objects /\ o \in Ids /\ text \in Seq(Ids) /\ state[o].buffer \in Seq(Ids)
      /\ Objects \subseteq Ids /\ buf = text \o state[o].buffer
      /\ state'[o].buffer = buf /\ state'[o].sequence = state[o].sequence
      /\ \A p \in Ids : p # o => state'[p] = state[p]
  BY DEF FailDoes
<1>2. SequencesKept /\ SessionsKept /\ \A p \in Objects : p # o => state'[p].buffer = state[p].buffer
  <2>1. \A p \in Objects : state'[p].sequence = state[p].sequence
    BY <1>1
  <2> QED BY <1>1, <2>1 DEF SequencesKept, SessionsKept, SessionOf, Objects
<1>3. Sorted(buf) /\ IdsOf(buf) \subseteq TextsOf(o)
  <2> PICK b \in Seq(Ids) : b = state[o].buffer
    BY <1>1
  <2>1. Ids \subseteq Nat
    BY DEF Ids
  <2>2. text \in Seq(Nat) /\ b \in Seq(Nat)
    BY <1>1, <2>1, SeqGrows
  <2>3. Splitting(o)
    BY <1>1 DEF Splitting
  <2>4. Sorted(text) /\ Sorted(b) /\ \A x \in IdsOf(text), y \in IdsOf(b) : x < y
    BY <1>1, <2>3 DEF TextOrder
  <2>5. Sorted(text \o b)
    BY <2>2, <2>4, JoinSorted
  <2>6. IdsOf(text \o b) = IdsOf(text) \cup IdsOf(b)
    BY <2>2, JoinIds
  <2> QED BY <1>1, <2>3, <2>5, <2>6 DEF TextsOf
<1> QED BY <1>1, <1>2, <1>3, TextRefill

(* The parts of a text in order are in the order of the text.               *)
LEMMA CutsSorted ==
    ASSUME NEW text, Sorted(text), NEW parts, NEW start, Cuts(text, parts, start),
           \A i \in 1..Len(parts) : Len(parts[i]) \in Nat, Len(text) \in Nat
    PROVE  \A i, j \in 1..Len(parts) : \A p \in 1..Len(parts[i]), q \in 1..Len(parts[j]) :
             i < j \/ (i = j /\ p < q) => parts[i][p] < parts[j][q]
<1> SUFFICES ASSUME NEW i \in 1..Len(parts), NEW j \in 1..Len(parts),
                    NEW p \in 1..Len(parts[i]), NEW q \in 1..Len(parts[j]),
                    i < j \/ (i = j /\ p < q)
             PROVE  parts[i][p] < parts[j][q]
  OBVIOUS
<1>1. /\ start[i] \in Nat /\ start[j] \in Nat
      /\ start[i] + p \in 1..Len(text) /\ parts[i][p] = text[start[i] + p]
      /\ start[j] + q \in 1..Len(text) /\ parts[j][q] = text[start[j] + q]
      /\ i < j => start[i] + Len(parts[i]) <= start[j]
  BY DEF Cuts
<1>2. Len(parts[i]) \in Nat /\ p \in Nat /\ q \in Nat /\ p <= Len(parts[i]) /\ 1 <= q
  OBVIOUS
<1>3. start[i] + p < start[j] + q
  <2> PICK a \in Nat, b \in Nat, m \in Nat : a = start[i] /\ b = start[j] /\ m = Len(parts[i])
    BY <1>1, <1>2
  <2>1. CASE i < j
    <3>1. a + m <= b /\ p \in Nat /\ q \in Nat /\ p <= m /\ 1 <= q
      BY <1>1, <1>2, <2>1
    <3>2. a + p < b + q
      BY ONLY <3>1, a \in Nat, b \in Nat, m \in Nat
    <3> QED BY <3>2
  <2>2. CASE i = j /\ p < q
    <3>1. a = b /\ p \in Nat /\ q \in Nat /\ p < q
      BY <1>2, <2>2
    <3>2. a + p < b + q
      BY ONLY <3>1, a \in Nat, b \in Nat, m \in Nat
    <3> QED BY <3>2
  <2> QED BY <2>1, <2>2
<1> QED BY <1>1, <1>3 DEF Sorted

LEMMA TextSplit ==
    ASSUME IInv, TextOrder, NEW o, NEW text, NEW parts, NEW start, NEW added, NEW buf,
           SplitDoes(o, text, parts, start, added, buf)
    PROVE  TextOrder' /\ SessionsKept /\ \A p \in Objects : TextsOf(p)' \subseteq TextsOf(p)
<1>1. /\ flush # NoFlush /\ flush' = NoFlush /\ o = flush.obj /\ text = flush.text
      /\ deltas' = deltas /\ created' = created
      /\ o \in Objects /\ o \in Ids /\ text \in Seq(Ids) /\ state[o].buffer \in Seq(Ids)
      /\ Objects \subseteq Ids
      /\ parts \in Seq(Seq(Ids)) /\ Len(parts) \in Nat \ {0} /\ Cuts(text, parts, start)
      /\ buf = state[o].buffer \/ buf = parts[Len(parts)] \o state[o].buffer
      /\ state'[o].buffer = buf /\ state'[o].sequence = state[o].sequence
      /\ \A p \in Ids : p # o => state'[p] = state[p]
  BY DEF SplitDoes
<1>2. SequencesKept /\ SessionsKept /\ \A p \in Objects : p # o => state'[p].buffer = state[p].buffer
  <2>1. \A p \in Objects : state'[p].sequence = state[p].sequence
    BY <1>1
  <2> QED BY <1>1, <2>1 DEF SequencesKept, SessionsKept, SessionOf, Objects
<1>3. Sorted(buf) /\ IdsOf(buf) \subseteq TextsOf(o)
  <2> PICK b \in Seq(Ids) : b = state[o].buffer
    BY <1>1
  <2> PICK n \in 1..Len(parts) : n = Len(parts)
    BY <1>1
  <2> PICK tail \in Seq(Ids) : tail = parts[n]
    BY <1>1, ElementIn
  <2>1. Ids \subseteq Nat /\ Splitting(o)
    BY <1>1 DEF Ids, Splitting
  <2>2. tail \in Seq(Nat) /\ b \in Seq(Nat)
    BY <1>1, <2>1, SeqGrows
  <2>3. /\ Sorted(text) /\ Sorted(b) /\ \A x \in IdsOf(text), y \in IdsOf(b) : x < y
        /\ IdsOf(tail) \subseteq IdsOf(text)
    BY <1>1, <2>1, PartIds DEF TextOrder
  <2>4. Sorted(tail)
    <3>1. \A i \in 1..Len(parts) : Len(parts[i]) \in Nat
      <4> TAKE i \in 1..Len(parts)
      <4>1. parts[i] \in Seq(Ids)
        BY <1>1, ElementIn
      <4> QED BY <4>1
    <3>2. Len(text) \in Nat
      BY <1>1
    <3>3. \A p, q \in 1..Len(parts[n]) : p < q => parts[n][p] < parts[n][q]
      BY <1>1, <2>3, <3>1, <3>2, CutsSorted
    <3> QED BY <3>3 DEF Sorted
  <2>5. Sorted(tail \o b)
    BY <2>2, <2>3, <2>4, JoinSorted
  <2>6. IdsOf(tail \o b) = IdsOf(tail) \cup IdsOf(b)
    BY <2>2, JoinIds
  <2>7. IdsOf(b) \subseteq TextsOf(o) /\ IdsOf(text) \subseteq TextsOf(o)
    BY <1>1, <2>1 DEF TextsOf
  <2>8. buf = b \/ buf = tail \o b
    BY <1>1
  <2> QED BY <2>3, <2>5, <2>6, <2>7, <2>8
<1> QED BY <1>1, <1>2, <1>3, TextRefill

-----------------------------------------------------------------------------
(* The text that has left.                                                  *)
LEMMA OutIds ==
    ASSUME NEW m \in 0..Len(sentences), NEW i \in 1..Len(Out(m))
    PROVE  Out(m)[i] \in Spoken
BY DEF Spoken, IdsOf

(* Nothing leaves, and texts only move.                                     *)
LEMMA OutFrame ==
    ASSUME OutOrder, UNCHANGED <<pushed, sentences, lost>>,
           \A d \in Offered : d \in Offered' /\ deltas'[d] = deltas[d],
           \A x \in Offered, y \in IdsOf(input') : x < y \/ y \in IdsOf(input),
           \A o \in Objects' : Live(o)' => \A y \in TextsOf(o)' :
             \/ y \in IdsOf(input)
             \/ o \in Objects /\ Live(o) /\ y \in TextsOf(o) /\ SessionOf(o)' = SessionOf(o)
    PROVE  OutOrder'
<1>1. Gone' = Gone /\ Len(sentences') = Len(sentences) /\ \A m : Out(m)' = Out(m)
  BY DEF Gone, Spoken, Out
<1>2. \A x \in Gone : x \in Offered /\ x \in Offered' /\ deltas'[x] = deltas[x]
  BY DEF OutOrder
<1>3. SpokenOrder'
  <2> SUFFICES ASSUME NEW m \in 0..Len(sentences), NEW n \in 0..Len(sentences),
                      NEW i \in 1..Len(Out(m)), NEW j \in 1..Len(Out(n)),
                      m < n \/ (m = n /\ i < j),
                      deltas'[Out(m)[i]].session = deltas'[Out(n)[j]].session
               PROVE  Out(m)[i] < Out(n)[j]
    BY <1>1 DEF SpokenOrder
  <2>1. Out(m)[i] \in Gone /\ Out(n)[j] \in Gone
    BY OutIds DEF Gone
  <2>2. deltas[Out(m)[i]].session = deltas[Out(n)[j]].session
    BY <1>2, <2>1
  <2> QED BY <2>2 DEF OutOrder, SpokenOrder
<1>4. (Gone \subseteq Offered)'
  BY <1>1, <1>2
<1>5. (\A x \in Gone, y \in IdsOf(input) : x < y)'
  <2>1. \A x \in Gone, y \in IdsOf(input') : x < y
    BY <1>2 DEF OutOrder
  <2> QED BY <1>1, <2>1
<1>6. ASSUME NEW o \in Objects', Live(o)', NEW x \in Gone, NEW y \in TextsOf(o)',
             deltas'[x].session = SessionOf(o)'
      PROVE  x < y
  <2>1. CASE y \in IdsOf(input)
    BY <2>1 DEF OutOrder
  <2>2. CASE o \in Objects /\ Live(o) /\ y \in TextsOf(o) /\ SessionOf(o)' = SessionOf(o)
    <3>1. deltas[x].session = SessionOf(o)
      BY <1>2, <1>6, <2>2
    <3> QED BY <2>2, <3>1 DEF OutOrder
  <2> QED BY <1>6, <2>1, <2>2
<1>7. (\A o \in Objects : Live(o) =>
         \A x \in Gone, y \in TextsOf(o) : deltas[x].session = SessionOf(o) => x < y)'
  BY <1>1, <1>6
<1> QED BY <1>3, <1>4, <1>5, <1>7 DEF OutOrder

(* Texts stay with their objects, which stay or become known to the flush    *)
(* loop from the map.                                                        *)
LEMMA OutKept ==
    ASSUME IInv, OutOrder, UNCHANGED <<pushed, sentences, lost, deltas, input, created>>, SessionsKept,
           \A o \in Objects : TextsOf(o)' \subseteq TextsOf(o),
           \A o \in Objects : Live(o)' => Live(o)
    PROVE  OutOrder'
<1>1. Objects' = Objects /\ Offered' = Offered
  BY DEF Objects, Offered
<1>2. \A o \in Objects' : Live(o)' => \A y \in TextsOf(o)' :
        o \in Objects /\ Live(o) /\ y \in TextsOf(o) /\ SessionOf(o)' = SessionOf(o)
  BY <1>1 DEF SessionsKept
<1>3. \A d \in Offered : d \in Offered' /\ deltas'[d] = deltas[d]
  BY <1>1
<1> QED BY <1>2, <1>3, OutFrame

LEMMA OutTake ==
    ASSUME IInv, TextOrder, OutOrder, NEW o, TakeDoes(o)
    PROVE  OutOrder'
<1>1. SessionsKept /\ \A p \in Objects : TextsOf(p)' \subseteq TextsOf(p)
  BY TextTake
<1>2. /\ stateQueue # <<>> /\ o = Head(stateQueue) /\ stateQueue' = Tail(stateQueue)
      /\ UNCHANGED <<pushed, sentences, lost, deltas, input, created, stateByKey>>
      /\ \/ flush' = flush
         \/ flush'.obj = o
  BY DEF TakeDoes
<1>3. Mapped' = Mapped
  BY <1>2 DEF Mapped
<1>4. IdsOf(stateQueue') \subseteq IdsOf(stateQueue) /\ o \in IdsOf(stateQueue)
  <2> PICK q \in Seq(Objects) : q = stateQueue /\ q # <<>>
    BY <1>2, QueueFacts
  <2>1. /\ Len(q) \in Nat /\ Len(q) >= 1 /\ Head(q) = q[1]
        /\ \A i \in 1..Len(Tail(q)) : i + 1 \in 1..Len(q) /\ Tail(q)[i] = q[i + 1]
    BY TailFacts
  <2>2. \A y \in IdsOf(Tail(q)) : y \in IdsOf(q)
    BY <2>1 DEF IdsOf
  <2>3. q[1] \in IdsOf(q)
    BY <2>1 DEF IdsOf
  <2> QED BY <1>2, <2>1, <2>2, <2>3
<1>5. \A p \in Objects : Live(p)' => Live(p)
  <2> TAKE p \in Objects
  <2>1. Splitting(p)' => Splitting(p) \/ p = o
    BY <1>2 DEF Splitting
  <2>2. IdsOf(stateQueue)' = IdsOf(stateQueue')
    BY DEF IdsOf
  <2> QED BY <1>3, <1>4, <2>1, <2>2 DEF Live
<1> QED BY <1>1, <1>2, <1>5, OutKept

LEMMA OutFail ==
    ASSUME IInv, TextOrder, OutOrder, NEW o, NEW text, NEW buf, FailDoes(o, text, buf)
    PROVE  OutOrder'
<1>1. SessionsKept /\ \A p \in Objects : TextsOf(p)' \subseteq TextsOf(p)
  BY TextFail
<1>2. /\ UNCHANGED <<pushed, sentences, lost, deltas, input, created, stateByKey, stateQueue>>
      /\ flush' = NoFlush
  BY DEF FailDoes
<1>3. \A p \in Objects : Live(p)' => Live(p)
  BY <1>2 DEF Live, Splitting, Mapped, IdsOf
<1> QED BY <1>1, <1>2, <1>3, OutKept

LEMMA OutStore ==
    ASSUME IInv, QueueOrder, OutOrder, NEW d, NEW key, NEW stale, NEW full, NEW obj,
           StoreDoes(d, key, stale, full, obj)
    PROVE  OutOrder'
<1>1. /\ \A p \in Objects : p # obj => TextsOf(p)' = TextsOf(p)
      /\ obj \in Objects => TextsOf(obj)' = TextsOf(obj) \cup {d}
      /\ obj \notin Objects => TextsOf(obj)' = {d}
      /\ \A p : Splitting(p)' <=> Splitting(p)
      /\ d \in IdsOf(input)
  BY StoreTexts
<1>2. /\ SessionsKept
      /\ \A o \in Mapped' : o = obj \/ (o \in Mapped /\ o # obj /\ SessionOf(o) # key[1])
  BY StoreSessions
<1>3. /\ UNCHANGED <<pushed, sentences, lost, deltas>> /\ Objects' = Objects \cup {obj} /\ obj # 0
      /\ obj = IF stateByKey[key] = 0 THEN created + 1 ELSE stateByKey[key]
      /\ created \in Nat /\ key \in Keys /\ full \subseteq Mapped
      /\ IdsOf(stateQueue') = (IdsOf(stateQueue) \cup full) \cup {obj}
  BY DEF StoreDoes
<1>4. obj \in Objects => obj \in Mapped
  <2>1. created + 1 \notin Objects
    BY <1>3 DEF Objects
  <2> QED BY <1>3, <2>1 DEF Mapped
<1>5. ASSUME NEW o \in Objects', Live(o)'
      PROVE  o = obj \/ Live(o)
  <2>1. o \in Mapped' \/ o \in IdsOf(stateQueue') \/ Splitting(o)'
    BY <1>5 DEF Live, IdsOf
  <2> QED BY <1>1, <1>2, <1>3, <2>1 DEF Live
<1>6. ASSUME NEW o \in Objects', Live(o)', NEW y \in TextsOf(o)'
      PROVE  \/ y \in IdsOf(input)
             \/ o \in Objects /\ Live(o) /\ y \in TextsOf(o) /\ SessionOf(o)' = SessionOf(o)
  <2>1. CASE o = obj /\ obj \notin Objects
    BY <1>1, <1>6, <2>1
  <2>2. CASE o \in Objects
    <3>1. Live(o)
      BY <1>4, <1>5, <1>6, <2>2 DEF Live
    <3>2. y \in TextsOf(o) \/ y = d
      <4>1. CASE o = obj
        BY <1>1, <1>6, <2>2, <4>1
      <4>2. CASE o # obj
        BY <1>1, <1>6, <2>2, <4>2
      <4> QED BY <4>1, <4>2
    <3> QED BY <1>1, <1>2, <2>2, <3>1, <3>2 DEF SessionsKept
  <2> QED BY <1>3, <2>1, <2>2
<1>7. IdsOf(input') \subseteq IdsOf(input)
  <2>1. \A i \in 1..Len(input') : i + 1 \in 1..Len(input) /\ input'[i] = input[i + 1]
    BY DEF StoreDoes
  <2> QED BY <2>1 DEF IdsOf
<1>8. \A x \in Offered : x \in Offered' /\ deltas'[x] = deltas[x]
  BY <1>3 DEF Offered
<1> QED BY <1>3, <1>6, <1>7, <1>8, OutFrame

(* Objects are queued from the map, by the sweeper or the end of a session.  *)
LEMMA OutForced ==
    ASSUME IInv, OutOrder, UNCHANGED <<pushed, sentences, lost, deltas, input, created, flush>>,
           SessionsKept, Mapped' \subseteq Mapped,
           \A o \in Objects : state'[o].buffer = state[o].buffer,
           IdsOf(stateQueue') \subseteq IdsOf(stateQueue) \cup Mapped
    PROVE  OutOrder'
<1>1. \A o \in Objects : TextsOf(o)' \subseteq TextsOf(o)
  BY DEF TextsOf, Splitting
<1>2. \A o \in Objects : Live(o)' => Live(o)
  <2>1. IdsOf(stateQueue)' = IdsOf(stateQueue')
    BY DEF IdsOf
  <2>2. \A o : Splitting(o)' => Splitting(o)
    BY DEF Splitting
  <2> QED BY <2>1, <2>2 DEF Live
<1> QED BY <1>1, <1>2, OutKept

(* What the splitter's result adds to the text that has left.                *)
LEMMA SplitOut ==
    ASSUME IInv, TextOrder, NEW o, NEW text, NEW parts, NEW start, NEW added, NEW buf,
           SplitDoes(o, text, parts, start, added, buf)
    PROVE  \E shipped \in SUBSET Ids :
             /\ shipped \subseteq IdsOf(text) /\ shipped \cup IdsOf(buf) = TextsOf(o)
             /\ Spoken' = Spoken \cup shipped
             /\ \A x \in shipped, y \in IdsOf(buf) : x < y
             /\ Len(sentences) \in Nat /\ Len(sentences') = Len(sentences) + Len(added)
             /\ \A m \in 0..Len(sentences) : Out(m)' = Out(m)
             /\ \A m \in 0..Len(sentences') : m \in 0..Len(sentences) \/
                  (m - Len(sentences) \in 1..Len(added) /\ Out(m)' = parts[m - Len(sentences)])
<1>1. /\ flush # NoFlush /\ o = flush.obj /\ text = flush.text /\ o \in Objects /\ pushed' = pushed
      /\ text \in Seq(Ids) /\ state[o].buffer \in Seq(Ids)
      /\ parts \in Seq(Seq(Ids)) /\ Len(parts) \in Nat \ {0} /\ Cuts(text, parts, start)
      /\ sentences \in Seq(Sentence) /\ added \in Seq(Sentence) /\ sentences' = sentences \o added
      /\ Len(added) \in 0..Len(parts) /\ \A i \in 1..Len(added) : added[i].text = parts[i]
      /\ \/ Len(added) = Len(parts) /\ buf = state[o].buffer
         \/ Len(added) = Len(parts) - 1 /\ buf = parts[Len(parts)] \o state[o].buffer
  BY DEF SplitDoes
<1> PICK n \in Nat : n = Len(sentences)
  BY <1>1
<1> PICK k \in Nat : k = Len(added)
  BY <1>1
<1> PICK L \in Nat : L = Len(parts)
  BY <1>1
<1> PICK b \in Seq(Ids) : b = state[o].buffer
  BY <1>1
<1> PICK r : r = sentences'
  OBVIOUS
<1>2. /\ Len(r) = n + k
      /\ \A m \in 1..n : r[m] = sentences[m]
      /\ \A m \in 1..Len(r) : \/ m \in 1..n
                              \/ m - n \in 1..k /\ r[m] = added[m - n]
      /\ \A i \in 1..k : r[n + i] = added[i]
  BY <1>1, JoinFacts
<1>3. \A m \in 0..n : Out(m)' = Out(m)
  BY <1>1, <1>2 DEF Out
<1>4. \A m \in 0..Len(r) : m \in 0..n \/ (m - n \in 1..k /\ Out(m)' = parts[m - n])
  <2> TAKE m \in 0..Len(r)
  <2>1. CASE m = 0
    BY <2>1
  <2>2. CASE m # 0 /\ m \in 1..n
    BY <2>2
  <2>3. CASE m # 0 /\ m - n \in 1..k /\ r[m] = added[m - n]
    BY <1>1, <2>3 DEF Out
  <2>4. m # 0 => m \in 1..Len(r)
    BY <1>2
  <2> QED BY <1>2, <2>1, <2>2, <2>3, <2>4
<1>5. \A i \in 1..k : Out(n + i)' = parts[i] /\ n + i \in 0..Len(r) /\ n + i \notin 0..n /\ i \in 1..L
  <2> TAKE i \in 1..k
  <2>1. n + i # 0 /\ n + i \in 0..Len(r) /\ n + i \notin 0..n /\ i \in 1..L
    BY <1>1, <1>2
  <2>2. Out(n + i)' = sentences'[n + i].text
    BY <2>1 DEF Out
  <2> QED BY <1>1, <1>2, <2>1, <2>2
<1> DEFINE shipped == UNION {IdsOf(parts[i]) : i \in 1..k}
<1>6. Spoken' = Spoken \cup shipped
  <2>1. ASSUME NEW x \in Spoken'
        PROVE  x \in Spoken \cup shipped
    <3>1. PICK m \in 0..Len(r) : x \in IdsOf(Out(m)')
      BY <2>1 DEF Spoken, IdsOf
    <3>2. CASE m \in 0..n
      <4>1. x \in IdsOf(Out(m))
        BY <1>3, <3>1, <3>2
      <4> QED BY <3>2, <4>1 DEF Spoken
    <3>3. CASE m - n \in 1..k /\ Out(m)' = parts[m - n]
      BY <3>1, <3>3
    <3> QED BY <1>4, <3>2, <3>3
  <2>2. Spoken' = UNION {IdsOf(Out(m)') : m \in 0..Len(r)}
    BY DEF Spoken, IdsOf
  <2>3. ASSUME NEW x \in Spoken
        PROVE  x \in Spoken'
    <3>1. PICK m \in 0..n : x \in IdsOf(Out(m))
      BY <2>3 DEF Spoken
    <3>2. m \in 0..Len(r) /\ x \in IdsOf(Out(m)')
      BY <1>2, <1>3, <3>1
    <3> QED BY <2>2, <3>2
  <2>4. ASSUME NEW x \in shipped
        PROVE  x \in Spoken'
    <3>1. PICK i \in 1..k : x \in IdsOf(parts[i])
      BY <2>4
    <3>2. n + i \in 0..Len(r) /\ x \in IdsOf(Out(n + i)')
      BY <1>5, <3>1
    <3> QED BY <2>2, <3>2
  <2> QED BY <2>1, <2>3, <2>4
<1>7. Ids \subseteq Nat /\ Splitting(o) /\ \A i \in 1..L : parts[i] \in Seq(Ids) /\ Len(parts[i]) \in Nat
  <2>1. \A i \in 1..L : parts[i] \in Seq(Ids)
    BY <1>1, ElementIn
  <2> QED BY <1>1, <2>1 DEF Ids, Splitting
<1>8. /\ TextsOf(o) = IdsOf(text) \cup IdsOf(b)
      /\ \A x \in IdsOf(text), y \in IdsOf(b) : x < y
      /\ Sorted(text)
  <2>1. IdsOf(state[o].buffer) = IdsOf(b)
    OBVIOUS
  <2> QED BY <1>1, <1>7, <2>1 DEF TextsOf, TextOrder
<1>9. IdsOf(text) = UNION {IdsOf(parts[i]) : i \in 1..L}
  <2>1. \A i \in 1..L : IdsOf(parts[i]) \subseteq IdsOf(text)
    BY <1>1, PartIds
  <2>2. ASSUME NEW x \in IdsOf(text)
        PROVE  \E i \in 1..L : x \in IdsOf(parts[i])
    <3>1. PICK q \in 1..Len(text) : x = text[q]
      BY <2>2 DEF IdsOf
    <3>2. PICK i \in 1..L : q - start[i] \in 1..Len(parts[i])
      BY <1>1 DEF Cuts
    <3>3. start[i] \in Nat /\ parts[i][q - start[i]] = text[start[i] + (q - start[i])]
      BY <1>1, <3>2 DEF Cuts
    <3>4. start[i] + (q - start[i]) = q
      BY <3>3
    <3> QED BY <3>1, <3>2, <3>3, <3>4 DEF IdsOf
  <2> QED BY <2>1, <2>2
<1>10. shipped \subseteq IdsOf(text) /\ shipped \in SUBSET Ids
  <2>1. \A i \in 1..k : i \in 1..L
    BY <1>5
  <2>2. IdsOf(text) \subseteq Ids
    BY <1>1, ElementIn DEF IdsOf
  <2> QED BY <1>9, <2>1, <2>2
<1>11. shipped \cup IdsOf(buf) = TextsOf(o) /\ \A x \in shipped, y \in IdsOf(buf) : x < y
  <2>1. CASE k = L /\ buf = b
    <3>1. shipped = IdsOf(text)
      BY <1>9, <2>1
    <3> QED BY <1>8, <2>1, <3>1
  <2>2. CASE k = L - 1 /\ buf = parts[L] \o b
    <3>1. L \in 1..L /\ \A i \in 1..L : i \in 1..k \/ i = L
      BY ONLY <2>2, k \in Nat, L \in Nat
    <3>2. IdsOf(buf) = IdsOf(parts[L]) \cup IdsOf(b)
      <4> PICK tail \in Seq(Ids) : tail = parts[L]
        BY <1>7, <3>1
      <4> QED BY <2>2, JoinIds
    <3>3. IdsOf(text) = shipped \cup IdsOf(parts[L])
      BY <1>9, <1>10, <3>1
    <3>4. ASSUME NEW x \in shipped, NEW y \in IdsOf(parts[L])
          PROVE  x < y
      <4>1. PICK i \in 1..k : x \in IdsOf(parts[i])
        BY <3>4
      <4>2. PICK p \in 1..Len(parts[i]) : x = parts[i][p]
        BY <4>1 DEF IdsOf
      <4>3. PICK q \in 1..Len(parts[L]) : y = parts[L][q]
        BY <3>4 DEF IdsOf
      <4>4. i < L /\ i \in 1..L
        BY <2>2
      <4>5. Len(text) \in Nat
        BY <1>1
      <4>6. parts[i][p] < parts[L][q]
        BY <1>1, <1>7, <1>8, <3>1, <4>4, <4>5, CutsSorted
      <4> QED BY <4>2, <4>3, <4>6
    <3> HIDE DEF shipped
    <3>5. \A x \in shipped, y \in IdsOf(b) : x < y
      BY <1>8, <1>10
    <3> QED BY <1>8, <3>2, <3>3, <3>4, <3>5
  <2> QED BY <1>1, <2>1, <2>2
<1> HIDE DEF shipped
<1> QED BY <1>2, <1>3, <1>4, <1>6, <1>10, <1>11

LEMMA OutSplit ==
    ASSUME IInv, OrderInv, NEW o, NEW text, NEW parts, NEW start, NEW added, NEW buf,
           SplitDoes(o, text, parts, start, added, buf)
    PROVE  OutOrder'
<1> USE DEF OrderInv
<1>1. /\ flush # NoFlush /\ flush' = NoFlush /\ o = flush.obj /\ text = flush.text /\ o \in Objects
      /\ UNCHANGED <<deltas, input, stateByKey, created, stateQueue, lost>>
      /\ text \in Seq(Ids) /\ state[o].buffer \in Seq(Ids) /\ Objects \subseteq Ids
      /\ parts \in Seq(Seq(Ids)) /\ Len(parts) \in Nat \ {0} /\ Cuts(text, parts, start)
      /\ Len(added) \in 0..Len(parts) /\ state'[o].buffer = buf
      /\ \A p \in Ids : p # o => state'[p] = state[p]
  BY DEF SplitDoes
<1> PICK shipped \in SUBSET Ids :
             /\ shipped \subseteq IdsOf(text) /\ shipped \cup IdsOf(buf) = TextsOf(o)
             /\ Spoken' = Spoken \cup shipped
             /\ \A x \in shipped, y \in IdsOf(buf) : x < y
             /\ Len(sentences) \in Nat /\ Len(sentences') = Len(sentences) + Len(added)
             /\ \A m \in 0..Len(sentences) : Out(m)' = Out(m)
             /\ \A m \in 0..Len(sentences') : m \in 0..Len(sentences) \/
                  (m - Len(sentences) \in 1..Len(added) /\ Out(m)' = parts[m - Len(sentences)])
  BY SplitOut
<1>2. SessionsKept /\ \A p \in Objects : TextsOf(p)' \subseteq TextsOf(p)
  BY TextSplit
<1>3. /\ Splitting(o) /\ Live(o) /\ IdsOf(text) \subseteq TextsOf(o) /\ TextsOf(o)' = IdsOf(buf)
      /\ \A p : Live(p)' => p \in Mapped \cup IdsOf(stateQueue)
      /\ Objects' = Objects /\ Offered' = Offered
  BY <1>1 DEF Splitting, Live, TextsOf, Mapped, IdsOf, Objects, Offered
<1>4. /\ state[o].sequence \in Nat /\ Offered \subseteq Nat
      /\ \A y \in TextsOf(o) : /\ y \in Offered /\ y <= state[o].sequence
                               /\ deltas[y].session = SessionOf(o)
      /\ \A z \in IdsOf(input) : state[o].sequence < z /\ z \in Offered
  BY <1>1, ObjectFacts
<1>10. Gone' = Gone \cup shipped
  BY <1>1 DEF Gone
<1>5. SpokenOrder'
  <2> SUFFICES ASSUME NEW m \in 0..Len(sentences'), NEW n \in 0..Len(sentences'),
                      NEW i \in 1..Len(Out(m)'), NEW j \in 1..Len(Out(n)'),
                      m < n \/ (m = n /\ i < j),
                      deltas[Out(m)'[i]].session = deltas[Out(n)'[j]].session
               PROVE  Out(m)'[i] < Out(n)'[j]
    BY <1>1 DEF SpokenOrder
  <2> PICK N \in Nat : N = Len(sentences)
    OBVIOUS
  <2>1. CASE n \in 0..N
    <3>0. Len(sentences') \in Nat /\ m \in 0..Len(sentences') /\ (m < n \/ m = n)
      BY <1>1
    <3>1. m \in 0..N
      BY ONLY <2>1, <3>0, N \in Nat
    <3>2. Out(m)' = Out(m) /\ Out(n)' = Out(n) /\ deltas' = deltas
      BY <1>1, <2>1, <3>1
    <3>3. PICK M \in Nat, K \in Nat : M = m /\ K = n
      BY <2>1, <3>1
    <3>4. /\ M \in 0..Len(sentences) /\ K \in 0..Len(sentences)
          /\ i \in 1..Len(Out(M)) /\ j \in 1..Len(Out(K))
          /\ M < K \/ (M = K /\ i < j)
          /\ deltas[Out(M)[i]].session = deltas[Out(K)[j]].session
      BY <2>1, <3>1, <3>2, <3>3
    <3>5. Out(M)[i] < Out(K)[j]
      BY <3>4 DEF OutOrder, SpokenOrder
    <3> QED BY <3>2, <3>3, <3>5
  <2>2. CASE n - N \in 1..Len(added) /\ Out(n)' = parts[n - N]
    <3>1. n - N \in 1..Len(parts)
      BY <1>1, <2>2
    <3>2. Out(n)'[j] \in TextsOf(o)
      <4>1. Out(n)'[j] \in IdsOf(parts[n - N])
        BY <2>2 DEF IdsOf
      <4> QED BY <1>1, <1>3, <3>1, <4>1, PartIds
    <3>3. CASE m \in 0..N
      <4>1. Out(m)' = Out(m)
        BY <3>3
      <4>2. Out(m)[i] \in Gone
        BY <3>3, <4>1, OutIds DEF Gone
      <4>3. PICK x, y : x = Out(m)[i] /\ y = Out(n)'[j]
        OBVIOUS
      <4>4. x \in Gone /\ y \in TextsOf(o) /\ deltas[x].session = deltas[y].session
        BY <1>1, <3>2, <4>1, <4>2, <4>3
      <4>5. deltas[y].session = SessionOf(o)
        BY <1>4, <4>4
      <4>6. x < y
        BY <1>1, <1>3, <4>4, <4>5 DEF OutOrder
      <4> QED BY <4>1, <4>3, <4>6
    <3>4. CASE m - N \in 1..Len(added) /\ Out(m)' = parts[m - N]
      <4>0. m - N \in 1..Len(parts)
        BY <1>1, <3>4
      <4> PICK a \in 1..Len(parts), b \in 1..Len(parts) : a = m - N /\ b = n - N
        BY <3>1, <4>0
      <4>1. a < b \/ (a = b /\ i < j)
        OBVIOUS
      <4>2. /\ Sorted(text) /\ Len(text) \in Nat
            /\ \A q \in 1..Len(parts) : Len(parts[q]) \in Nat
        <5>1. ASSUME NEW q \in 1..Len(parts)
              PROVE  Len(parts[q]) \in Nat
          <6>1. parts[q] \in Seq(Ids)
            BY <1>1, ElementIn
          <6> QED BY <6>1, SMTT(20)
        <5> QED BY <1>1, <5>1, SMTT(20) DEF TextOrder
      <4>3. i \in 1..Len(parts[a]) /\ j \in 1..Len(parts[b]) /\ Out(m)' = parts[a] /\ Out(n)' = parts[b]
        BY <2>2, <3>4
      <4>4. parts[a][i] < parts[b][j]
        BY <1>1, <4>1, <4>2, <4>3, CutsSorted
      <4> QED BY <4>3, <4>4
    <3> QED BY <3>3, <3>4
  <2> QED BY <2>1, <2>2
<1>6. (Gone \subseteq Offered)'
  <2>1. shipped \subseteq Offered
    BY <1>3, <1>4
  <2> QED BY <1>3, <1>10, <2>1 DEF OutOrder
<1>7. (\A x \in Gone, y \in IdsOf(input) : x < y)'
  <2>1. \A x \in shipped, y \in IdsOf(input) : x < y
    <3> TAKE x \in shipped, y \in IdsOf(input)
    <3>1. x \in Nat /\ y \in Nat /\ x <= state[o].sequence /\ state[o].sequence < y
      BY <1>3, <1>4
    <3> QED BY <1>4, <3>1
  <2>2. \A x \in Gone', y \in IdsOf(input) : x < y
    BY <1>10, <2>1 DEF OutOrder
  <2> QED BY <1>1, <2>2 DEF IdsOf
<1>8. ASSUME NEW p \in Objects, Live(p)', NEW x \in Gone', NEW y \in TextsOf(p)',
             deltas[x].session = SessionOf(p)'
      PROVE  x < y
  <2>1. SessionOf(p)' = SessionOf(p) /\ y \in TextsOf(p) /\ p \in Mapped \cup IdsOf(stateQueue)
    BY <1>2, <1>3, <1>8 DEF SessionsKept
  <2>2. CASE x \in Gone
    BY <1>8, <2>1, <2>2 DEF OutOrder, Live
  <2>3. CASE x \in shipped
    <3>1. SessionOf(p) = SessionOf(o) /\ x <= state[o].sequence /\ x \in Nat
      BY <1>3, <1>4, <1>8, <2>1, <2>3
    <3>2. o <= p /\ o \in Nat /\ p \in Nat
      <4>1. o <= p
        BY <1>1, <1>3, <2>1, <3>1 DEF QueueOrder
      <4> QED BY <1>1, <4>1, ObjectFacts
    <3>3. CASE p = o
      BY <1>3, <1>8, <2>3, <3>3
    <3>4. CASE o < p
      <4>1. state[o].sequence < y
        BY <1>1, <2>1, <3>1, <3>4 DEF TextOrder, Aged
      <4>2. y \in Nat
        BY <1>4, <2>1, ObjectFacts
      <4> QED BY <1>4, <3>1, <4>1, <4>2
    <3> QED BY <3>2, <3>3, <3>4
  <2> QED BY <1>8, <1>10, <2>2, <2>3
<1>9. (\A p \in Objects : Live(p) =>
         \A x \in Gone, y \in TextsOf(p) : deltas[x].session = SessionOf(p) => x < y)'
  BY <1>1, <1>3, <1>8
<1> QED BY <1>5, <1>6, <1>7, <1>9 DEF OutOrder

-----------------------------------------------------------------------------
(* What a step of the push loop does: the oldest sentence joins the text that *)
(* was pushed, or is lost.                                                   *)
PushDoes(text, gone) ==
    /\ sentences \in Seq(Sentence) /\ sentences # <<>> /\ sentences' = Tail(sentences)
    /\ text = sentences[1].text /\ text \in Seq(Ids) /\ pushed \in Seq(Ids)
    /\ \/ pushed' = pushed \o text /\ gone = {}
       \/ pushed' = pushed /\ gone = IdsOf(text)
    /\ lost' = lost \cup gone
    /\ UNCHANGED <<deltas, segment, input, stateByKey, state, created, stateQueue, flush>>

LEMMA PushEffect ==
    ASSUME IInv, Push \/ PushFails
    PROVE  \E text, gone : PushDoes(text, gone)
<1> PICK text : text = sentences[1].text
  OBVIOUS
<1>1. /\ sentences \in Seq(Sentence) /\ pushed \in Seq(Ids) /\ sentences # <<>>
      /\ sentences' = Tail(sentences)
      /\ UNCHANGED <<deltas, segment, input, stateByKey, state, created, stateQueue, flush>>
  BY DEF Push, PushFails, IInv, TypeOK
<1>2. text \in Seq(Ids) /\ Head(sentences).text = text
  <2>1. sentences[1] \in Sentence /\ Head(sentences) = sentences[1]
    BY <1>1
  <2> QED BY <2>1 DEF Sentence
<1>3. CASE Push
  <2>1. pushed' = pushed \o text /\ lost' = lost \cup {}
    BY <1>2, <1>3 DEF Push
  <2> QED BY <1>1, <1>2, <2>1 DEF PushDoes
<1>4. CASE PushFails
  <2>1. pushed' = pushed /\ lost' = lost \cup IdsOf(text)
    BY <1>2, <1>4 DEF PushFails
  <2> QED BY <1>1, <1>2, <2>1 DEF PushDoes
<1> QED BY <1>3, <1>4

(* Every place of the text that has left was one before, in the same order.  *)
LEMMA PushPlaces ==
    ASSUME NEW text, NEW gone, PushDoes(text, gone),
           NEW m \in 0..Len(sentences'), NEW i \in 1..Len(Out(m)')
    PROVE  \E n \in 0..Len(sentences) : \E j \in 1..Len(Out(n)) :
             /\ Out(m)'[i] = Out(n)[j]
             /\ \/ m = 0 /\ n = 0 /\ i = j
                \/ m = 0 /\ n = 1 /\ i = Len(pushed) + j /\ gone = {}
                \/ m > 0 /\ n = m + 1 /\ i = j
<1>1. /\ sentences \in Seq(Sentence) /\ sentences # <<>> /\ sentences' = Tail(sentences)
      /\ text = sentences[1].text /\ text \in Seq(Ids) /\ pushed \in Seq(Ids)
      /\ \/ pushed' = pushed \o text /\ gone = {}
         \/ pushed' = pushed
  BY DEF PushDoes
<1> PICK N \in Nat : N = Len(sentences) /\ N >= 1
  BY <1>1
<1> PICK r : r = sentences'
  OBVIOUS
<1>2. Len(r) = N - 1 /\ \A q \in 1..Len(r) : q + 1 \in 1..N /\ r[q] = sentences[q + 1]
  BY <1>1, TailFacts
<1>3. CASE m > 0
  <2>1. Out(m)' = r[m].text /\ r[m] = sentences[m + 1] /\ m + 1 \in 0..N /\ m + 1 # 0
    BY <1>2, <1>3 DEF Out
  <2>2. Out(m + 1) = Out(m)'
    BY <2>1 DEF Out
  <2> QED BY <1>3, <2>1, <2>2
<1>4. CASE m = 0 /\ pushed' = pushed
  <2>1. Out(m)' = pushed /\ Out(0) = pushed
    BY <1>4 DEF Out
  <2> QED BY <1>4, <2>1
<1>5. CASE m = 0 /\ pushed' = pushed \o text /\ gone = {}
  <2>1. Out(m)' = pushed \o text /\ Out(0) = pushed /\ Out(1) = text /\ 0 \in 0..N /\ 1 \in 0..N
    BY <1>1, <1>5 DEF Out
  <2>2. /\ Len(pushed) \in Nat
        /\ \A q \in 1..Len(pushed) : (pushed \o text)[q] = pushed[q]
        /\ \/ i \in 1..Len(pushed)
           \/ i - Len(pushed) \in 1..Len(text) /\ (pushed \o text)[i] = text[i - Len(pushed)]
    BY <1>1, <2>1, JoinFacts
  <2>3. CASE i \in 1..Len(pushed)
    BY <1>5, <2>1, <2>2, <2>3
  <2>4. CASE i - Len(pushed) \in 1..Len(text) /\ (pushed \o text)[i] = text[i - Len(pushed)]
    <3> PICK j \in 1..Len(text) : j = i - Len(pushed)
      BY <2>4
    <3>1. i = Len(pushed) + j
      BY <2>2
    <3>2. Out(m)'[i] = Out(1)[j] /\ j \in 1..Len(Out(1))
      BY <2>1, <2>4
    <3> QED BY <1>5, <2>1, <3>1, <3>2
  <2> QED BY <2>2, <2>3, <2>4
<1>6. m = 0 \/ m > 0
  BY <1>2
<1> QED BY <1>1, <1>3, <1>4, <1>5, <1>6

(* Each delta has left once.                                                *)
LEMMA OutDistinct ==
    ASSUME OutOrder, NEW m \in 0..Len(sentences), NEW n \in 0..Len(sentences), Len(sentences) \in Nat,
           NEW i \in 1..Len(Out(m)), NEW j \in 1..Len(Out(n)), Out(m)[i] = Out(n)[j]
    PROVE  m = n /\ i = j
<1>1. Out(m)[i] \in Nat /\ Out(n)[j] \in Nat
  <2>1. Out(m)[i] \in Spoken /\ Out(n)[j] \in Spoken
    BY OutIds
  <2>2. Spoken \subseteq Nat
    BY DEF OutOrder, Offered, Gone
  <2> QED BY <2>1, <2>2
<1>2. ~(Out(m)[i] < Out(n)[j]) /\ ~(Out(n)[j] < Out(m)[i])
  BY <1>1
<1>3. ~(m < n \/ (m = n /\ i < j))
  BY <1>2 DEF OutOrder, SpokenOrder
<1>4. ~(n < m \/ (n = m /\ j < i))
  BY <1>2 DEF OutOrder, SpokenOrder
<1>5. m = n
  BY <1>3, <1>4
<1>6. i \in Nat /\ j \in Nat
  OBVIOUS
<1> QED BY <1>3, <1>4, <1>5, <1>6

LEMMA PushSpoken ==
    ASSUME OutOrder, NEW text, NEW gone, PushDoes(text, gone)
    PROVE  /\ Spoken' \cup gone = Spoken /\ Spoken' \cap gone = {}
           /\ Len(sentences) \in Nat /\ Len(sentences') = Len(sentences) - 1
<1>1. /\ sentences \in Seq(Sentence) /\ sentences # <<>> /\ sentences' = Tail(sentences)
      /\ text = sentences[1].text /\ text \in Seq(Ids) /\ pushed \in Seq(Ids)
      /\ \/ pushed' = pushed \o text /\ gone = {}
         \/ pushed' = pushed /\ gone = IdsOf(text)
  BY DEF PushDoes
<1> PICK N \in Nat : N = Len(sentences) /\ N >= 1
  BY <1>1
<1> PICK r : r = sentences'
  OBVIOUS
<1>2. Len(r) = N - 1 /\ \A q \in 1..Len(r) : r[q] = sentences[q + 1]
  BY <1>1, TailFacts
<1>3. Out(1) = text /\ Out(0) = pushed /\ 0 \in 0..N /\ 1 \in 0..N
  BY <1>1 DEF Out
<1>4. Spoken' = UNION {IdsOf(Out(m)') : m \in 0..Len(r)}
  BY DEF Spoken, IdsOf
<1>5. ASSUME NEW x \in Spoken'
      PROVE  \E n \in 0..N : \E j \in 1..Len(Out(n)) : x = Out(n)[j] /\ (n = 1 => gone = {})
  <2> PICK m \in 0..Len(sentences') : x \in IdsOf(Out(m)')
    BY <1>4, <1>5
  <2>1. PICK i \in 1..Len(Out(m)') : x = Out(m)'[i]
    BY DEF IdsOf
  <2>2. PICK n \in 0..N : \E j \in 1..Len(Out(n)) :
          /\ Out(m)'[i] = Out(n)[j]
          /\ \/ m = 0 /\ n = 0 /\ i = j
             \/ m = 0 /\ n = 1 /\ i = Len(pushed) + j /\ gone = {}
             \/ m > 0 /\ n = m + 1 /\ i = j
    BY <2>1, PushPlaces
  <2>3. n = 1 => gone = {}
    BY <1>2, <2>2
  <2> QED BY <2>1, <2>2, <2>3
<1>6. Spoken' \subseteq Spoken
  BY <1>5, OutIds
<1>7. gone \subseteq Spoken
  BY <1>1, <1>3 DEF Spoken
<1>8. ASSUME NEW x \in Spoken
      PROVE  x \in Spoken' \cup gone
  <2>1. PICK n \in 0..N : x \in IdsOf(Out(n))
    BY <1>8 DEF Spoken
  <2>2. IdsOf(pushed) \subseteq IdsOf(pushed') /\ IdsOf(text) \subseteq IdsOf(pushed') \cup gone
    <3>1. CASE pushed' = pushed \o text
      <4>1. IdsOf(pushed \o text) = IdsOf(pushed) \cup IdsOf(text)
        BY <1>1, JoinIds
      <4>2. IdsOf(pushed') = IdsOf(pushed \o text)
        BY <3>1
      <4> QED BY <4>1, <4>2
    <3>2. CASE pushed' = pushed /\ gone = IdsOf(text)
      BY <3>2
    <3> QED BY <1>1, <3>1, <3>2
  <2>3. IdsOf(pushed') \subseteq Spoken'
    <3>1. Out(0)' = pushed' /\ 0 \in 0..Len(r)
      BY <1>2 DEF Out
    <3> QED BY <1>4, <3>1
  <2>4. CASE n = 0
    BY <1>3, <2>1, <2>2, <2>3, <2>4
  <2>5. CASE n = 1
    BY <1>3, <2>1, <2>2, <2>3, <2>5
  <2>6. CASE n > 1
    <3> PICK m \in 1..Len(r) : m = n - 1
      BY <1>2, <2>6
    <3>1. Out(m)' = r[m].text /\ r[m] = sentences[n]
      BY <1>2 DEF Out
    <3>2. Out(m)' = Out(n) /\ m \in 0..Len(r)
      BY <2>6, <3>1 DEF Out
    <3> QED BY <1>4, <2>1, <3>2
  <2> QED BY <2>4, <2>5, <2>6
<1>9. ASSUME NEW x \in Spoken', x \in gone
      PROVE  FALSE
  <2>1. PICK n \in 0..N : \E j \in 1..Len(Out(n)) : x = Out(n)[j] /\ (n = 1 => gone = {})
    BY <1>5, <1>9
  <2>2. x \in IdsOf(Out(1))
    BY <1>1, <1>3, <1>9
  <2>3. PICK k \in 1..Len(Out(1)) : x = Out(1)[k]
    BY <2>2 DEF IdsOf
  <2>4. n = 1
    BY <1>3, <2>1, <2>3, OutDistinct, ZenonT(40)
  <2> QED BY <1>9, <2>1, <2>4
<1> QED BY <1>2, <1>6, <1>7, <1>8, <1>9

LEMMA OutPush ==
    ASSUME OrderInv, NEW text, NEW gone, PushDoes(text, gone)
    PROVE  OutOrder'
<1>1. UNCHANGED <<deltas, input, state, created, stateByKey, stateQueue, flush>>
  BY DEF PushDoes
<1>2. Gone' = Gone /\ Len(sentences) \in Nat /\ Len(sentences') = Len(sentences) - 1
  <2>1. /\ Spoken' \cup gone = Spoken
        /\ Len(sentences) \in Nat /\ Len(sentences') = Len(sentences) - 1
    BY PushSpoken DEF OrderInv
  <2>2. lost' = lost \cup gone
    BY DEF PushDoes
  <2> QED BY <2>1, <2>2 DEF Gone
<1>3. SpokenOrder'
  <2> SUFFICES ASSUME NEW m \in 0..Len(sentences'), NEW n \in 0..Len(sentences'),
                      NEW i \in 1..Len(Out(m)'), NEW j \in 1..Len(Out(n)'),
                      m < n \/ (m = n /\ i < j),
                      deltas[Out(m)'[i]].session = deltas[Out(n)'[j]].session
               PROVE  Out(m)'[i] < Out(n)'[j]
    BY <1>1 DEF SpokenOrder
  <2> PICK a \in 0..Len(sentences) : \E p \in 1..Len(Out(a)) :
          /\ Out(m)'[i] = Out(a)[p]
          /\ \/ m = 0 /\ a = 0 /\ i = p
             \/ m = 0 /\ a = 1 /\ i = Len(pushed) + p /\ gone = {}
             \/ m > 0 /\ a = m + 1 /\ i = p
    BY PushPlaces, SMTT(40)
  <2>1. PICK p \in 1..Len(Out(a)) :
          /\ Out(m)'[i] = Out(a)[p]
          /\ \/ m = 0 /\ a = 0 /\ i = p
             \/ m = 0 /\ a = 1 /\ i = Len(pushed) + p /\ gone = {}
             \/ m > 0 /\ a = m + 1 /\ i = p
    OBVIOUS
  <2> PICK b \in 0..Len(sentences) : \E q \in 1..Len(Out(b)) :
          /\ Out(n)'[j] = Out(b)[q]
          /\ \/ n = 0 /\ b = 0 /\ j = q
             \/ n = 0 /\ b = 1 /\ j = Len(pushed) + q /\ gone = {}
             \/ n > 0 /\ b = n + 1 /\ j = q
    BY PushPlaces, SMTT(40)
  <2>2. PICK q \in 1..Len(Out(b)) :
          /\ Out(n)'[j] = Out(b)[q]
          /\ \/ n = 0 /\ b = 0 /\ j = q
             \/ n = 0 /\ b = 1 /\ j = Len(pushed) + q /\ gone = {}
             \/ n > 0 /\ b = n + 1 /\ j = q
    OBVIOUS
  <2>3. Len(pushed) \in Nat /\ Out(0) = pushed
    BY DEF PushDoes, Out
  <2>4. a < b \/ (a = b /\ p < q)
    <3> PICK k \in Nat : k = Len(pushed)
      BY <2>3
    <3>1. m \in Nat /\ n \in Nat /\ p \in Nat /\ q \in Nat /\ 1 <= p /\ 1 <= q
      BY <1>2
    <3>2. a = 0 => p <= k
      BY <2>3
    <3>3. b = 0 => q <= k
      BY <2>3
    <3>4. \/ m = 0 /\ a = 0 /\ i = p
          \/ m = 0 /\ a = 1 /\ i = k + p
          \/ m > 0 /\ a = m + 1 /\ i = p
      BY <2>1
    <3>5. \/ n = 0 /\ b = 0 /\ j = q
          \/ n = 0 /\ b = 1 /\ j = k + q
          \/ n > 0 /\ b = n + 1 /\ j = q
      BY <2>2
    <3>6. CASE m < n
      BY ONLY <3>1, <3>4, <3>5, <3>6, k \in Nat
    <3>7. CASE m = n /\ i < j
      BY ONLY <3>1, <3>2, <3>3, <3>4, <3>5, <3>7, k \in Nat
    <3> QED BY <3>6, <3>7
  <2> QED BY <2>1, <2>2, <2>4, SMTT(40) DEF OrderInv, OutOrder, SpokenOrder
<1>4. /\ \A p : Live(p)' <=> Live(p)
      /\ \A p \in Objects : TextsOf(p)' = TextsOf(p) /\ SessionOf(p)' = SessionOf(p)
      /\ Objects' = Objects /\ Offered' = Offered
  BY <1>1 DEF Live, Splitting, Mapped, IdsOf, TextsOf, SessionOf, Objects, Offered
<1>5. (Gone \subseteq Offered)'
  BY <1>2, <1>4 DEF OrderInv, OutOrder
<1>6. (\A x \in Gone, y \in IdsOf(input) : x < y)'
  <2>1. \A x \in Gone', y \in IdsOf(input) : x < y
    BY <1>2 DEF OrderInv, OutOrder
  <2> QED BY <1>1, <2>1 DEF IdsOf
<1>7. (\A p \in Objects : Live(p) =>
         \A x \in Gone, y \in TextsOf(p) : deltas[x].session = SessionOf(p) => x < y)'
  <2>1. ASSUME NEW p \in Objects, Live(p)', NEW x \in Gone', NEW y \in TextsOf(p)',
               deltas'[x].session = SessionOf(p)'
        PROVE  x < y
    <3>1. Live(p) /\ x \in Gone /\ y \in TextsOf(p) /\ deltas[x].session = SessionOf(p)
      BY <1>1, <1>2, <1>4, <2>1
    <3> QED BY <3>1 DEF OrderInv, OutOrder
  <2> QED BY <1>4, <2>1
<1> QED BY <1>3, <1>5, <1>6, <1>7 DEF OutOrder

-----------------------------------------------------------------------------
(* What the sweeper and the end of a session do: some of the mapped objects  *)
(* are queued, and some leave the map.                                       *)
ForceDoes(full) ==
    /\ full \subseteq Mapped /\ Mapped' \subseteq Mapped
    /\ \E forced \in InOrder(full) : stateQueue' = stateQueue \o forced
    /\ IdsOf(stateQueue') \subseteq IdsOf(stateQueue) \cup Mapped
    /\ UNCHANGED <<deltas, segment, input, created, flush, sentences, pushed, lost, failures>>
    /\ \A o \in Ids : state'[o].buffer = state[o].buffer /\ state'[o].sequence = state[o].sequence

LEMMA ForceEffect ==
    ASSUME IInv, NEW full, full \subseteq Mapped, NEW forced \in InOrder(full),
           state' = Forced(full), stateQueue' = stateQueue \o forced, Mapped' \subseteq Mapped,
           UNCHANGED <<deltas, segment, input, created, flush, sentences, pushed, lost, failures>>
    PROVE  ForceDoes(full)
<1>1. state \in [Ids -> Record] /\ Mapped \subseteq Objects /\ Objects \subseteq Ids /\ Ids \subseteq Nat
  BY NumberFacts DEF IInv
<1>2. \A o \in Ids : state'[o].buffer = state[o].buffer /\ state'[o].sequence = state[o].sequence
  BY <1>1, ForcedFacts
<1>3. forced \in Seq(full) /\ IdsOf(forced) = full
  <2>1. IsFiniteSet(Objects)
    BY NumberFacts, FS_Interval DEF IInv, Objects
  <2>2. IsFiniteSet(full)
    BY <1>1, <2>1, FS_Subset
  <2>3. full \subseteq Nat
    BY <1>1
  <2> QED BY <2>2, <2>3, OrderFacts
<1>4. IdsOf(stateQueue') \subseteq IdsOf(stateQueue) \cup Mapped
  <2>1. stateQueue \in Seq(Objects)
    BY QueueFacts
  <2>2. full \subseteq Objects
    BY <1>1
  <2>3. forced \in Seq(Objects)
    BY <1>3, <2>2, SeqGrows
  <2>4. IdsOf(stateQueue \o forced) = IdsOf(stateQueue) \cup IdsOf(forced)
    BY <2>1, <2>3, JoinIds
  <2>5. IdsOf(stateQueue') = IdsOf(stateQueue \o forced)
    OBVIOUS
  <2> QED BY <1>3, <2>4, <2>5
<1> QED BY <1>2, <1>4 DEF ForceDoes

LEMMA SweepEffect ==
    ASSUME IInv, NEW due, Sweep(due)
    PROVE  ForceDoes(due)
<1>1. PICK forced \in InOrder(due) : stateQueue' = stateQueue \o forced
  BY DEF Sweep
<1>2. /\ due \subseteq Mapped /\ state' = Forced(due)
      /\ UNCHANGED <<deltas, segment, input, stateByKey, created, flush, sentences, pushed, lost,
                     failures>>
  BY DEF Sweep, WithText
<1>3. Mapped' \subseteq Mapped
  BY <1>2 DEF Mapped
<1> QED BY <1>1, <1>2, <1>3, ForceEffect

LEMMA CloseEffect ==
    ASSUME IInv, NEW s, CloseSession(s)
    PROVE  \E full : ForceDoes(full)
<1> PICK keys : keys = {k \in Keys : k[1] = s /\ stateByKey[k] # 0}
  OBVIOUS
<1> PICK full : full = WithText(ObjectsOf(keys))
  OBVIOUS
<1>1. /\ stateByKey' = [k \in Keys |-> IF k \in keys THEN 0 ELSE stateByKey[k]]
      /\ state' = Forced(full)
      /\ \E forced \in InOrder(full) : stateQueue' = stateQueue \o forced
      /\ UNCHANGED <<deltas, segment, input, created, flush, sentences, pushed, lost, failures>>
  BY DEF CloseSession
<1>2. PICK forced \in InOrder(full) : stateQueue' = stateQueue \o forced
  BY <1>1
<1>3. full \subseteq Mapped
  BY DEF ObjectsOf, Mapped, WithText
<1>4. Mapped' \subseteq Mapped
  BY <1>1 DEF Mapped
<1>5. ForceDoes(full)
  BY <1>1, <1>2, <1>3, <1>4, ForceEffect
<1> QED BY <1>5

LEMMA ForceOrder ==
    ASSUME IInv, OrderInv, NEW full, ForceDoes(full)
    PROVE  OrderInv' /\ \A o \in Objects : TextsOf(o)' = TextsOf(o)
<1>1. /\ full \subseteq Mapped /\ Mapped' \subseteq Mapped
      /\ IdsOf(stateQueue') \subseteq IdsOf(stateQueue) \cup Mapped
      /\ UNCHANGED <<deltas, input, created, flush, sentences, pushed, lost>>
      /\ \A o \in Objects : state'[o].buffer = state[o].buffer /\ state'[o].sequence = state[o].sequence
  <2>1. Objects \subseteq Ids
    BY NumberFacts DEF IInv
  <2> QED BY <2>1 DEF ForceDoes
<1>2. SequencesKept /\ SessionsKept
  BY <1>1 DEF SequencesKept, SessionsKept, SessionOf, Objects
<1>3. \A o \in Objects : TextsOf(o)' = TextsOf(o) /\ (Splitting(o)' => Splitting(o))
  BY <1>1 DEF TextsOf, Splitting
<1>4. QueueOrder'
  <2>1. \A o : Splitting(o)' => Splitting(o)
    BY <1>1 DEF Splitting
  <2>2. PICK forced \in InOrder(full) : stateQueue' = stateQueue \o forced
    BY DEF ForceDoes
  <2> QED BY <1>1, <1>2, <2>1, <2>2, QueueForced DEF OrderInv
<1>5. TextOrder'
  BY <1>1, <1>2, TextFrame DEF OrderInv
<1>6. OutOrder'
  BY <1>1, <1>2, OutForced DEF OrderInv
<1> QED BY <1>3, <1>4, <1>5, <1>6 DEF OrderInv

-----------------------------------------------------------------------------
(* What the offer of a delta does.                                          *)
OfferDoes(L) ==
    /\ L = Len(deltas) + 1 /\ L \in Nat /\ Len(deltas) \in Nat /\ Len(deltas') = L
    /\ \A d \in Offered : d \in Offered' /\ deltas'[d] = deltas[d] /\ d < L
    /\ Offered' = Offered \cup {L} /\ L \notin Offered
    /\ IdsOf(input') = IdsOf(input) \cup {L}
    /\ UNCHANGED <<stateByKey, state, created, stateQueue, flush, sentences, pushed, lost>>

LEMMA OfferEffect ==
    ASSUME IInv, NEW s \in Sessions, Offer(s)
    PROVE  \E L : OfferDoes(L)
<1> PICK n \in Nat : n = Len(deltas)
  BY NumberFacts DEF IInv
<1> PICK L \in Nat : L = n + 1
  OBVIOUS
<1> PICK seg \in Segments : deltas' = Append(deltas, [session |-> s, segment |-> seg])
  BY DEF Offer
<1>1. /\ input' = Append(input, L)
      /\ UNCHANGED <<stateByKey, state, created, stateQueue, flush, sentences, pushed, lost>>
      /\ n < MaxDeltas
  BY DEF Offer
<1>2. Len(deltas') = L /\ \A d \in 1..n : deltas'[d] = deltas[d]
  <2>1. [session |-> s, segment |-> seg] \in [session : Sessions, segment : Segments]
    OBVIOUS
  <2>2. deltas \in Seq([session : Sessions, segment : Segments])
    BY DEF IInv, TypeOK
  <2> QED BY <2>1, <2>2
<1>3. Offered = 1..n /\ Offered' = 1..L
  BY <1>2 DEF Offered
<1>4. IdsOf(input') = IdsOf(input) \cup {L}
  <2> PICK q \in Seq(Ids) : q = input
    BY DEF IInv, TypeOK
  <2>1. L \in Ids
    BY <1>1, SeparatorAssumption DEF Ids
  <2>2. Append(q, L) = q \o <<L>>
    BY <2>1, AppendIsConcat
  <2> PICK one \in Seq(Ids) : one = <<L>>
    <3>1. <<L>> \in Seq(Ids)
      BY <2>1
    <3> QED BY <3>1
  <2>3. IdsOf(q \o one) = IdsOf(q) \cup IdsOf(one)
    BY ONLY JoinIds, q \in Seq(Ids), one \in Seq(Ids)
  <2>4. IdsOf(one) = {L}
    BY DEF IdsOf
  <2>5. IdsOf(input') = IdsOf(q \o one)
    BY <1>1, <2>2
  <2> QED BY <2>3, <2>4, <2>5
<1>5. \A d \in 1..n : d \in 1..L /\ d < L
  OBVIOUS
<1>6. 1..L = (1..n) \cup {L} /\ L \notin 1..n
  OBVIOUS
<1>7. OfferDoes(L)
  BY <1>1, <1>2, <1>3, <1>4, <1>5, <1>6 DEF OfferDoes
<1> QED BY <1>7

LEMMA OfferOrder ==
    ASSUME IInv, OrderInv, NEW L, OfferDoes(L)
    PROVE  OrderInv' /\ \A o \in Objects : TextsOf(o)' = TextsOf(o)
<1>1. /\ \A d \in Offered : d \in Offered' /\ deltas'[d] = deltas[d] /\ d < L
      /\ IdsOf(input') = IdsOf(input) \cup {L}
      /\ UNCHANGED <<stateByKey, state, created, stateQueue, flush, sentences, pushed, lost>>
  BY DEF OfferDoes
<1>2. SequencesKept /\ SessionsKept
  <2>1. ASSUME NEW o \in Objects
        PROVE  o \in Objects' /\ SessionOf(o)' = SessionOf(o)
    <3> PICK d : d = state[o].sequence
      OBVIOUS
    <3>1. d \in Offered
      BY ObjectFacts
    <3>2. SessionOf(o)' = deltas'[d].session /\ SessionOf(o) = deltas[d].session
      BY <1>1 DEF SessionOf
    <3>3. Objects' = Objects
      BY <1>1 DEF Objects
    <3> QED BY <1>1, <3>1, <3>2, <3>3
  <2> QED BY <1>1, <2>1 DEF SequencesKept, SessionsKept
<1>3. /\ \A o : Splitting(o)' <=> Splitting(o)
      /\ \A o \in Objects : TextsOf(o)' = TextsOf(o)
      /\ \A o : Live(o)' <=> Live(o)
      /\ Mapped' = Mapped /\ Objects' = Objects
  BY <1>1 DEF TextsOf, Splitting, Live, Mapped, Objects, IdsOf
<1>4. QueueOrder'
  BY <1>1, <1>2, <1>3, QueueFrame DEF OrderInv
<1>5. TextOrder'
  BY <1>1, <1>2, TextFrame DEF OrderInv
<1>6. OutOrder'
  <2>1. \A x \in Offered, y \in IdsOf(input') : x < y \/ y \in IdsOf(input)
    BY <1>1
  <2>2. \A o \in Objects' : Live(o)' => \A y \in TextsOf(o)' :
          o \in Objects /\ Live(o) /\ y \in TextsOf(o) /\ SessionOf(o)' = SessionOf(o)
    BY <1>2, <1>3 DEF SessionsKept
  <2> QED BY <1>1, <2>1, <2>2, OutFrame DEF OrderInv
<1> QED BY <1>3, <1>4, <1>5, <1>6 DEF OrderInv

-----------------------------------------------------------------------------
(* The steps that move text, and the order.                                  *)
LEMMA TakeOrder ==
    ASSUME IInv, OrderInv, NEW o, TakeDoes(o)
    PROVE  OrderInv'
BY QueueTake, TextTake, OutTake DEF OrderInv

LEMMA StoreOrder ==
    ASSUME IInv, OrderInv, NEW d, NEW key, NEW stale, NEW full, NEW obj,
           StoreDoes(d, key, stale, full, obj)
    PROVE  OrderInv'
BY QueueStore, TextStore, OutStore DEF OrderInv

LEMMA FailOrder ==
    ASSUME IInv, OrderInv, NEW o, NEW text, NEW buf, FailDoes(o, text, buf)
    PROVE  OrderInv'
<1>1. /\ stateQueue' = stateQueue /\ created' = created /\ Mapped' = Mapped
      /\ \A p : Splitting(p)' => Splitting(p)
  BY DEF FailDoes, Mapped, Splitting
<1>2. SessionsKept
  BY TextFail DEF OrderInv
<1>3. QueueOrder'
  BY <1>1, <1>2, QueueFrame DEF OrderInv
<1> QED BY <1>3, TextFail, OutFail DEF OrderInv

LEMMA SplitOrder ==
    ASSUME IInv, OrderInv, NEW o, NEW text, NEW parts, NEW start, NEW added, NEW buf,
           SplitDoes(o, text, parts, start, added, buf)
    PROVE  OrderInv'
<1>1. /\ stateQueue' = stateQueue /\ created' = created /\ Mapped' = Mapped
      /\ \A p : Splitting(p)' => Splitting(p)
  BY DEF SplitDoes, Mapped, Splitting
<1>2. SessionsKept /\ TextOrder'
  BY TextSplit DEF OrderInv
<1>3. QueueOrder'
  BY <1>1, <1>2, QueueFrame DEF OrderInv
<1>4. OutOrder'
  BY OutSplit
<1> QED BY <1>2, <1>3, <1>4 DEF OrderInv

LEMMA PushOrder ==
    ASSUME IInv, OrderInv, NEW text, NEW gone, PushDoes(text, gone)
    PROVE  OrderInv'
<1>1. UNCHANGED <<deltas, state, created, stateByKey, stateQueue, flush>>
  BY DEF PushDoes
<1>2. /\ SequencesKept /\ SessionsKept /\ Mapped' = Mapped
      /\ \A p : Splitting(p)' => Splitting(p)
  BY <1>1 DEF SequencesKept, SessionsKept, SessionOf, Objects, Mapped, Splitting
<1>3. QueueOrder'
  BY <1>1, <1>2, QueueFrame DEF OrderInv
<1>4. TextOrder'
  BY <1>1, <1>2, TextFrame DEF OrderInv
<1>5. OutOrder'
  BY OutPush
<1> QED BY <1>3, <1>4, <1>5 DEF OrderInv

LEMMA StutterOrder ==
    ASSUME IInv, OrderInv, UNCHANGED vars
    PROVE  OrderInv' /\ \A o \in Objects : TextsOf(o)' = TextsOf(o)
<1>1. /\ UNCHANGED <<deltas, segment, input, stateByKey, state, created, stateQueue>>
      /\ UNCHANGED <<flush, sentences, pushed, lost, failures, disturbed>>
  BY DEF vars
<1>2. /\ SequencesKept /\ SessionsKept /\ Mapped' = Mapped
      /\ \A p : (Splitting(p)' <=> Splitting(p)) /\ (Live(p)' <=> Live(p))
      /\ \A o \in Objects : TextsOf(o)' = TextsOf(o)
  BY <1>1 DEF SequencesKept, SessionsKept, SessionOf, Objects, Mapped, Splitting, TextsOf, Live, IdsOf
<1>3. QueueOrder'
  BY <1>1, <1>2, QueueFrame DEF OrderInv
<1>4. TextOrder'
  BY <1>1, <1>2, TextFrame DEF OrderInv
<1>5. OutOrder'
  BY <1>1, <1>2, OutKept DEF OrderInv
<1> QED BY <1>2, <1>3, <1>4, <1>5 DEF OrderInv

-----------------------------------------------------------------------------
(* Where the deltas are.                                                    *)
Buffered == UNION {TextsOf(o) : o \in Objects}
Held == IdsOf(input) \cup Spoken \cup Buffered

(* What was offered is held, unless its push failed, and what has left is no *)
(* longer in an object, whether or not the object is still queued.           *)
OnceInv ==
    /\ Offered \subseteq lost \cup Held
    /\ lost \subseteq Offered /\ lost \cap Held = {}
    /\ \A o \in Objects : Spoken \cap TextsOf(o) = {}

LEMMA ObjectsApart ==
    ASSUME IInv, TextOrder, NEW o \in Objects, NEW p \in Objects, o # p
    PROVE  TextsOf(o) \cap TextsOf(p) = {}
<1> SUFFICES ASSUME NEW y \in TextsOf(o), y \in TextsOf(p)
             PROVE  FALSE
  OBVIOUS
<1>1. /\ SessionOf(o) = SessionOf(p) /\ o \in Nat /\ p \in Nat /\ y \in Nat
      /\ y <= state[o].sequence /\ y <= state[p].sequence
      /\ state[o].sequence \in Nat /\ state[p].sequence \in Nat
  BY ObjectFacts
<1>2. CASE o < p
  <2>1. state[o].sequence < y
    BY <1>1, <1>2 DEF TextOrder, Aged
  <2> QED BY <1>1, <2>1
<1>3. CASE p < o
  <2>1. state[p].sequence < y
    BY <1>1, <1>3 DEF TextOrder, Aged
  <2> QED BY <1>1, <2>1
<1> QED BY <1>1, <1>2, <1>3

LEMMA OnceFrame ==
    ASSUME OnceInv, UNCHANGED <<deltas, lost, created, input, pushed, sentences>>,
           \A o \in Objects : TextsOf(o)' = TextsOf(o)
    PROVE  OnceInv'
<1>1. Spoken' = Spoken /\ Objects' = Objects /\ Offered' = Offered /\ IdsOf(input)' = IdsOf(input)
  BY DEF Spoken, Out, Objects, Offered, IdsOf
<1>2. Held' = Held
  BY <1>1 DEF Held, Buffered
<1> QED BY <1>1, <1>2 DEF OnceInv

LEMMA OfferOnce ==
    ASSUME IInv, OnceInv, OutOrder, NEW L, OfferDoes(L), \A o \in Objects : TextsOf(o)' = TextsOf(o)
    PROVE  OnceInv'
<1>1. /\ Offered' = Offered \cup {L} /\ L \notin Offered
      /\ IdsOf(input') = IdsOf(input) \cup {L}
      /\ UNCHANGED <<created, pushed, sentences, lost>>
  BY DEF OfferDoes
<1>2. Spoken' = Spoken /\ Objects' = Objects /\ IdsOf(input)' = IdsOf(input')
  BY <1>1 DEF Spoken, Out, Objects, IdsOf
<1>3. Held' = Held \cup {L}
  BY <1>1, <1>2 DEF Held, Buffered
<1>4. lost' \cap Held' = {}
  BY <1>1, <1>3 DEF OnceInv
<1>5. Offered' \subseteq lost' \cup Held' /\ lost' \subseteq Offered'
  BY <1>1, <1>3 DEF OnceInv
<1>6. (\A o \in Objects : Spoken \cap TextsOf(o) = {})'
  BY <1>2 DEF OnceInv
<1> QED BY <1>4, <1>5, <1>6 DEF OnceInv

LEMMA TakeOnce ==
    ASSUME IInv, OnceInv, NEW o, TakeDoes(o)
    PROVE  OnceInv'
<1>1. /\ flush = NoFlush /\ UNCHANGED <<deltas, lost, created, input, pushed, sentences>>
      /\ \/ UNCHANGED <<flush, state>>
         \/ /\ flush' = [obj |-> o, text |-> state[o].buffer] /\ flush' # NoFlush
            /\ state'[o].buffer = <<>>
            /\ \A p \in Ids : p # o => state'[p] = state[p]
  BY DEF TakeDoes
<1>2. ASSUME NEW p \in Objects
      PROVE  TextsOf(p)' = TextsOf(p)
  <2>1. TextsOf(p) = IdsOf(state[p].buffer) /\ p \in Ids
    BY <1>1, ObjectFacts DEF TextsOf, Splitting
  <2>2. CASE UNCHANGED <<flush, state>>
    BY <2>2 DEF TextsOf, Splitting
  <2>3. CASE /\ flush' = [obj |-> o, text |-> state[o].buffer] /\ flush' # NoFlush
             /\ state'[o].buffer = <<>>
             /\ \A q \in Ids : q # o => state'[q] = state[q]
    <3>1. flush'.obj = o /\ flush'.text = state[o].buffer
      BY <2>3
    <3>2. CASE p = o
      <4>1. TextsOf(p)' = IdsOf(state'[p].buffer) \cup IdsOf(flush'.text)
        BY <2>3, <3>1, <3>2 DEF TextsOf, Splitting
      <4>2. IdsOf(state'[p].buffer) = {}
        BY <2>3, <3>2 DEF IdsOf
      <4> QED BY <2>1, <3>1, <3>2, <4>1, <4>2
    <3>3. CASE p # o
      BY <2>1, <2>3, <3>1, <3>3 DEF TextsOf, Splitting
    <3> QED BY <3>2, <3>3
  <2> QED BY <1>1, <2>2, <2>3
<1> QED BY <1>1, <1>2, OnceFrame

LEMMA FailOnce ==
    ASSUME IInv, OnceInv, NEW o, NEW text, NEW buf, FailDoes(o, text, buf)
    PROVE  OnceInv'
<1>1. /\ flush # NoFlush /\ flush' = NoFlush /\ o = flush.obj /\ text = flush.text
      /\ UNCHANGED <<deltas, lost, created, input, pushed, sentences>>
      /\ text \in Seq(Ids) /\ state[o].buffer \in Seq(Ids) /\ buf = text \o state[o].buffer
      /\ state'[o].buffer = buf /\ \A p \in Ids : p # o => state'[p] = state[p]
  BY DEF FailDoes
<1>2. IdsOf(buf) = IdsOf(text) \cup IdsOf(state[o].buffer)
  <2> PICK b \in Seq(Ids) : b = state[o].buffer
    BY <1>1
  <2> QED BY <1>1, JoinIds
<1>3. ASSUME NEW p \in Objects
      PROVE  TextsOf(p)' = TextsOf(p)
  <2>1. TextsOf(p)' = IdsOf(state'[p].buffer) /\ p \in Ids
    BY <1>1, ObjectFacts DEF TextsOf, Splitting
  <2>2. CASE p = o
    BY <1>1, <1>2, <2>1, <2>2 DEF TextsOf, Splitting
  <2>3. CASE p # o
    BY <1>1, <2>1, <2>3 DEF TextsOf, Splitting
  <2> QED BY <2>2, <2>3
<1> QED BY <1>1, <1>3, OnceFrame

LEMMA StoreOnce ==
    ASSUME IInv, OrderInv, OnceInv, NEW d, NEW key, NEW stale, NEW full, NEW obj,
           StoreDoes(d, key, stale, full, obj)
    PROVE  OnceInv'
<1>1. /\ \A p \in Objects : p # obj => TextsOf(p)' = TextsOf(p)
      /\ obj \in Objects => TextsOf(obj)' = TextsOf(obj) \cup {d}
      /\ obj \notin Objects => TextsOf(obj)' = {d}
      /\ d \in IdsOf(input)
  BY StoreTexts
<1>2. UNCHANGED <<deltas, pushed, sentences, lost>> /\ Objects' = Objects \cup {obj}
  BY DEF StoreDoes
<1>3. IdsOf(input) = IdsOf(input') \cup {d}
  <2>1. /\ Len(input) \in Nat /\ Len(input') = Len(input) - 1 /\ d = input[1]
        /\ \A i \in 1..Len(input') : i + 1 \in 1..Len(input) /\ input'[i] = input[i + 1]
    BY DEF StoreDoes
  <2>2. \A i \in 1..Len(input) : i = 1 \/ i - 1 \in 1..Len(input')
    BY <2>1
  <2>3. ASSUME NEW i \in 1..Len(input), i # 1
        PROVE  input[i] \in IdsOf(input')
    <3>1. i - 1 \in 1..Len(input') /\ input'[i - 1] = input[(i - 1) + 1] /\ (i - 1) + 1 = i
      BY <2>1, <2>2, <2>3
    <3> QED BY <3>1 DEF IdsOf
  <2>4. IdsOf(input') \subseteq IdsOf(input)
    BY <2>1 DEF IdsOf
  <2>5. IdsOf(input) \subseteq IdsOf(input') \cup {d}
    BY <2>1, <2>3 DEF IdsOf
  <2> QED BY <1>1, <2>4, <2>5
<1>4. Spoken' = Spoken /\ Offered' = Offered /\ IdsOf(input)' = IdsOf(input')
  BY <1>2 DEF Spoken, Out, Offered, IdsOf
<1>5. Buffered' = Buffered \cup {d}
  <2>1. ASSUME NEW o \in Objects', NEW y \in TextsOf(o)'
        PROVE  y \in Buffered \cup {d}
    <3>1. (o \in Objects /\ y \in TextsOf(o)) \/ y = d
      <4>1. CASE o = obj
        BY <1>1, <2>1, <4>1
      <4>2. CASE o # obj
        BY <1>1, <1>2, <2>1, <4>2
      <4> QED BY <4>1, <4>2
    <3> QED BY <3>1 DEF Buffered
  <2>2. ASSUME NEW o \in Objects, NEW y \in TextsOf(o)
        PROVE  o \in Objects' /\ y \in TextsOf(o)'
    <3>1. CASE o = obj
      BY <1>1, <1>2, <2>2, <3>1
    <3>2. CASE o # obj
      BY <1>1, <1>2, <2>2, <3>2
    <3> QED BY <3>1, <3>2
  <2>3. obj \in Objects' /\ d \in TextsOf(obj)'
    BY <1>1, <1>2
  <2>4. Buffered' = UNION {TextsOf(o)' : o \in Objects'}
    BY DEF Buffered
  <2>5. \A y \in Buffered : y \in Buffered'
    BY <2>2, <2>4 DEF Buffered
  <2>6. \A y \in Buffered' : y \in Buffered \cup {d}
    BY <2>1, <2>4
  <2>7. d \in Buffered'
    BY <2>3, <2>4
  <2> QED BY <2>5, <2>6, <2>7
<1>6. Held' = Held
  <2>1. Held' = IdsOf(input') \cup Spoken \cup Buffered'
    BY <1>4 DEF Held
  <2> QED BY <1>3, <1>5, <2>1 DEF Held
<1>7. d \notin Spoken
  <2>1. \A x \in Spoken : x < d /\ x \in Nat
    BY <1>1 DEF OrderInv, OutOrder, Offered, Gone
  <2> QED BY <2>1
<1>8. (\A o \in Objects : Spoken \cap TextsOf(o) = {})'
  <2>1. ASSUME NEW o \in Objects'
        PROVE  Spoken \cap TextsOf(o)' = {}
    <3>1. CASE o = obj /\ o \in Objects
      BY <1>1, <1>7, <3>1 DEF OnceInv
    <3>2. CASE o = obj /\ o \notin Objects
      BY <1>1, <1>7, <3>2
    <3>3. CASE o # obj
      BY <1>1, <1>2, <3>3 DEF OnceInv
    <3> QED BY <3>1, <3>2, <3>3
  <2> QED BY <1>4, <2>1
<1> QED BY <1>2, <1>4, <1>6, <1>8 DEF OnceInv

LEMMA SplitOnce ==
    ASSUME IInv, OrderInv, OnceInv, NEW o, NEW text, NEW parts, NEW start, NEW added, NEW buf,
           SplitDoes(o, text, parts, start, added, buf)
    PROVE  OnceInv'
<1>1. /\ flush # NoFlush /\ flush' = NoFlush /\ o = flush.obj /\ text = flush.text /\ o \in Objects
      /\ UNCHANGED <<deltas, input, created, lost>>
      /\ state'[o].buffer = buf /\ \A p \in Ids : p # o => state'[p] = state[p]
  BY DEF SplitDoes
<1>2. PICK shipped \in SUBSET Ids :
             /\ shipped \cup IdsOf(buf) = TextsOf(o) /\ Spoken' = Spoken \cup shipped
             /\ \A x \in shipped, y \in IdsOf(buf) : x < y
  <2>1. TextOrder
    BY DEF OrderInv
  <2>2. \E shipped \in SUBSET Ids :
             /\ shipped \subseteq IdsOf(text) /\ shipped \cup IdsOf(buf) = TextsOf(o)
             /\ Spoken' = Spoken \cup shipped
             /\ \A x \in shipped, y \in IdsOf(buf) : x < y
             /\ Len(sentences) \in Nat /\ Len(sentences') = Len(sentences) + Len(added)
             /\ \A m \in 0..Len(sentences) : Out(m)' = Out(m)
             /\ \A m \in 0..Len(sentences') : m \in 0..Len(sentences) \/
                  (m - Len(sentences) \in 1..Len(added) /\ Out(m)' = parts[m - Len(sentences)])
    BY <2>1, SplitOut
  <2> QED BY <2>2
<1>3. TextsOf(o)' = IdsOf(buf)
  BY <1>1 DEF TextsOf, Splitting
<1>4. \A p \in Objects : p # o => TextsOf(p)' = TextsOf(p)
  <2> TAKE p \in Objects
  <2>1. p \in Ids
    BY ObjectFacts
  <2> QED BY <1>1, <2>1 DEF TextsOf, Splitting
<1>5. Objects' = Objects /\ Offered' = Offered /\ IdsOf(input)' = IdsOf(input)
  BY <1>1 DEF Objects, Offered, IdsOf
<1>6. shipped \cap IdsOf(buf) = {}
  <2>1. \A x \in shipped : ~(x < x)
    BY DEF Ids
  <2> QED BY <1>2, <2>1
<1>7. Held' = Held
  <2>1. Held' = IdsOf(input) \cup Spoken' \cup UNION {TextsOf(p)' : p \in Objects}
    BY <1>5 DEF Held, Buffered
  <2>2. \A x : x \in Held' => x \in Held
    BY <1>1, <1>2, <1>3, <1>4, <2>1 DEF Held, Buffered
  <2>3. \A x : x \in Held => x \in Held'
    <3> SUFFICES ASSUME NEW x \in Held, x \notin IdsOf(input), x \notin Spoken
                 PROVE  x \in Held'
      BY <1>2, <2>1 DEF Held, Buffered
    <3>1. PICK p \in Objects : x \in TextsOf(p)
      BY DEF Held, Buffered
    <3>2. CASE p = o
      BY <1>1, <1>2, <1>3, <2>1, <3>1, <3>2
    <3>3. CASE p # o
      BY <1>4, <2>1, <3>1, <3>3
    <3> QED BY <3>2, <3>3
  <2> QED BY <2>2, <2>3
<1>8. (\A p \in Objects : Spoken \cap TextsOf(p) = {})'
  <2>1. ASSUME NEW p \in Objects
        PROVE  Spoken' \cap TextsOf(p)' = {}
    <3>1. CASE p = o
      <4>1. Spoken \cap TextsOf(o) = {}
        BY <1>1 DEF OnceInv
      <4> QED BY <1>2, <1>3, <1>6, <3>1, <4>1
    <3>2. CASE p # o
      <4>1. Spoken \cap TextsOf(p) = {} /\ TextsOf(o) \cap TextsOf(p) = {}
        BY <1>1, <3>2, ObjectsApart DEF OnceInv, OrderInv
      <4> QED BY <1>2, <1>4, <3>2, <4>1
    <3> QED BY <3>1, <3>2
  <2> QED BY <1>5, <2>1
<1> QED BY <1>1, <1>5, <1>7, <1>8 DEF OnceInv

LEMMA PushOnce ==
    ASSUME IInv, OrderInv, OnceInv, NEW text, NEW gone, PushDoes(text, gone)
    PROVE  OnceInv'
<1>1. UNCHANGED <<deltas, input, state, created, flush>> /\ lost' = lost \cup gone
  BY DEF PushDoes
<1>2. Spoken' \cup gone = Spoken /\ Spoken' \cap gone = {}
  BY PushSpoken DEF OrderInv
<1>3. /\ Objects' = Objects /\ Offered' = Offered /\ IdsOf(input)' = IdsOf(input)
      /\ \A p : TextsOf(p)' = TextsOf(p)
  BY <1>1 DEF Objects, Offered, IdsOf, TextsOf, Splitting
<1>4. Held' = IdsOf(input) \cup Spoken' \cup UNION {TextsOf(p) : p \in Objects}
  BY <1>3 DEF Held, Buffered
<1>5. Offered' \subseteq lost' \cup Held'
  BY <1>1, <1>2, <1>3, <1>4 DEF OnceInv, Held, Buffered
<1>6. lost' \subseteq Offered'
  BY <1>1, <1>2, <1>3 DEF OnceInv, OrderInv, OutOrder, Gone
<1>7. \A x \in Spoken : x \notin IdsOf(input)
  <2>1. \A x \in Spoken : ~(x < x)
    BY DEF OrderInv, OutOrder, Offered, Gone
  <2> QED BY <2>1 DEF OrderInv, OutOrder, Gone
<1>8. lost' \cap Held' = {}
  <2>1. lost \cap Held' = {}
    BY <1>2, <1>4 DEF OnceInv, Held, Buffered
  <2>2. gone \cap Held' = {}
    BY <1>2, <1>4, <1>7 DEF OnceInv
  <2> QED BY <1>1, <2>1, <2>2
<1>9. (\A p \in Objects : Spoken \cap TextsOf(p) = {})'
  BY <1>2, <1>3 DEF OnceInv
<1> QED BY <1>5, <1>6, <1>8, <1>9 DEF OnceInv

-----------------------------------------------------------------------------
(* A place holds a delta of the input, of the splitter's text, of what has    *)
(* left, or of an object's buffer.                                           *)
LEMMA PartCases ==
    ASSUME NEW part \in Parts
    PROVE  \/ part = <<"input", 0>> /\ TextOf(part) = input
           \/ part = <<"splitter", 0>> /\ TextOf(part) = flush.text
           \/ \E m \in 0..Len(sentences) : part = <<"out", m>> /\ TextOf(part) = Out(m)
           \/ \E o \in Ids : part = <<"buffer", o>> /\ TextOf(part) = state[o].buffer
<1>1. CASE part = <<"input", 0>>
  BY <1>1 DEF TextOf
<1>2. CASE part = <<"splitter", 0>>
  BY <1>2 DEF TextOf
<1>3. CASE part \in {"out"} \X (0..Len(sentences))
  <2>1. PICK m \in 0..Len(sentences) : part = <<"out", m>>
    BY <1>3
  <2>2. TextOf(part) = Out(m)
    BY <2>1 DEF TextOf
  <2> QED BY <2>1, <2>2
<1>4. CASE part \in {"buffer"} \X Ids
  <2>1. PICK o \in Ids : part = <<"buffer", o>>
    BY <1>4
  <2>2. TextOf(part) = state[o].buffer
    BY <2>1 DEF TextOf
  <2> QED BY <2>1, <2>2
<1> QED BY <1>1, <1>2, <1>3, <1>4 DEF Parts

LEMMA PlaceCases ==
    ASSUME IInv, NEW place \in Places
    PROVE  \E part, i :
             /\ place = <<part, i>> /\ HeldAt(place) = TextOf(part)[i] /\ i \in 1..Len(TextOf(part))
             /\ \/ part = <<"input", 0>> /\ TextOf(part) = input
                \/ part = <<"splitter", 0>> /\ TextOf(part) = flush.text
                     /\ Splitting(flush.obj) /\ flush.obj \in Objects
                \/ \E m \in 0..Len(sentences) : part = <<"out", m>> /\ TextOf(part) = Out(m)
                \/ \E o \in Objects : part = <<"buffer", o>> /\ TextOf(part) = state[o].buffer
<1>1. PICK part \in Parts : place \in {part} \X (1..Len(TextOf(part)))
  BY DEF Places
<1>2. PICK i \in 1..Len(TextOf(part)) : place = <<part, i>>
  BY <1>1
<1>3. HeldAt(place) = TextOf(part)[i]
  BY <1>2 DEF HeldAt
<1>4. TextOf(part) # <<>>
  BY <1>2
<1>5. CASE part = <<"splitter", 0>> /\ TextOf(part) = flush.text
  <2>1. flush # NoFlush
    BY <1>4, <1>5 DEF NoFlush
  <2>2. Splitting(flush.obj) /\ flush.obj \in Objects
    BY <2>1 DEF Splitting, IInv, FlushInv
  <2> QED BY <1>2, <1>3, <1>5, <2>2
<1>6. CASE \E o \in Ids : part = <<"buffer", o>> /\ TextOf(part) = state[o].buffer
  <2>1. PICK o \in Ids : part = <<"buffer", o>> /\ TextOf(part) = state[o].buffer
    BY <1>6
  <2>2. o \in Objects
    BY <1>4, <2>1 DEF IInv, ObjectInv
  <2> QED BY <1>2, <1>3, <2>1, <2>2
<1>7. CASE part = <<"input", 0>> /\ TextOf(part) = input
  BY <1>2, <1>3, <1>7
<1>8. CASE \E m \in 0..Len(sentences) : part = <<"out", m>> /\ TextOf(part) = Out(m)
  BY <1>2, <1>3, <1>8
<1> QED BY <1>5, <1>6, <1>7, <1>8, PartCases

(* Each text holds other deltas than the others.                             *)
LEMMA TextsApart ==
    ASSUME IInv, OrderInv, OnceInv
    PROVE  /\ IdsOf(input) \cap Spoken = {}
           /\ \A o \in Objects : IdsOf(input) \cap TextsOf(o) = {} /\ Spoken \cap TextsOf(o) = {}
           /\ \A o, p \in Objects : o # p => TextsOf(o) \cap TextsOf(p) = {}
           /\ \A o \in Objects : Splitting(o) => IdsOf(flush.text) \cap IdsOf(state[o].buffer) = {}
           /\ Sorted(input) /\ Sorted(flush.text) /\ \A o \in Objects : Sorted(state[o].buffer)
           /\ Held \subseteq Nat
<1>1. IdsOf(input) \subseteq Nat
  BY DEF IInv, InputInv, IdsOf, Offered
<1>2. \A o \in Objects : TextsOf(o) \subseteq Nat
  BY ObjectFacts
<1>3. IdsOf(input) \cap Spoken = {}
  <2>1. \A y \in IdsOf(input) : ~(y < y)
    BY <1>1
  <2> QED BY <2>1 DEF OrderInv, OutOrder, Gone
<1>4. ASSUME NEW o \in Objects
      PROVE  IdsOf(input) \cap TextsOf(o) = {} /\ Spoken \cap TextsOf(o) = {}
  <2>1. ASSUME NEW y \in IdsOf(input), y \in TextsOf(o)
        PROVE  FALSE
    <3>1. y \in Nat /\ y <= state[o].sequence /\ state[o].sequence < y /\ state[o].sequence \in Nat
      BY <1>1, <2>1, ObjectFacts
    <3> QED BY <3>1
  <2> QED BY <2>1 DEF OnceInv
<1>5. \A o, p \in Objects : o # p => TextsOf(o) \cap TextsOf(p) = {}
  BY ObjectsApart DEF OrderInv
<1>6. ASSUME NEW o \in Objects, Splitting(o)
      PROVE  IdsOf(flush.text) \cap IdsOf(state[o].buffer) = {}
  <2>1. \A y \in IdsOf(state[o].buffer) : ~(y < y)
    BY <1>2 DEF TextsOf
  <2> QED BY <1>6, <2>1 DEF OrderInv, TextOrder
<1>7. Sorted(input) /\ Sorted(flush.text) /\ \A o \in Objects : Sorted(state[o].buffer)
  BY DEF Sorted, IInv, InputInv, OrderInv, TextOrder
<1>8. Held \subseteq Nat
  <2>1. Spoken \subseteq Nat
    BY DEF OrderInv, OutOrder, Offered, Gone
  <2> QED BY <1>1, <1>2, <2>1 DEF Held, Buffered
<1> QED BY <1>3, <1>4, <1>5, <1>6, <1>7, <1>8

LEMMA SortedDistinct ==
    ASSUME NEW q, Sorted(q), IdsOf(q) \subseteq Nat, NEW i \in 1..Len(q), NEW j \in 1..Len(q), q[i] = q[j]
    PROVE  i = j
<1>1. q[i] \in Nat /\ q[j] \in Nat
  BY DEF IdsOf
<1>2. ~(i < j) /\ ~(j < i)
  BY <1>1 DEF Sorted
<1> QED BY <1>2

LEMMA PlaceDistinct ==
    ASSUME IInv, OrderInv, OnceInv, NEW p \in Places, NEW q \in Places, HeldAt(p) = HeldAt(q)
    PROVE  p = q
<1> PICK x : x = HeldAt(p)
  OBVIOUS
<1>1. PICK a, i :
        /\ p = <<a, i>> /\ x = TextOf(a)[i] /\ i \in 1..Len(TextOf(a))
        /\ \/ a = <<"input", 0>> /\ TextOf(a) = input
           \/ a = <<"splitter", 0>> /\ TextOf(a) = flush.text
                /\ Splitting(flush.obj) /\ flush.obj \in Objects
           \/ \E m \in 0..Len(sentences) : a = <<"out", m>> /\ TextOf(a) = Out(m)
           \/ \E o \in Objects : a = <<"buffer", o>> /\ TextOf(a) = state[o].buffer
  BY PlaceCases
<1>2. PICK b, j :
        /\ q = <<b, j>> /\ x = TextOf(b)[j] /\ j \in 1..Len(TextOf(b))
        /\ \/ b = <<"input", 0>> /\ TextOf(b) = input
           \/ b = <<"splitter", 0>> /\ TextOf(b) = flush.text
                /\ Splitting(flush.obj) /\ flush.obj \in Objects
           \/ \E m \in 0..Len(sentences) : b = <<"out", m>> /\ TextOf(b) = Out(m)
           \/ \E o \in Objects : b = <<"buffer", o>> /\ TextOf(b) = state[o].buffer
  BY PlaceCases
<1>3. /\ IdsOf(input) \cap Spoken = {}
      /\ \A o \in Objects : IdsOf(input) \cap TextsOf(o) = {} /\ Spoken \cap TextsOf(o) = {}
      /\ \A o, r \in Objects : o # r => TextsOf(o) \cap TextsOf(r) = {}
      /\ \A o \in Objects : Splitting(o) => IdsOf(flush.text) \cap IdsOf(state[o].buffer) = {}
      /\ Sorted(input) /\ Sorted(flush.text) /\ \A o \in Objects : Sorted(state[o].buffer)
      /\ Held \subseteq Nat
  BY TextsApart
<1>4. x \in IdsOf(TextOf(a)) /\ x \in IdsOf(TextOf(b))
  BY <1>1, <1>2 DEF IdsOf
<1>5. \A m \in 0..Len(sentences) : IdsOf(Out(m)) \subseteq Spoken
  BY DEF Spoken
<1>6. /\ \A o \in Objects : IdsOf(state[o].buffer) \subseteq TextsOf(o)
      /\ Splitting(flush.obj) => IdsOf(flush.text) \subseteq TextsOf(flush.obj)
  BY DEF TextsOf
<1>7. CASE a = b
  <2>1. CASE \E m \in 0..Len(sentences) : a = <<"out", m>> /\ TextOf(a) = Out(m)
    <3> PICK m \in 0..Len(sentences) : a = <<"out", m>> /\ TextOf(a) = Out(m)
      BY <2>1
    <3>1. Len(sentences) \in Nat
      BY DEF IInv, TypeOK
    <3>2. i \in 1..Len(Out(m)) /\ j \in 1..Len(Out(m)) /\ Out(m)[i] = Out(m)[j]
      BY <1>1, <1>2, <1>7
    <3>3. i = j
      BY <3>1, <3>2, OutDistinct DEF OrderInv
    <3> QED BY <1>1, <1>2, <1>7, <3>3
  <2>2. CASE ~\E m \in 0..Len(sentences) : a = <<"out", m>> /\ TextOf(a) = Out(m)
    <3>1. Sorted(TextOf(a))
      BY <1>1, <1>3, <2>2
    <3>2. IdsOf(TextOf(a)) \subseteq Held
      BY <1>1, <1>6, <2>2 DEF Held, Buffered
    <3>3. TextOf(a)[i] = TextOf(a)[j] /\ i \in 1..Len(TextOf(a)) /\ j \in 1..Len(TextOf(a))
      BY <1>1, <1>2, <1>7
    <3>4. i = j
      BY <1>3, <3>1, <3>2, <3>3, SortedDistinct
    <3> QED BY <1>1, <1>2, <1>7, <3>4
  <2> QED BY <2>1, <2>2
<1>8. CASE a # b
  <2>1. CASE TextOf(a) = input /\ a = <<"input", 0>>
    BY <1>2, <1>3, <1>4, <1>5, <1>6, <1>8, <2>1
  <2>2. CASE TextOf(b) = input /\ b = <<"input", 0>>
    BY <1>1, <1>3, <1>4, <1>5, <1>6, <1>8, <2>2
  <2>3. CASE a = <<"splitter", 0>> /\ TextOf(a) = flush.text /\ Splitting(flush.obj) /\ flush.obj \in Objects
    <3>1. CASE \E m \in 0..Len(sentences) : b = <<"out", m>> /\ TextOf(b) = Out(m)
      BY <1>3, <1>4, <1>5, <1>6, <2>3, <3>1
    <3>2. CASE \E o \in Objects : b = <<"buffer", o>> /\ TextOf(b) = state[o].buffer
      <4> PICK o \in Objects : TextOf(b) = state[o].buffer
        BY <3>2
      <4>1. CASE o = flush.obj
        BY <1>3, <1>4, <2>3, <4>1
      <4>2. CASE o # flush.obj
        BY <1>3, <1>4, <1>6, <2>3, <4>2
      <4> QED BY <4>1, <4>2
    <3> QED BY <1>2, <1>8, <2>2, <2>3, <3>1, <3>2
  <2>4. CASE \E m \in 0..Len(sentences) : a = <<"out", m>> /\ TextOf(a) = Out(m)
    <3> PICK m \in 0..Len(sentences) : a = <<"out", m>> /\ TextOf(a) = Out(m)
      BY <2>4
    <3>1. x \in Spoken
      BY <1>4, <1>5
    <3>2. CASE \E n \in 0..Len(sentences) : b = <<"out", n>> /\ TextOf(b) = Out(n)
      <4> PICK n \in 0..Len(sentences) : b = <<"out", n>> /\ TextOf(b) = Out(n)
        BY <3>2
      <4>1. Len(sentences) \in Nat
        BY DEF IInv, TypeOK
      <4>2. i \in 1..Len(Out(m)) /\ j \in 1..Len(Out(n)) /\ Out(m)[i] = Out(n)[j]
        BY <1>1, <1>2
      <4>3. m = n
        BY <4>1, <4>2, OutDistinct DEF OrderInv
      <4> QED BY <1>8, <4>3
    <3>3. CASE b = <<"splitter", 0>> /\ TextOf(b) = flush.text /\ Splitting(flush.obj) /\ flush.obj \in Objects
      BY <1>3, <1>4, <1>6, <3>1, <3>3
    <3>4. CASE \E o \in Objects : b = <<"buffer", o>> /\ TextOf(b) = state[o].buffer
      BY <1>3, <1>4, <1>6, <3>1, <3>4
    <3> QED BY <1>2, <2>2, <3>2, <3>3, <3>4
  <2>5. CASE \E o \in Objects : a = <<"buffer", o>> /\ TextOf(a) = state[o].buffer
    <3> PICK o \in Objects : a = <<"buffer", o>> /\ TextOf(a) = state[o].buffer
      BY <2>5
    <3>1. x \in TextsOf(o) /\ x \in IdsOf(state[o].buffer)
      BY <1>4, <1>6
    <3>2. CASE \E n \in 0..Len(sentences) : b = <<"out", n>> /\ TextOf(b) = Out(n)
      BY <1>3, <1>4, <1>5, <3>1, <3>2
    <3>3. CASE b = <<"splitter", 0>> /\ TextOf(b) = flush.text /\ Splitting(flush.obj) /\ flush.obj \in Objects
      <4>1. CASE o = flush.obj
        BY <1>3, <1>4, <3>1, <3>3, <4>1
      <4>2. CASE o # flush.obj
        BY <1>3, <1>4, <1>6, <3>1, <3>3, <4>2
      <4> QED BY <4>1, <4>2
    <3>4. CASE \E r \in Objects : b = <<"buffer", r>> /\ TextOf(b) = state[r].buffer
      <4> PICK r \in Objects : b = <<"buffer", r>> /\ TextOf(b) = state[r].buffer
        BY <3>4
      <4>1. o # r
        BY <1>8
      <4> QED BY <1>3, <1>4, <1>6, <3>1, <4>1
    <3> QED BY <1>2, <2>2, <3>2, <3>3, <3>4
  <2> QED BY <1>1, <2>1, <2>3, <2>4, <2>5
<1> QED BY <1>7, <1>8

LEMMA OncePlaces ==
    ASSUME IInv, OrderInv, OnceInv
    PROVE  EachDeltaOnce
<1>1. ASSUME NEW part \in Parts, NEW d \in IdsOf(TextOf(part))
      PROVE  \E place \in Places : HeldAt(place) = d
  <2>1. PICK i \in 1..Len(TextOf(part)) : d = TextOf(part)[i]
    BY <1>1 DEF IdsOf
  <2>2. <<part, i>> \in Places
    BY DEF Places
  <2>3. HeldAt(<<part, i>>) = d
    BY <2>1 DEF HeldAt
  <2> QED BY <2>2, <2>3
<1>2. ASSUME NEW d \in Held
      PROVE  \E place \in Places : HeldAt(place) = d
  <2>1. CASE d \in IdsOf(input)
    <3>1. <<"input", 0>> \in Parts /\ TextOf(<<"input", 0>>) = input
      BY DEF Parts, TextOf
    <3> QED BY <1>1, <2>1, <3>1
  <2>2. CASE d \in Spoken
    <3>1. PICK m \in 0..Len(sentences) : d \in IdsOf(Out(m))
      BY <2>2 DEF Spoken
    <3>2. <<"out", m>> \in Parts /\ TextOf(<<"out", m>>) = Out(m)
      BY DEF Parts, TextOf
    <3> QED BY <1>1, <3>1, <3>2
  <2>3. CASE d \in Buffered
    <3>1. PICK o \in Objects : d \in IdsOf(state[o].buffer) \/ d \in IdsOf(flush.text)
      BY <2>3 DEF Buffered, TextsOf
    <3>2. CASE d \in IdsOf(state[o].buffer)
      <4>1. <<"buffer", o>> \in Parts /\ TextOf(<<"buffer", o>>) = state[o].buffer
        BY ObjectFacts DEF Parts, TextOf
      <4> QED BY <1>1, <3>2, <4>1
    <3>3. CASE d \in IdsOf(flush.text)
      <4>1. <<"splitter", 0>> \in Parts /\ TextOf(<<"splitter", 0>>) = flush.text
        BY DEF Parts, TextOf
      <4> QED BY <1>1, <3>3, <4>1
    <3> QED BY <3>1, <3>2, <3>3
  <2> QED BY <2>1, <2>2, <2>3 DEF Held
<1>3. \A d \in 1..Len(deltas) : d \in lost \/ \E place \in Places : HeldAt(place) = d
  BY <1>2 DEF OnceInv, Offered
<1>4. \A p, q \in Places : HeldAt(p) = HeldAt(q) => p = q
  BY PlaceDistinct
<1>5. ASSUME NEW place \in Places
      PROVE  HeldAt(place) \notin lost
  <2>1. PICK part, i :
          /\ HeldAt(place) = TextOf(part)[i] /\ i \in 1..Len(TextOf(part))
          /\ \/ part = <<"input", 0>> /\ TextOf(part) = input
             \/ part = <<"splitter", 0>> /\ TextOf(part) = flush.text
                  /\ Splitting(flush.obj) /\ flush.obj \in Objects
             \/ \E m \in 0..Len(sentences) : part = <<"out", m>> /\ TextOf(part) = Out(m)
             \/ \E o \in Objects : part = <<"buffer", o>> /\ TextOf(part) = state[o].buffer
    BY PlaceCases
  <2>2. HeldAt(place) \in IdsOf(TextOf(part))
    BY <2>1 DEF IdsOf
  <2>3. /\ \A o \in Objects : IdsOf(state[o].buffer) \subseteq TextsOf(o)
        /\ Splitting(flush.obj) => IdsOf(flush.text) \subseteq TextsOf(flush.obj)
        /\ \A m \in 0..Len(sentences) : IdsOf(Out(m)) \subseteq Spoken
    BY DEF TextsOf, Spoken
  <2>4. IdsOf(TextOf(part)) \subseteq Held
    BY <2>1, <2>3 DEF Held, Buffered
  <2> QED BY <2>2, <2>4 DEF OnceInv
<1> QED BY <1>3, <1>4, <1>5 DEF EachDeltaOnce

-----------------------------------------------------------------------------
LEMMA InitWhole ==
    ASSUME Init
    PROVE  OrderInv /\ OnceInv
<1>1. /\ Objects = {} /\ Offered = {} /\ stateQueue = <<>> /\ flush = NoFlush
      /\ sentences = <<>> /\ pushed = <<>> /\ lost = {}
  BY DEF Init, Objects, Offered
<1>2. Mapped = {}
  BY DEF Init, Mapped
<1>3. QueueOrder
  BY <1>1, <1>2 DEF QueueOrder, IdsOf
<1>4. TextOrder
  BY <1>1 DEF TextOrder, Aged, Sorted, NoFlush
<1>5. Out(0) = <<>> /\ 0..Len(sentences) = {0}
  BY <1>1 DEF Out
<1>6. Spoken = {}
  BY <1>5 DEF Spoken, IdsOf
<1>7. SpokenOrder
  <2> SUFFICES ASSUME NEW m \in 0..Len(sentences), NEW i \in 1..Len(Out(m))
               PROVE  FALSE
    BY DEF SpokenOrder
  <2>1. m = 0
    BY <1>5
  <2> QED BY <1>5, <2>1
<1>8. OutOrder
  BY <1>1, <1>6, <1>7 DEF OutOrder, Gone
<1>9. OnceInv
  BY <1>1, <1>6 DEF OnceInv
<1> QED BY <1>3, <1>4, <1>8, <1>9 DEF OrderInv

LEMMA NextWhole ==
    ASSUME IInv, OrderInv, OnceInv, [Next]_vars
    PROVE  OrderInv' /\ OnceInv'
<1>1. CASE \E s \in Sessions : Offer(s)
  <2> PICK s \in Sessions : Offer(s)
    BY <1>1
  <2> PICK L : OfferDoes(L)
    BY OfferEffect
  <2>1. OrderInv' /\ \A o \in Objects : TextsOf(o)' = TextsOf(o)
    BY OfferOrder
  <2> QED BY <2>1, OfferOnce DEF OrderInv
<1>2. ASSUME NEW full, ForceDoes(full)
      PROVE  OrderInv' /\ OnceInv'
  <2>1. OrderInv' /\ \A o \in Objects : TextsOf(o)' = TextsOf(o)
    BY <1>2, ForceOrder
  <2>2. UNCHANGED <<deltas, lost, created, input, pushed, sentences>>
    BY <1>2 DEF ForceDoes
  <2> QED BY <2>1, <2>2, OnceFrame
<1>3. CASE \E s \in Sessions : CloseSession(s)
  BY <1>2, <1>3, CloseEffect
<1>4. CASE \E due \in SUBSET Ids : Sweep(due)
  BY <1>2, <1>4, SweepEffect
<1>5. CASE StoreEvent
  <2> PICK d, key, stale, full, obj : StoreDoes(d, key, stale, full, obj)
    BY <1>5, StoreEffect
  <2> QED BY StoreOrder, StoreOnce
<1>6. CASE FlushTakes
  <2> PICK o : TakeDoes(o)
    BY <1>6, TakeEffect
  <2> QED BY TakeOrder, TakeOnce
<1>7. CASE SplitReturns
  <2> PICK o, text, parts, start, added, buf : SplitDoes(o, text, parts, start, added, buf)
    BY <1>7, SplitEffect
  <2> QED BY SplitOrder, SplitOnce
<1>8. CASE SplitFails
  <2> PICK o, text, buf : FailDoes(o, text, buf)
    BY <1>8, FailEffect
  <2> QED BY FailOrder, FailOnce
<1>9. CASE Push \/ PushFails
  <2> PICK text, gone : PushDoes(text, gone)
    BY <1>9, PushEffect
  <2> QED BY PushOrder, PushOnce
<1>10. CASE UNCHANGED vars
  <2>1. UNCHANGED <<deltas, lost, created, input, pushed, sentences>>
    BY <1>10 DEF vars
  <2> QED BY <1>10, <2>1, StutterOrder, OnceFrame
<1> QED BY <1>1, <1>3, <1>4, <1>5, <1>6, <1>7, <1>8, <1>9, <1>10 DEF Next

(* The objects of a session are queued, split and filled in the order of     *)
(* their creation, and every delta is held by one text or lost.              *)
THEOREM SeparatorWhole == Spec => [](OrderInv /\ OnceInv)
<1>1. Init => OrderInv /\ OnceInv
  BY InitWhole
<1>2. IInv /\ (OrderInv /\ OnceInv) /\ [Next]_vars => (OrderInv /\ OnceInv)'
  BY NextWhole
<1> QED BY <1>1, <1>2, SeparatorInvariant, PTL DEF Spec

(* A session's text leaves in the order it was spoken, whatever the splitter *)
(* cuts or fails on, whoever queues a state and whenever its segment leaves  *)
(* the map: a re-merged tail goes back in front, and a segment's objects     *)
(* reach the flush loop before its successors' (kss_separator.py 163-198,    *)
(* 230-284).                                                                 *)
THEOREM SeparatorOrder == Spec => []SpokenOrder
<1>1. OrderInv /\ OnceInv => SpokenOrder
  BY DEF OrderInv, OutOrder
<1> QED BY <1>1, SeparatorWhole, PTL

(* No delta is dropped or repeated between the input queue and the pusher:   *)
(* what the store loop adds while the splitter runs survives the re-merge    *)
(* (kss_separator.py 230-284).                                               *)
THEOREM SeparatorOnce == Spec => []EachDeltaOnce
<1>1. IInv /\ (OrderInv /\ OnceInv) => EachDeltaOnce
  BY OncePlaces
<1> QED BY <1>1, SeparatorInvariant, SeparatorWhole, PTL
-----------------------------------------------------------------------------
(* What the listeners of a session hear.                                     *)
(*                                                                           *)
(* While nothing was disturbed, no older object of the session has text left *)
(* when the splitter returns: it is neither mapped, nor queued (an older one *)
(* would have been taken first), so its text would be stranded.              *)
LEMMA OlderIsEmpty ==
    ASSUME IInv, OrderInv, ~disturbed, NEW o \in Objects, Splitting(o),
           NEW p \in Objects, p < o, SessionOf(p) = SessionOf(o)
    PROVE  TextsOf(p) = {}
<1>1. o \in Nat /\ p \in Nat /\ ~(o <= p) /\ o # p
  BY ObjectFacts
<1>2. p \notin Mapped /\ p \notin IdsOf(stateQueue)
  BY <1>1 DEF OrderInv, QueueOrder
<1>3. state[p].buffer = <<>>
  BY <1>2 DEF IInv, DropInv, DroppedIsFlushed, Objects
<1>4. ~Splitting(p)
  BY <1>1 DEF Splitting
<1> QED BY <1>3, <1>4 DEF TextsOf, IdsOf

(* What is shipped is older than all that its session still has in the       *)
(* separator.                                                                *)
LEMMA ShippedFirst ==
    ASSUME IInv, OrderInv, OnceInv, ~disturbed, NEW o \in Objects, Splitting(o),
           NEW d \in TextsOf(o), NEW c \in IdsOf(input) \cup Buffered,
           deltas[c].session = deltas[d].session, c \in TextsOf(o) => d < c
    PROVE  d < c
<1>1. /\ state[o].sequence \in Nat /\ d \in Nat /\ d <= state[o].sequence /\ o \in Nat
      /\ deltas[d].session = SessionOf(o)
      /\ \A z \in IdsOf(input) : state[o].sequence < z /\ z \in Nat
  BY ObjectFacts
<1>2. CASE c \in IdsOf(input)
  BY <1>1, <1>2
<1>3. CASE c \in Buffered
  <2>1. PICK p \in Objects : c \in TextsOf(p)
    BY <1>3 DEF Buffered
  <2>2. SessionOf(p) = SessionOf(o) /\ c \in Nat /\ p \in Nat
    BY <1>1, <2>1, ObjectFacts
  <2>3. CASE p < o
    BY <2>1, <2>2, <2>3, OlderIsEmpty
  <2>4. CASE p = o
    BY <2>1, <2>4
  <2>5. CASE o < p
    <3>1. state[o].sequence < c
      BY <2>1, <2>2, <2>5 DEF OrderInv, TextOrder, Aged
    <3> QED BY <1>1, <2>2, <3>1
  <2> QED BY <1>1, <2>2, <2>3, <2>4, <2>5
<1> QED BY <1>2, <1>3

(* Deltas of one key are one delta to the feed.                              *)
LEMMA KeysTogether ==
    ASSUME TypeOK, NEW part \in SUBSET Offered, NEW k, \A d \in part : KeyOf(d) = k
    PROVE  Feed!Together(part)
<1> SUFFICES ASSUME NEW c \in part, NEW d \in part
             PROVE  deltas[c] = deltas[d]
  BY DEF Feed!Together
<1> DEFINE Delta == [session : Sessions, segment : Segments]
<1>0. deltas \in Seq(Delta) /\ c \in 1..Len(deltas) /\ d \in 1..Len(deltas)
  BY DEF TypeOK, Offered
<1>1. deltas[c] \in Delta
  BY <1>0, ElementIn
<1>2. deltas[d] \in Delta
  BY <1>0, ElementIn
<1>3. deltas[c].session = deltas[d].session /\ deltas[c].segment = deltas[d].segment
  BY DEF KeyOf
<1> QED BY <1>1, <1>2, <1>3

(* The splitter's result is spoken: it is the turn of what is shipped.       *)
LEMMA SplitSpeaks ==
    ASSUME IInv, OrderInv, OnceInv,
           NEW o, NEW text, NEW parts, NEW start, NEW added, NEW buf,
           SplitDoes(o, text, parts, start, added, buf)
    PROVE  Feed!Speak
<1>1. /\ flush # NoFlush /\ o = flush.obj /\ text = flush.text /\ o \in Objects
      /\ UNCHANGED <<deltas, lost, disturbed>>
  BY DEF SplitDoes
<1>2. PICK shipped \in SUBSET Ids :
        /\ shipped \subseteq IdsOf(text) /\ shipped \cup IdsOf(buf) = TextsOf(o)
        /\ Spoken' = Spoken \cup shipped
        /\ \A x \in shipped, y \in IdsOf(buf) : x < y
  <2>1. TextOrder
    BY DEF OrderInv
  <2>2. \E shipped \in SUBSET Ids :
             /\ shipped \subseteq IdsOf(text) /\ shipped \cup IdsOf(buf) = TextsOf(o)
             /\ Spoken' = Spoken \cup shipped
             /\ \A x \in shipped, y \in IdsOf(buf) : x < y
             /\ Len(sentences) \in Nat /\ Len(sentences') = Len(sentences) + Len(added)
             /\ \A m \in 0..Len(sentences) : Out(m)' = Out(m)
             /\ \A m \in 0..Len(sentences') : m \in 0..Len(sentences) \/
                  (m - Len(sentences) \in 1..Len(added) /\ Out(m)' = parts[m - Len(sentences)])
    BY <2>1, SplitOut
  <2> QED BY <2>2
<1>3. Splitting(o) /\ Live(o) /\ shipped \subseteq TextsOf(o)
  BY <1>1, <1>2 DEF Splitting, Live
<1>4. \A y \in TextsOf(o) : Fits(o, y) /\ y \in Offered /\ deltas[y].session = SessionOf(o)
  BY <1>1, ObjectFacts
<1>5. TextsOf(o) \subseteq Held
  BY <1>1 DEF Held, Buffered
<1>6. shipped \subseteq Feed!Waiting
  BY <1>1, <1>3, <1>4, <1>5 DEF OnceInv, Feed!Waiting, Feed!Offered, Offered
<1>7. Feed!Together(shipped)
  <2>1. \A d \in shipped : KeyOf(d) = KeyOf(state[o].sequence) /\ d \in Offered
    BY <1>3, <1>4 DEF Fits
  <2> QED BY <2>1, KeysTogether DEF IInv
<1>8. Feed!InTurn(shipped)
  <2> SUFFICES ASSUME NEW d \in shipped, NEW c \in Offered \ shipped,
                      deltas[d].session = deltas[c].session
               PROVE  /\ c \notin Feed!Waiting => c < d
                      /\ c \in Feed!Waiting => d < c \/ disturbed
    BY DEF Feed!InTurn, Feed!Offered, Offered
  <2>1. d \in TextsOf(o) /\ deltas[c].session = SessionOf(o)
    BY <1>3, <1>4
  <2>2. ASSUME c \notin Feed!Waiting
        PROVE  c < d
    <3>1. c \in Gone
      BY <2>2 DEF Feed!Waiting, Feed!Offered, Offered, Gone
    <3> QED BY <1>1, <1>3, <2>1, <3>1 DEF OrderInv, OutOrder
  <2>3. ASSUME c \in Feed!Waiting, ~disturbed
        PROVE  d < c
    <3>1. c \in IdsOf(input) \cup Buffered
      BY <2>3 DEF Feed!Waiting, Feed!Offered, Offered, OnceInv, Held
    <3>2. c \in TextsOf(o) => d < c
      BY <1>2
    <3> QED BY <1>1, <1>3, <2>1, <2>3, <3>1, <3>2, ShippedFirst
  <2> QED BY <2>2, <2>3
<1> QED BY <1>1, <1>2, <1>6, <1>7, <1>8 DEF Feed!Speak

(* A sentence that could not be pushed is lost whole; one that was pushed    *)
(* has been spoken before.                                                   *)
LEMMA PushLoses ==
    ASSUME IInv, OrderInv, NEW text, NEW gone, PushDoes(text, gone), disturbed' = disturbed
    PROVE  Feed!Lose
<1>1. /\ sentences \in Seq(Sentence) /\ sentences # <<>> /\ text = sentences[1].text
      /\ gone = {} \/ gone = IdsOf(text)
      /\ lost' = lost \cup gone /\ deltas' = deltas
  BY DEF PushDoes
<1>2. Spoken' \cup gone = Spoken /\ Spoken' \cap gone = {}
  BY PushSpoken DEF OrderInv
<1>3. gone \subseteq Spoken /\ Spoken' = Spoken \ gone
  BY <1>2
<1>4. Feed!Together(gone)
  <2>1. 1 \in 1..Len(sentences)
    BY <1>1
  <2>2. SentenceFits(sentences[1])
    BY <2>1 DEF IInv, SentenceInv
  <2>3. \A d \in gone : d \in Offered /\ KeyOf(d) = <<sentences[1].session, sentences[1].segment>>
    BY <1>1, <2>2 DEF SentenceFits
  <2> QED BY <2>3, KeysTogether DEF IInv
<1> QED BY <1>1, <1>3, <1>4 DEF Feed!Lose

(* Nothing is offered, spoken or lost.                                       *)
LEMMA FeedRests ==
    ASSUME UNCHANGED <<deltas, sentences, pushed, lost>>,
           disturbed' = disturbed \/ disturbed' = TRUE
    PROVE  Feed!Disturb \/ UNCHANGED (Feed!feedVars)
<1>1. Spoken' = Spoken
  BY DEF Spoken, Out
<1> QED BY <1>1 DEF Feed!Disturb, Feed!feedVars

(* Every step of the separator is a step of the feed or leaves it unchanged.  *)
LEMMA StepIsFeedStep ==
    ASSUME IInv, OrderInv, OnceInv, [Next]_vars
    PROVE  [Feed!FeedNext]_(Feed!feedVars)
<1>0. disturbed \in BOOLEAN
  BY DEF IInv, TypeOK
<1>1. ASSUME NEW s \in Sessions, Offer(s)
      PROVE  Feed!Offer
  <2>1. PICK L : OfferDoes(L)
    BY <1>1, OfferEffect
  <2>2. disturbed' = disturbed /\ UNCHANGED <<sentences, pushed, lost>>
    BY <1>1 DEF Offer
  <2>3. Spoken' = Spoken
    BY <2>2 DEF Spoken, Out
  <2>4. Len(deltas') = Len(deltas) + 1 /\ \A d \in Offered : deltas'[d] = deltas[d]
    BY <2>1 DEF OfferDoes
  <2> QED BY <2>2, <2>3, <2>4 DEF Feed!Offer, Feed!Offered, Offered
<1>2. CASE SplitReturns
  <2> PICK o, text, parts, start, added, buf : SplitDoes(o, text, parts, start, added, buf)
    BY <1>2, SplitEffect
  <2> QED BY SplitSpeaks DEF Feed!FeedNext
<1>3. CASE Push \/ PushFails
  <2>1. PICK text, gone : PushDoes(text, gone)
    BY <1>3, PushEffect
  <2>2. disturbed' = disturbed
    BY <1>3 DEF Push, PushFails
  <2> QED BY <2>1, <2>2, PushLoses DEF Feed!FeedNext
<1>4. CASE StoreEvent
  <2>1. UNCHANGED <<deltas, sentences, pushed, lost>>
    BY <1>4 DEF StoreEvent
  <2>2. \E objs : Drops(objs)
    BY <1>4 DEF StoreEvent
  <2>3. disturbed' = disturbed \/ disturbed' = TRUE
    BY <1>0, <2>2 DEF Drops
  <2> QED BY <2>1, <2>3, FeedRests DEF Feed!FeedNext
<1>5. ASSUME NEW s \in Sessions, CloseSession(s)
      PROVE  [Feed!FeedNext]_(Feed!feedVars)
  <2>1. UNCHANGED <<deltas, sentences, pushed, lost>>
    BY <1>5 DEF CloseSession
  <2>2. \E objs : Drops(objs)
    BY <1>5 DEF CloseSession
  <2>3. disturbed' = disturbed \/ disturbed' = TRUE
    BY <1>0, <2>2 DEF Drops
  <2> QED BY <2>1, <2>3, FeedRests DEF Feed!FeedNext
<1>6. CASE SplitFails
  <2>1. UNCHANGED <<deltas, sentences, pushed, lost>>
    BY <1>6 DEF SplitFails
  <2>2. disturbed' = disturbed \/ disturbed' = TRUE
    BY <1>0, <1>6 DEF SplitFails
  <2> QED BY <2>1, <2>2, FeedRests DEF Feed!FeedNext
<1>7. CASE FlushTakes \/ (\E due \in SUBSET Ids : Sweep(due)) \/ UNCHANGED vars
  <2>1. UNCHANGED <<deltas, sentences, pushed, lost, disturbed>>
    BY <1>7 DEF FlushTakes, Sweep, vars
  <2> QED BY <2>1, FeedRests DEF Feed!FeedNext
<1> QED BY <1>1, <1>2, <1>3, <1>4, <1>5, <1>6, <1>7 DEF Next, Feed!FeedNext

(* The separator implements the feed of SentenceFeed.  A re-merged tail, a   *)
(* rotated or closed segment, a sweep and a failing push or splitter leave   *)
(* each session hearing its text in turn; and what waits is never passed by, *)
(* unless a segment was dropped while the splitter held its text             *)
(* (kss_separator.py 163-318).                                               *)
THEOREM SeparatorImplementsFeed == Spec => ImplementsSentenceFeed
<1>1. Init => Feed!FeedInit
  <2> SUFFICES ASSUME Init
               PROVE  Feed!FeedInit
    OBVIOUS
  <2>1. deltas = <<>> /\ lost = {} /\ disturbed = FALSE /\ sentences = <<>> /\ pushed = <<>>
    BY DEF Init
  <2>2. Out(0) = <<>> /\ 0..Len(sentences) = {0}
    BY <2>1 DEF Out
  <2>3. Spoken = {}
    BY <2>2 DEF Spoken, IdsOf
  <2> QED BY <2>1, <2>3 DEF Feed!FeedInit
<1>2. IInv /\ (OrderInv /\ OnceInv) /\ [Next]_vars => [Feed!FeedNext]_(Feed!feedVars)
  BY StepIsFeedStep
<1> QED BY <1>1, <1>2, SeparatorInvariant, SeparatorWhole, PTL
        DEF Spec, ImplementsSentenceFeed, Feed!FeedSpec
=============================================================================
