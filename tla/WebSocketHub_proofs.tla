-------------------------- MODULE WebSocketHub_proofs --------------------------
(***************************************************************************)
(* What the hub promises for any number of sessions, sockets, calls and    *)
(* any size of pending: no delivery across sessions while nothing races    *)
(* with a takeover, every text in exactly one place, the texts of the      *)
(* slot's owner kept, and a live client left in the slot.                  *)
(***************************************************************************)
EXTENDS WebSocketHub, FiniteSetTheorems, SequenceTheorems, TLAPS

(* The client of w was accepted, or its accept failed.                      *)
Live(w) == ep[w] \in {"serving", "leaving", "ended"}

(* Only sockets whose client was accepted are in the slot, at the gate, in  *)
(* a flush or in a clean-up, and a clean-up is of a closed one.             *)
SocketInv ==
    /\ \A w \in Sockets : ep[w] # "new" => sess[w] \in Sessions
    /\ \A w \in Sockets : ep[w] = "leaving" => link[w] = "gone"
    /\ client # NoSocket => Live(client)
    /\ \A w \in Sockets : flush[w].pc # "none" => Live(w)
    /\ \A k \in Elements(gate) : Live(k.ws)
    /\ \A u \in Elements(unsent) : Live(u.ws) /\ (u.failed => app[u.ws] = "closed")
    /\ \A w \in cleanup : Live(w) /\ app[w] = "closed"

(* Who stands at the gate, and what for.                                    *)
TicketInv ==
    \A k \in Elements(gate) :
      /\ k.op = "send" <=> k.text # NoText
      /\ k.op = "send" => k.by \in {"task", "flush"}
      /\ k.op = "ping" => k.by = "keep"
      /\ k.op = "close" => k.by \in {"keep", "cleanup"} \cup Callers
      /\ k.op = "close" /\ k.busy => app[k.ws] = "closed"
      /\ k.by \in Callers => lock = k.by

(* The keepalive loop is at the gate once at most, for the client in the    *)
(* slot, and once its close is through that client is closed.               *)
KeepOnce(q) == \A i, j \in 1..Len(q) : q[i].by = "keep" /\ q[j].by = "keep" => i = j
KeepInv ==
    /\ KeepOnce(gate)
    /\ \A k \in Elements(gate) : k.by = "keep" =>
         /\ keep = IF k.op = "ping" THEN "ping" ELSE "closing"
         /\ client \in {NoSocket, k.ws}
    /\ keep = "closing" =>
         ~Connected(client) \/ \E k \in Elements(gate) : k.by = "keep" /\ ~k.busy

(* Only texts that were broadcast are anywhere.                             *)
TextInv ==
    /\ \A t \in Elements(pending) \cup dropped : t <= Len(said)
    /\ \A k \in Elements(gate) \cup Elements(unsent) \cup sent : k.text <= Len(said)
    /\ \A w \in Sockets : \A t \in Elements(flush[w].rest) : t <= Len(said)
    /\ \A w \in Sockets : flush[w].pc # "sending" => flush[w].rest = <<>>
    /\ IsFiniteSet(sent)

(* While the slot has not changed hands during an accept() or a flush:      *)
(* there is one accept() at most, of the owner's client and with no client  *)
(* connected in the slot, and none while the lock is held, when the client  *)
(* in the slot is being closed ...                                          *)
SlotInv ==
    /\ lock # Free => \A w \in Sockets : ep[w] # "accept" /\ flush[w].pc = "none"
    /\ \A v, w \in Sockets : ep[v] = "accept" /\ ep[w] = "accept" => v = w
    /\ \A w \in Sockets : ep[w] = "accept" => sess[w] = owner /\ ~Connected(client)
    /\ \A x \in Callers : lock = x =>
         /\ \A k \in Elements(gate) : k.by = x => k.ws = client
         /\ ~Connected(client) \/ \E k \in Elements(gate) : k.by = x /\ ~k.busy

(* ... the client connected in the slot, every flush and what waits are the *)
(* owner's, and every text at the gate is for a socket of its own session.  *)
OwnInv ==
    /\ Connected(client) => sess[client] = owner
    /\ \A w \in Sockets : flush[w].pc # "none" => sess[w] = owner
    /\ \A w \in Sockets : flush[w].pc = "sending" => flush[w].sess = owner
    /\ \A w \in Sockets : \A t \in Elements(flush[w].rest) : said[t] = owner
    /\ \A t \in Elements(pending) : said[t] = owner
    /\ \A k \in Elements(gate) : k.op = "send" => said[k.text] = k.sess /\ sess[k.ws] = k.sess
    /\ \A u \in Elements(unsent) : said[u.text] = u.sess
    /\ SentToOwnSession

CrossInv == ~raced => SlotInv /\ OwnInv

IInv == TypeOK /\ SocketInv /\ TicketInv /\ KeepInv /\ TextInv /\ CrossInv

USE DEF slotVars, hubVars, endVars, sockVars, taskVars, pastVars, ioVars

-----------------------------------------------------------------------------
(* Sequences.                                                              *)

LEMMA ElementsOf ==
    ASSUME NEW S, NEW q \in Seq(S)
    PROVE  Elements(q) = Range(q) /\ Elements(q) \subseteq S /\ (q = <<>> <=> Elements(q) = {})
<1>1. Elements(q) = Range(q)
  BY RangeEquality DEF Elements
<1>2. Elements(q) \subseteq S
  BY DEF Elements
<1>3. ASSUME q # <<>>
      PROVE  q[1] \in Elements(q)
  <2>1. 1 \in 1..Len(q)
    BY <1>3
  <2> QED BY <2>1 DEF Elements
<1>4. Elements(<<>>) = {}
  BY DEF Elements
<1> QED BY <1>1, <1>2, <1>3, <1>4

LEMMA JoinFacts ==
    ASSUME NEW S, NEW p \in Seq(S), NEW q \in Seq(S)
    PROVE  /\ p \o q \in Seq(S) /\ Len(p \o q) = Len(p) + Len(q)
           /\ Len(p) \in Nat /\ Len(q) \in Nat
           /\ \A i \in 1..Len(p) : (p \o q)[i] = p[i]
           /\ \A i \in 1..Len(q) : (p \o q)[Len(p) + i] = q[i]
           /\ Elements(p \o q) = Elements(p) \cup Elements(q)
<1>1. /\ p \o q \in Seq(S) /\ Len(p \o q) = Len(p) + Len(q)
      /\ Len(p) \in Nat /\ Len(q) \in Nat
  OBVIOUS
<1>2. \A i \in 1..Len(p) + Len(q) : (p \o q)[i] = IF i <= Len(p) THEN p[i] ELSE q[i - Len(p)]
  BY ConcatProperties
<1>3. \A i \in 1..Len(p) : (p \o q)[i] = p[i]
  BY <1>1, <1>2
<1>4. \A i \in 1..Len(q) : (p \o q)[Len(p) + i] = q[i]
  <2> TAKE i \in 1..Len(q)
  <2>1. Len(p) + i \in 1..Len(p) + Len(q) /\ ~(Len(p) + i <= Len(p)) /\ (Len(p) + i) - Len(p) = i
    BY <1>1
  <2> QED BY <1>2, <2>1
<1>5. Elements(p \o q) = Elements(p) \cup Elements(q)
  <2>1. Range(p \o q) = Range(p) \cup Range(q)
    BY RangeConcatenation
  <2>2. Elements(p) = Range(p) /\ Elements(q) = Range(q)
    BY ElementsOf
  <2>3. Elements(p \o q) = Range(p \o q)
    BY <1>1, ElementsOf
  <2> QED BY <2>1, <2>2, <2>3
<1> QED BY <1>1, <1>3, <1>4, <1>5

LEMMA OneElement ==
    ASSUME NEW S, NEW x \in S
    PROVE  <<x>> \in Seq(S) /\ Len(<<x>>) = 1 /\ <<x>>[1] = x /\ Elements(<<x>>) = {x}
<1>1. <<x>> \in Seq(S) /\ Len(<<x>>) = 1 /\ <<x>>[1] = x
  OBVIOUS
<1>2. \A i \in 1..Len(<<x>>) : i = 1
  BY <1>1
<1> QED BY <1>1, <1>2 DEF Elements

LEMMA AppendElements ==
    ASSUME NEW S, NEW q \in Seq(S), NEW x \in S
    PROVE  /\ Append(q, x) \in Seq(S) /\ Len(Append(q, x)) = Len(q) + 1
           /\ Elements(Append(q, x)) = Elements(q) \cup {x}
           /\ Append(q, x)[Len(q) + 1] = x /\ Len(q) \in Nat
           /\ \A i \in 1..Len(q) : Append(q, x)[i] = q[i]
<1>1. Append(q, x) = q \o <<x>>
  BY AppendIsConcat
<1>2. Elements(Append(q, x)) = Elements(q) \cup {x}
  <2>1. <<x>> \in Seq(S) /\ Elements(<<x>>) = {x}
    BY OneElement
  <2>2. \A p \in Seq(S) : Elements(q \o p) = Elements(q) \cup Elements(p)
    BY JoinFacts
  <2> QED BY <1>1, <2>1, <2>2
<1> QED BY <1>1, <1>2, AppendProperties, LenProperties

LEMMA FirstAndTail ==
    ASSUME NEW S, NEW q \in Seq(S), q # <<>>
    PROVE  q = <<q[1]>> \o Tail(q)
<1>1. Len(q) \in Nat /\ 1 \in 1..Len(q)
  OBVIOUS
<1>2. SubSeq(q, 1, Len(q)) = <<q[1]>> \o SubSeq(q, 2, Len(q))
  BY <1>1, SubSeqRecursiveFirst
<1> QED BY <1>2, SubSeqFull, TailIsSubSeq

LEMMA TailElements ==
    ASSUME NEW S, NEW q \in Seq(S), q # <<>>
    PROVE  /\ Tail(q) \in Seq(S) /\ Len(Tail(q)) = Len(q) - 1
           /\ Head(q) = q[1] /\ q[1] \in Elements(q) /\ q[1] \in S
           /\ Elements(q) = Elements(Tail(q)) \cup {q[1]}
           /\ Len(q) \in Nat /\ 1 \in 1..Len(q)
           /\ \A i \in 1..Len(Tail(q)) : i + 1 \in 1..Len(q) /\ Tail(q)[i] = q[i + 1]
<1>1. /\ Tail(q) \in Seq(S) /\ Len(Tail(q)) = Len(q) - 1
      /\ Head(q) = q[1] /\ q[1] \in S /\ Len(q) \in Nat /\ 1 \in 1..Len(q)
      /\ \A i \in 1..Len(Tail(q)) : i + 1 \in 1..Len(q) /\ Tail(q)[i] = q[i + 1]
  OBVIOUS
<1>2. q = <<q[1]>> \o Tail(q)
  BY FirstAndTail
<1>3. Elements(<<q[1]>> \o Tail(q)) = {q[1]} \cup Elements(Tail(q))
  <2>1. <<q[1]>> \in Seq(S) /\ Elements(<<q[1]>>) = {q[1]}
    BY <1>1, OneElement
  <2>2. \A p \in Seq(S) : Elements(p \o Tail(q)) = Elements(p) \cup Elements(Tail(q))
    BY <1>1, JoinFacts, ZenonT(40)
  <2> QED BY <2>1, <2>2
<1>4. Elements(q) = Elements(Tail(q)) \cup {q[1]}
  BY <1>2, <1>3
<1> QED BY <1>1, <1>2, <1>4

LEMMA PrefixAndRest ==
    ASSUME NEW S, NEW q \in Seq(S), NEW n \in 0..Len(q)
    PROVE  /\ SubSeq(q, 1, n) \in Seq(S)
           /\ SubSeq(q, n + 1, Len(q)) \in Seq(S)
           /\ Len(SubSeq(q, n + 1, Len(q))) = Len(q) - n
           /\ q = SubSeq(q, 1, n) \o SubSeq(q, n + 1, Len(q))
<1>1. Len(q) \in Nat /\ n \in Int /\ n + 1 \in Int
  OBVIOUS
<1>2. /\ \A i \in 1..n : q[i] \in S
      /\ \A i \in n + 1..Len(q) : q[i] \in S
  OBVIOUS
<1>3. SubSeq(q, 1, n) \in Seq(S)
  BY <1>1, <1>2, SubSeqProperties
<1>4. SubSeq(q, n + 1, Len(q)) \in Seq(S)
  BY <1>1, <1>2, SubSeqProperties
<1>5. Len(SubSeq(q, n + 1, Len(q))) = IF n + 1 <= Len(q) THEN Len(q) - (n + 1) + 1 ELSE 0
  BY <1>1, <1>2, SubSeqProperties
<1>6. SubSeq(q, 1, n) \o SubSeq(q, n + 1, Len(q)) = SubSeq(q, 1, Len(q))
  <2>1. 1 \in 1..Len(q) + 1 /\ n \in (1 - 1)..Len(q) /\ Len(q) \in n..Len(q)
    BY <1>1
  <2> QED BY <2>1, ConcatAdjacentSubSeq
<1>7. SubSeq(q, 1, Len(q)) = q
  BY SubSeqFull
<1>8. Len(SubSeq(q, n + 1, Len(q))) = Len(q) - n
  BY <1>1, <1>5
<1> QED BY <1>3, <1>4, <1>6, <1>7, <1>8

(* The oldest texts are shed, so that MaxPending stay.                      *)
LEMMA AppendedFacts ==
    ASSUME NEW S, NEW q \in Seq(S)
    PROVE  /\ Appended(q) \in Seq(S) /\ Len(Appended(q)) <= MaxPending
           /\ Elements(Appended(q)) \subseteq Elements(q)
           /\ ShedBy(q) \subseteq Elements(q)
           /\ ShedBy(q) # {} => Len(Appended(q)) = MaxPending
           /\ \E p \in Seq(S) : q = p \o Appended(q)
<1>1. Len(q) \in Nat /\ MaxPending \in Nat
  BY HubAssumption
<1> DEFINE n == IF Len(q) > MaxPending THEN Len(q) - MaxPending ELSE 0
<1>2. n \in 0..Len(q)
  BY <1>1
<1>3. Appended(q) = SubSeq(q, n + 1, Len(q))
  BY <1>1 DEF Appended
<1>4. Len(q) - n <= MaxPending /\ (n # 0 => Len(q) - n = MaxPending)
  BY <1>1
<1>5. n = 0 => Appended(q) = q
  <2>1. SubSeq(q, 1, Len(q)) = q
    BY SubSeqFull
  <2> QED BY <1>3, <2>1
<1> HIDE DEF n
<1>6. /\ SubSeq(q, 1, n) \in Seq(S) /\ Appended(q) \in Seq(S)
      /\ Len(Appended(q)) = Len(q) - n /\ q = SubSeq(q, 1, n) \o Appended(q)
  <2>1. /\ SubSeq(q, 1, n) \in Seq(S) /\ SubSeq(q, n + 1, Len(q)) \in Seq(S)
        /\ Len(SubSeq(q, n + 1, Len(q))) = Len(q) - n
    BY <1>2, PrefixAndRest
  <2>2. q = SubSeq(q, 1, n) \o SubSeq(q, n + 1, Len(q))
    BY <1>2, PrefixAndRest
  <2>3. Appended(q) \in Seq(S) /\ Len(Appended(q)) = Len(q) - n
    BY <1>3, <2>1
  <2>4. q = SubSeq(q, 1, n) \o Appended(q)
    BY <1>3, <2>2, Zenon
  <2> QED BY <2>1, <2>3, <2>4
<1>7. Elements(Appended(q)) \subseteq Elements(q)
  <2>1. \A a, b \in Seq(S) : Elements(b) \subseteq Elements(a \o b)
    BY JoinFacts
  <2> QED BY <1>6, <2>1, Zenon
<1>8. ShedBy(q) # {} => n # 0
  BY <1>5 DEF ShedBy
<1> QED BY <1>4, <1>6, <1>7, <1>8 DEF ShedBy

-----------------------------------------------------------------------------
(* Counting the places of a text.                                          *)
Times(q, t) == Cardinality(Spots(q, t))
TextTimes(q, t) == Cardinality(TextSpots(q, t))
One(b) == IF b THEN 1 ELSE 0

(* C is A, a set of places up to m, followed by B, one of places up to n.   *)
Follows(m, n, A, B, C) ==
    /\ m \in Nat /\ n \in Nat
    /\ A \subseteq 1..m /\ B \subseteq 1..n /\ C \subseteq 1..(m + n)
    /\ \A i \in 1..m : i \in C <=> i \in A
    /\ \A i \in 1..n : m + i \in C <=> i \in B

LEMMA SplitCount ==
    ASSUME NEW m, NEW n, NEW A, NEW B, NEW C, Follows(m, n, A, B, C)
    PROVE  /\ Cardinality(A) \in Nat /\ Cardinality(B) \in Nat
           /\ Cardinality(C) = Cardinality(A) + Cardinality(B)
<1> USE DEF Follows
<1>1. IsFiniteSet(1..m) /\ IsFiniteSet(1..n)
  BY FS_Interval
<1>2. IsFiniteSet(A) /\ IsFiniteSet(B)
  BY <1>1, FS_Subset
<1> DEFINE D == {m + i : i \in B}
<1>3. [i \in B |-> m + i] \in Bijection(B, D)
  <2> DEFINE f == [i \in B |-> m + i]
  <2>1. f \in [B -> D]
    OBVIOUS
  <2>2. \A i, j \in B : f[i] = f[j] => i = j
    OBVIOUS
  <2>3. \A x \in D : \E i \in B : f[i] = x
    OBVIOUS
  <2> HIDE DEF f
  <2>4. f \in Bijection(B, D)
    BY <2>1, <2>2, <2>3 DEF Bijection, Injection, Surjection, IsInjective
  <2> QED BY <2>4 DEF f
<1>4. IsFiniteSet(D) /\ Cardinality(D) = Cardinality(B)
  BY <1>2, <1>3, FS_Bijection DEF ExistsBijection
<1>5. C = A \cup D /\ A \cap D = {}
  <2>1. ASSUME NEW x \in C
        PROVE  x \in A \cup D
    <3>1. CASE x \in 1..m
      BY <2>1, <3>1
    <3>2. CASE x \notin 1..m
      <4>1. x - m \in 1..n /\ m + (x - m) = x
        BY <3>2
      <4> QED BY <4>1
    <3> QED BY <3>1, <3>2
  <2>2. ASSUME NEW x \in A \cup D
        PROVE  x \in C
    OBVIOUS
  <2>3. A \cap D = {}
    OBVIOUS
  <2> QED BY <2>1, <2>2, <2>3
<1>6. Cardinality(A \cup D) = Cardinality(A) + Cardinality(D) - Cardinality(A \cap D)
  BY <1>2, <1>4, FS_Union
<1>7. Cardinality(A \cap D) = 0
  BY <1>5, FS_EmptySet
<1>8. Cardinality(A) \in Nat /\ Cardinality(B) \in Nat
  BY <1>2, FS_CardinalityType
<1> QED BY <1>4, <1>5, <1>6, <1>7, <1>8

LEMMA TimesJoin ==
    ASSUME NEW S, NEW p \in Seq(S), NEW q \in Seq(S), NEW t
    PROVE  /\ Times(p, t) \in Nat /\ Times(q, t) \in Nat
           /\ Times(p \o q, t) = Times(p, t) + Times(q, t)
<1>1. Spots(p, t) \subseteq 1..Len(p) /\ Spots(q, t) \subseteq 1..Len(q)
  BY DEF Spots
<1>2. /\ Len(p) \in Nat /\ Len(q) \in Nat /\ Len(p \o q) = Len(p) + Len(q)
      /\ \A i \in 1..Len(p) : (p \o q)[i] = p[i]
      /\ \A i \in 1..Len(q) : (p \o q)[Len(p) + i] = q[i]
  BY JoinFacts
<1> DEFINE r == p \o q
<1>3. Spots(r, t) \subseteq 1..(Len(p) + Len(q))
  BY <1>2 DEF Spots
<1>4. \A i \in 1..Len(p) : i \in Spots(r, t) <=> i \in Spots(p, t)
  <2>1. \A i \in 1..Len(p) : i \in 1..Len(r)
    BY <1>2
  <2> QED BY <1>2, <2>1 DEF Spots
<1>5. \A i \in 1..Len(q) : Len(p) + i \in Spots(r, t) <=> i \in Spots(q, t)
  <2>1. \A i \in 1..Len(q) : Len(p) + i \in 1..Len(r)
    BY <1>2
  <2> QED BY <1>2, <2>1 DEF Spots
<1> HIDE DEF r
<1>6. /\ Times(p, t) \in Nat /\ Times(q, t) \in Nat
      /\ Times(r, t) = Times(p, t) + Times(q, t)
  <2>1. /\ Cardinality(Spots(p, t)) \in Nat /\ Cardinality(Spots(q, t)) \in Nat
        /\ Cardinality(Spots(r, t)) = Cardinality(Spots(p, t)) + Cardinality(Spots(q, t))
    <3>1. Follows(Len(p), Len(q), Spots(p, t), Spots(q, t), Spots(r, t))
      BY <1>1, <1>2, <1>3, <1>4, <1>5 DEF Follows
    <3> QED BY <3>1, SplitCount
  <2> QED BY <2>1 DEF Times
<1> QED BY <1>6 DEF r

LEMMA TextTimesJoin ==
    ASSUME NEW S, NEW p \in Seq(S), NEW q \in Seq(S), NEW t
    PROVE  /\ TextTimes(p, t) \in Nat /\ TextTimes(q, t) \in Nat
           /\ TextTimes(p \o q, t) = TextTimes(p, t) + TextTimes(q, t)
<1>1. TextSpots(p, t) \subseteq 1..Len(p) /\ TextSpots(q, t) \subseteq 1..Len(q)
  BY DEF TextSpots
<1>2. /\ Len(p) \in Nat /\ Len(q) \in Nat /\ Len(p \o q) = Len(p) + Len(q)
      /\ \A i \in 1..Len(p) : (p \o q)[i] = p[i]
      /\ \A i \in 1..Len(q) : (p \o q)[Len(p) + i] = q[i]
  BY JoinFacts
<1> DEFINE r == p \o q
<1>3. TextSpots(r, t) \subseteq 1..(Len(p) + Len(q))
  BY <1>2 DEF TextSpots
<1>4. \A i \in 1..Len(p) : i \in TextSpots(r, t) <=> i \in TextSpots(p, t)
  <2>1. \A i \in 1..Len(p) : i \in 1..Len(r)
    BY <1>2
  <2> QED BY <1>2, <2>1 DEF TextSpots
<1>5. \A i \in 1..Len(q) : Len(p) + i \in TextSpots(r, t) <=> i \in TextSpots(q, t)
  <2>1. \A i \in 1..Len(q) : Len(p) + i \in 1..Len(r)
    BY <1>2
  <2> QED BY <1>2, <2>1 DEF TextSpots
<1> HIDE DEF r
<1>6. /\ TextTimes(p, t) \in Nat /\ TextTimes(q, t) \in Nat
      /\ TextTimes(r, t) = TextTimes(p, t) + TextTimes(q, t)
  <2>1. /\ Cardinality(TextSpots(p, t)) \in Nat /\ Cardinality(TextSpots(q, t)) \in Nat
        /\ Cardinality(TextSpots(r, t)) = Cardinality(TextSpots(p, t)) + Cardinality(TextSpots(q, t))
    <3>1. Follows(Len(p), Len(q), TextSpots(p, t), TextSpots(q, t), TextSpots(r, t))
      BY <1>1, <1>2, <1>3, <1>4, <1>5 DEF Follows
    <3> QED BY <3>1, SplitCount
  <2> QED BY <2>1 DEF TextTimes
<1> QED BY <1>6 DEF r

LEMMA TimesOne ==
    ASSUME NEW x, NEW t
    PROVE  Times(<<x>>, t) = One(x = t) /\ TextTimes(<<x>>, t) = One(x.text = t)
<1>1. Spots(<<x>>, t) = IF x = t THEN {1} ELSE {}
  BY DEF Spots
<1>2. TextSpots(<<x>>, t) = IF x.text = t THEN {1} ELSE {}
  BY DEF TextSpots
<1>3. Cardinality({1}) = 1 /\ Cardinality({}) = 0
  BY FS_Singleton, FS_EmptySet
<1> QED BY <1>1, <1>2, <1>3 DEF Times, TextTimes, One

LEMMA TimesZero ==
    ASSUME NEW S, NEW q \in Seq(S), NEW t
    PROVE  /\ Times(q, t) \in Nat /\ TextTimes(q, t) \in Nat
           /\ Times(q, t) = 0 <=> t \notin Elements(q)
           /\ TextTimes(q, t) = 0 <=> \A k \in Elements(q) : k.text # t
<1>1. Spots(q, t) \subseteq 1..Len(q) /\ TextSpots(q, t) \subseteq 1..Len(q)
  BY DEF Spots, TextSpots
<1>2. IsFiniteSet(1..Len(q))
  <2>1. Len(q) \in Nat
    OBVIOUS
  <2> QED BY <2>1, FS_Interval
<1>3. IsFiniteSet(Spots(q, t)) /\ IsFiniteSet(TextSpots(q, t))
  BY <1>1, <1>2, FS_Subset
<1>4. Spots(q, t) = {} <=> t \notin Elements(q)
  BY DEF Spots, Elements
<1>5. TextSpots(q, t) = {} <=> \A k \in Elements(q) : k.text # t
  BY DEF TextSpots, Elements
<1> QED BY <1>3, <1>4, <1>5, FS_CardinalityType, FS_EmptySet DEF Times, TextTimes

LEMMA TimesAppend ==
    ASSUME NEW S, NEW q \in Seq(S), NEW x \in S, NEW t
    PROVE  /\ Times(Append(q, x), t) = Times(q, t) + One(x = t)
           /\ TextTimes(Append(q, x), t) = TextTimes(q, t) + One(x.text = t)
<1>1. Append(q, x) = q \o <<x>> /\ <<x>> \in Seq(S)
  BY AppendIsConcat, OneElement
<1>2. \A p \in Seq(S) : /\ Times(q \o p, t) = Times(q, t) + Times(p, t)
                        /\ TextTimes(q \o p, t) = TextTimes(q, t) + TextTimes(p, t)
  BY TimesJoin, TextTimesJoin
<1>3. Times(<<x>>, t) = One(x = t) /\ TextTimes(<<x>>, t) = One(x.text = t)
  BY TimesOne
<1>4. ASSUME NEW p \in Seq(S), p = <<x>>
      PROVE  /\ Times(q \o p, t) = Times(q, t) + One(x = t)
             /\ TextTimes(q \o p, t) = TextTimes(q, t) + One(x.text = t)
  BY <1>2, <1>3, <1>4
<1> QED BY <1>1, <1>4

LEMMA TimesCons ==
    ASSUME NEW S, NEW q \in Seq(S), NEW x \in S, NEW t
    PROVE  /\ Times(<<x>> \o q, t) = One(x = t) + Times(q, t)
           /\ TextTimes(<<x>> \o q, t) = One(x.text = t) + TextTimes(q, t)
<1>1. <<x>> \in Seq(S)
  BY OneElement
<1>2. \A p \in Seq(S) : /\ Times(p \o q, t) = Times(p, t) + Times(q, t)
                        /\ TextTimes(p \o q, t) = TextTimes(p, t) + TextTimes(q, t)
  BY TimesJoin, TextTimesJoin
<1>3. Times(<<x>>, t) = One(x = t) /\ TextTimes(<<x>>, t) = One(x.text = t)
  BY TimesOne
<1>4. ASSUME NEW p \in Seq(S), p = <<x>>
      PROVE  /\ Times(p \o q, t) = One(x = t) + Times(q, t)
             /\ TextTimes(p \o q, t) = One(x.text = t) + TextTimes(q, t)
  BY <1>2, <1>3, <1>4
<1> QED BY <1>1, <1>4

LEMMA TimesTail ==
    ASSUME NEW S, NEW q \in Seq(S), q # <<>>, NEW t
    PROVE  /\ Times(q, t) = One(q[1] = t) + Times(Tail(q), t)
           /\ TextTimes(q, t) = One(q[1].text = t) + TextTimes(Tail(q), t)
<1>1. q = <<q[1]>> \o Tail(q) /\ q[1] \in S /\ Tail(q) \in Seq(S)
  BY FirstAndTail, TailElements
<1>2. ASSUME NEW x \in S, NEW p \in Seq(S), x = q[1], p = Tail(q)
      PROVE  /\ Times(q, t) = One(x = t) + Times(p, t)
             /\ TextTimes(q, t) = One(x.text = t) + TextTimes(p, t)
  <2>1. q = <<x>> \o p
    BY <1>1, <1>2, Zenon
  <2>2. /\ Times(<<x>> \o p, t) = One(x = t) + Times(p, t)
        /\ TextTimes(<<x>> \o p, t) = One(x.text = t) + TextTimes(p, t)
    BY TimesCons
  <2> QED BY <2>1, <2>2, Zenon
<1> QED BY <1>1, <1>2

(* A text that is in q once stays or is shed.                               *)
LEMMA TimesAppended ==
    ASSUME NEW S, NEW q \in Seq(S), NEW t, Times(q, t) \in {0, 1}
    PROVE  /\ Times(Appended(q), t) \in Nat
           /\ Times(Appended(q), t) + One(t \in ShedBy(q)) = Times(q, t)
<1>1. Appended(q) \in Seq(S)
  BY AppendedFacts
<1>2. PICK p \in Seq(S) : q = p \o Appended(q)
  BY AppendedFacts
<1>3. \A r \in Seq(S) : Times(p \o r, t) = Times(p, t) + Times(r, t)
  BY TimesJoin
<1>4. Times(q, t) = Times(p, t) + Times(Appended(q), t)
  BY <1>1, <1>2, <1>3, Zenon
<1>5. /\ Times(p, t) \in Nat /\ Times(q, t) \in Nat /\ Times(Appended(q), t) \in Nat
      /\ Times(q, t) = 0 <=> t \notin Elements(q)
      /\ Times(Appended(q), t) = 0 <=> t \notin Elements(Appended(q))
  BY <1>1, TimesZero
<1>6. t \in ShedBy(q) <=> t \in Elements(q) /\ t \notin Elements(Appended(q))
  BY DEF ShedBy
<1> QED BY <1>4, <1>5, <1>6 DEF One

(* One flush of the family f of flushes changes.                            *)
FamilyTimes(f, t) == Cardinality(UNION {{w} \X Spots(f[w].rest, t) : w \in Sockets})
OthersTimes(f, v, t) == Cardinality(UNION {{w} \X Spots(f[w].rest, t) : w \in Sockets \ {v}})

LEMMA FamilySplit ==
    ASSUME NEW S, NEW f, \A w \in Sockets : f[w].rest \in Seq(S), NEW v \in Sockets, NEW t
    PROVE  /\ OthersTimes(f, v, t) \in Nat
           /\ FamilyTimes(f, t) = OthersTimes(f, v, t) + Times(f[v].rest, t)
<1> DEFINE A(w) == {w} \X Spots(f[w].rest, t)
           B == UNION {A(w) : w \in Sockets \ {v}}
           C == UNION {A(w) : w \in Sockets}
<1>1. ASSUME NEW w \in Sockets
      PROVE  IsFiniteSet(A(w)) /\ Cardinality(A(w)) = Times(f[w].rest, t)
  <2>1. IsFiniteSet(Spots(f[w].rest, t))
    <3>1. Spots(f[w].rest, t) \subseteq 1..Len(f[w].rest) /\ Len(f[w].rest) \in Nat
      BY DEF Spots
    <3>2. IsFiniteSet(1..Len(f[w].rest))
      BY <3>1, FS_Interval
    <3> QED BY <3>1, <3>2, FS_Subset
  <2>2. IsFiniteSet({w}) /\ Cardinality({w}) = 1
    BY FS_Singleton
  <2>3. /\ IsFiniteSet(A(w))
        /\ Cardinality(A(w)) = Cardinality({w}) * Cardinality(Spots(f[w].rest, t))
    BY <2>1, <2>2, FS_Product
  <2>4. Cardinality(Spots(f[w].rest, t)) \in Nat
    BY <2>1, FS_CardinalityType
  <2> QED BY <2>2, <2>3, <2>4 DEF Times
<1>2. IsFiniteSet(B)
  <2> DEFINE T == {A(w) : w \in Sockets \ {v}}
             g == [w \in Sockets \ {v} |-> A(w)]
  <2>1. g \in Surjection(Sockets \ {v}, T)
    BY DEF Surjection
  <2>2. IsFiniteSet(Sockets \ {v})
    BY HubAssumption, FS_RemoveElement
  <2>3. IsFiniteSet(T)
    BY <2>1, <2>2, FS_Surjection
  <2>4. \A x \in T : IsFiniteSet(x)
    BY <1>1
  <2> QED BY <2>3, <2>4, FS_UNION
<1>3. C = B \cup A(v) /\ B \cap A(v) = {}
  OBVIOUS
<1> HIDE DEF A, B, C
<1>4. Cardinality(C) = Cardinality(B) + Cardinality(A(v)) - Cardinality(B \cap A(v))
  BY <1>1, <1>2, <1>3, FS_Union
<1>5. Cardinality(B \cap A(v)) = 0 /\ Cardinality(B) \in Nat /\ Cardinality(A(v)) \in Nat
  BY <1>1, <1>2, <1>3, FS_EmptySet, FS_CardinalityType
<1>6. Cardinality(C) = Cardinality(B) + Times(f[v].rest, t)
  BY <1>1, <1>4, <1>5
<1> QED BY <1>5, <1>6 DEF B, C, A, OthersTimes, FamilyTimes

Resting(f) == \A w \in Sockets : f[w].rest \in Seq(Texts)

LEMMA FamilyChange ==
    ASSUME NEW f, NEW g, NEW v \in Sockets, NEW t, Resting(f), Resting(g),
           \A w \in Sockets \ {v} : g[w].rest = f[w].rest
    PROVE  /\ FamilyTimes(f, t) \in Nat /\ FamilyTimes(g, t) \in Nat
           /\ Times(f[v].rest, t) \in Nat /\ Times(g[v].rest, t) \in Nat
           /\ FamilyTimes(g, t) + Times(f[v].rest, t) = FamilyTimes(f, t) + Times(g[v].rest, t)
<1>1. OthersTimes(g, v, t) = OthersTimes(f, v, t)
  <2>1. {{w} \X Spots(g[w].rest, t) : w \in Sockets \ {v}}
        = {{w} \X Spots(f[w].rest, t) : w \in Sockets \ {v}}
    OBVIOUS
  <2> QED BY <2>1 DEF OthersTimes
<1>2. /\ OthersTimes(f, v, t) \in Nat
      /\ FamilyTimes(f, t) = OthersTimes(f, v, t) + Times(f[v].rest, t)
  BY FamilySplit DEF Resting
<1>3. FamilyTimes(g, t) = OthersTimes(g, v, t) + Times(g[v].rest, t)
  BY FamilySplit DEF Resting
<1>4. Times(f[v].rest, t) \in Nat /\ Times(g[v].rest, t) \in Nat
  BY TimesZero DEF Resting
<1> QED BY <1>1, <1>2, <1>3, <1>4

LEMMA FamilyZero ==
    ASSUME NEW S, NEW f, NEW t, \A w \in Sockets : f[w].rest \in Seq(S)
    PROVE  /\ FamilyTimes(f, t) \in Nat
           /\ FamilyTimes(f, t) = 0 <=> \A w \in Sockets : t \notin Elements(f[w].rest)
<1>1. ASSUME NEW v \in Sockets
      PROVE  FamilyTimes(f, t) \in Nat /\ (FamilyTimes(f, t) = 0 => t \notin Elements(f[v].rest))
  <2>1. /\ OthersTimes(f, v, t) \in Nat
        /\ FamilyTimes(f, t) = OthersTimes(f, v, t) + Times(f[v].rest, t)
    BY FamilySplit
  <2>2. Times(f[v].rest, t) \in Nat /\ (Times(f[v].rest, t) = 0 => t \notin Elements(f[v].rest))
    BY TimesZero
  <2> QED BY <2>1, <2>2
<1>2. ASSUME \A w \in Sockets : t \notin Elements(f[w].rest)
      PROVE  FamilyTimes(f, t) = 0
  <2>1. \A w \in Sockets : Spots(f[w].rest, t) = {}
    BY <1>2 DEF Spots, Elements
  <2>2. UNION {{w} \X Spots(f[w].rest, t) : w \in Sockets} = {}
    BY <2>1
  <2> QED BY <2>2, FS_EmptySet DEF FamilyTimes
<1> QED BY <1>1, <1>2

RecordTimes(s, t) == Cardinality({d \in s : d.text = t})

LEMMA RecordFacts ==
    ASSUME NEW s, NEW t, IsFiniteSet(s)
    PROVE  /\ RecordTimes(s, t) \in Nat
           /\ RecordTimes(s, t) = 0 <=> \A d \in s : d.text # t
<1> DEFINE A == {d \in s : d.text = t}
<1>1. IsFiniteSet(A)
  BY FS_Subset
<1>2. Cardinality(A) \in Nat /\ (Cardinality(A) = 0 <=> A = {})
  BY <1>1, FS_CardinalityType, FS_EmptySet
<1>3. A = {} <=> \A d \in s : d.text # t
  OBVIOUS
<1> QED BY <1>2, <1>3 DEF RecordTimes

LEMMA RecordMore ==
    ASSUME NEW s, NEW r, NEW t, IsFiniteSet(s)
    PROVE  /\ r.text # t => RecordTimes(s \cup {r}, t) = RecordTimes(s, t)
           /\ r.text = t /\ RecordTimes(s, t) = 0 => RecordTimes(s \cup {r}, t) = 1
<1> DEFINE A == {d \in s : d.text = t}
           B == {d \in s \cup {r} : d.text = t}
<1>1. RecordTimes(s, t) = Cardinality(A) /\ RecordTimes(s \cup {r}, t) = Cardinality(B)
  BY DEF RecordTimes
<1>2. ASSUME r.text # t
      PROVE  B = A
  BY <1>2
<1>3. ASSUME r.text = t, RecordTimes(s, t) = 0
      PROVE  B = {r}
  BY <1>3, RecordFacts
<1>4. Cardinality({r}) = 1
  BY FS_Singleton
<1> HIDE DEF A, B
<1> QED BY <1>1, <1>2, <1>3, <1>4

-----------------------------------------------------------------------------
(* The gate.                                                               *)

(* p is q and one more ticket.                                              *)
OneMore(p, q, op, by, w, t, s) ==
    \E k \in Ticket :
      /\ k.op = op /\ k.by = by /\ k.ws = w /\ k.text = t /\ k.sess = s /\ ~k.busy
      /\ Elements(p) = Elements(q) \cup {k}

LEMMA EnterFacts ==
    ASSUME NEW q \in Seq(Ticket), NEW op \in {"send", "ping", "close"},
           NEW by \in {"task", "flush", "keep", "cleanup"} \cup Callers, NEW w \in Sockets,
           NEW t \in 0..MaxCalls, NEW s \in Sessions \cup {NoSession}
    PROVE  /\ EnterText(q, op, by, w, t, s) \in Seq(Ticket)
           /\ OneMore(EnterText(q, op, by, w, t, s), q, op, by, w, t, s)
           /\ KeepOnce(q) /\ (by = "keep" => \A k \in Elements(q) : k.by # "keep")
              => KeepOnce(EnterText(q, op, by, w, t, s))
<1> DEFINE k == [op |-> op, by |-> by, ws |-> w, text |-> t, sess |-> s,
                 prompt |-> q = <<>> /\ by # "task", busy |-> FALSE]
           p == EnterText(q, op, by, w, t, s)
<1>1. k \in Ticket
  BY DEF Ticket
<1>2. p = Append(q, k)
  BY DEF EnterText
<1>3. /\ k.op = op /\ k.by = by /\ k.ws = w /\ k.text = t /\ k.sess = s /\ ~k.busy
  OBVIOUS
<1> HIDE DEF k, p
<1>4. /\ p \in Seq(Ticket) /\ Len(p) = Len(q) + 1 /\ Len(q) \in Nat
      /\ Elements(p) = Elements(q) \cup {k}
      /\ p[Len(q) + 1] = k
      /\ \A i \in 1..Len(q) : p[i] = q[i]
  <2>1. /\ Append(q, k) \in Seq(Ticket) /\ Len(Append(q, k)) = Len(q) + 1 /\ Len(q) \in Nat
        /\ Elements(Append(q, k)) = Elements(q) \cup {k}
        /\ Append(q, k)[Len(q) + 1] = k
        /\ \A i \in 1..Len(q) : Append(q, k)[i] = q[i]
    BY <1>1, AppendElements
  <2>2. p \in Seq(Ticket) /\ Len(p) = Len(q) + 1 /\ Len(q) \in Nat
    BY <1>2, <2>1, Zenon
  <2>3. Elements(p) = Elements(q) \cup {k}
    BY <1>2, <2>1, Zenon
  <2>4. p[Len(q) + 1] = k
    BY <1>2, <2>1, Zenon
  <2>5. \A i \in 1..Len(q) : p[i] = q[i]
    BY <1>2, <2>1, Zenon
  <2> QED BY <2>2, <2>3, <2>4, <2>5
<1>6. ASSUME KeepOnce(q), by = "keep" => \A j \in Elements(q) : j.by # "keep"
      PROVE  KeepOnce(p)
  <2> SUFFICES ASSUME NEW i \in 1..Len(p), NEW j \in 1..Len(p), p[i].by = "keep", p[j].by = "keep"
               PROVE  i = j
    BY DEF KeepOnce
  <2>1. \A n \in 1..Len(q) : q[n] \in Elements(q)
    BY DEF Elements
  <2>2. CASE by = "keep"
    <3>1. \A n \in 1..Len(q) : p[n].by # "keep"
      BY <1>4, <1>6, <2>1, <2>2
    <3> QED BY <1>4, <3>1
  <2>3. CASE by # "keep"
    <3>1. i \in 1..Len(q) /\ j \in 1..Len(q)
      BY <1>3, <1>4, <2>3
    <3> QED BY <1>4, <1>6, <3>1 DEF KeepOnce
  <2> QED BY <2>2, <2>3
<1> QED BY <1>1, <1>3, <1>4, <1>6 DEF p, OneMore

LEMMA EnterTimes ==
    ASSUME NEW q \in Seq(Ticket), NEW op \in {"send", "ping", "close"},
           NEW by \in {"task", "flush", "keep", "cleanup"} \cup Callers, NEW w \in Sockets,
           NEW t \in 0..MaxCalls, NEW s \in Sessions \cup {NoSession}, NEW x
    PROVE  TextTimes(EnterText(q, op, by, w, t, s), x) = TextTimes(q, x) + One(t = x)
<1> DEFINE k == [op |-> op, by |-> by, ws |-> w, text |-> t, sess |-> s,
                 prompt |-> q = <<>> /\ by # "task", busy |-> FALSE]
<1>1. k \in Ticket /\ k.text = t
  BY DEF Ticket
<1>2. EnterText(q, op, by, w, t, s) = Append(q, k)
  BY DEF EnterText
<1> HIDE DEF k
<1>3. TextTimes(Append(q, k), x) = TextTimes(q, x) + One(k.text = x)
  BY <1>1, TimesAppend
<1> QED BY <1>1, <1>2, <1>3, Zenon

LEMMA EnterOther ==
    ASSUME NEW q \in Seq(Ticket), NEW op \in {"ping", "close"},
           NEW by \in {"task", "flush", "keep", "cleanup"} \cup Callers, NEW w \in Sockets
    PROVE  /\ Enter(q, op, by, w) \in Seq(Ticket)
           /\ OneMore(Enter(q, op, by, w), q, op, by, w, NoText, NoSession)
           /\ KeepOnce(q) /\ (by = "keep" => \A k \in Elements(q) : k.by # "keep")
              => KeepOnce(Enter(q, op, by, w))
           /\ \A x \in Texts : TextTimes(Enter(q, op, by, w), x) = TextTimes(q, x)
<1>1. NoText \in 0..MaxCalls /\ NoSession \in Sessions \cup {NoSession}
  BY HubAssumption DEF NoText
<1>2. /\ Enter(q, op, by, w) \in Seq(Ticket)
      /\ OneMore(Enter(q, op, by, w), q, op, by, w, NoText, NoSession)
      /\ KeepOnce(q) /\ (by = "keep" => \A k \in Elements(q) : k.by # "keep")
         => KeepOnce(Enter(q, op, by, w))
  BY <1>1, EnterFacts DEF Enter
<1>3. \A x : TextTimes(Enter(q, op, by, w), x) = TextTimes(q, x) + One(NoText = x)
  BY <1>1, EnterTimes DEF Enter
<1>4. ASSUME NEW x \in Texts
      PROVE  TextTimes(Enter(q, op, by, w), x) = TextTimes(q, x)
  <2>1. TextTimes(q, x) \in Nat
    BY TimesZero
  <2>2. NoText # x
    BY HubAssumption DEF NoText, Texts
  <2> QED BY <1>3, <2>1, <2>2 DEF One
<1> QED BY <1>2, <1>4

LEMMA EnterSends ==
    ASSUME NEW q \in Seq(Ticket), NEW by \in {"task", "flush"}, NEW w \in Sockets,
           NEW t \in Texts, NEW s \in Sessions \cup {NoSession}
    PROVE  /\ EnterSend(q, by, w, t, s) \in Seq(Ticket)
           /\ OneMore(EnterSend(q, by, w, t, s), q, "send", by, w, t, s)
           /\ KeepOnce(q) => KeepOnce(EnterSend(q, by, w, t, s))
           /\ \A x : TextTimes(EnterSend(q, by, w, t, s), x) = TextTimes(q, x) + One(t = x)
<1>1. t \in 0..MaxCalls
  BY HubAssumption DEF Texts
<1>2. \A x : TextTimes(EnterSend(q, by, w, t, s), x) = TextTimes(q, x) + One(t = x)
  BY <1>1, EnterTimes DEF EnterSend
<1>3. /\ EnterSend(q, by, w, t, s) \in Seq(Ticket)
      /\ OneMore(EnterSend(q, by, w, t, s), q, "send", by, w, t, s)
      /\ KeepOnce(q) => KeepOnce(EnterSend(q, by, w, t, s))
  BY <1>1, EnterFacts DEF EnterSend
<1> QED BY <1>2, <1>3

LEMMA TailKeep ==
    ASSUME NEW q \in Seq(Ticket), q # <<>>, KeepOnce(q)
    PROVE  /\ KeepOnce(Tail(q))
           /\ q[1].by = "keep" => \A k \in Elements(Tail(q)) : k.by # "keep"
<1>1. /\ Len(q) \in Nat /\ 1 \in 1..Len(q)
      /\ \A i \in 1..Len(Tail(q)) : i + 1 \in 1..Len(q) /\ Tail(q)[i] = q[i + 1]
  BY TailElements
<1>2. KeepOnce(Tail(q))
  <2> SUFFICES ASSUME NEW i \in 1..Len(Tail(q)), NEW j \in 1..Len(Tail(q)),
                      Tail(q)[i].by = "keep", Tail(q)[j].by = "keep"
               PROVE  i = j
    BY DEF KeepOnce
  <2>1. i + 1 = j + 1
    BY <1>1 DEF KeepOnce
  <2> QED BY <2>1
<1>3. ASSUME q[1].by = "keep", NEW i \in 1..Len(Tail(q)), Tail(q)[i].by = "keep"
      PROVE  FALSE
  <2>1. i + 1 = 1
    BY <1>1, <1>3 DEF KeepOnce
  <2> QED BY <2>1
<1> QED BY <1>2, <1>3 DEF Elements

LEMMA InsideFacts ==
    ASSUME gate \in Seq(Ticket), gate # <<>>
    PROVE  /\ Inside \in Seq(Ticket)
           /\ \E b \in Ticket :
                /\ b.op = Turn.op /\ b.by = Turn.by /\ b.ws = Turn.ws /\ b.text = Turn.text
                /\ b.sess = Turn.sess /\ b.busy
                /\ b \in Elements(Inside)
                /\ Elements(Inside) \subseteq Elements(gate) \cup {b}
                /\ Elements(gate) \subseteq Elements(Inside) \cup {Turn}
           /\ KeepOnce(gate) => KeepOnce(Inside)
           /\ \A t : TextTimes(Inside, t) = TextTimes(gate, t)
<1>1. 1 \in 1..Len(gate) /\ gate[1] \in Ticket
  BY TailElements
<1>2. PICK b \in Ticket : b = [gate[1] EXCEPT !.busy = TRUE]
  BY <1>1 DEF Ticket
<1>3. /\ b.op = Turn.op /\ b.by = Turn.by /\ b.ws = Turn.ws /\ b.text = Turn.text
      /\ b.sess = Turn.sess /\ b.busy
  BY <1>1, <1>2 DEF Ticket, Turn
<1>4. Inside = [gate EXCEPT ![1] = b]
  BY <1>1, <1>2 DEF Inside
<1>5. /\ Inside \in Seq(Ticket) /\ Len(Inside) = Len(gate)
      /\ \A j \in 1..Len(gate) : Inside[j] = IF j = 1 THEN b ELSE gate[j]
  BY <1>1, <1>4, ExceptSeq
<1>6. /\ b \in Elements(Inside)
      /\ Elements(Inside) \subseteq Elements(gate) \cup {b}
      /\ Elements(gate) \subseteq Elements(Inside) \cup {Turn}
  BY <1>1, <1>5 DEF Elements, Turn
<1>7. KeepOnce(gate) => KeepOnce(Inside)
  BY <1>3, <1>5 DEF KeepOnce, Turn
<1>8. \A t : TextTimes(Inside, t) = TextTimes(gate, t)
  <2> TAKE t
  <2>1. TextSpots(Inside, t) = TextSpots(gate, t)
    BY <1>3, <1>5 DEF TextSpots, Turn
  <2> QED BY <2>1 DEF TextTimes
<1> QED BY <1>3, <1>5, <1>6, <1>7, <1>8

LEMMA WithoutKeepFacts ==
    ASSUME NEW q \in Seq(Ticket), KeepOnce(q)
    PROVE  /\ WithoutKeep(q) \in Seq(Ticket)
           /\ Elements(WithoutKeep(q)) = {k \in Elements(q) : k.by # "keep"}
           /\ KeepOnce(WithoutKeep(q))
           /\ \A t : (\A k \in Elements(q) : k.by = "keep" => k.text # t)
                     => TextTimes(WithoutKeep(q), t) = TextTimes(q, t)
<1>1. CASE \A i \in 1..Len(q) : q[i].by # "keep"
  <2>1. WithoutKeep(q) = q
    BY <1>1 DEF WithoutKeep, RemoveFirstMatch
  <2> QED BY <1>1, <2>1 DEF Elements
<1>2. CASE \E i \in 1..Len(q) : q[i].by = "keep"
  <2>1. PICK n \in 1..Len(q) : q[n].by = "keep"
    BY <1>2
  <2>2. {i \in 1..Len(q) : q[i].by = "keep"} = {n}
    BY <2>1 DEF KeepOnce
  <2>3. WithoutKeep(q) = SubSeq(q, 1, n - 1) \o SubSeq(q, n + 1, Len(q))
    <3>1. Min({n}) = n
      BY DEF Min
    <3>2. WithoutKeep(q) = RemoveAt(q, Min({n}))
      BY <2>1, <2>2 DEF WithoutKeep, RemoveFirstMatch, SelectInSeq
    <3> QED BY <3>1, <3>2 DEF RemoveAt
  <2> DEFINE a == SubSeq(q, 1, n - 1)
             b == SubSeq(q, n + 1, Len(q))
  <2>4. /\ a \in Seq(Ticket) /\ b \in Seq(Ticket) /\ q[n] \in Ticket
        /\ q = SubSeq(q, 1, n) \o b /\ SubSeq(q, 1, n) = Append(a, q[n])
    <3>1. n \in 0..Len(q) /\ n - 1 \in 0..Len(q) /\ n \in 1..Len(q) + 1
      OBVIOUS
    <3>2. a \in Seq(Ticket) /\ b \in Seq(Ticket) /\ q = SubSeq(q, 1, n) \o b
      BY <3>1, PrefixAndRest
    <3>3. SubSeq(q, 1, n) = Append(a, q[n])
      BY <3>1, SubSeqRecursiveSecond
    <3> QED BY <3>2, <3>3
  <2>5. /\ \A i \in 1..Len(a) : a[i].by # "keep"
        /\ \A i \in 1..Len(b) : b[i].by # "keep"
    <3>1. Len(q) \in Nat /\ n \in 1..Len(q) /\ (\A i \in 1..Len(q) : q[i] \in Ticket)
      OBVIOUS
    <3>2. /\ Len(a) = n - 1 /\ \A i \in 1..Len(a) : a[i] = q[i]
      BY <3>1
    <3>3. /\ Len(b) = Len(q) - n /\ \A i \in 1..Len(b) : b[i] = q[n + i]
      BY <3>1
    <3> HIDE DEF a, b
    <3>4. \A i \in 1..Len(q) : i # n => q[i].by # "keep"
      BY <2>1 DEF KeepOnce
    <3>5. ASSUME NEW i \in 1..Len(a) PROVE a[i].by # "keep"
      <4>1. i \in 1..Len(q) /\ i # n
        BY ONLY <3>1, <3>2, i \in 1..Len(a)
      <4> QED BY ONLY <3>2, <3>4, <4>1, i \in 1..Len(a)
    <3>6. ASSUME NEW i \in 1..Len(b) PROVE b[i].by # "keep"
      <4>1. n + i \in 1..Len(q) /\ n + i # n
        BY ONLY <3>1, <3>3, i \in 1..Len(b)
      <4> QED BY ONLY <3>3, <3>4, <4>1, i \in 1..Len(b)
    <3> QED BY ONLY <3>5, <3>6
  <2> HIDE DEF a, b
  <2>6. /\ Elements(q) = (Elements(a) \cup {q[n]}) \cup Elements(b)
        /\ \A t : TextTimes(q, t) = (TextTimes(a, t) + One(q[n].text = t)) + TextTimes(b, t)
    <3>1. ASSUME NEW p \in Seq(Ticket), p = Append(a, q[n])
          PROVE  /\ Elements(p) = Elements(a) \cup {q[n]}
                 /\ \A t : TextTimes(p, t) = TextTimes(a, t) + One(q[n].text = t)
      <4>1. /\ Elements(Append(a, q[n])) = Elements(a) \cup {q[n]}
            /\ \A t : TextTimes(Append(a, q[n]), t) = TextTimes(a, t) + One(q[n].text = t)
        BY <2>4, AppendElements, TimesAppend
      <4>2. Elements(p) = Elements(a) \cup {q[n]}
        BY <3>1, <4>1, Zenon
      <4>3. \A t : TextTimes(p, t) = TextTimes(a, t) + One(q[n].text = t)
        BY <3>1, <4>1, Zenon
      <4> QED BY <4>2, <4>3
    <3>2. ASSUME NEW p \in Seq(Ticket)
          PROVE  /\ Elements(p \o b) = Elements(p) \cup Elements(b)
                 /\ \A t : TextTimes(p \o b, t) = TextTimes(p, t) + TextTimes(b, t)
      BY <2>4, JoinFacts, TextTimesJoin
    <3>3. Append(a, q[n]) \in Seq(Ticket)
      BY <2>4, AppendElements
    <3>4. q = Append(a, q[n]) \o b
      BY <2>4, Zenon
    <3>5. PICK p \in Seq(Ticket) : p = Append(a, q[n])
      BY <3>3, Zenon
    <3>6. q = p \o b
      BY <3>4, <3>5, Zenon
    <3>7. /\ Elements(q) = Elements(p) \cup Elements(b)
          /\ \A t : TextTimes(q, t) = TextTimes(p, t) + TextTimes(b, t)
      <4>1. Elements(p \o b) = Elements(p) \cup Elements(b)
        BY <3>2
      <4>2. \A t : TextTimes(p \o b, t) = TextTimes(p, t) + TextTimes(b, t)
        BY <3>2
      <4>3. Elements(q) = Elements(p) \cup Elements(b)
        BY <3>6, <4>1, Zenon
      <4>4. \A t : TextTimes(q, t) = TextTimes(p, t) + TextTimes(b, t)
        BY <3>6, <4>2, Zenon
      <4> QED BY <4>3, <4>4
    <3>8. /\ Elements(p) = Elements(a) \cup {q[n]}
          /\ \A t : TextTimes(p, t) = TextTimes(a, t) + One(q[n].text = t)
      BY <3>1, <3>5
    <3> QED BY <3>7, <3>8
  <2>7. /\ a \o b \in Seq(Ticket)
        /\ Elements(a \o b) = Elements(a) \cup Elements(b)
        /\ \A t : /\ TextTimes(a, t) \in Nat /\ TextTimes(b, t) \in Nat
                  /\ TextTimes(a \o b, t) = TextTimes(a, t) + TextTimes(b, t)
    BY <2>4, JoinFacts, TextTimesJoin
  <2>8. ASSUME NEW p \in Seq(Ticket), p = a \o b
        PROVE  /\ Elements(p) = {k \in Elements(q) : k.by # "keep"}
               /\ KeepOnce(p)
               /\ \A t : (\A k \in Elements(q) : k.by = "keep" => k.text # t)
                         => TextTimes(p, t) = TextTimes(q, t)
    <3>1. /\ Elements(p) = Elements(a) \cup Elements(b)
          /\ \A t : /\ TextTimes(a, t) \in Nat /\ TextTimes(b, t) \in Nat
                    /\ TextTimes(p, t) = TextTimes(a, t) + TextTimes(b, t)
      BY <2>7, <2>8, Zenon
    <3>2. Elements(p) = {k \in Elements(q) : k.by # "keep"}
      <4>1. \A k \in Elements(a) \cup Elements(b) : k.by # "keep"
        BY <2>5 DEF Elements
      <4> QED BY <2>1, <2>6, <3>1, <4>1
    <3>3. \A i \in 1..Len(p) : p[i].by # "keep"
      BY <3>2 DEF Elements
    <3>4. q[n] \in Elements(q)
      BY DEF Elements
    <3> QED BY <2>1, <2>6, <3>1, <3>2, <3>3, <3>4 DEF KeepOnce, One
  <2> QED BY <2>3, <2>7, <2>8 DEF a, b
<1> QED BY <1>1, <1>2

-----------------------------------------------------------------------------
(* The inductive invariant: the initial state, and the actions of attach.  *)

LEMMA InitIInv == Init => IInv
<1> SUFFICES ASSUME Init PROVE IInv
  OBVIOUS
<1> USE DEF Init
<1>1. /\ \A k \in Elements(gate) \cup Elements(unsent) \cup Elements(pending) \cup sent : FALSE
      /\ \A w \in Sockets : \A t \in Elements(flush[w].rest) : FALSE
  BY DEF Elements, Idle
<1>2. TypeOK
  <2>1. /\ <<>> \in Seq(Texts) /\ <<>> \in Seq(Ticket) /\ <<>> \in Seq(Sessions) /\ Len(<<>>) = 0
        /\ <<>> \in Seq([text : Texts, sess : Sessions \cup {NoSession}, ws : Sockets,
                        by : {"task", "flush"}, failed : BOOLEAN])
    OBVIOUS
  <2>2. Idle \in [pc : {"none", "due", "sending"}, rest : Seq(Texts), sess : Sessions \cup {NoSession}]
    BY <2>1 DEF Idle
  <2>3. flush \in [Sockets -> [pc : {"none", "due", "sending"}, rest : Seq(Texts),
                               sess : Sessions \cup {NoSession}]]
    BY <2>2
  <2>4. /\ owner \in Sessions \cup {NoSession} /\ client \in Sockets \cup {NoSocket}
        /\ pending \in Seq(Texts) /\ Len(pending) <= MaxPending
        /\ lock \in Callers \cup {Free}
        /\ \A x \in Callers : lock = x <=> ep[x] \in {"closing", "detaching"}
    BY <2>1, HubAssumption DEF Callers
  <2>5. /\ sent \in SUBSET [text : Texts, sess : Sessions \cup {NoSession}]
        /\ dropped \in SUBSET Texts /\ raced \in BOOLEAN /\ cleanup \in SUBSET Sockets
    OBVIOUS
  <2>8. said \in Seq(Sessions) /\ Len(said) <= MaxCalls
    BY <2>1, HubAssumption
  <2>6. /\ ep \in [Callers -> {"new", "closing", "accept", "serving", "leaving",
                               "detaching", "ended"}]
        /\ sess \in [Sockets -> Sessions \cup {NoSession}]
        /\ app \in [Sockets -> {"connecting", "connected", "closed"}]
        /\ link \in [Sockets -> {"connecting", "connected", "gone"}]
        /\ keep \in {"none", "sleep", "ping", "closing"}
    OBVIOUS
  <2>7. gate \in Seq(Ticket) /\ unsent \in Seq([text : Texts, sess : Sessions \cup {NoSession},
                        ws : Sockets, by : {"task", "flush"}, failed : BOOLEAN])
    BY <2>1
  <2> QED BY <2>3, <2>4, <2>5, <2>6, <2>7, <2>8 DEF TypeOK
<1>3. SocketInv
  BY <1>1 DEF SocketInv, Idle, Callers
<1>4. TicketInv
  BY <1>1 DEF TicketInv
<1>5. KeepInv
  BY <1>1 DEF KeepInv, KeepOnce
<1>6. TextInv
  BY <1>1, FS_EmptySet DEF TextInv, Idle
<1>7. SlotInv
  BY <1>1, HubAssumption DEF SlotInv, Callers
<1>8. OwnInv
  BY <1>1, HubAssumption DEF OwnInv, SentToOwnSession, Connected, Idle
<1> QED BY <1>2, <1>3, <1>4, <1>5, <1>6, <1>7, <1>8 DEF IInv, CrossInv

(* What the types and TextInv say of the texts about.                       *)
LEMMA TextFacts ==
    ASSUME IInv
    PROVE  /\ Len(said) \in Nat /\ \A t \in 1..Len(said) : said[t] \in Sessions
           /\ \A t \in Elements(pending) : t \in 1..Len(said)
           /\ \A w \in Sockets : \A t \in Elements(flush[w].rest) : t \in 1..Len(said)
           /\ \A k \in Elements(gate) : k \in Ticket /\ (k.op = "send" => k.text \in 1..Len(said))
           /\ \A u \in Elements(unsent) : u.text \in 1..Len(said) /\ u.ws \in Sockets
<1> USE DEF IInv
<1>1. Len(said) \in Nat /\ \A t \in 1..Len(said) : said[t] \in Sessions
  BY DEF TypeOK
<1>2. \A t \in Elements(pending) : t \in 1..Len(said)
  <2>1. Elements(pending) \subseteq Texts
    BY ElementsOf DEF TypeOK
  <2> QED BY <1>1, <2>1 DEF TextInv, Texts
<1>3. ASSUME NEW w \in Sockets
      PROVE  \A t \in Elements(flush[w].rest) : t \in 1..Len(said)
  <2>1. flush[w].rest \in Seq(Texts)
    BY DEF TypeOK
  <2>2. Elements(flush[w].rest) \subseteq Texts
    BY <2>1, ElementsOf
  <2> QED BY <1>1, <2>2 DEF TextInv, Texts
<1>4. \A k \in Elements(gate) : k \in Ticket /\ (k.op = "send" => k.text \in 1..Len(said))
  <2>1. Elements(gate) \subseteq Ticket
    BY ElementsOf DEF TypeOK
  <2> QED BY <1>1, <2>1 DEF TextInv, TicketInv, Ticket, NoText
<1>5. \A u \in Elements(unsent) : u.text \in 1..Len(said) /\ u.ws \in Sockets
  <2>1. Elements(unsent) \subseteq [text : Texts, sess : Sessions \cup {NoSession}, ws : Sockets,
                                    by : {"task", "flush"}, failed : BOOLEAN]
    BY ElementsOf, ZenonT(40) DEF TypeOK
  <2> QED BY <1>1, <2>1 DEF TextInv, Texts
<1> QED BY <1>1, <1>2, <1>3, <1>4, <1>5

LEMMA AttachFreeKeeps ==
    ASSUME IInv, NEW w \in Sockets, NEW s \in Sessions, AttachFree(w, s)
    PROVE  IInv'
<1> USE DEF IInv, AttachFree, Arrives, TakesSlot
<1>1. /\ pending' \in Seq(Texts) /\ Len(pending') <= MaxPending
      /\ Elements(pending') \subseteq Elements(pending)
      /\ pending' # <<>> => pending' = pending /\ owner \in {NoSession, s}
      /\ Elements(<<>>) = {}
  BY HubAssumption DEF KeptFor, TypeOK, Elements
<1>2. TypeOK'
  BY <1>1, HubAssumption, ElementsOf DEF TypeOK, Turns, Callers
<1>3. SocketInv'
  BY DEF SocketInv, Live, TypeOK, Callers
<1>4. TicketInv'
  BY HubAssumption DEF TicketInv, Callers
<1>5. KeepInv'
  BY DEF KeepInv, Connected
<1>6. TextInv'
  BY <1>1 DEF TextInv, TypeOK
<1>7. ASSUME ~raced'
      PROVE  SlotInv' /\ OwnInv'
  <2>1. /\ ~raced /\ SlotInv /\ OwnInv
        /\ \A v \in Sockets : ep[v] # "accept" /\ flush[v].pc = "none"
    BY <1>7 DEF Turns, CrossInv, TypeOK
  <2>2. ~Connected(client)'
    BY HubAssumption DEF Connected
  <2>3. SlotInv'
    BY <2>1, <2>2, HubAssumption DEF SlotInv, TypeOK, Callers
  <2>4. \A k \in Elements(gate) : k.op = "send" => said'[k.text] = k.sess /\ sess'[k.ws] = k.sess
    <3>1. ASSUME NEW k \in Elements(gate)
          PROVE  k.ws \in Sockets /\ k.ws # w
      BY <3>1, TextFacts DEF SocketInv, Live, Ticket
    <3> QED BY <2>1, <3>1 DEF OwnInv, TypeOK
  <2>5. \A t \in Elements(pending') : said'[t] = owner'
    BY <1>1, <2>1, TextFacts, HubAssumption DEF OwnInv
  <2>6. \A v \in Sockets : \A t \in Elements(flush[v].rest) : FALSE
    BY <1>1, <2>1 DEF TextInv
  <2>7. OwnInv'
    BY <2>1, <2>2, <2>4, <2>5, <2>6 DEF OwnInv, SentToOwnSession
  <2> QED BY <2>3, <2>7
<1> QED BY <1>2, <1>3, <1>4, <1>5, <1>6, <1>7 DEF CrossInv

LEMMA AttachClosesKeeps ==
    ASSUME IInv, NEW w \in Sockets, NEW s \in Sessions, AttachCloses(w, s)
    PROVE  IInv'
<1> USE DEF IInv, AttachCloses, Arrives
<1>1. /\ client \in Sockets /\ client # w /\ gate \in Seq(Ticket)
      /\ w \in {"task", "flush", "keep", "cleanup"} \cup Callers
      /\ w \notin {"task", "flush", "keep", "cleanup"} /\ w # Free
      /\ \A k \in Elements(gate) : k.by \notin Callers
  BY HubAssumption DEF TypeOK, SocketInv, Live, TicketInv, Callers
<1>2. PICK k \in Ticket :
         /\ k.op = "close" /\ k.by = w /\ k.ws = client /\ k.text = NoText /\ ~k.busy
         /\ Elements(gate') = Elements(gate) \cup {k}
  <2>1. OneMore(Enter(gate, "close", w, client), gate, "close", w, client, NoText, NoSession)
    BY <1>1, EnterOther
  <2> QED BY <2>1 DEF OneMore
<1>3. gate' \in Seq(Ticket) /\ KeepOnce(gate')
  <2>1. /\ Enter(gate, "close", w, client) \in Seq(Ticket)
        /\ KeepOnce(gate) /\ w # "keep" => KeepOnce(Enter(gate, "close", w, client))
    BY <1>1, EnterOther
  <2> QED BY <1>1, <2>1 DEF KeepInv
<1>4. TypeOK'
  BY <1>1, <1>3, HubAssumption DEF TypeOK, Turns, Callers
<1>5. SocketInv'
  BY <1>1, <1>2 DEF SocketInv, Live, TypeOK, Callers
<1>6. TicketInv'
  BY <1>1, <1>2 DEF TicketInv, NoText, Callers
<1>7. KeepInv'
  BY <1>1, <1>2, <1>3 DEF KeepInv, Connected
<1>8. TextInv'
  BY <1>2, TextFacts DEF TextInv, TypeOK, NoText
<1>9. ASSUME ~raced'
      PROVE  SlotInv' /\ OwnInv'
  <2>1. /\ ~raced /\ SlotInv /\ OwnInv
        /\ \A v \in Sockets : ep[v] # "accept" /\ flush[v].pc = "none"
    BY <1>9 DEF Turns, CrossInv, TypeOK
  <2>2. SlotInv'
    BY <1>1, <1>2, <2>1, HubAssumption DEF SlotInv, TypeOK, Callers
  <2>3. \A j \in Elements(gate) : j.op = "send" => sess'[j.ws] = j.sess
    <3>1. ASSUME NEW j \in Elements(gate)
          PROVE  j.ws \in Sockets /\ j.ws # w
      BY <3>1, TextFacts DEF SocketInv, Live, Ticket
    <3> QED BY <2>1, <3>1 DEF OwnInv, TypeOK
  <2>4. OwnInv'
    BY <1>1, <1>2, <2>1, <2>3 DEF OwnInv, SentToOwnSession, Connected, TypeOK
  <2> QED BY <2>2, <2>4
<1> QED BY <1>4, <1>5, <1>6, <1>7, <1>8, <1>9 DEF CrossInv

LEMMA AttachOwnsKeeps ==
    ASSUME IInv, NEW w \in Sockets, AttachOwns(w)
    PROVE  IInv'
<1> USE DEF IInv, AttachOwns, TakesSlot
<1>1. /\ pending' \in Seq(Texts) /\ Len(pending') <= MaxPending
      /\ Elements(pending') \subseteq Elements(pending)
      /\ pending' # <<>> => pending' = pending /\ owner \in {NoSession, sess[w]}
      /\ Elements(<<>>) = {}
  BY HubAssumption DEF KeptFor, TypeOK, Elements
<1>2. sess[w] \in Sessions /\ lock = w /\ w \notin {"task", "flush", "keep", "cleanup"}
  BY HubAssumption DEF SocketInv, TypeOK, Callers
<1>3. \A k \in Elements(gate) : k.by # w /\ k.by \notin Callers
  BY <1>2, TextFacts DEF Closing, TicketInv, Ticket
<1>4. TypeOK'
  BY <1>1, <1>2, HubAssumption, ElementsOf DEF TypeOK, Turns, Callers
<1>5. SocketInv'
  BY DEF SocketInv, Live, TypeOK, Callers
<1>6. TicketInv'
  BY <1>3 DEF TicketInv
<1>7. KeepInv'
  BY DEF KeepInv, Connected
<1>8. TextInv'
  BY <1>1 DEF TextInv, TypeOK
<1>9. ASSUME ~raced'
      PROVE  SlotInv' /\ OwnInv'
  <2>1. /\ ~raced /\ SlotInv /\ OwnInv
        /\ \A v \in Sockets : ep[v] # "accept" /\ flush[v].pc = "none"
    BY <1>9 DEF Turns, CrossInv, TypeOK
  <2>2. ~Connected(client) /\ ~Connected(client)'
    BY <1>2, <1>3, <2>1 DEF SlotInv, Connected, Callers
  <2>3. SlotInv'
    BY <2>1, <2>2, HubAssumption DEF SlotInv, TypeOK, Callers
  <2>4. \A t \in Elements(pending') : said'[t] = owner'
    BY <1>1, <2>1, TextFacts, HubAssumption DEF OwnInv
  <2>5. \A v \in Sockets : \A t \in Elements(flush[v].rest) : FALSE
    BY <1>1, <2>1 DEF TextInv
  <2>6. OwnInv'
    BY <2>1, <2>2, <2>4, <2>5 DEF OwnInv, SentToOwnSession
  <2> QED BY <2>3, <2>6
<1> QED BY <1>4, <1>5, <1>6, <1>7, <1>8, <1>9 DEF CrossInv

LEMMA AcceptedKeeps ==
    ASSUME IInv, NEW w \in Sockets, Accepted(w)
    PROVE  IInv'
<1> USE DEF IInv, Accepted
<1>1. /\ gate' \in Seq(Ticket) /\ KeepOnce(gate')
      /\ Elements(gate') = {k \in Elements(gate) : k.by # "keep"}
  BY WithoutKeepFacts DEF TypeOK, KeepInv
<1>2. /\ flush[w].pc = "none" /\ flush[w].rest = <<>>
      /\ \A k \in Elements(gate) : k.ws # w
  BY DEF SocketInv, Live, TextInv
<1>3. /\ flush' \in [Sockets -> [pc : {"none", "due", "sending"}, rest : Seq(Texts),
                                 sess : Sessions \cup {NoSession}]]
      /\ flush'[w].pc = "due" /\ flush'[w].rest = <<>>
      /\ \A v \in Sockets : v # w => flush'[v] = flush[v]
  <2>1. /\ flush' = [flush EXCEPT ![w].pc = "due"]
        /\ flush \in [Sockets -> [pc : {"none", "due", "sending"}, rest : Seq(Texts),
                                  sess : Sessions \cup {NoSession}]]
    BY DEF TypeOK
  <2>2. flush'[w] = [flush[w] EXCEPT !.pc = "due"]
    BY <2>1
  <2> QED BY ONLY <1>2, <2>1, <2>2, w \in Sockets
<1>4. TypeOK'
  BY <1>1, <1>3, HubAssumption DEF TypeOK, Callers
<1>5. SocketInv'
  BY <1>1, <1>3, TextFacts DEF SocketInv, Live, TypeOK, Callers
<1>6. TicketInv'
  BY <1>1, <1>2, TextFacts DEF TicketInv, TypeOK, Ticket
<1>7. KeepInv'
  BY <1>1 DEF KeepInv
<1>8. TextInv'
  BY <1>1, <1>2, <1>3 DEF TextInv
<1>9. ASSUME ~raced'
      PROVE  SlotInv' /\ OwnInv'
  <2>1. ~raced /\ SlotInv /\ OwnInv /\ lock = Free /\ sess[w] = owner
    BY <1>9 DEF CrossInv, SlotInv
  <2>2. SlotInv'
    BY <2>1, HubAssumption DEF SlotInv, TypeOK, Callers
  <2>3. OwnInv'
    BY <1>1, <1>2, <1>3, <2>1 DEF OwnInv, SentToOwnSession, Connected
  <2> QED BY <2>2, <2>3
<1> QED BY <1>4, <1>5, <1>6, <1>7, <1>8, <1>9 DEF CrossInv

LEMMA AcceptFailsKeeps ==
    ASSUME IInv, NEW w \in Sockets, AcceptFails(w)
    PROVE  IInv'
<1> USE DEF IInv, AcceptFails
<1>1. TypeOK'
  BY DEF TypeOK, Callers
<1>2. SocketInv'
  BY TextFacts DEF SocketInv, Live, TypeOK, Callers
<1>3. TicketInv'
  BY TextFacts DEF TicketInv, TypeOK, Ticket
<1>4. KeepInv'
  BY DEF KeepInv, Connected, TypeOK
<1>5. TextInv'
  BY DEF TextInv
<1>6. ASSUME ~raced'
      PROVE  SlotInv' /\ OwnInv'
  BY <1>6 DEF CrossInv, SlotInv, OwnInv, Connected, SentToOwnSession, TypeOK, Callers
<1> QED BY <1>1, <1>2, <1>3, <1>4, <1>5, <1>6 DEF CrossInv

LEMMA LinkBreaksKeeps ==
    ASSUME IInv, NEW w \in Sockets, LinkBreaks(w)
    PROVE  IInv'
<1> USE DEF IInv, LinkBreaks
<1>1. TypeOK'
  BY DEF TypeOK, Callers
<1>2. SocketInv'
  BY TextFacts DEF SocketInv, Live, TypeOK, Callers
<1>3. TicketInv'
  BY DEF TicketInv
<1>4. KeepInv'
  BY DEF KeepInv, Connected, TypeOK
<1>5. TextInv'
  BY DEF TextInv
<1>6. ASSUME ~raced'
      PROVE  SlotInv' /\ OwnInv'
  BY <1>6 DEF CrossInv, SlotInv, OwnInv, Connected, SentToOwnSession, TypeOK, Callers
<1> QED BY <1>1, <1>2, <1>3, <1>4, <1>5, <1>6 DEF CrossInv

LEMMA ClientDisconnectKeeps ==
    ASSUME IInv, NEW w \in Sockets, ClientDisconnect(w)
    PROVE  IInv'
<1> USE DEF IInv, ClientDisconnect
<1>1. TypeOK'
  BY DEF TypeOK, Callers
<1>2. SocketInv'
  BY TextFacts DEF SocketInv, Live, TypeOK, Callers
<1>3. TicketInv'
  BY DEF TicketInv
<1>4. client' \in {client, NoSocket} /\ (Connected(client)' => Connected(client) /\ client' = client)
  BY HubAssumption DEF Connected
<1>5. KeepInv'
  BY <1>4 DEF KeepInv
<1>6. TextInv'
  BY DEF TextInv
<1>7. ASSUME ~raced'
      PROVE  SlotInv' /\ OwnInv'
  <2>1. ~raced /\ SlotInv /\ OwnInv
    BY <1>7 DEF CrossInv
  <2>2. SlotInv'
    BY <1>4, <2>1, HubAssumption DEF SlotInv, TypeOK, Callers
  <2>3. OwnInv'
    BY <1>4, <2>1 DEF OwnInv, SentToOwnSession
  <2> QED BY <2>2, <2>3
<1> QED BY <1>1, <1>2, <1>3, <1>5, <1>6, <1>7 DEF CrossInv

-----------------------------------------------------------------------------
(* The actions of detach.                                                  *)

LEMMA DetachIgnoredKeeps ==
    ASSUME IInv, NEW x \in Stops, NEW s \in Sessions, DetachIgnored(x, s)
    PROVE  IInv'
<1> USE DEF IInv, DetachIgnored, DetachCalled
<1>1. x \in Callers /\ x \notin Sockets /\ \A w \in Sockets : ep'[w] = ep[w]
  BY HubAssumption DEF TypeOK, Callers
<1>2. TypeOK'
  BY <1>1 DEF TypeOK
<1>3. SocketInv'
  BY <1>1, TextFacts DEF SocketInv, Live, Ticket, TypeOK
<1>4. TicketInv' /\ KeepInv' /\ TextInv'
  BY DEF TicketInv, KeepInv, TextInv, Connected
<1>5. CrossInv'
  BY <1>1 DEF CrossInv, SlotInv, OwnInv, Connected, SentToOwnSession
<1> QED BY <1>2, <1>3, <1>4, <1>5

LEMMA FreesSlotKeeps ==
    ASSUME IInv, NEW x \in Stops, FreesSlot(x), ep[x] \in {"new", "detaching"},
           \A y \in Callers : y # x => lock # y,
           gate' \in Seq(Ticket), KeepOnce(gate'),
           Elements(gate') \subseteq Elements(gate),
           \A k \in Elements(gate') : k.by \notin Callers,
           keep' \in {keep, "none"},
           \A k \in Elements(gate') :
             k.by = "keep" => keep' = IF k.op = "ping" THEN "ping" ELSE "closing"
    PROVE  IInv'
<1> USE DEF IInv, FreesSlot
<1>1. x \in Callers /\ x \notin Sockets /\ \A w \in Sockets : ep'[w] = ep[w]
  BY HubAssumption DEF TypeOK, Callers
<1>2. pending' \in Seq(Texts) /\ Len(pending') <= MaxPending /\ Elements(pending') = {}
  BY HubAssumption DEF Elements
<1>3. TypeOK'
  <2>1. lock' \in Callers \cup {Free} /\ \A y \in Callers : lock' = y <=> ep'[y] \in {"closing", "detaching"}
    BY <1>1, HubAssumption DEF TypeOK, Callers
  <2> QED BY <1>1, <1>2, <2>1, ElementsOf DEF TypeOK, Turns
<1>4. SocketInv'
  BY <1>1, TextFacts DEF SocketInv, Live, Ticket, TypeOK
<1>5. TicketInv'
  BY DEF TicketInv
<1>6. KeepInv'
  BY HubAssumption DEF KeepInv, Connected
<1>7. TextInv'
  BY <1>2 DEF TextInv
<1>8. ASSUME ~raced'
      PROVE  SlotInv' /\ OwnInv'
  <2>1. /\ ~raced /\ SlotInv /\ OwnInv
        /\ \A v \in Sockets : ep'[v] # "accept" /\ flush[v].pc = "none"
    BY <1>1, <1>8 DEF Turns, CrossInv, TypeOK
  <2>2. ~Connected(client)'
    BY HubAssumption DEF Connected
  <2>3. SlotInv'
    BY <2>1, <2>2, HubAssumption DEF SlotInv, Callers
  <2>4. \A v \in Sockets : \A t \in Elements(flush[v].rest) : FALSE
    BY <1>2, <2>1 DEF TextInv
  <2>5. OwnInv'
    BY <1>2, <2>1, <2>2, <2>4 DEF OwnInv, SentToOwnSession
  <2> QED BY <2>3, <2>5
<1> QED BY <1>3, <1>4, <1>5, <1>6, <1>7, <1>8 DEF CrossInv

LEMMA DetachFreeKeeps ==
    ASSUME IInv, NEW x \in Stops, NEW s \in Sessions, DetachFree(x, s)
    PROVE  IInv'
<1>1. /\ gate' \in Seq(Ticket) /\ KeepOnce(gate')
      /\ Elements(gate') = {k \in Elements(gate) : k.by # "keep"}
  BY WithoutKeepFacts DEF IInv, DetachFree, TypeOK, KeepInv
<1>2. /\ FreesSlot(x) /\ ep[x] = "new" /\ lock = Free /\ keep' = "none"
      /\ \A y \in Callers : lock # y
  BY HubAssumption DEF DetachFree, DetachCalled, Callers
<1>3. \A k \in Elements(gate') : k.by \notin Callers
  BY <1>1, <1>2 DEF IInv, TicketInv
<1> QED BY <1>1, <1>2, <1>3, FreesSlotKeeps

LEMMA DetachEndsKeeps ==
    ASSUME IInv, NEW x \in Stops, DetachEnds(x)
    PROVE  IInv'
<1>1. /\ FreesSlot(x) /\ ep[x] = "detaching" /\ gate' = gate /\ keep' = keep
      /\ gate \in Seq(Ticket) /\ KeepOnce(gate)
      /\ \A k \in Elements(gate) :
           k.by = "keep" => keep = IF k.op = "ping" THEN "ping" ELSE "closing"
  BY DEF DetachEnds, IInv, TypeOK, KeepInv
<1>2. /\ x \in Callers /\ x \notin {"task", "flush", "keep", "cleanup"} /\ lock = x
  BY <1>1, HubAssumption DEF Callers, IInv, TypeOK
<1>3. \A k \in Elements(gate) : k.by # x /\ k.by \notin Callers
  BY <1>2, TextFacts DEF DetachEnds, Closing, IInv, TicketInv, Ticket
<1> QED BY <1>1, <1>2, <1>3, FreesSlotKeeps

LEMMA DetachClosesKeeps ==
    ASSUME IInv, NEW x \in Stops, NEW s \in Sessions, DetachCloses(x, s)
    PROVE  IInv'
<1> USE DEF IInv, DetachCloses, DetachCalled
<1>1. /\ x \in Callers /\ x \notin Sockets /\ \A w \in Sockets : ep'[w] = ep[w]
      /\ x \notin {"task", "flush", "keep", "cleanup"} /\ x # Free
      /\ client \in Sockets
      /\ \A k \in Elements(gate) : k.by \notin Callers
  BY HubAssumption DEF TypeOK, Callers, TicketInv
<1> DEFINE q == WithoutKeep(gate)
<1>2. /\ q \in Seq(Ticket) /\ KeepOnce(q)
      /\ Elements(q) = {k \in Elements(gate) : k.by # "keep"}
  BY WithoutKeepFacts DEF TypeOK, KeepInv
<1>3. gate' = Enter(q, "close", x, client)
  OBVIOUS
<1> HIDE DEF q
<1>4. PICK k \in Ticket :
         /\ k.op = "close" /\ k.by = x /\ k.ws = client /\ k.text = NoText /\ ~k.busy
         /\ Elements(gate') = Elements(q) \cup {k}
  <2>1. OneMore(Enter(q, "close", x, client), q, "close", x, client, NoText, NoSession)
    BY <1>1, <1>2, EnterOther
  <2> QED BY <1>3, <2>1 DEF OneMore
<1>5. gate' \in Seq(Ticket) /\ KeepOnce(gate')
  <2>1. /\ Enter(q, "close", x, client) \in Seq(Ticket)
        /\ KeepOnce(q) /\ x # "keep" => KeepOnce(Enter(q, "close", x, client))
    BY <1>1, <1>2, EnterOther
  <2> QED BY <1>1, <1>2, <1>3, <2>1
<1>6. TypeOK'
  <2>1. \A y \in Callers : lock' = y <=> ep'[y] \in {"closing", "detaching"}
    BY <1>1, HubAssumption DEF TypeOK, Callers
  <2> QED BY <1>1, <1>5, <2>1 DEF TypeOK, Turns
<1>7. SocketInv'
  BY <1>1, <1>2, <1>4, TextFacts DEF SocketInv, Live, Ticket, TypeOK
<1>8. TicketInv'
  BY <1>1, <1>2, <1>4 DEF TicketInv
<1>9. KeepInv'
  BY <1>1, <1>2, <1>4, <1>5 DEF KeepInv
<1>10. TextInv'
  BY <1>2, <1>4, TextFacts DEF TextInv, NoText
<1>11. ASSUME ~raced'
       PROVE  SlotInv' /\ OwnInv'
  <2>1. /\ ~raced /\ SlotInv /\ OwnInv
        /\ \A v \in Sockets : ep'[v] # "accept" /\ flush[v].pc = "none"
    BY <1>1, <1>11 DEF Turns, CrossInv, TypeOK
  <2>2. SlotInv'
    BY <1>1, <1>2, <1>4, <2>1 DEF SlotInv
  <2>3. OwnInv'
    BY <1>1, <1>2, <1>4, <2>1 DEF OwnInv, SentToOwnSession, Connected
  <2> QED BY <2>2, <2>3
<1> QED BY <1>6, <1>7, <1>8, <1>9, <1>10, <1>11 DEF CrossInv

-----------------------------------------------------------------------------
(* The actions of broadcast_to_session and _flush_pending.                 *)

LEMMA SaidMore ==
    ASSUME IInv, NEW s \in Sessions, Broadcast(s)
    PROVE  /\ Len(said) \in Nat /\ Len(said) + 1 \in Texts
           /\ said' \in Seq(Sessions) /\ Len(said') = Len(said) + 1
           /\ \A i \in 1..Len(said) : said'[i] = said[i]
           /\ said'[Len(said) + 1] = s
<1>1. said \in Seq(Sessions) /\ Len(said) \in Nat /\ MaxCalls \in Nat
  BY HubAssumption DEF IInv, TypeOK
<1>2. Cardinality({x \in Stops : ep[x] # "new"}) \in Nat
  <2>1. IsFiniteSet({x \in Stops : ep[x] # "new"})
    BY HubAssumption, FS_Subset
  <2> QED BY <2>1, FS_CardinalityType
<1>3. Len(said) + 1 \in Texts
  BY <1>1, <1>2 DEF Broadcast, OneMoreCall, Texts
<1>4. said' = Append(said, s)
  BY DEF Broadcast
<1> QED BY <1>1, <1>3, <1>4, AppendProperties

LEMMA BroadcastKeeps ==
    ASSUME IInv, NEW s \in Sessions, Broadcast(s)
    PROVE  IInv'
<1> USE DEF IInv
<1> DEFINE t == Len(said) + 1
<1>1. /\ Len(said) \in Nat /\ t \in Texts
      /\ said' \in Seq(Sessions) /\ Len(said') = t
      /\ \A i \in 1..Len(said) : said'[i] = said[i]
      /\ said'[t] = s
  BY SaidMore
<1>2. /\ pending' \in Seq(Texts) /\ Len(pending') <= MaxPending
      /\ Elements(pending') \subseteq Elements(pending) \cup {t}
      /\ t \in Elements(pending') => s = owner
      /\ dropped' \subseteq dropped \cup Elements(pending) \cup {t}
  <2>1. /\ Append(pending, t) \in Seq(Texts)
        /\ Elements(Append(pending, t)) = Elements(pending) \cup {t}
    BY <1>1, AppendElements DEF TypeOK
  <2>2. /\ Appended(Append(pending, t)) \in Seq(Texts)
        /\ Len(Appended(Append(pending, t))) <= MaxPending
        /\ Elements(Appended(Append(pending, t))) \subseteq Elements(Append(pending, t))
        /\ ShedBy(Append(pending, t)) \subseteq Elements(Append(pending, t))
    BY <2>1, AppendedFacts
  <2>3. t \notin Elements(pending)
    BY <1>1, TextFacts
  <2>4. \/ pending' = pending /\ dropped' \subseteq dropped \cup {t}
        \/ /\ s = owner /\ pending' = Appended(Append(pending, t))
           /\ dropped' = dropped \cup ShedBy(Append(pending, t))
    BY DEF Broadcast
  <2> HIDE DEF t
  <2> QED BY <2>1, <2>2, <2>3, <2>4 DEF TypeOK
<1>3. \/ gate' = gate
      \/ /\ s = owner /\ Connected(client)
         /\ gate' = EnterSend(gate, "task", client, t, s)
  BY DEF Broadcast
<1>4. UNCHANGED <<slotVars, endVars, taskVars, sockVars, lock, keep, sent>>
  BY DEF Broadcast
<1>5. /\ gate' \in Seq(Ticket) /\ KeepOnce(gate')
      /\ \/ gate' = gate
         \/ \E k \in Ticket :
              /\ k.op = "send" /\ k.by = "task" /\ k.ws = client /\ k.text = t /\ k.sess = s
              /\ ~k.busy
              /\ s = owner /\ Connected(client)
              /\ Elements(gate') = Elements(gate) \cup {k}
  <2>1. CASE gate' = gate
    BY <2>1 DEF TypeOK, KeepInv
  <2>2. CASE /\ s = owner /\ Connected(client)
             /\ gate' = EnterSend(gate, "task", client, t, s)
    <3>1. gate \in Seq(Ticket) /\ client \in Sockets /\ KeepOnce(gate)
      BY <2>2 DEF TypeOK, Connected, KeepInv
    <3>2. /\ EnterSend(gate, "task", client, t, s) \in Seq(Ticket)
          /\ OneMore(EnterSend(gate, "task", client, t, s), gate, "send", "task", client, t, s)
          /\ KeepOnce(EnterSend(gate, "task", client, t, s))
      BY <1>1, <3>1, EnterSends
    <3> QED BY <2>2, <3>2 DEF OneMore
  <2> QED BY <1>3, <2>1, <2>2
<1> HIDE DEF t
<1>6. TypeOK'
  <2>1. dropped' \subseteq Texts
    BY <1>1, <1>2, ElementsOf DEF TypeOK
  <2>2. Len(said') <= MaxCalls
    BY <1>1 DEF Texts
  <2> QED BY <1>1, <1>2, <1>4, <1>5, <2>1, <2>2 DEF TypeOK
<1>7. SocketInv'
  BY <1>4, <1>5, HubAssumption DEF SocketInv, Live, Connected
<1>8. TicketInv'
  BY <1>1, <1>4, <1>5, HubAssumption DEF TicketInv, Callers, NoText, Texts
<1>9. KeepInv'
  BY <1>4, <1>5 DEF KeepInv, Connected
<1>10. TextInv'
  <2>1. t = Len(said) + 1 /\ t \in Nat
    BY <1>1 DEF t
  <2>2. \A i : i \in Elements(pending) \cup dropped => i \in Nat /\ i <= Len(said)
    <3>1. \A i \in Elements(pending) : i \in Nat /\ i <= Len(said)
      BY <1>1, TextFacts
    <3>2. \A i \in dropped : i \in Nat /\ i <= Len(said)
      BY HubAssumption DEF TextInv, TypeOK, Texts
    <3> QED BY <3>1, <3>2
  <2>3. \A k \in Elements(gate) \cup Elements(unsent) \cup sent : k.text \in Nat /\ k.text <= Len(said)
    BY TextFacts, SMTT(20) DEF TextInv, TypeOK, Texts, Ticket
  <2>4. \A i \in Elements(pending') \cup dropped' : i <= Len(said')
    BY <1>1, <1>2, <2>1, <2>2
  <2>5. \A k \in Elements(gate') \cup Elements(unsent') \cup sent' : k.text <= Len(said')
    BY <1>1, <1>4, <1>5, <2>1, <2>3
  <2>6. \A w \in Sockets : \A i \in Elements(flush[w].rest) : i <= Len(said')
    BY <1>1, <2>1, TextFacts
  <2> QED BY <1>4, <2>4, <2>5, <2>6 DEF TextInv
<1>11. ASSUME ~raced'
       PROVE  SlotInv' /\ OwnInv'
  <2>1. ~raced /\ SlotInv /\ OwnInv
    BY <1>4, <1>11 DEF CrossInv
  <2>2. SlotInv'
    BY <1>4, <1>5, <2>1, HubAssumption DEF SlotInv, Connected, Callers
  <2>3. \A d \in sent : d.text \in 1..Len(said)
    BY <1>1 DEF TextInv, TypeOK, Texts
  <2>4. /\ \A w \in Sockets : \A i \in Elements(flush[w].rest) : said'[i] = owner
        /\ \A i \in Elements(pending') : said'[i] = owner
        /\ \A u \in Elements(unsent) : said'[u.text] = u.sess
        /\ \A d \in sent : said'[d.text] = d.sess
    BY <1>1, <1>2, <2>1, <2>3, TextFacts DEF OwnInv, SentToOwnSession
  <2>5. \A k \in Elements(gate') : k.op = "send" => said'[k.text] = k.sess /\ sess[k.ws] = k.sess
    BY <1>1, <1>5, <2>1, TextFacts DEF OwnInv
  <2>6. OwnInv'
    BY <1>4, <2>1, <2>4, <2>5 DEF OwnInv, SentToOwnSession, Connected
  <2> QED BY <2>2, <2>6
<1> QED BY <1>6, <1>7, <1>8, <1>9, <1>10, <1>11 DEF CrossInv

LEMMA FlushTakesKeeps ==
    ASSUME IInv, NEW w \in Sockets, FlushTakes(w)
    PROVE  IInv'
<1> USE DEF IInv
<1>1. /\ flush[w].pc = "due" /\ flush[w].rest = <<>> /\ lock = Free /\ Live(w)
      /\ UNCHANGED <<slotVars, endVars, sockVars, pastVars, lock, keep, unsent, cleanup>>
      /\ pending \in Seq(Texts) /\ gate \in Seq(Ticket) /\ KeepOnce(gate)
      /\ <<>> \in Seq(Texts) /\ Len(<<>>) <= MaxPending /\ Elements(<<>>) = {}
  BY HubAssumption DEF FlushTakes, TextInv, SocketInv, TypeOK, KeepInv, Elements
<1>2. CASE Connected(w) /\ pending # <<>> /\ owner # NoSession
  <2>1. /\ flush' = [flush EXCEPT ![w] = [pc |-> "sending", rest |-> Tail(pending),
                                          sess |-> owner]]
        /\ gate' = EnterSend(gate, "flush", w, Head(pending), owner)
        /\ pending' = <<>> /\ dropped' = dropped
    BY <1>2 DEF FlushTakes, LeftByFlush
  <2>2. /\ Tail(pending) \in Seq(Texts) /\ Head(pending) = pending[1] /\ pending[1] \in Texts
        /\ Elements(pending) = Elements(Tail(pending)) \cup {pending[1]}
    BY <1>1, <1>2, TailElements
  <2>3. owner \in Sessions \cup {NoSession}
    BY DEF TypeOK
  <2>4. PICK k \in Ticket :
          /\ gate' \in Seq(Ticket) /\ KeepOnce(gate')
          /\ k.op = "send" /\ k.by = "flush" /\ k.ws = w /\ k.text = pending[1]
          /\ k.sess = owner /\ ~k.busy
          /\ Elements(gate') = Elements(gate) \cup {k}
    <3>1. /\ EnterSend(gate, "flush", w, pending[1], owner) \in Seq(Ticket)
          /\ OneMore(EnterSend(gate, "flush", w, pending[1], owner), gate, "send", "flush", w,
                     pending[1], owner)
          /\ KeepOnce(EnterSend(gate, "flush", w, pending[1], owner))
      BY <1>1, <2>2, <2>3, EnterSends
    <3> QED BY <2>1, <2>2, <3>1 DEF OneMore
  <2>5. /\ flush' \in [Sockets -> [pc : {"none", "due", "sending"}, rest : Seq(Texts),
                                   sess : Sessions \cup {NoSession}]]
        /\ flush'[w].pc = "sending" /\ flush'[w].rest = Tail(pending) /\ flush'[w].sess = owner
        /\ \A v \in Sockets : v # w => flush'[v] = flush[v]
    BY <2>1, <2>2, <2>3 DEF TypeOK
  <2>6. TypeOK'
    BY <1>1, <2>1, <2>4, <2>5 DEF TypeOK
  <2>7. SocketInv'
    <3>1. /\ \A j \in Elements(gate') : Live(j.ws)
          /\ \A v \in Sockets : flush'[v].pc # "none" => Live(v)
      BY <1>1, <2>4, <2>5, ZenonT(40) DEF SocketInv
    <3> QED BY <1>1, <3>1 DEF SocketInv, Live
  <2>8. TicketInv'
    <3>1. "flush" \notin Callers /\ pending[1] # NoText
      BY <2>2, HubAssumption DEF Callers, NoText, Texts
    <3> QED BY <1>1, <2>4, <3>1 DEF TicketInv
  <2>9. KeepInv'
    BY <1>1, <2>4 DEF KeepInv, Connected
  <2>10. TextInv'
    BY <1>1, <2>1, <2>2, <2>4, <2>5 DEF TextInv
  <2>11. ASSUME ~raced'
         PROVE  SlotInv' /\ OwnInv'
    <3>1. ~raced /\ SlotInv /\ OwnInv
      BY <1>1, <2>11 DEF CrossInv
    <3>2. SlotInv'
      BY <1>1, <2>4, <3>1, HubAssumption DEF SlotInv, Connected, Callers
    <3>3. OwnInv'
      BY <1>1, <2>1, <2>2, <2>4, <2>5, <3>1 DEF OwnInv, SentToOwnSession, Connected
    <3> QED BY <3>2, <3>3
  <2> QED BY <2>6, <2>7, <2>8, <2>9, <2>10, <2>11 DEF CrossInv
<1>3. CASE ~(Connected(w) /\ pending # <<>> /\ owner # NoSession)
  <2>1. /\ flush' = [flush EXCEPT ![w] = Idle]
        /\ gate' = gate
        /\ pending' \in {pending, <<>>}
        /\ dropped' \subseteq dropped \cup Elements(pending)
        /\ dropped \subseteq dropped'
    BY <1>3 DEF FlushTakes, LeftByFlush
  <2>2. /\ flush' \in [Sockets -> [pc : {"none", "due", "sending"}, rest : Seq(Texts),
                                   sess : Sessions \cup {NoSession}]]
        /\ flush'[w].pc = "none" /\ flush'[w].rest = <<>>
        /\ \A v \in Sockets : v # w => flush'[v] = flush[v]
    BY <1>1, <2>1 DEF TypeOK, Idle
  <2>3. TypeOK'
    <3>1. Elements(pending) \subseteq Texts
      BY <1>1, ElementsOf
    <3> QED BY <1>1, <2>1, <2>2, <3>1 DEF TypeOK
  <2>4. SocketInv' /\ TicketInv' /\ KeepInv'
    BY <1>1, <2>1, <2>2 DEF SocketInv, Live, TicketInv, KeepInv, Connected
  <2>5. TextInv'
    BY <1>1, <2>1, <2>2 DEF TextInv
  <2>6. CrossInv'
    BY <1>1, <2>1, <2>2 DEF CrossInv, SlotInv, OwnInv, SentToOwnSession, Connected
  <2> QED BY <2>3, <2>4, <2>5, <2>6
<1> QED BY <1>2, <1>3

LEMMA FlushSendsKeeps ==
    ASSUME IInv, NEW w \in Sockets, FlushSends(w)
    PROVE  IInv'
<1> USE DEF IInv
<1>1. /\ flush[w].pc = "sending" /\ flush[w].rest # <<>> /\ Live(w)
      /\ flush[w].rest \in Seq(Texts) /\ flush[w].sess \in Sessions \cup {NoSession}
      /\ gate \in Seq(Ticket) /\ KeepOnce(gate)
      /\ UNCHANGED <<hubVars, endVars, sockVars, pastVars, keep, unsent, cleanup>>
  BY DEF FlushSends, FlushGoesOn, SocketInv, TypeOK, KeepInv
<1> DEFINE r == flush[w].rest
<1>2. /\ Tail(r) \in Seq(Texts) /\ Head(r) = r[1] /\ r[1] \in Texts
      /\ Elements(r) = Elements(Tail(r)) \cup {r[1]}
  BY <1>1, TailElements
<1>3. /\ gate' = EnterSend(gate, "flush", w, r[1], flush[w].sess)
      /\ flush' = [flush EXCEPT ![w].rest = Tail(r)]
  BY <1>2 DEF FlushSends
<1>4. PICK k \in Ticket :
        /\ gate' \in Seq(Ticket) /\ KeepOnce(gate')
        /\ k.op = "send" /\ k.by = "flush" /\ k.ws = w /\ k.text = r[1]
        /\ k.sess = flush[w].sess /\ ~k.busy
        /\ Elements(gate') = Elements(gate) \cup {k}
  <2>1. /\ EnterSend(gate, "flush", w, r[1], flush[w].sess) \in Seq(Ticket)
        /\ OneMore(EnterSend(gate, "flush", w, r[1], flush[w].sess), gate, "send", "flush", w,
                   r[1], flush[w].sess)
        /\ KeepOnce(EnterSend(gate, "flush", w, r[1], flush[w].sess))
    BY <1>1, <1>2, EnterSends
  <2> QED BY <1>3, <2>1 DEF OneMore
<1>5. /\ flush' \in [Sockets -> [pc : {"none", "due", "sending"}, rest : Seq(Texts),
                                 sess : Sessions \cup {NoSession}]]
      /\ flush'[w].pc = "sending" /\ flush'[w].rest = Tail(r) /\ flush'[w].sess = flush[w].sess
      /\ \A v \in Sockets : v # w => flush'[v] = flush[v]
  <2>1. /\ flush \in [Sockets -> [pc : {"none", "due", "sending"}, rest : Seq(Texts),
                                  sess : Sessions \cup {NoSession}]]
        /\ Tail(r) \in Seq(Texts)
    BY <1>2 DEF TypeOK
  <2>2. flush' = [flush EXCEPT ![w] = [flush[w] EXCEPT !.rest = Tail(r)]]
    BY <1>3
  <2>3. PICK x \in Seq(Texts) : x = Tail(r)
    BY <1>2
  <2>4. flush' = [flush EXCEPT ![w] = [flush[w] EXCEPT !.rest = x]]
    BY <2>2, <2>3, Zenon
  <2>5. /\ flush' \in [Sockets -> [pc : {"none", "due", "sending"}, rest : Seq(Texts),
                                   sess : Sessions \cup {NoSession}]]
        /\ flush'[w].pc = flush[w].pc /\ flush'[w].rest = x /\ flush'[w].sess = flush[w].sess
        /\ \A v \in Sockets : v # w => flush'[v] = flush[v]
    BY ONLY <2>1, <2>4
  <2> QED BY <1>1, <2>3, <2>5
<1> HIDE DEF r
<1>6. r = flush[w].rest
  BY DEF r
<1>7. TypeOK'
  BY <1>1, <1>4, <1>5 DEF TypeOK
<1>8. SocketInv'
  <2>1. /\ \A j \in Elements(gate') : Live(j.ws)
        /\ \A v \in Sockets : flush'[v].pc # "none" => Live(v)
    BY <1>1, <1>4, <1>5 DEF SocketInv
  <2> QED BY <1>1, <2>1 DEF SocketInv, Live
<1>9. TicketInv'
  BY <1>1, <1>2, <1>4, HubAssumption DEF TicketInv, Callers, NoText, Texts
<1>10. KeepInv'
  BY <1>1, <1>4 DEF KeepInv, Connected
<1>11. TextInv'
  BY <1>1, <1>2, <1>4, <1>5, <1>6, ZenonT(40) DEF TextInv
<1>12. ASSUME ~raced'
       PROVE  SlotInv' /\ OwnInv'
  <2>1. ~raced /\ SlotInv /\ OwnInv
    BY <1>1, <1>12 DEF CrossInv
  <2>2. SlotInv'
    BY <1>1, <1>4, <1>5, <2>1, HubAssumption DEF SlotInv, Connected, Callers
  <2>3. /\ \A v \in Sockets : flush'[v].pc # "none" => sess[v] = owner
        /\ \A v \in Sockets : flush'[v].pc = "sending" => flush'[v].sess = owner
        /\ \A v \in Sockets : \A t \in Elements(flush'[v].rest) : said[t] = owner
    <3>1. \A t \in Elements(Tail(r)) : said[t] = owner
      BY <1>2, <1>6, <2>1 DEF OwnInv
    <3>2. sess[w] = owner /\ flush[w].sess = owner
      BY <1>1, <2>1 DEF OwnInv
    <3>3. ASSUME NEW v \in Sockets
          PROVE  /\ flush'[v].pc # "none" => sess[v] = owner
                 /\ flush'[v].pc = "sending" => flush'[v].sess = owner
                 /\ \A t \in Elements(flush'[v].rest) : said[t] = owner
      <4>1. CASE v = w
        <5>1. flush'[v].rest = Tail(r) /\ flush'[v].sess = owner
          BY <1>5, <3>2, <4>1
        <5> QED BY <3>1, <3>2, <4>1, <5>1
      <4>2. CASE v # w
        <5>1. flush'[v] = flush[v]
          BY <1>5, <4>2
        <5> QED BY <2>1, <5>1 DEF OwnInv
      <4> QED BY <4>1, <4>2
    <3> QED BY <3>3
  <2>4. \A j \in Elements(gate') : j.op = "send" => said[j.text] = j.sess /\ sess[j.ws] = j.sess
    BY <1>1, <1>2, <1>4, <1>6, <2>1 DEF OwnInv
  <2>5. OwnInv'
    BY <1>1, <2>1, <2>3, <2>4 DEF OwnInv, SentToOwnSession, Connected
  <2> QED BY <2>2, <2>5
<1> QED BY <1>7, <1>8, <1>9, <1>10, <1>11, <1>12 DEF CrossInv

LEMMA FlushEndsKeeps ==
    ASSUME IInv, NEW w \in Sockets, FlushEnds(w)
    PROVE  IInv'
<1> USE DEF IInv
<1>1. /\ UNCHANGED <<hubVars, endVars, sockVars, pastVars, gate, keep, unsent, cleanup>>
      /\ flush' = [flush EXCEPT ![w] = Idle]
      /\ <<>> \in Seq(Texts) /\ Elements(<<>>) = {}
  BY DEF FlushEnds, Elements
<1>2. /\ flush' \in [Sockets -> [pc : {"none", "due", "sending"}, rest : Seq(Texts),
                                 sess : Sessions \cup {NoSession}]]
      /\ flush'[w].pc = "none" /\ flush'[w].rest = <<>>
      /\ \A v \in Sockets : v # w => flush'[v] = flush[v]
  BY <1>1 DEF TypeOK, Idle
<1>3. TypeOK'
  BY <1>1, <1>2 DEF TypeOK
<1>4. SocketInv' /\ TicketInv' /\ KeepInv'
  BY <1>1, <1>2 DEF SocketInv, Live, TicketInv, KeepInv, Connected
<1>5. TextInv'
  BY <1>1, <1>2 DEF TextInv
<1>6. CrossInv'
  BY <1>1, <1>2 DEF CrossInv, SlotInv, OwnInv, SentToOwnSession, Connected
<1> QED BY <1>3, <1>4, <1>5, <1>6

LEMMA FlushInterruptedKeeps ==
    ASSUME IInv, NEW w \in Sockets, FlushInterrupted(w)
    PROVE  IInv'
<1> USE DEF IInv
<1> DEFINE r == flush[w].rest
           q == pending \o r
<1>1. /\ UNCHANGED <<slotVars, endVars, sockVars, pastVars, lock, gate, keep, unsent, cleanup>>
      /\ flush' = [flush EXCEPT ![w] = Idle] /\ flush[w].pc = "sending"
      /\ pending' = Appended(q) /\ dropped' = dropped \cup ShedBy(q)
      /\ <<>> \in Seq(Texts) /\ Elements(<<>>) = {}
      /\ pending \in Seq(Texts) /\ r \in Seq(Texts)
  BY DEF FlushInterrupted, FlushGoesOn, Elements, TypeOK
<1>2. q \in Seq(Texts) /\ Elements(q) = Elements(pending) \cup Elements(r)
  BY <1>1, JoinFacts
<1> HIDE DEF q
<1>3. /\ Appended(q) \in Seq(Texts) /\ Len(Appended(q)) <= MaxPending
      /\ Elements(Appended(q)) \subseteq Elements(q) /\ ShedBy(q) \subseteq Elements(q)
      /\ Elements(q) \subseteq Texts
  BY <1>2, AppendedFacts, ElementsOf
<1>4. /\ flush' \in [Sockets -> [pc : {"none", "due", "sending"}, rest : Seq(Texts),
                                 sess : Sessions \cup {NoSession}]]
      /\ flush'[w].pc = "none" /\ flush'[w].rest = <<>>
      /\ \A v \in Sockets : v # w => flush'[v] = flush[v]
  BY <1>1 DEF TypeOK, Idle
<1>5. TypeOK'
  BY <1>1, <1>3, <1>4 DEF TypeOK
<1>6. SocketInv' /\ TicketInv' /\ KeepInv'
  BY <1>1, <1>4 DEF SocketInv, Live, TicketInv, KeepInv, Connected
<1>7. TextInv'
  BY <1>1, <1>2, <1>3, <1>4 DEF TextInv
<1>8. CrossInv'
  BY <1>1, <1>2, <1>3, <1>4 DEF CrossInv, SlotInv, OwnInv, SentToOwnSession, Connected
<1> QED BY <1>5, <1>6, <1>7, <1>8

-----------------------------------------------------------------------------
(* The actions that leave a text unsent, and those that put it back.       *)

Back == [text : Texts, sess : Sessions \cup {NoSession}, ws : Sockets,
         by : {"task", "flush"}, failed : BOOLEAN]

(* What becomes of pending, dropped, cleanup and the gate when u, whose     *)
(* text was not sent, is requeued with q the gate.                          *)
RequeueEffect(u) ==
    /\ pending' \in Seq(Texts) /\ Len(pending') <= MaxPending
    /\ Elements(pending') \subseteq Elements(pending) \cup {u.text}
    /\ u.text \in Elements(pending') => u.text \in Elements(pending) \/ u.sess = owner
    /\ dropped' \subseteq dropped \cup Elements(pending) \cup {u.text}
    /\ cleanup' \subseteq cleanup \cup (IF u.failed THEN {u.ws} ELSE {})
    /\ gate' \in Seq(Ticket) /\ KeepOnce(gate')
    /\ \A k \in Elements(gate') :
         \/ k \in Elements(gate)
         \/ k.op = "close" /\ k.by = "cleanup" /\ k.ws = u.ws /\ k.text = NoText /\ ~k.busy
    /\ \A k \in Elements(gate) : k \in Elements(gate') \/ k.op = "send"

LEMMA RequeuedFacts ==
    ASSUME IInv, NEW u \in Back, NEW q \in Seq(Ticket), KeepOnce(q), Requeued(u, q),
           Elements(q) \subseteq Elements(gate),
           \A k \in Elements(gate) : k \in Elements(q) \/ k.op = "send"
    PROVE  RequeueEffect(u)
<1> USE DEF IInv
<1>1. /\ pending \in Seq(Texts) /\ Len(pending) \in Nat /\ Len(pending) <= MaxPending
      /\ u.text \in Texts /\ u.ws \in Sockets /\ MaxPending \in Nat /\ MaxPending >= 1
      /\ Elements(pending) \subseteq Texts
  BY HubAssumption, ElementsOf DEF TypeOK, Back
<1>2. /\ pending' \in Seq(Texts) /\ Len(pending') <= MaxPending
      /\ Elements(pending') \subseteq Elements(pending) \cup {u.text}
      /\ u.text \in Elements(pending') => u.text \in Elements(pending) \/ u.sess = owner
      /\ dropped' \subseteq dropped \cup Elements(pending) \cup {u.text}
  <2>1. CASE RequeueAllowed(u)
    <3> DEFINE p == IF Len(pending) >= MaxPending THEN Tail(pending) ELSE pending
    <3>1. /\ pending' = <<u.text>> \o p
          /\ dropped' = dropped \cup (IF Len(pending) >= MaxPending THEN {Head(pending)} ELSE {})
          /\ u.sess = owner
      BY <2>1 DEF Requeued, RequeueAllowed
    <3>2. /\ p \in Seq(Texts) /\ Len(p) \in Nat /\ Len(p) + 1 <= MaxPending
          /\ Elements(p) \subseteq Elements(pending)
          /\ Len(pending) >= MaxPending => Head(pending) \in Elements(pending)
      <4>1. CASE Len(pending) >= MaxPending
        <5>1. pending # <<>>
          BY <1>1, <4>1
        <5>2. /\ Tail(pending) \in Seq(Texts) /\ Len(Tail(pending)) = Len(pending) - 1
              /\ Head(pending) \in Elements(pending)
              /\ Elements(Tail(pending)) \subseteq Elements(pending)
          BY <1>1, <5>1, TailElements
        <5> QED BY <1>1, <4>1, <5>2
      <4>2. CASE ~(Len(pending) >= MaxPending)
        BY <1>1, <4>2
      <4> QED BY <4>1, <4>2
    <3> HIDE DEF p
    <3>3. <<u.text>> \in Seq(Texts) /\ Len(<<u.text>>) = 1 /\ Elements(<<u.text>>) = {u.text}
      BY <1>1, OneElement
    <3>4. ASSUME NEW o \in Seq(Texts), Len(o) = 1, Elements(o) = {u.text}
          PROVE  /\ o \o p \in Seq(Texts) /\ Len(o \o p) <= MaxPending
                 /\ Elements(o \o p) = {u.text} \cup Elements(p)
      <4>1. /\ o \o p \in Seq(Texts) /\ Len(o \o p) = Len(o) + Len(p)
            /\ Elements(o \o p) = Elements(o) \cup Elements(p)
        BY <3>2, JoinFacts
      <4>2. Len(o \o p) = 1 + Len(p) /\ Elements(o \o p) = {u.text} \cup Elements(p)
        BY <3>4, <4>1, Zenon
      <4> QED BY <1>1, <3>2, <4>1, <4>2
    <3>5. /\ pending' \in Seq(Texts) /\ Len(pending') <= MaxPending
          /\ Elements(pending') = {u.text} \cup Elements(p)
      BY <3>1, <3>3, <3>4
    <3> QED BY <3>1, <3>2, <3>5
  <2>2. CASE ~RequeueAllowed(u)
    BY <1>1, <2>2 DEF Requeued
  <2> QED BY <2>1, <2>2
<1>3. CASE u.failed /\ u.ws \notin cleanup
  <2>1. cleanup' = cleanup \cup {u.ws} /\ gate' = Enter(q, "close", "cleanup", u.ws)
    BY <1>3 DEF Requeued
  <2>2. /\ Enter(q, "close", "cleanup", u.ws) \in Seq(Ticket)
        /\ OneMore(Enter(q, "close", "cleanup", u.ws), q, "close", "cleanup", u.ws, NoText, NoSession)
        /\ KeepOnce(Enter(q, "close", "cleanup", u.ws))
    BY <1>1, EnterOther
  <2> QED BY <1>2, <1>3, <2>1, <2>2 DEF RequeueEffect, OneMore
<1>4. CASE ~(u.failed /\ u.ws \notin cleanup)
  BY <1>2, <1>4 DEF RequeueEffect, Requeued
<1> QED BY <1>3, <1>4

LEMMA UnsentKeeps ==
    ASSUME IInv, NEW u \in Back, RequeueEffect(u),
           UNCHANGED <<slotVars, endVars, pastVars, lock, keep, flush, link>>,
           app' \in [Sockets -> {"connecting", "connected", "closed"}],
           \A v \in Sockets : app'[v] \in {app[v], "closed"},
           unsent' \in Seq(Back), Elements(unsent') \subseteq Elements(unsent) \cup {u},
           Live(u.ws), u.failed => app'[u.ws] = "closed",
           u.text <= Len(said), ~raced => said[u.text] = u.sess
    PROVE  IInv'
<1> USE DEF IInv
<1>1. /\ u.text \in Texts /\ u.ws \in Sockets
      /\ Elements(pending) \subseteq Texts
  BY ElementsOf DEF TypeOK, Back
<1>2. TypeOK'
  BY <1>1 DEF TypeOK, RequeueEffect, Back
<1>3. SocketInv'
  <2>1. /\ \A k \in Elements(gate') : Live(k.ws)
        /\ \A v \in Elements(unsent') : Live(v.ws) /\ (v.failed => app'[v.ws] = "closed")
        /\ \A w \in cleanup' : Live(w) /\ app'[w] = "closed"
    BY <1>1, TextFacts DEF SocketInv, RequeueEffect, TypeOK
  <2> QED BY <2>1 DEF SocketInv, Live
<1>4. TicketInv'
  <2>1. "cleanup" \notin Callers
    BY HubAssumption DEF Callers
  <2>2. \A k \in Elements(gate) : k.ws \in Sockets
    BY TextFacts DEF Ticket
  <2> QED BY <2>1, <2>2 DEF TicketInv, RequeueEffect, TypeOK
<1>5. \A k \in Elements(gate) : k.by = "keep" \/ k.by \in Callers => k.op # "send"
  BY HubAssumption DEF TicketInv, Callers
<1>6. \A w : Connected(w)' => Connected(w)
  BY DEF Connected, TypeOK
<1>7. KeepInv'
  BY <1>5, <1>6 DEF KeepInv, RequeueEffect
<1>8. TextInv'
  BY <1>1, TextFacts, HubAssumption DEF TextInv, RequeueEffect, NoText
<1>9. ASSUME ~raced'
      PROVE  SlotInv' /\ OwnInv'
  <2>1. ~raced /\ SlotInv /\ OwnInv
    BY <1>9 DEF CrossInv
  <2>2. "cleanup" \notin Callers
    BY HubAssumption DEF Callers
  <2>3. SlotInv'
    BY <1>5, <1>6, <2>1, <2>2 DEF SlotInv, RequeueEffect
  <2>4. OwnInv'
    BY <1>1, <1>6, <2>1 DEF OwnInv, RequeueEffect, SentToOwnSession
  <2> QED BY <2>3, <2>4
<1> QED BY <1>2, <1>3, <1>4, <1>7, <1>8, <1>9 DEF CrossInv

(* A text inside the gate that is not sent.                                 *)
LEMMA NotSentKeeps ==
    ASSUME IInv, NEW failed \in BOOLEAN, gate # <<>>, Turn.op = "send", NotSent(Unsent(failed)),
           UNCHANGED <<slotVars, endVars, pastVars, lock, keep, flush, link>>,
           app' = IF failed THEN [app EXCEPT ![Turn.ws] = "closed"] ELSE app
    PROVE  IInv'
<1> USE DEF IInv
<1> DEFINE u == Unsent(failed)
<1>1. /\ gate \in Seq(Ticket) /\ KeepOnce(gate) /\ Turn \in Elements(gate) /\ Turn \in Ticket
      /\ Tail(gate) \in Seq(Ticket) /\ KeepOnce(Tail(gate))
      /\ Elements(gate) = Elements(Tail(gate)) \cup {Turn}
  BY TailElements, TailKeep DEF TypeOK, KeepInv, Turn
<1>2. Turn.text \in 1..Len(said) /\ Turn.text \in Texts /\ Turn.by \in {"task", "flush"}
  BY <1>1, TextFacts, HubAssumption DEF TicketInv, TypeOK, Texts
<1>3. /\ u \in Back /\ u.text = Turn.text /\ u.sess = Turn.sess /\ u.ws = Turn.ws
      /\ u.failed = failed /\ u.ws \in Sockets
  BY <1>1, <1>2 DEF Unsent, Back, Ticket
<1>4. NotSent(u)
  OBVIOUS
<1> HIDE DEF u
<1>5. /\ app' \in [Sockets -> {"connecting", "connected", "closed"}]
      /\ \A v \in Sockets : app'[v] \in {app[v], "closed"}
      /\ u.failed => app'[u.ws] = "closed"
  BY <1>3 DEF TypeOK
<1>6. /\ Live(u.ws) /\ u.text <= Len(said)
      /\ ~raced => said[u.text] = u.sess
  BY <1>1, <1>2, <1>3 DEF SocketInv, CrossInv, OwnInv
<1>7. unsent \in Seq(Back)
  BY DEF TypeOK, Back
<1>8. /\ RequeueEffect(u)
      /\ unsent' \in Seq(Back) /\ Elements(unsent') \subseteq Elements(unsent) \cup {u}
  <2>1. CASE lock = Free /\ unsent = <<>>
    <3>1. Requeued(u, Tail(gate)) /\ unsent' = unsent
      BY <1>4, <2>1 DEF NotSent
    <3> QED BY <1>1, <1>3, <1>7, <3>1, RequeuedFacts
  <2>2. CASE ~(lock = Free /\ unsent = <<>>)
    <3>1. unsent' = Append(unsent, u) /\ gate' = Tail(gate) /\ UNCHANGED <<pending, cleanup, dropped>>
      BY <1>4, <2>2 DEF NotSent
    <3>2. /\ Append(unsent, u) \in Seq(Back) /\ Elements(Append(unsent, u)) = Elements(unsent) \cup {u}
      BY <1>3, <1>7, AppendElements
    <3> QED BY <1>1, <3>1, <3>2 DEF RequeueEffect, TypeOK
  <2> QED BY <2>1, <2>2
<1> QED BY <1>3, <1>5, <1>6, <1>8, UnsentKeeps

(* Whoever is at the head of the gate goes in.                              *)
LEMMA InsideKeeps ==
    ASSUME IInv, gate # <<>>, gate' = Inside,
           UNCHANGED <<hubVars, endVars, taskVars, pastVars, link, keep>>,
           \/ Turn.op # "close" /\ app' = app
           \/ Turn.op = "close" /\ app' = [app EXCEPT ![Turn.ws] = "closed"]
    PROVE  IInv'
<1> USE DEF IInv
<1>1. Turn \in Elements(gate) /\ Turn \in Ticket /\ gate \in Seq(Ticket) /\ KeepOnce(gate)
  BY TailElements DEF TypeOK, Turn, KeepInv
<1>2. PICK b \in Ticket :
        /\ b.op = Turn.op /\ b.by = Turn.by /\ b.ws = Turn.ws /\ b.text = Turn.text
        /\ b.sess = Turn.sess /\ b.busy
        /\ b \in Elements(Inside)
        /\ Elements(Inside) \subseteq Elements(gate) \cup {b}
        /\ Elements(gate) \subseteq Elements(Inside) \cup {Turn}
  BY <1>1, InsideFacts
<1>3. gate' \in Seq(Ticket) /\ KeepOnce(gate')
  BY <1>1, InsideFacts
<1>4. /\ app' \in [Sockets -> {"connecting", "connected", "closed"}]
      /\ \A v \in Sockets : app'[v] \in {app[v], "closed"}
      /\ Turn.op = "close" => app'[Turn.ws] = "closed"
  BY <1>1, ZenonT(40) DEF TypeOK, Ticket
<1>5. \A v : Connected(v)' => Connected(v)
  BY <1>4 DEF Connected
<1>6. \A k \in Elements(gate') : \E j \in Elements(gate) :
        /\ k.op = j.op /\ k.by = j.by /\ k.ws = j.ws /\ k.text = j.text /\ k.sess = j.sess
        /\ k = j \/ j = Turn
  BY <1>1, <1>2
<1>7. TypeOK'
  BY <1>3, <1>4 DEF TypeOK
<1>8. SocketInv'
  <2>1. \A u \in Elements(unsent) : u.failed => app'[u.ws] = "closed"
    BY <1>4, TextFacts DEF SocketInv
  <2>2. \A v \in cleanup : app'[v] = "closed"
    BY <1>4 DEF SocketInv, TypeOK
  <2>3. \A k \in Elements(gate') : Live(k.ws)
    BY <1>6 DEF SocketInv
  <2> QED BY <2>1, <2>2, <2>3 DEF SocketInv, Live
<1>9. TicketInv'
  <2>1. \A k \in Elements(gate) : k.op = "close" /\ k.busy => app'[k.ws] = "closed"
    BY <1>4, TextFacts DEF TicketInv, Ticket
  <2>2. \A k \in Elements(gate') : k.op = "close" /\ k.busy => app'[k.ws] = "closed"
    BY <1>2, <1>4, <2>1
  <2>3. \A k \in Elements(gate') :
          /\ k.op = "send" <=> k.text # NoText
          /\ k.op = "send" => k.by \in {"task", "flush"}
          /\ k.op = "ping" => k.by = "keep"
          /\ k.op = "close" => k.by \in {"keep", "cleanup"} \cup Callers
          /\ k.by \in Callers => lock = k.by
    BY <1>6 DEF TicketInv
  <2> QED BY <2>2, <2>3 DEF TicketInv
<1>10. KeepInv'
  <2>1. \A k \in Elements(gate') : k.by = "keep" =>
          /\ keep = IF k.op = "ping" THEN "ping" ELSE "closing"
          /\ client \in {NoSocket, k.ws}
    BY <1>6 DEF KeepInv
  <2>2. ASSUME keep = "closing", Connected(client)'
        PROVE  \E k \in Elements(gate') : k.by = "keep" /\ ~k.busy
    <3>1. PICK k \in Elements(gate) : k.by = "keep" /\ ~k.busy
      BY <1>5, <2>2 DEF KeepInv
    <3>2. k # Turn
      <4>1. k.op = "close" /\ client \in {NoSocket, k.ws}
        BY <2>2, <3>1, TextFacts DEF KeepInv, TicketInv, Ticket
      <4> QED BY <1>4, <2>2, <4>1, HubAssumption DEF Connected
    <3> QED BY <1>2, <3>1, <3>2
  <2> QED BY <1>3, <2>1, <2>2 DEF KeepInv
<1>11. TextInv'
  BY <1>6 DEF TextInv
<1>12. ASSUME ~raced'
       PROVE  SlotInv' /\ OwnInv'
  <2>1. ~raced /\ SlotInv /\ OwnInv
    BY <1>12 DEF CrossInv
  <2>2. ASSUME NEW x \in Callers, lock = x
        PROVE  /\ \A k \in Elements(gate') : k.by = x => k.ws = client
               /\ ~Connected(client)' \/ \E k \in Elements(gate') : k.by = x /\ ~k.busy
    <3>1. \A k \in Elements(gate') : k.by = x => k.ws = client
      BY <1>6, <2>1, <2>2 DEF SlotInv
    <3>2. ASSUME Connected(client)'
          PROVE  \E k \in Elements(gate') : k.by = x /\ ~k.busy
      <4>1. PICK k \in Elements(gate) : k.by = x /\ ~k.busy
        BY <1>5, <2>1, <2>2, <3>2 DEF SlotInv
      <4>2. k # Turn
        <5>1. k.op = "close" /\ k.ws = client
          BY <2>1, <2>2, <4>1, TextFacts, HubAssumption DEF SlotInv, TicketInv, Ticket, Callers
        <5> QED BY <1>4, <3>2, <5>1 DEF Connected
      <4> QED BY <1>2, <4>1, <4>2
    <3> QED BY <3>1, <3>2
  <2>3. SlotInv'
    BY <1>5, <2>1, <2>2 DEF SlotInv
  <2>4. \A k \in Elements(gate') : k.op = "send" => said[k.text] = k.sess /\ sess[k.ws] = k.sess
    BY <1>6, <2>1 DEF OwnInv
  <2>5. OwnInv'
    BY <1>5, <2>1, <2>4 DEF OwnInv, SentToOwnSession
  <2> QED BY <2>3, <2>5
<1> QED BY <1>7, <1>8, <1>9, <1>10, <1>11, <1>12 DEF CrossInv

(* Whoever is at the head of the gate leaves it.                            *)
LEMMA LeaveKeeps ==
    ASSUME IInv, gate # <<>>, gate' = Tail(gate),
           UNCHANGED <<hubVars, endVars, taskVars, sockVars, said>>,
           \/ keep' = keep /\ Turn.op # "ping"
           \/ Turn.op = "ping" /\ keep' = "sleep",
           Turn.op = "close" => ~Connected(Turn.ws),
           sent' \in SUBSET [text : Texts, sess : Sessions \cup {NoSession}],
           IsFiniteSet(sent'), \A d \in sent' : d.text <= Len(said),
           ~raced => \A d \in sent' : said[d.text] = d.sess
    PROVE  IInv'
<1> USE DEF IInv
<1>1. /\ Turn \in Elements(gate) /\ Turn \in Ticket
      /\ gate' \in Seq(Ticket) /\ KeepOnce(gate')
      /\ Turn.by = "keep" => \A k \in Elements(gate') : k.by # "keep"
      /\ Elements(gate) = Elements(gate') \cup {Turn}
  BY TailElements, TailKeep DEF TypeOK, Turn, KeepInv
<1>2. TypeOK'
  BY <1>1 DEF TypeOK
<1>3. SocketInv'
  BY <1>1 DEF SocketInv, Live
<1>4. TicketInv'
  BY <1>1 DEF TicketInv
<1>5. KeepInv'
  <2>1. CASE Turn.op = "ping"
    <3>1. Turn.by = "keep"
      BY <1>1, <2>1 DEF TicketInv
    <3> QED BY <1>1, <2>1, <3>1 DEF KeepInv
  <2>2. CASE Turn.op # "ping"
    <3>1. ASSUME keep = "closing", Connected(client)
          PROVE  \E k \in Elements(gate') : k.by = "keep" /\ ~k.busy
      <4>1. PICK k \in Elements(gate) : k.by = "keep" /\ ~k.busy
        BY <3>1 DEF KeepInv
      <4>2. k # Turn
        <5>1. k.op = "close" /\ client \in {NoSocket, k.ws}
          BY <3>1, <4>1, TextFacts DEF KeepInv, TicketInv, Ticket
        <5> QED BY <3>1, <5>1, HubAssumption DEF Connected
      <4> QED BY <1>1, <4>1, <4>2
    <3> QED BY <1>1, <2>2, <3>1 DEF KeepInv, Connected
  <2> QED BY <2>1, <2>2
<1>6. TextInv'
  BY <1>1 DEF TextInv
<1>7. ASSUME ~raced'
      PROVE  SlotInv' /\ OwnInv'
  <2>1. ~raced /\ SlotInv /\ OwnInv
    BY <1>7 DEF CrossInv
  <2>2. ASSUME NEW x \in Callers, lock = x, Connected(client)
        PROVE  \E k \in Elements(gate') : k.by = x /\ ~k.busy
    <3>1. PICK k \in Elements(gate) : k.by = x /\ ~k.busy
      BY <2>1, <2>2 DEF SlotInv
    <3>2. k.op = "close" /\ k.ws = client
      BY <2>1, <2>2, <3>1, TextFacts, HubAssumption DEF SlotInv, TicketInv, Ticket, Callers
    <3> QED BY <1>1, <2>2, <3>1, <3>2
  <2>3. SlotInv'
    BY <1>1, <2>1, <2>2 DEF SlotInv, Connected
  <2>4. OwnInv'
    BY <1>1, <2>1 DEF OwnInv, SentToOwnSession, Connected
  <2> QED BY <2>3, <2>4
<1> QED BY <1>2, <1>3, <1>4, <1>5, <1>6, <1>7 DEF CrossInv

LEMMA SendBeginsKeeps ==
    ASSUME IInv, SendBegins
    PROVE  IInv'
<1>1. CASE Connected(Turn.ws)
  <2>1. /\ gate # <<>> /\ gate' = Inside /\ Turn.op = "send" /\ app' = app
        /\ UNCHANGED <<hubVars, endVars, taskVars, pastVars, link, keep>>
    BY <1>1 DEF SendBegins
  <2> QED BY <2>1, InsideKeeps
<1>2. CASE ~Connected(Turn.ws)
  <2>1. /\ gate # <<>> /\ Turn.op = "send" /\ NotSent(Unsent(FALSE)) /\ app' = app
        /\ UNCHANGED <<slotVars, endVars, pastVars, lock, keep, flush, link>>
    BY <1>2 DEF SendBegins
  <2> QED BY <2>1, NotSentKeeps
<1> QED BY <1>1, <1>2

LEMMA SendFailsKeeps ==
    ASSUME IInv, SendFails
    PROVE  IInv'
<1>1. /\ gate # <<>> /\ Turn.op = "send" /\ NotSent(Unsent(TRUE))
      /\ app' = [app EXCEPT ![Turn.ws] = "closed"]
      /\ UNCHANGED <<slotVars, endVars, pastVars, lock, keep, flush, link>>
  BY DEF SendFails
<1> QED BY <1>1, NotSentKeeps

LEMMA RequeueLaterKeeps ==
    ASSUME IInv, RequeueLater
    PROVE  IInv'
<1> USE DEF IInv
<1>1. /\ unsent \in Seq(Back) /\ unsent # <<>> /\ Requeued(unsent[1], gate) /\ unsent' = Tail(unsent)
      /\ UNCHANGED <<slotVars, endVars, sockVars, pastVars, lock, keep, flush>>
      /\ gate \in Seq(Ticket) /\ KeepOnce(gate)
  BY DEF RequeueLater, TypeOK, Back, KeepInv
<1>2. PICK u \in Back : u = unsent[1]
  BY <1>1, TailElements
<1>3. /\ Tail(unsent) \in Seq(Back) /\ u \in Elements(unsent)
      /\ Elements(unsent) = Elements(Tail(unsent)) \cup {u}
  BY <1>1, <1>2, TailElements
<1>4. RequeueEffect(u)
  BY <1>1, <1>2, RequeuedFacts
<1>5. /\ app' \in [Sockets -> {"connecting", "connected", "closed"}]
      /\ \A v \in Sockets : app'[v] \in {app[v], "closed"}
  BY <1>1 DEF TypeOK
<1>6. /\ Live(u.ws) /\ u.text <= Len(said) /\ (u.failed => app'[u.ws] = "closed")
      /\ ~raced => said[u.text] = u.sess
  BY <1>1, <1>3, TextFacts DEF SocketInv, CrossInv, OwnInv, TextInv
<1> QED BY <1>1, <1>3, <1>4, <1>5, <1>6, UnsentKeeps

-----------------------------------------------------------------------------
(* The other actions of the gate, those of the keepalive and clean-ups.    *)

LEMMA SendReturnsKeeps ==
    ASSUME IInv, SendReturns
    PROVE  IInv'
<1> USE DEF IInv
<1>1. /\ Turn \in Elements(gate) /\ Turn \in Ticket /\ gate # <<>> /\ Turn.op = "send"
      /\ gate' = Tail(gate)
      /\ UNCHANGED <<hubVars, endVars, taskVars, sockVars, keep, said>>
  BY TailElements DEF SendReturns, TypeOK, Turn
<1> DEFINE r == [text |-> Turn.text, sess |-> sess[Turn.ws]]
<1>2. sent' = sent \cup {r}
  BY DEF SendReturns
<1>3. Turn.text \in Texts /\ Turn.text <= Len(said) /\ Turn.ws \in Sockets
  <2>1. Turn.text \in 1..Len(said) /\ Len(said) \in Nat /\ Turn.ws \in Sockets
    BY <1>1, TextFacts DEF Ticket
  <2>2. Len(said) <= MaxCalls /\ MaxCalls \in Nat
    BY HubAssumption DEF TypeOK
  <2> QED BY <2>1, <2>2 DEF Texts
<1>4. r \in [text : Texts, sess : Sessions \cup {NoSession}] /\ r.text <= Len(said)
  BY <1>3 DEF TypeOK
<1>5. ~raced => said[r.text] = r.sess
  BY <1>1 DEF CrossInv, OwnInv
<1> HIDE DEF r
<1>6. IsFiniteSet(sent')
  BY <1>2, FS_AddElement DEF TextInv
<1>7. /\ sent' \in SUBSET [text : Texts, sess : Sessions \cup {NoSession}]
      /\ \A d \in sent' : d.text <= Len(said)
      /\ ~raced => \A d \in sent' : said[d.text] = d.sess
  BY <1>2, <1>4, <1>5 DEF TypeOK, TextInv, CrossInv, OwnInv, SentToOwnSession
<1> QED BY <1>1, <1>6, <1>7, LeaveKeeps

LEMMA CloseBeginsKeeps ==
    ASSUME IInv, CloseBegins
    PROVE  IInv'
<1>1. /\ gate # <<>> /\ Turn.op = "close"
      /\ UNCHANGED <<hubVars, endVars, taskVars, pastVars, keep, link>>
  BY DEF CloseBegins
<1>2. CASE app[Turn.ws] = "connected"
  <2>1. gate' = Inside /\ app' = [app EXCEPT ![Turn.ws] = "closed"]
    BY <1>2 DEF CloseBegins
  <2> QED BY <1>1, <2>1, InsideKeeps
<1>3. CASE app[Turn.ws] # "connected"
  <2>1. gate' = Tail(gate) /\ app' = app /\ ~Connected(Turn.ws)
    BY <1>3 DEF CloseBegins, Connected
  <2>2. /\ sent \in SUBSET [text : Texts, sess : Sessions \cup {NoSession}]
        /\ IsFiniteSet(sent) /\ \A d \in sent : d.text <= Len(said)
        /\ ~raced => \A d \in sent : said[d.text] = d.sess
    BY DEF IInv, TypeOK, TextInv, CrossInv, OwnInv, SentToOwnSession
  <2> QED BY <1>1, <2>1, <2>2, LeaveKeeps
<1> QED BY <1>2, <1>3

LEMMA CloseReturnsKeeps ==
    ASSUME IInv, CloseReturns
    PROVE  IInv'
<1>1. /\ gate # <<>> /\ Turn.op = "close" /\ Turn.busy /\ gate' = Tail(gate)
      /\ UNCHANGED <<hubVars, ioVars, endVars, keep>>
  BY DEF CloseReturns
<1>2. Turn \in Elements(gate)
  BY <1>1, TailElements DEF IInv, TypeOK, Turn
<1>3. ~Connected(Turn.ws)
  BY <1>1, <1>2 DEF IInv, TicketInv, Connected
<1>4. /\ sent \in SUBSET [text : Texts, sess : Sessions \cup {NoSession}]
      /\ IsFiniteSet(sent) /\ \A d \in sent : d.text <= Len(said)
      /\ ~raced => \A d \in sent : said[d.text] = d.sess
  BY DEF IInv, TypeOK, TextInv, CrossInv, OwnInv, SentToOwnSession
<1> QED BY <1>1, <1>3, <1>4, LeaveKeeps

LEMMA PingReturnsKeeps ==
    ASSUME IInv, PingReturns
    PROVE  IInv'
<1>1. /\ gate # <<>> /\ Turn.op = "ping" /\ gate' = Tail(gate) /\ keep' = "sleep"
      /\ UNCHANGED <<hubVars, ioVars, endVars>>
  BY DEF PingReturns
<1>2. /\ sent \in SUBSET [text : Texts, sess : Sessions \cup {NoSession}]
      /\ IsFiniteSet(sent) /\ \A d \in sent : d.text <= Len(said)
      /\ ~raced => \A d \in sent : said[d.text] = d.sess
  BY DEF IInv, TypeOK, TextInv, CrossInv, OwnInv, SentToOwnSession
<1> QED BY <1>1, <1>2, LeaveKeeps

(* The keepalive asks for the gate, which it left or was not at.            *)
LEMMA KeepEnters ==
    ASSUME IInv, NEW q \in Seq(Ticket), NEW op \in {"ping", "close"}, NEW w \in Sockets,
           gate' = Enter(q, op, "keep", w), keep' = IF op = "ping" THEN "ping" ELSE "closing",
           KeepOnce(q), Elements(q) \subseteq Elements(gate), Live(w), client \in {NoSocket, w},
           \A k \in Elements(q) : k.by # "keep",
           \A k \in Elements(gate) : k \in Elements(q) \/ k.by = "keep",
           UNCHANGED <<hubVars, endVars, taskVars, pastVars, link>>,
           app' \in [Sockets -> {"connecting", "connected", "closed"}],
           \A v \in Sockets : app'[v] \in {app[v], "closed"}
    PROVE  IInv'
<1> USE DEF IInv
<1>1. /\ gate' \in Seq(Ticket) /\ KeepOnce(gate')
  <2>1. /\ Enter(q, op, "keep", w) \in Seq(Ticket)
        /\ KeepOnce(q) /\ (\A k \in Elements(q) : k.by # "keep") => KeepOnce(Enter(q, op, "keep", w))
    BY EnterOther
  <2> QED BY <2>1
<1>2. PICK k \in Ticket :
        /\ k.op = op /\ k.by = "keep" /\ k.ws = w /\ k.text = NoText /\ ~k.busy
        /\ Elements(gate') = Elements(q) \cup {k}
  <2>1. OneMore(Enter(q, op, "keep", w), q, op, "keep", w, NoText, NoSession)
    BY EnterOther
  <2> QED BY <2>1 DEF OneMore
<1>3. \A v : Connected(v)' => Connected(v)
  BY DEF Connected
<1>4. "keep" \notin Callers
  BY HubAssumption DEF Callers
<1>5. TypeOK'
  BY <1>1 DEF TypeOK
<1>6. SocketInv'
  <2>1. \A u \in Elements(unsent) : u.failed => app'[u.ws] = "closed"
    BY TextFacts DEF SocketInv
  <2>2. \A v \in cleanup : app'[v] = "closed"
    BY DEF SocketInv, TypeOK
  <2>3. \A j \in Elements(gate') : Live(j.ws)
    BY <1>2 DEF SocketInv
  <2> QED BY <2>1, <2>2, <2>3 DEF SocketInv, Live
<1>7. TicketInv'
  <2>1. \A j \in Elements(gate) : j.ws \in Sockets
    BY TextFacts DEF Ticket
  <2> QED BY <1>2, <1>4, <2>1 DEF TicketInv
<1>8. KeepInv'
  BY <1>1, <1>2 DEF KeepInv
<1>9. TextInv'
  BY <1>2, TextFacts DEF TextInv, NoText
<1>10. ASSUME ~raced'
       PROVE  SlotInv' /\ OwnInv'
  <2>1. ~raced /\ SlotInv /\ OwnInv
    BY <1>10 DEF CrossInv
  <2>2. SlotInv'
    BY <1>2, <1>3, <1>4, <2>1 DEF SlotInv
  <2>3. OwnInv'
    BY <1>2, <1>3, <2>1 DEF OwnInv, SentToOwnSession
  <2> QED BY <2>2, <2>3
<1> QED BY <1>5, <1>6, <1>7, <1>8, <1>9, <1>10 DEF CrossInv

LEMMA PingFailedKeeps ==
    ASSUME IInv, gate # <<>>, Turn.op = "ping", PingFailed,
           UNCHANGED <<hubVars, endVars, taskVars, pastVars, link>>,
           app' \in {app, [app EXCEPT ![Turn.ws] = "closed"]}
    PROVE  IInv'
<1> USE DEF IInv
<1>1. /\ Turn \in Elements(gate) /\ Turn \in Ticket
      /\ Tail(gate) \in Seq(Ticket) /\ KeepOnce(Tail(gate))
      /\ Turn.by = "keep" => \A k \in Elements(Tail(gate)) : k.by # "keep"
      /\ Elements(gate) = Elements(Tail(gate)) \cup {Turn}
  BY TailElements, TailKeep DEF TypeOK, Turn, KeepInv
<1>2. Turn.by = "keep" /\ client \in {NoSocket, Turn.ws} /\ Live(Turn.ws) /\ Turn.ws \in Sockets
  BY <1>1 DEF TicketInv, KeepInv, SocketInv, Ticket
<1>3. /\ app' \in [Sockets -> {"connecting", "connected", "closed"}]
      /\ \A v \in Sockets : app'[v] \in {app[v], "closed"}
  BY <1>2 DEF TypeOK
<1>4. gate' = Enter(Tail(gate), "close", "keep", Turn.ws) /\ keep' = "closing"
  BY DEF PingFailed
<1> QED BY <1>1, <1>2, <1>3, <1>4, KeepEnters

LEMMA PingBeginsKeeps ==
    ASSUME IInv, PingBegins
    PROVE  IInv'
<1>1. CASE Connected(Turn.ws)
  <2>1. /\ gate # <<>> /\ gate' = Inside /\ Turn.op = "ping" /\ app' = app
        /\ UNCHANGED <<hubVars, endVars, taskVars, pastVars, link, keep>>
    BY <1>1 DEF PingBegins
  <2> QED BY <2>1, InsideKeeps
<1>2. CASE ~Connected(Turn.ws)
  <2>1. /\ gate # <<>> /\ Turn.op = "ping" /\ PingFailed /\ app' = app
        /\ UNCHANGED <<hubVars, endVars, taskVars, pastVars, link>>
    BY <1>2 DEF PingBegins
  <2> QED BY <2>1, PingFailedKeeps
<1> QED BY <1>1, <1>2

LEMMA PingRaisesKeeps ==
    ASSUME IInv, PingRaises
    PROVE  IInv'
<1>1. /\ gate # <<>> /\ Turn.op = "ping" /\ PingFailed
      /\ app' = [app EXCEPT ![Turn.ws] = "closed"]
      /\ UNCHANGED <<hubVars, endVars, taskVars, pastVars, link>>
  BY DEF PingRaises
<1> QED BY <1>1, PingFailedKeeps

LEMMA KeepaliveActsKeeps ==
    ASSUME IInv, NEW op \in {"ping", "close"},
           KeepaliveActs(op, IF op = "ping" THEN "ping" ELSE "closing")
    PROVE  IInv'
<1> USE DEF IInv
<1>1. /\ keep = "sleep" /\ Connected(client)
      /\ keep' = IF op = "ping" THEN "ping" ELSE "closing"
      /\ gate' = Enter(gate, op, "keep", client)
      /\ UNCHANGED <<hubVars, ioVars, endVars>>
  BY DEF KeepaliveActs
<1>2. /\ client \in Sockets /\ Live(client) /\ gate \in Seq(Ticket) /\ KeepOnce(gate)
      /\ \A k \in Elements(gate) : k.by # "keep"
  BY <1>1, HubAssumption DEF Connected, SocketInv, KeepInv, TypeOK
<1>3. /\ app' \in [Sockets -> {"connecting", "connected", "closed"}]
      /\ \A v \in Sockets : app'[v] \in {app[v], "closed"}
  BY <1>1 DEF TypeOK
<1> QED BY <1>1, <1>2, <1>3, KeepEnters

LEMMA KeepaliveExitsKeeps ==
    ASSUME IInv, KeepaliveExits
    PROVE  IInv'
<1> USE DEF IInv
<1>1. keep = "sleep" /\ keep' = "none" /\ UNCHANGED <<hubVars, ioVars, endVars, gate>>
  BY DEF KeepaliveExits
<1>2. KeepInv'
  BY <1>1 DEF KeepInv
<1>3. TypeOK'
  BY <1>1 DEF TypeOK
<1>4. SocketInv' /\ TicketInv' /\ TextInv' /\ CrossInv'
  BY <1>1 DEF SocketInv, Live, TicketInv, TextInv, CrossInv, SlotInv, OwnInv, SentToOwnSession, Connected
<1> QED BY <1>2, <1>3, <1>4

(* A step that at most empties the slot.                                    *)
LEMMA SlotEmptiesKeeps ==
    ASSUME IInv, lock = Free,
           UNCHANGED <<owner, raced, pending, dropped, lock, endVars, sockVars, pastVars,
                       gate, flush, unsent>>,
           client' \in {client, NoSocket}, cleanup' \subseteq cleanup,
           keep' = keep \/ (keep' = "sleep" /\ \A k \in Elements(gate) : k.by # "keep")
    PROVE  IInv'
<1> USE DEF IInv
<1>1. Connected(client)' => Connected(client) /\ client' = client
  BY HubAssumption DEF Connected
<1>2. TypeOK'
  BY DEF TypeOK
<1>3. SocketInv'
  BY DEF SocketInv, Live
<1>4. TicketInv' /\ TextInv'
  BY DEF TicketInv, TextInv
<1>5. KeepInv'
  BY <1>1 DEF KeepInv
<1>6. ASSUME ~raced'
      PROVE  SlotInv' /\ OwnInv'
  <2>1. ~raced /\ SlotInv /\ OwnInv
    BY <1>6 DEF CrossInv
  <2>2. SlotInv'
    BY <1>1, <2>1, HubAssumption DEF SlotInv, Callers
  <2>3. OwnInv'
    BY <1>1, <2>1 DEF OwnInv, SentToOwnSession
  <2> QED BY <2>2, <2>3
<1> QED BY <1>2, <1>3, <1>4, <1>5, <1>6 DEF CrossInv

LEMMA KeepaliveMarksKeeps ==
    ASSUME IInv, KeepaliveMarks
    PROVE  IInv'
<1>1. /\ lock = Free /\ keep = "closing" /\ ~Closing("keep") /\ client' = NoSocket /\ keep' = "sleep"
      /\ UNCHANGED <<owner, raced, pending, dropped, lock, endVars, sockVars, pastVars,
                     gate, flush, unsent>>
      /\ cleanup' = cleanup
  BY DEF KeepaliveMarks
<1>2. \A k \in Elements(gate) : k.by # "keep"
  BY <1>1, TextFacts DEF IInv, KeepInv, TicketInv, Closing, Ticket
<1> QED BY <1>1, <1>2, SlotEmptiesKeeps

LEMMA CleanupEndsKeeps ==
    ASSUME IInv, NEW w \in Sockets, CleanupEnds(w)
    PROVE  IInv'
<1>1. /\ lock = Free /\ client' \in {client, NoSocket} /\ keep' = keep
      /\ UNCHANGED <<owner, raced, pending, dropped, lock, endVars, sockVars, pastVars,
                     gate, flush, unsent>>
      /\ cleanup' \subseteq cleanup
  BY DEF CleanupEnds
<1> QED BY <1>1, SlotEmptiesKeeps

LEMMA NextKeeps == IInv /\ [Next]_vars => IInv'
<1> SUFFICES ASSUME IInv, [Next]_vars PROVE IInv'
  OBVIOUS
<1>1. ASSUME NEW s \in Sessions, Broadcast(s) PROVE IInv'
  BY <1>1, BroadcastKeeps
<1>2. ASSUME NEW w \in Sockets, Attach(w) PROVE IInv'
  BY <1>2, AttachFreeKeeps, AttachClosesKeeps, AttachOwnsKeeps, AcceptedKeeps, AcceptFailsKeeps
     DEF Attach
<1>3. ASSUME NEW w \in Sockets, LinkBreaks(w) \/ ClientDisconnect(w) \/ CleanupEnds(w) PROVE IInv'
  BY <1>3, LinkBreaksKeeps, ClientDisconnectKeeps, CleanupEndsKeeps
<1>4. ASSUME NEW w \in Sockets, Flush(w) PROVE IInv'
  BY <1>4, FlushTakesKeeps, FlushSendsKeeps, FlushEndsKeeps, FlushInterruptedKeeps DEF Flush
<1>5. ASSUME NEW x \in Stops, Detach(x) PROVE IInv'
  BY <1>5, DetachIgnoredKeeps, DetachFreeKeeps, DetachClosesKeeps, DetachEndsKeeps DEF Detach
<1>6. CASE Gate
  BY <1>6, SendBeginsKeeps, SendReturnsKeeps, SendFailsKeeps, CloseBeginsKeeps, CloseReturnsKeeps,
     PingBeginsKeeps, PingReturnsKeeps, PingRaisesKeeps DEF Gate
<1>7. CASE RequeueLater
  BY <1>7, RequeueLaterKeeps
<1>8. CASE Keepalive
  BY <1>8, KeepaliveExitsKeeps, KeepaliveActsKeeps, KeepaliveMarksKeeps
     DEF Keepalive, KeepalivePings, KeepaliveTimesOut
<1>9. CASE UNCHANGED vars
  BY <1>9 DEF vars, IInv, TypeOK, SocketInv, Live, TicketInv, KeepInv, TextInv, CrossInv, SlotInv,
     OwnInv, SentToOwnSession, Connected
<1> QED BY <1>1, <1>2, <1>3, <1>4, <1>5, <1>6, <1>7, <1>8, <1>9 DEF Next

-----------------------------------------------------------------------------
(* Every text stays in one place.                                          *)

Sum(p, q, u, s, f, d, t) ==
    Times(p, t) + TextTimes(q, t) + TextTimes(u, t) + RecordTimes(s, t) + FamilyTimes(f, t)
    + One(t \in d)

LEMMA PlacesSum ==
    ASSUME NEW CONSTANT t
    PROVE  /\ Places(t) = Sum(pending, gate, unsent, sent, flush, dropped, t)
           /\ Places(t)' = Sum(pending', gate', unsent', sent', flush', dropped', t)
BY DEF Places, Sum, Times, TextTimes, RecordTimes, FamilyTimes, One

LEMMA SumNaturals ==
    ASSUME IInv, NEW t
    PROVE  /\ Times(pending, t) \in Nat /\ TextTimes(gate, t) \in Nat
           /\ TextTimes(unsent, t) \in Nat /\ RecordTimes(sent, t) \in Nat
           /\ FamilyTimes(flush, t) \in Nat /\ One(t \in dropped) \in {0, 1}
<1>1. /\ pending \in Seq(Texts) /\ gate \in Seq(Ticket) /\ unsent \in Seq(Back)
      /\ IsFiniteSet(sent) /\ \A w \in Sockets : flush[w].rest \in Seq(Texts)
  BY DEF IInv, TypeOK, TextInv, Back
<1>2. Times(pending, t) \in Nat
  BY <1>1, TimesZero
<1>3. TextTimes(gate, t) \in Nat
  BY <1>1, TimesZero
<1>4. TextTimes(unsent, t) \in Nat
  BY <1>1, TimesZero
<1>5. RecordTimes(sent, t) \in Nat
  BY <1>1, RecordFacts
<1>6. FamilyTimes(flush, t) \in Nat
  BY <1>1, FamilyZero
<1> QED BY <1>2, <1>3, <1>4, <1>5, <1>6 DEF One

(* No text is broadcast and every text has as many places as before.        *)
LEMMA OnceKept ==
    ASSUME IInv, EachTextOnce, said' = said,
           \A t \in 1..Len(said) :
             Sum(pending, gate, unsent, sent, flush, dropped, t) = 1 =>
             Sum(pending', gate', unsent', sent', flush', dropped', t) = 1
    PROVE  EachTextOnce'
BY PlacesSum DEF EachTextOnce

LEMMA SameRest ==
    ASSUME NEW f, NEW g, \A w \in Sockets : g[w].rest = f[w].rest, NEW t
    PROVE  FamilyTimes(g, t) = FamilyTimes(f, t)
<1>1. {{w} \X Spots(g[w].rest, t) : w \in Sockets} = {{w} \X Spots(f[w].rest, t) : w \in Sockets}
  OBVIOUS
<1> QED BY <1>1 DEF FamilyTimes

(* At most what waits is given up.                                          *)
LEMMA GivenUp ==
    ASSUME IInv, EachTextOnce, UNCHANGED <<unsent, sent, said>>,
           \A w \in Sockets : flush'[w].rest = flush[w].rest,
           \A t \in Texts : TextTimes(gate', t) = TextTimes(gate, t),
           pending' \in {pending, <<>>},
           dropped' = dropped \cup (Elements(pending) \ Elements(pending'))
    PROVE  EachTextOnce'
<1> SUFFICES ASSUME NEW t \in 1..Len(said), Sum(pending, gate, unsent, sent, flush, dropped, t) = 1
             PROVE  Sum(pending', gate', unsent', sent', flush', dropped', t) = 1
  BY OnceKept
<1>1. t \in Texts
  BY HubAssumption DEF IInv, TypeOK, Texts
<1>2. /\ TextTimes(gate', t) = TextTimes(gate, t) /\ TextTimes(unsent', t) = TextTimes(unsent, t)
      /\ RecordTimes(sent', t) = RecordTimes(sent, t)
      /\ FamilyTimes(flush', t) = FamilyTimes(flush, t)
  BY <1>1, SameRest
<1>3. CASE pending' = pending
  <2>1. dropped' = dropped
    BY <1>3
  <2> QED BY <1>2, <1>3, <2>1 DEF Sum
<1>4. CASE pending' = <<>>
  <2>1. Elements(<<>>) = {} /\ Times(<<>>, t) = 0
    <3>1. <<>> \in Seq(Texts)
      OBVIOUS
    <3>2. Elements(<<>>) = {}
      BY DEF Elements
    <3> QED BY <3>1, <3>2, TimesZero
  <2>2. pending \in Seq(Texts)
    BY DEF IInv, TypeOK
  <2>3. Times(pending, t) = 0 <=> t \notin Elements(pending)
    BY <2>2, TimesZero
  <2>4. t \in dropped' <=> t \in dropped \/ t \in Elements(pending)
    BY <1>4, <2>1
  <2>5. Times(pending', t) = 0
    BY <1>4, <2>1
  <2>6. /\ Times(pending, t) \in Nat /\ TextTimes(gate, t) \in Nat
        /\ TextTimes(unsent, t) \in Nat /\ RecordTimes(sent, t) \in Nat
        /\ FamilyTimes(flush, t) \in Nat
    BY SumNaturals
  <2>7. Times(pending, t) + One(t \in dropped) = One(t \in dropped')
    <3>1. Times(pending, t) + One(t \in dropped) \in {0, 1}
      BY <2>6 DEF Sum, One
    <3> QED BY <2>3, <2>4, <2>6, <3>1 DEF One
  <2>8. One(t \in dropped) \in Nat /\ One(t \in dropped') \in Nat
    BY DEF One
  <2> QED BY <1>2, <2>5, <2>6, <2>7, <2>8 DEF Sum
<1> QED BY <1>3, <1>4

(* Leaving the gate with no text.                                           *)
LEMMA LeavesNoText ==
    ASSUME IInv, gate # <<>>, Turn.op # "send", NEW t \in Texts
    PROVE  TextTimes(Tail(gate), t) = TextTimes(gate, t)
<1>1. gate \in Seq(Ticket) /\ gate[1] \in Elements(gate) /\ Tail(gate) \in Seq(Ticket)
  BY TailElements DEF IInv, TypeOK
<1>2. gate[1].text # t
  <2>1. gate[1].text = NoText
    BY <1>1 DEF IInv, TicketInv, Turn
  <2> QED BY <2>1, HubAssumption DEF NoText, Texts
<1>3. TextTimes(gate, t) = One(gate[1].text = t) + TextTimes(Tail(gate), t)
  BY <1>1, TimesTail
<1>4. TextTimes(Tail(gate), t) \in Nat
  BY <1>1, TimesZero
<1> QED BY <1>2, <1>3, <1>4 DEF One

LEMMA KeepLeavesNoText ==
    ASSUME IInv, NEW t \in Texts
    PROVE  TextTimes(WithoutKeep(gate), t) = TextTimes(gate, t)
<1>1. gate \in Seq(Ticket) /\ KeepOnce(gate)
  BY DEF IInv, TypeOK, KeepInv
<1>2. \A k \in Elements(gate) : k.by = "keep" => k.text # t
  BY TextFacts, HubAssumption DEF IInv, TicketInv, NoText, Texts
<1>3. (\A k \in Elements(gate) : k.by = "keep" => k.text # t)
      => TextTimes(WithoutKeep(gate), t) = TextTimes(gate, t)
  BY <1>1, WithoutKeepFacts
<1> QED BY <1>2, <1>3

(* Actions that move no text, or give up what waits.                        *)
LEMMA AttachOnce ==
    ASSUME IInv, EachTextOnce, NEW w \in Sockets, Attach(w)
    PROVE  EachTextOnce'
<1>1. gate \in Seq(Ticket) /\ \A t : TextTimes(gate, t) = TextTimes(gate, t)
  BY DEF IInv, TypeOK
<1>2. ASSUME NEW s, TakesSlot(w, s), gate' = gate
      PROVE  EachTextOnce'
  <2>1. pending' \in {pending, <<>>} /\ dropped' = dropped \cup (Elements(pending) \ Elements(pending'))
    BY <1>2 DEF TakesSlot, KeptFor
  <2>2. UNCHANGED <<unsent, sent, said, flush>>
    BY <1>2 DEF TakesSlot
  <2> QED BY <1>2, <2>1, <2>2, GivenUp
<1>3. ASSUME NEW s \in Sessions, AttachFree(w, s)
      PROVE  EachTextOnce'
  BY <1>2, <1>3 DEF AttachFree
<1>4. ASSUME AttachOwns(w)
      PROVE  EachTextOnce'
  BY <1>2, <1>4 DEF AttachOwns
<1>5. ASSUME NEW s \in Sessions, AttachCloses(w, s)
      PROVE  EachTextOnce'
  <2>1. client \in Sockets /\ w \in {"task", "flush", "keep", "cleanup"} \cup Callers
    BY <1>5 DEF AttachCloses, IInv, TypeOK, Callers
  <2>2. \A t \in Texts : TextTimes(Enter(gate, "close", w, client), t) = TextTimes(gate, t)
    BY <1>1, <2>1, EnterOther
  <2>3. /\ gate' = Enter(gate, "close", w, client)
        /\ UNCHANGED <<unsent, sent, said, flush, pending, dropped>>
    BY <1>5 DEF AttachCloses, Arrives
  <2> QED BY <2>2, <2>3, GivenUp
<1>6. ASSUME Accepted(w)
      PROVE  EachTextOnce'
  <2>1. /\ gate' = WithoutKeep(gate) /\ flush' = [flush EXCEPT ![w].pc = "due"]
        /\ UNCHANGED <<unsent, sent, said, pending, dropped>>
    BY <1>6 DEF Accepted
  <2>2. \A v \in Sockets : flush'[v].rest = flush[v].rest
    BY <2>1 DEF IInv, TypeOK
  <2> QED BY <2>1, <2>2, KeepLeavesNoText, GivenUp
<1>7. ASSUME AcceptFails(w)
      PROVE  EachTextOnce'
  <2>1. UNCHANGED <<unsent, sent, said, flush, pending, dropped, gate>>
    BY <1>7 DEF AcceptFails
  <2> QED BY <2>1, GivenUp
<1> QED BY <1>3, <1>4, <1>5, <1>6, <1>7 DEF Attach

LEMMA DetachOnce ==
    ASSUME IInv, EachTextOnce, NEW x \in Stops, Detach(x)
    PROVE  EachTextOnce'
<1>1. \A t \in Texts : TextTimes(WithoutKeep(gate), t) = TextTimes(gate, t)
  BY KeepLeavesNoText
<1>2. ASSUME FreesSlot(x), gate' \in {gate, WithoutKeep(gate)}
      PROVE  EachTextOnce'
  <2>1. /\ pending' = <<>> /\ dropped' = dropped \cup Elements(pending)
        /\ UNCHANGED <<unsent, sent, said, flush>>
    BY <1>2 DEF FreesSlot
  <2>2. Elements(<<>>) = {}
    BY DEF Elements
  <2>3. dropped' = dropped \cup (Elements(pending) \ Elements(pending'))
    BY <2>1, <2>2
  <2> QED BY <1>1, <1>2, <2>1, <2>3, GivenUp
<1>3. ASSUME NEW s \in Sessions, DetachIgnored(x, s)
      PROVE  EachTextOnce'
  <2>1. UNCHANGED <<unsent, sent, said, flush, pending, dropped, gate>>
    BY <1>3 DEF DetachIgnored
  <2> QED BY <2>1, GivenUp
<1>4. ASSUME NEW s \in Sessions, DetachCloses(x, s)
      PROVE  EachTextOnce'
  <2>1. client \in Sockets /\ x \in {"task", "flush", "keep", "cleanup"} \cup Callers
    BY <1>4 DEF DetachCloses, IInv, TypeOK, Callers
  <2>2. WithoutKeep(gate) \in Seq(Ticket)
    BY WithoutKeepFacts DEF IInv, TypeOK, KeepInv
  <2>3. \A t \in Texts : TextTimes(Enter(WithoutKeep(gate), "close", x, client), t)
                         = TextTimes(WithoutKeep(gate), t)
    BY <2>1, <2>2, EnterOther
  <2>4. /\ gate' = Enter(WithoutKeep(gate), "close", x, client)
        /\ UNCHANGED <<unsent, sent, said, flush, pending, dropped>>
    BY <1>4 DEF DetachCloses
  <2>5. \A t \in Texts : TextTimes(gate', t) = TextTimes(gate, t)
    BY <1>1, <2>3, <2>4
  <2> QED BY <2>4, <2>5, GivenUp
<1> QED BY <1>2, <1>3, <1>4 DEF Detach, DetachFree, DetachEnds

LEMMA KeepaliveOnce ==
    ASSUME IInv, EachTextOnce, Keepalive
    PROVE  EachTextOnce'
<1>1. ASSUME NEW op \in {"ping", "close"}, NEW pc, KeepaliveActs(op, pc)
      PROVE  EachTextOnce'
  <2>1. client \in Sockets /\ gate \in Seq(Ticket)
    BY <1>1 DEF KeepaliveActs, IInv, TypeOK, Connected
  <2>2. \A t \in Texts : TextTimes(Enter(gate, op, "keep", client), t) = TextTimes(gate, t)
    BY <2>1, EnterOther
  <2>3. /\ gate' = Enter(gate, op, "keep", client)
        /\ UNCHANGED <<unsent, sent, said, flush, pending, dropped>>
    BY <1>1 DEF KeepaliveActs
  <2> QED BY <2>2, <2>3, GivenUp
<1>2. ASSUME KeepaliveExits \/ KeepaliveMarks
      PROVE  EachTextOnce'
  <2>1. UNCHANGED <<unsent, sent, said, flush, pending, dropped, gate>>
    BY <1>2 DEF KeepaliveExits, KeepaliveMarks
  <2> QED BY <2>1, GivenUp
<1> QED BY <1>1, <1>2 DEF Keepalive, KeepalivePings, KeepaliveTimesOut

LEMMA LeaverOnce ==
    ASSUME IInv, EachTextOnce, NEW w \in Sockets,
           LinkBreaks(w) \/ ClientDisconnect(w) \/ CleanupEnds(w)
    PROVE  EachTextOnce'
<1>1. UNCHANGED <<unsent, sent, said, flush, pending, dropped, gate>>
  BY DEF LinkBreaks, ClientDisconnect, CleanupEnds
<1> QED BY <1>1, GivenUp

LEMMA TextlessGateOnce ==
    ASSUME IInv, EachTextOnce,
           CloseBegins \/ CloseReturns \/ PingBegins \/ PingReturns \/ PingRaises
    PROVE  EachTextOnce'
<1>1. /\ gate # <<>> /\ Turn.op # "send"
      /\ UNCHANGED <<unsent, sent, said, flush, pending, dropped>>
      /\ \/ gate' \in {Inside, Tail(gate)}
         \/ gate' = Enter(Tail(gate), "close", "keep", Turn.ws)
  BY DEF CloseBegins, CloseReturns, PingBegins, PingReturns, PingRaises, PingFailed
<1>2. gate \in Seq(Ticket) /\ Tail(gate) \in Seq(Ticket) /\ Turn.ws \in Sockets
  <2>1. gate \in Seq(Ticket)
    BY DEF IInv, TypeOK
  <2>2. Tail(gate) \in Seq(Ticket) /\ Turn \in Ticket
    BY <1>1, <2>1, TailElements DEF Turn
  <2> QED BY <2>1, <2>2 DEF Ticket
<1>3. \A t \in Texts : TextTimes(Tail(gate), t) = TextTimes(gate, t)
  BY <1>1, LeavesNoText
<1>4. \A t \in Texts : TextTimes(Enter(Tail(gate), "close", "keep", Turn.ws), t)
                       = TextTimes(Tail(gate), t)
  BY <1>2, EnterOther
<1>5. \A t : TextTimes(Inside, t) = TextTimes(gate, t)
  BY <1>1, <1>2, InsideFacts
<1>6. \A t \in Texts : TextTimes(gate', t) = TextTimes(gate, t)
  BY <1>1, <1>3, <1>4, <1>5
<1> QED BY <1>1, <1>6, GivenUp

(* Actions that move texts.                                                 *)
LEMMA AppendedOnce ==
    ASSUME NEW q \in Seq(Texts), NEW d, NEW t, Times(q, t) + One(t \in d) \in {0, 1}
    PROVE  /\ Times(Appended(q), t) \in Nat
           /\ Times(Appended(q), t) + One(t \in d \cup ShedBy(q)) = Times(q, t) + One(t \in d)
<1>1. Times(q, t) \in Nat /\ (Times(q, t) = 0 <=> t \notin Elements(q))
  BY TimesZero
<1>2. Times(q, t) \in {0, 1}
  BY <1>1 DEF One
<1>3. /\ Times(Appended(q), t) \in Nat
      /\ Times(Appended(q), t) + One(t \in ShedBy(q)) = Times(q, t)
  BY <1>2, TimesAppended
<1>4. t \in ShedBy(q) => t \notin d
  BY <1>1 DEF One, ShedBy
<1>5. One(t \in d \cup ShedBy(q)) = One(t \in d) + One(t \in ShedBy(q))
  BY <1>4 DEF One
<1>6. One(t \in d) \in Nat /\ One(t \in ShedBy(q)) \in Nat
  BY DEF One
<1> QED BY <1>1, <1>3, <1>5, <1>6

LEMMA RecordZero ==
    ASSUME NEW s, NEW t, \A d \in s : d.text # t
    PROVE  RecordTimes(s, t) = 0
<1>1. {d \in s : d.text = t} = {}
  OBVIOUS
<1> QED BY <1>1, FS_EmptySet DEF RecordTimes

LEMMA BroadcastOnce ==
    ASSUME IInv, EachTextOnce, NEW s \in Sessions, Broadcast(s)
    PROVE  EachTextOnce'
<1> DEFINE n == Len(said) + 1
<1>1. /\ Len(said) \in Nat /\ n \in Texts /\ Len(said') = n
  BY SaidMore
<1>2. /\ pending \in Seq(Texts) /\ gate \in Seq(Ticket) /\ unsent \in Seq(Back)
      /\ \A w \in Sockets : flush[w].rest \in Seq(Texts)
      /\ IsFiniteSet(sent)
  BY DEF IInv, TypeOK, TextInv, Back
<1>3. UNCHANGED <<unsent, sent, flush>>
  BY DEF Broadcast
<1>4. \/ dropped' = dropped \cup {n} /\ UNCHANGED <<pending, gate>>
      \/ /\ pending' = Appended(Append(pending, n)) /\ gate' = gate
         /\ dropped' = dropped \cup ShedBy(Append(pending, n))
      \/ /\ Connected(client) /\ gate' = EnterSend(gate, "task", client, n, s)
         /\ UNCHANGED <<pending, dropped>>
  BY DEF Broadcast
<1>5. Sum(pending, gate, unsent, sent, flush, dropped, n) = 0 /\ n \notin dropped
  <2>1. n \notin Elements(pending) /\ n \notin dropped
    BY <1>1, TextFacts DEF IInv, TextInv
  <2>2. \A k \in Elements(gate) \cup Elements(unsent) \cup sent : k.text # n
    BY <1>1 DEF IInv, TextInv
  <2>3. ASSUME NEW w \in Sockets, n \in Elements(flush[w].rest)
        PROVE  FALSE
    <3>1. n \in 1..Len(said)
      BY <2>3, TextFacts
    <3> QED BY <1>1, <3>1
  <2> HIDE DEF n
  <2>4. Times(pending, n) = 0
    BY <1>2, <2>1, TimesZero
  <2>5. TextTimes(gate, n) = 0
    BY <1>2, <2>2, TimesZero
  <2>6. TextTimes(unsent, n) = 0
    BY <1>2, <2>2, TimesZero
  <2>7. RecordTimes(sent, n) = 0
    BY <2>2, RecordZero
  <2>8. FamilyTimes(flush, n) = 0
    BY <1>2, <2>3, FamilyZero
  <2> QED BY <2>1, <2>4, <2>5, <2>6, <2>7, <2>8 DEF Sum, One
<1> SUFFICES ASSUME NEW t \in 1..Len(said')
             PROVE  Sum(pending', gate', unsent', sent', flush', dropped', t) = 1
  BY PlacesSum DEF EachTextOnce
<1>6. Sum(pending, gate, unsent, sent, flush, dropped, t) + One(n = t) = 1
  <2>1. CASE t = n
    BY <1>5, <2>1 DEF One
  <2>2. CASE t # n
    <3>1. t \in 1..Len(said)
      BY <1>1, <2>2
    <3> QED BY <2>2, <3>1, PlacesSum DEF EachTextOnce, One
  <2> QED BY <2>1, <2>2
<1> HIDE DEF n
<1>7. /\ Times(pending, t) \in Nat /\ TextTimes(gate, t) \in Nat
      /\ TextTimes(unsent, t) \in Nat /\ RecordTimes(sent, t) \in Nat
      /\ FamilyTimes(flush, t) \in Nat /\ One(t \in dropped) \in Nat /\ One(n = t) \in Nat
  BY SumNaturals DEF One
<1>8. CASE dropped' = dropped \cup {n} /\ UNCHANGED <<pending, gate>>
  <2>1. One(t \in dropped') = One(t \in dropped) + One(n = t)
    BY <1>5, <1>8 DEF One
  <2> QED BY <1>3, <1>6, <1>7, <1>8, <2>1 DEF Sum
<1>9. CASE /\ pending' = Appended(Append(pending, n)) /\ gate' = gate
           /\ dropped' = dropped \cup ShedBy(Append(pending, n))
  <2>1. Append(pending, n) \in Seq(Texts) /\ Times(Append(pending, n), t) = Times(pending, t) + One(n = t)
    BY <1>1, <1>2, AppendElements, TimesAppend
  <2>2. PICK q \in Seq(Texts) : q = Append(pending, n)
    BY <2>1
  <2>3. Times(q, t) = Times(pending, t) + One(n = t)
    BY <2>1, <2>2
  <2>4. One(t \in dropped) \in {0, 1} /\ One(t \in dropped') \in Nat
    BY DEF One
  <2> DEFINE gone == One(t \in dropped)
             new == One(n = t)
             later == One(t \in dropped')
             g == TextTimes(gate, t)
             u == TextTimes(unsent, t)
             d == RecordTimes(sent, t)
             f == FamilyTimes(flush, t)
  <2>5. Times(pending, t) + g + u + d + f + gone + new = 1
    BY <1>6 DEF Sum
  <2>6. /\ Times(pending, t) \in Nat /\ g \in Nat /\ u \in Nat /\ d \in Nat /\ f \in Nat
        /\ gone \in Nat /\ new \in Nat /\ later \in Nat /\ Times(q, t) = Times(pending, t) + new
    BY <1>7, <2>3, <2>4
  <2>12. Times(q, t) \in Nat
    BY TimesZero
  <2>7. Times(q, t) + gone \in {0, 1}
    <3> HIDE DEF gone, new, later, g, u, d, f
    <3> PICK a \in Nat, c \in Nat : a = Times(pending, t) /\ c = Times(q, t)
      BY <2>6, <2>12
    <3>1. a + g + u + d + f + gone + new = 1 /\ c = a + new
      BY ONLY <2>5, <2>6, a = Times(pending, t), c = Times(q, t)
    <3> QED BY ONLY <2>6, <3>1, a \in Nat, c \in Nat, c = Times(q, t)
  <2>8. /\ Times(Appended(q), t) \in Nat
        /\ Times(Appended(q), t) + One(t \in dropped \cup ShedBy(q)) = Times(q, t) + gone
    BY <2>7, AppendedOnce
  <2>9. pending' = Appended(q) /\ dropped' = dropped \cup ShedBy(q)
    BY <1>9, <2>2
  <2>10. Times(pending', t) \in Nat /\ Times(pending', t) + later = Times(q, t) + gone
    BY <2>8, <2>9
  <2>11. Times(pending', t) + g + u + d + f + later = 1
    <3> DEFINE a == Times(pending, t)
               b == Times(q, t)
               c == Times(pending', t)
    <3>1. /\ a \in Nat /\ b \in Nat /\ c \in Nat /\ g \in Nat /\ u \in Nat /\ d \in Nat /\ f \in Nat
          /\ gone \in Nat /\ new \in Nat /\ later \in Nat
          /\ a + g + u + d + f + gone + new = 1 /\ b = a + new /\ c + later = b + gone
      BY <2>5, <2>6, <2>10, <2>12, Zenon
    <3> HIDE DEF gone, new, later, g, u, d, f, a, b, c
    <3>2. c + g + u + d + f + later = 1
      BY <3>1
    <3> QED BY <3>2 DEF c
  <2> QED BY <1>3, <1>9, <2>11 DEF Sum
<1>10. CASE /\ Connected(client) /\ gate' = EnterSend(gate, "task", client, n, s)
            /\ UNCHANGED <<pending, dropped>>
  <2>1. client \in Sockets
    BY <1>10 DEF Connected
  <2>2. TextTimes(EnterSend(gate, "task", client, n, s), t) = TextTimes(gate, t) + One(n = t)
    BY <1>1, <1>2, <2>1, EnterSends
  <2> QED BY <1>3, <1>6, <1>7, <1>10, <2>2, SMTT(20) DEF Sum
<1> QED BY <1>4, <1>8, <1>9, <1>10

LEMMA FlushTakesOnce ==
    ASSUME IInv, EachTextOnce, NEW w \in Sockets, FlushTakes(w)
    PROVE  EachTextOnce'
<1>1. /\ flush[w].rest = <<>> /\ UNCHANGED <<unsent, sent, said>>
      /\ pending \in Seq(Texts) /\ gate \in Seq(Ticket)
      /\ \A v \in Sockets : flush[v].rest \in Seq(Texts)
      /\ flush \in [Sockets -> [pc : {"none", "due", "sending"}, rest : Seq(Texts),
                                sess : Sessions \cup {NoSession}]]
      /\ <<>> \in Seq(Texts) /\ Elements(<<>>) = {}
  BY DEF FlushTakes, IInv, TextInv, TypeOK, Elements
<1>2. CASE Connected(w) /\ pending # <<>> /\ owner # NoSession
  <2>1. /\ flush' = [flush EXCEPT ![w] = [pc |-> "sending", rest |-> Tail(pending), sess |-> owner]]
        /\ gate' = EnterSend(gate, "flush", w, Head(pending), owner)
        /\ pending' = <<>> /\ dropped' = dropped
    BY <1>2 DEF FlushTakes, LeftByFlush
  <2>2. Tail(pending) \in Seq(Texts) /\ Head(pending) = pending[1] /\ pending[1] \in Texts
    BY <1>1, <1>2, TailElements
  <2>3. /\ flush'[w].rest = Tail(pending)
        /\ \A v \in Sockets : flush'[v].rest \in Seq(Texts)
        /\ \A v \in Sockets \ {w} : flush'[v].rest = flush[v].rest
    BY <1>1, <2>1, <2>2
  <2> SUFFICES ASSUME NEW t \in 1..Len(said), Sum(pending, gate, unsent, sent, flush, dropped, t) = 1
               PROVE  Sum(pending', gate', unsent', sent', flush', dropped', t) = 1
    BY <1>1, OnceKept
  <2>4. TextTimes(gate', t) = TextTimes(gate, t) + One(pending[1] = t)
    <3>1. owner \in Sessions \cup {NoSession}
      BY DEF IInv, TypeOK
    <3>2. TextTimes(EnterSend(gate, "flush", w, pending[1], owner), t)
          = TextTimes(gate, t) + One(pending[1] = t)
      <4>1. gate \in Seq(Ticket) /\ pending[1] \in Texts
        BY <1>1, <2>2
      <4> QED BY ONLY <3>1, <4>1, EnterSends
    <3> QED BY <2>1, <2>2, <3>2
  <2>5. Times(pending, t) = One(pending[1] = t) + Times(Tail(pending), t)
    BY <1>1, <1>2, TimesTail
  <2>6. /\ FamilyTimes(flush', t) \in Nat
        /\ FamilyTimes(flush', t) + Times(flush[w].rest, t)
           = FamilyTimes(flush, t) + Times(flush'[w].rest, t)
    <3>1. Resting(flush) /\ Resting(flush')
      BY <1>1, <2>3 DEF Resting
    <3>2. \A v \in Sockets \ {w} : flush'[v].rest = flush[v].rest
      BY <2>3
    <3> QED BY ONLY <3>1, <3>2, FamilyChange
  <2>7. Times(<<>>, t) = 0
    BY <1>1, TimesZero
  <2>8. Times(flush[w].rest, t) = 0 /\ Times(pending', t) = 0 /\ Times(flush'[w].rest, t) = Times(Tail(pending), t)
    BY <1>1, <2>1, <2>3, <2>7
  <2>9. Times(Tail(pending), t) \in Nat /\ One(pending[1] = t) \in Nat
    BY <2>2, TimesZero DEF One
  <2>10. /\ Times(pending, t) \in Nat /\ TextTimes(gate, t) \in Nat
         /\ TextTimes(unsent, t) \in Nat /\ RecordTimes(sent, t) \in Nat
         /\ FamilyTimes(flush, t) \in Nat /\ One(t \in dropped) \in {0, 1}
    BY SumNaturals
  <2>11. unsent' = unsent /\ sent' = sent /\ dropped' = dropped
    BY <1>1, <2>1
  <2> QED BY <2>4, <2>5, <2>6, <2>8, <2>9, <2>10, <2>11, SMTT(20) DEF Sum
<1>3. CASE ~(Connected(w) /\ pending # <<>> /\ owner # NoSession)
  <2>1. /\ flush' = [flush EXCEPT ![w] = Idle] /\ gate' = gate
        /\ pending' \in {pending, <<>>}
        /\ dropped' = dropped \cup (Elements(pending) \ Elements(pending'))
    BY <1>1, <1>3 DEF FlushTakes, LeftByFlush
  <2>2. \A v \in Sockets : flush'[v].rest = flush[v].rest
    BY <1>1, <2>1 DEF Idle
  <2> QED BY <1>1, <2>1, <2>2, GivenUp
<1> QED BY <1>2, <1>3

LEMMA FlushSendsOnce ==
    ASSUME IInv, EachTextOnce, NEW w \in Sockets, FlushSends(w)
    PROVE  EachTextOnce'
<1> DEFINE r == flush[w].rest
<1>1. /\ r # <<>> /\ UNCHANGED <<unsent, sent, said, pending, dropped>>
      /\ gate' = EnterSend(gate, "flush", w, Head(r), flush[w].sess)
      /\ flush' = [flush EXCEPT ![w].rest = Tail(r)]
  BY DEF FlushSends
<1>2. /\ gate \in Seq(Ticket) /\ r \in Seq(Texts) /\ flush[w].sess \in Sessions \cup {NoSession}
      /\ \A v \in Sockets : flush[v].rest \in Seq(Texts)
      /\ flush \in [Sockets -> [pc : {"none", "due", "sending"}, rest : Seq(Texts),
                                sess : Sessions \cup {NoSession}]]
  BY DEF IInv, TypeOK
<1>3. Tail(r) \in Seq(Texts) /\ Head(r) = r[1] /\ r[1] \in Texts
  BY <1>1, <1>2, TailElements
<1>4. /\ flush'[w].rest = Tail(r)
      /\ \A v \in Sockets : flush'[v].rest \in Seq(Texts)
      /\ \A v \in Sockets \ {w} : flush'[v].rest = flush[v].rest
  BY <1>1, <1>2, <1>3
<1> SUFFICES ASSUME NEW t \in 1..Len(said), Sum(pending, gate, unsent, sent, flush, dropped, t) = 1
             PROVE  Sum(pending', gate', unsent', sent', flush', dropped', t) = 1
  BY <1>1, OnceKept
<1>5. TextTimes(gate', t) = TextTimes(gate, t) + One(r[1] = t)
  <2>1. gate \in Seq(Ticket) /\ r[1] \in Texts /\ flush[w].sess \in Sessions \cup {NoSession}
    BY <1>2, <1>3
  <2>2. ASSUME NEW x \in Texts, NEW s \in Sessions \cup {NoSession}
        PROVE  TextTimes(EnterSend(gate, "flush", w, x, s), t) = TextTimes(gate, t) + One(x = t)
    BY ONLY <2>1, <2>2, EnterSends
  <2>3. TextTimes(EnterSend(gate, "flush", w, r[1], flush[w].sess), t)
        = TextTimes(gate, t) + One(r[1] = t)
    BY <2>1, <2>2
  <2> QED BY <1>1, <1>3, <2>3
<1>6. Times(r, t) = One(r[1] = t) + Times(Tail(r), t)
  BY <1>1, <1>2, TimesTail
<1>7. /\ FamilyTimes(flush', t) \in Nat
      /\ FamilyTimes(flush', t) + Times(flush[w].rest, t)
         = FamilyTimes(flush, t) + Times(flush'[w].rest, t)
  <2>1. Resting(flush) /\ Resting(flush')
    BY <1>2, <1>4 DEF Resting
  <2>2. \A v \in Sockets \ {w} : flush'[v].rest = flush[v].rest
    BY <1>4
  <2> QED BY ONLY <2>1, <2>2, FamilyChange
<1>8. Times(Tail(r), t) \in Nat /\ Times(r, t) \in Nat /\ One(r[1] = t) \in Nat
  BY <1>2, <1>3, TimesZero DEF One
<1>9. FamilyTimes(flush', t) + One(r[1] = t) = FamilyTimes(flush, t)
  <2>1. FamilyTimes(flush', t) + Times(r, t) = FamilyTimes(flush, t) + Times(Tail(r), t)
    BY <1>4, <1>7
  <2>2. FamilyTimes(flush, t) \in Nat
    BY SumNaturals
  <2> HIDE DEF r
  <2> QED BY <1>6, <1>7, <1>8, <2>1, <2>2
<1>10. /\ Times(pending, t) \in Nat /\ TextTimes(gate, t) \in Nat
       /\ TextTimes(unsent, t) \in Nat /\ RecordTimes(sent, t) \in Nat
       /\ FamilyTimes(flush, t) \in Nat /\ One(t \in dropped) \in {0, 1}
  BY SumNaturals
<1>11. unsent' = unsent /\ sent' = sent /\ dropped' = dropped /\ pending' = pending
  BY <1>1
<1> HIDE DEF r
<1> QED BY <1>5, <1>7, <1>8, <1>9, <1>10, <1>11, SMTT(20) DEF Sum

LEMMA FlushEndsOnce ==
    ASSUME IInv, EachTextOnce, NEW w \in Sockets, FlushEnds(w)
    PROVE  EachTextOnce'
<1>1. /\ flush[w].rest = <<>> /\ flush' = [flush EXCEPT ![w] = Idle]
      /\ UNCHANGED <<unsent, sent, said, pending, dropped, gate>>
  BY DEF FlushEnds
<1>2. \A v \in Sockets : flush'[v].rest = flush[v].rest
  BY <1>1 DEF IInv, TypeOK, Idle
<1> QED BY <1>1, <1>2, GivenUp

LEMMA FlushInterruptedOnce ==
    ASSUME IInv, EachTextOnce, NEW w \in Sockets, FlushInterrupted(w)
    PROVE  EachTextOnce'
<1>1. /\ pending' = Appended(pending \o flush[w].rest)
      /\ dropped' = dropped \cup ShedBy(pending \o flush[w].rest)
      /\ flush' = [flush EXCEPT ![w] = Idle]
      /\ UNCHANGED <<unsent, sent, said, gate>>
  BY DEF FlushInterrupted
<1>2. /\ pending \in Seq(Texts) /\ flush[w].rest \in Seq(Texts) /\ <<>> \in Seq(Texts)
      /\ \A v \in Sockets : flush[v].rest \in Seq(Texts)
      /\ flush \in [Sockets -> [pc : {"none", "due", "sending"}, rest : Seq(Texts),
                                sess : Sessions \cup {NoSession}]]
  BY DEF IInv, TypeOK
<1>3. /\ flush'[w].rest = <<>>
      /\ \A v \in Sockets : flush'[v].rest \in Seq(Texts)
      /\ \A v \in Sockets \ {w} : flush'[v].rest = flush[v].rest
  BY <1>1, <1>2 DEF Idle
<1> SUFFICES ASSUME NEW t \in 1..Len(said), Sum(pending, gate, unsent, sent, flush, dropped, t) = 1
             PROVE  Sum(pending', gate', unsent', sent', flush', dropped', t) = 1
  BY <1>1, OnceKept
<1>4. PICK q \in Seq(Texts) : q = pending \o flush[w].rest
  BY <1>2, JoinFacts
<1>5. /\ Times(flush[w].rest, t) \in Nat /\ Times(pending, t) \in Nat
      /\ Times(pending \o flush[w].rest, t) = Times(pending, t) + Times(flush[w].rest, t)
  BY <1>2, TimesJoin
<1>6. Times(q, t) = Times(pending, t) + Times(flush[w].rest, t)
  BY <1>4, <1>5, Zenon
<1>7. /\ FamilyTimes(flush', t) \in Nat
      /\ FamilyTimes(flush', t) + Times(flush[w].rest, t)
         = FamilyTimes(flush, t) + Times(flush'[w].rest, t)
  <2>1. Resting(flush) /\ Resting(flush')
    BY <1>2, <1>3 DEF Resting
  <2>2. \A v \in Sockets \ {w} : flush'[v].rest = flush[v].rest
    BY <1>3
  <2> QED BY ONLY <2>1, <2>2, FamilyChange
<1>8. Times(flush'[w].rest, t) = 0
  <2>1. Elements(<<>>) = {}
    BY DEF Elements
  <2>2. Times(<<>>, t) = 0
    BY <1>2, <2>1, TimesZero
  <2> QED BY <1>3, <2>2
<1>9. /\ TextTimes(gate, t) \in Nat
      /\ TextTimes(unsent, t) \in Nat /\ RecordTimes(sent, t) \in Nat
      /\ FamilyTimes(flush, t) \in Nat /\ One(t \in dropped) \in {0, 1}
  BY SumNaturals
<1> DEFINE gone == One(t \in dropped)
           later == One(t \in dropped')
           x == TextTimes(gate, t)
           u == TextTimes(unsent, t)
           d == RecordTimes(sent, t)
           f == FamilyTimes(flush, t)
           h == FamilyTimes(flush', t)
           a == Times(pending, t)
           b == Times(q, t)
           c == Times(pending', t)
           e == Times(flush[w].rest, t)
<1>10. a + x + u + d + f + gone = 1
  BY DEF Sum
<1>11. /\ a \in Nat /\ x \in Nat /\ u \in Nat /\ d \in Nat /\ f \in Nat /\ gone \in Nat /\ e \in Nat
       /\ h \in Nat /\ b = a + e /\ later \in Nat
  BY <1>5, <1>6, <1>7, <1>9 DEF One
<1>12. h + e = f
  <2>1. h + e = f + Times(flush'[w].rest, t)
    BY <1>7
  <2>2. h + e = f + 0
    BY <1>8, <2>1
  <2> HIDE DEF gone, later, x, u, d, f, h, a, b, c, e
  <2> QED BY <1>11, <2>2
<1>13. b + gone \in {0, 1}
  <2> HIDE DEF gone, later, x, u, d, f, h, a, b, c, e
  <2> QED BY <1>10, <1>11, <1>12
<1>14. c \in Nat /\ c + later = b + gone
  <2>1. /\ Times(Appended(q), t) \in Nat
        /\ Times(Appended(q), t) + One(t \in dropped \cup ShedBy(q)) = Times(q, t) + One(t \in dropped)
    BY <1>13, AppendedOnce
  <2>2. pending' = Appended(q) /\ dropped' = dropped \cup ShedBy(q)
    BY <1>1, <1>4
  <2> QED BY <2>1, <2>2
<1>15. c + x + u + d + h + later = 1
  <2> HIDE DEF gone, later, x, u, d, f, h, a, b, c, e
  <2> QED BY <1>10, <1>11, <1>12, <1>14
<1> QED BY <1>1, <1>15 DEF Sum

(* Requeueing a text that was in one place leaves it in one, or gives up    *)
(* it or, for want of room, the oldest.                                     *)
LEMMA RequeuedOnce ==
    ASSUME IInv, NEW u \in Back, NEW q \in Seq(Ticket), Requeued(u, q), NEW t \in Texts,
           Times(pending, t) + One(t \in dropped) + One(u.text = t) \in {0, 1}
    PROVE  /\ TextTimes(gate', t) = TextTimes(q, t) /\ Times(pending', t) \in Nat
           /\ Times(pending', t) + One(t \in dropped')
              = Times(pending, t) + One(t \in dropped) + One(u.text = t)
<1>1. /\ pending \in Seq(Texts) /\ Len(pending) \in Nat /\ u.text \in Texts /\ u.ws \in Sockets
      /\ MaxPending \in Nat /\ MaxPending >= 1
  BY HubAssumption DEF IInv, TypeOK, Back
<1>2. TextTimes(gate', t) = TextTimes(q, t)
  <2>1. CASE u.failed /\ u.ws \notin cleanup
    <3>1. TextTimes(Enter(q, "close", "cleanup", u.ws), t) = TextTimes(q, t)
      BY <1>1, EnterOther
    <3> QED BY <2>1, <3>1 DEF Requeued
  <2>2. CASE ~(u.failed /\ u.ws \notin cleanup)
    BY <2>2 DEF Requeued
  <2> QED BY <2>1, <2>2
<1>3. Times(pending, t) \in Nat
  BY <1>1, TimesZero
<1>4. CASE ~RequeueAllowed(u)
  <2>1. pending' = pending /\ dropped' = dropped \cup {u.text}
    BY <1>4 DEF Requeued
  <2>2. One(t \in dropped') = One(t \in dropped) + One(u.text = t)
    BY <1>3, <2>1 DEF One
  <2>3. One(t \in dropped) \in Nat /\ One(u.text = t) \in Nat
    BY DEF One
  <2> QED BY <1>2, <1>3, <2>1, <2>2, <2>3
<1>5. CASE RequeueAllowed(u) /\ ~(Len(pending) >= MaxPending)
  <2>1. pending' = <<u.text>> \o pending /\ dropped' = dropped
    BY <1>5 DEF Requeued
  <2>2. Times(<<u.text>> \o pending, t) = One(u.text = t) + Times(pending, t)
    BY <1>1, TimesCons
  <2>3. Times(pending', t) = One(u.text = t) + Times(pending, t)
    BY <2>1, <2>2, Zenon
  <2>4. One(t \in dropped) \in Nat /\ One(u.text = t) \in Nat
    BY DEF One
  <2> QED BY <1>2, <1>3, <2>1, <2>3, <2>4
<1>6. CASE RequeueAllowed(u) /\ Len(pending) >= MaxPending
  <2>1. pending' = <<u.text>> \o Tail(pending) /\ dropped' = dropped \cup {Head(pending)}
    BY <1>6 DEF Requeued
  <2>2. pending # <<>>
    BY <1>1, <1>6
  <2>3. Tail(pending) \in Seq(Texts) /\ Head(pending) = pending[1]
    BY <1>1, <2>2, TailElements
  <2> DEFINE rest == Tail(pending)
  <2>4. pending' = <<u.text>> \o rest /\ rest \in Seq(Texts)
    BY <2>1, <2>3
  <2> HIDE DEF rest
  <2>11. Times(<<u.text>> \o rest, t) = One(u.text = t) + Times(rest, t)
    BY <1>1, <2>4, TimesCons
  <2>5. Times(pending', t) = One(u.text = t) + Times(rest, t)
    BY <2>4, <2>11, Zenon
  <2>6. Times(pending, t) = One(pending[1] = t) + Times(rest, t)
    BY <1>1, <2>2, TimesTail DEF rest
  <2>7. Times(rest, t) \in Nat
    BY <2>4, TimesZero
  <2>8. /\ One(t \in dropped) \in Nat /\ One(u.text = t) \in Nat /\ One(pending[1] = t) \in Nat
        /\ pending[1] = t => One(pending[1] = t) = 1
        /\ t \in dropped => One(t \in dropped) = 1
    BY DEF One
  <2>9. ~(t \in dropped /\ pending[1] = t)
    BY <1>3, <2>6, <2>7, <2>8
  <2>10. One(t \in dropped') = One(t \in dropped) + One(pending[1] = t)
    BY <2>1, <2>3, <2>9 DEF One
  <2> DEFINE gone == One(t \in dropped)
             later == One(t \in dropped')
             new == One(u.text = t)
             shed == One(pending[1] = t)
  <2>12. gone \in Nat /\ new \in Nat /\ shed \in Nat /\ later = gone + shed
    BY <2>8, <2>10
  <2>13. /\ Times(pending', t) = new + Times(rest, t)
         /\ Times(pending, t) = shed + Times(rest, t)
    BY <2>5, <2>6
  <2>14. Times(pending', t) \in Nat /\ Times(pending', t) + later = Times(pending, t) + gone + new
    <3> HIDE DEF gone, later, new, shed
    <3> QED BY <2>7, <2>12, <2>13
  <2> QED BY <1>2, <2>14
<1> QED BY <1>4, <1>5, <1>6

LEMMA NotSentOnce ==
    ASSUME IInv, EachTextOnce, NEW failed \in BOOLEAN, gate # <<>>, Turn.op = "send",
           NotSent(Unsent(failed)), UNCHANGED <<said, sent, flush>>
    PROVE  EachTextOnce'
<1> SUFFICES ASSUME NEW t \in 1..Len(said), Sum(pending, gate, unsent, sent, flush, dropped, t) = 1
             PROVE  Sum(pending', gate', unsent', sent', flush', dropped', t) = 1
  BY OnceKept
<1> DEFINE u == Unsent(failed)
<1>1. gate \in Seq(Ticket) /\ Turn \in Elements(gate) /\ Turn \in Ticket /\ Tail(gate) \in Seq(Ticket)
  BY TailElements DEF IInv, TypeOK, Turn
<1>2. Turn.text \in Texts /\ Turn.by \in {"task", "flush"} /\ t \in Texts
  BY <1>1, TextFacts, HubAssumption DEF IInv, TicketInv, TypeOK, Texts
<1>3. u \in Back /\ u.text = Turn.text
  BY <1>1, <1>2 DEF Unsent, Back, Ticket
<1>4. NotSent(u)
  OBVIOUS
<1> HIDE DEF u
<1>5. TextTimes(gate, t) = One(gate[1].text = t) + TextTimes(Tail(gate), t)
  BY <1>1, TimesTail
<1>6. TextTimes(gate, t) = One(u.text = t) + TextTimes(Tail(gate), t)
  BY <1>3, <1>5 DEF Turn
<1>7. TextTimes(Tail(gate), t) \in Nat /\ One(u.text = t) \in Nat
  BY <1>1, TimesZero DEF One
<1>8. /\ Times(pending, t) \in Nat /\ TextTimes(gate, t) \in Nat
      /\ TextTimes(unsent, t) \in Nat /\ RecordTimes(sent, t) \in Nat
      /\ FamilyTimes(flush, t) \in Nat /\ One(t \in dropped) \in {0, 1}
  BY SumNaturals
<1> DEFINE gone == One(t \in dropped)
           new == One(u.text = t)
           later == One(t \in dropped')
           x == TextTimes(gate, t)
           y == TextTimes(Tail(gate), t)
           b == TextTimes(unsent, t)
           d == RecordTimes(sent, t)
           f == FamilyTimes(flush, t)
           a == Times(pending, t)
           c == Times(pending', t)
<1>9. /\ a \in Nat /\ x \in Nat /\ y \in Nat /\ b \in Nat /\ d \in Nat /\ f \in Nat /\ gone \in Nat
      /\ new \in Nat /\ later \in Nat
  BY <1>7, <1>8 DEF One
<1>10. a + x + b + d + f + gone = 1 /\ x = new + y
  BY <1>6 DEF Sum
<1>11. a + gone + new \in {0, 1}
  <2> HIDE DEF gone, new, later, x, y, b, d, f, a, c
  <2> QED BY <1>9, <1>10
<1>12. CASE lock = Free /\ unsent = <<>>
  <2>1. Requeued(u, Tail(gate)) /\ unsent' = unsent
    BY <1>4, <1>12 DEF NotSent
  <2>2. TextTimes(gate', t) = y /\ c \in Nat /\ c + later = a + gone + new
    BY <1>1, <1>2, <1>3, <1>11, <2>1, RequeuedOnce
  <2>3. c + y + b + d + f + later = 1
    <3>1. c \in Nat /\ c + later = a + gone + new
      BY <2>2
    <3> HIDE DEF gone, new, later, x, y, b, d, f, a, c
    <3> QED BY <1>9, <1>10, <3>1
  <2> QED BY <2>1, <2>2, <2>3 DEF Sum
<1>13. CASE ~(lock = Free /\ unsent = <<>>)
  <2>1. unsent' = Append(unsent, u) /\ gate' = Tail(gate) /\ pending' = pending /\ dropped' = dropped
    BY <1>4, <1>13 DEF NotSent
  <2>2. unsent \in Seq(Back)
    BY DEF IInv, TypeOK, Back
  <2>3. TextTimes(Append(unsent, u), t) = b + new
    BY <1>3, <2>2, TimesAppend
  <2>4. a + y + (b + new) + d + f + gone = 1
    <3> HIDE DEF gone, new, later, x, y, b, d, f, a, c
    <3> QED BY <1>9, <1>10
  <2> QED BY <2>1, <2>3, <2>4 DEF Sum
<1> QED BY <1>12, <1>13

LEMMA SendBeginsOnce ==
    ASSUME IInv, EachTextOnce, SendBegins
    PROVE  EachTextOnce'
<1>1. gate # <<>> /\ Turn.op = "send" /\ UNCHANGED <<said, sent, flush>> /\ gate \in Seq(Ticket)
  BY DEF SendBegins, IInv, TypeOK
<1>2. CASE Connected(Turn.ws)
  <2>1. gate' = Inside /\ UNCHANGED <<pending, unsent, dropped>>
    BY <1>2 DEF SendBegins
  <2>2. \A t : TextTimes(Inside, t) = TextTimes(gate, t)
    BY <1>1, InsideFacts
  <2> QED BY <1>1, <2>1, <2>2, GivenUp
<1>3. CASE ~Connected(Turn.ws)
  <2>1. NotSent(Unsent(FALSE))
    BY <1>3 DEF SendBegins
  <2> QED BY <1>1, <2>1, NotSentOnce
<1> QED BY <1>2, <1>3

LEMMA SendFailsOnce ==
    ASSUME IInv, EachTextOnce, SendFails
    PROVE  EachTextOnce'
<1>1. /\ gate # <<>> /\ Turn.op = "send" /\ NotSent(Unsent(TRUE))
      /\ UNCHANGED <<said, sent, flush>>
  BY DEF SendFails
<1> QED BY <1>1, NotSentOnce

LEMMA RequeueLaterOnce ==
    ASSUME IInv, EachTextOnce, RequeueLater
    PROVE  EachTextOnce'
<1>1. /\ unsent # <<>> /\ unsent' = Tail(unsent) /\ Requeued(unsent[1], gate)
      /\ UNCHANGED <<said, sent, flush>>
  BY DEF RequeueLater
<1> SUFFICES ASSUME NEW t \in 1..Len(said), Sum(pending, gate, unsent, sent, flush, dropped, t) = 1
             PROVE  Sum(pending', gate', unsent', sent', flush', dropped', t) = 1
  BY <1>1, OnceKept
<1>2. gate \in Seq(Ticket) /\ unsent \in Seq(Back) /\ t \in Texts
  BY HubAssumption DEF IInv, TypeOK, Back, Texts
<1>3. Tail(unsent) \in Seq(Back) /\ unsent[1] \in Back
  BY <1>1, <1>2, TailElements
<1>4. TextTimes(unsent, t) = One(unsent[1].text = t) + TextTimes(Tail(unsent), t)
  BY <1>1, <1>2, TimesTail
<1>5. PICK u \in Back : u = unsent[1]
  BY <1>3
<1>6. TextTimes(Tail(unsent), t) \in Nat
  BY <1>3, TimesZero
<1>7. /\ Times(pending, t) \in Nat /\ TextTimes(gate, t) \in Nat
      /\ TextTimes(unsent, t) \in Nat /\ RecordTimes(sent, t) \in Nat
      /\ FamilyTimes(flush, t) \in Nat /\ One(t \in dropped) \in {0, 1}
  BY SumNaturals
<1> DEFINE gone == One(t \in dropped)
           new == One(u.text = t)
           later == One(t \in dropped')
           x == TextTimes(gate, t)
           y == TextTimes(Tail(unsent), t)
           b == TextTimes(unsent, t)
           d == RecordTimes(sent, t)
           f == FamilyTimes(flush, t)
           a == Times(pending, t)
           c == Times(pending', t)
<1>8. /\ a \in Nat /\ x \in Nat /\ y \in Nat /\ b \in Nat /\ d \in Nat /\ f \in Nat /\ gone \in Nat
      /\ new \in Nat /\ later \in Nat
  BY <1>6, <1>7 DEF One
<1>9. a + x + b + d + f + gone = 1 /\ b = new + y
  BY <1>4, <1>5 DEF Sum
<1>10. a + gone + new \in {0, 1}
  <2> HIDE DEF gone, new, later, x, y, b, d, f, a, c
  <2> QED BY <1>8, <1>9
<1>11. TextTimes(gate', t) = x /\ c \in Nat /\ c + later = a + gone + new
  <2>1. Requeued(u, gate)
    BY <1>1, <1>5
  <2> QED BY <1>2, <1>10, <2>1, RequeuedOnce
<1>12. c + x + y + d + f + later = 1
  <2>1. c \in Nat /\ c + later = a + gone + new
    BY <1>11
  <2> HIDE DEF gone, new, later, x, y, b, d, f, a, c
  <2> QED BY <1>8, <1>9, <2>1
<1> QED BY <1>1, <1>11, <1>12 DEF Sum

LEMMA SendReturnsOnce ==
    ASSUME IInv, EachTextOnce, SendReturns
    PROVE  EachTextOnce'
<1> DEFINE r == [text |-> Turn.text, sess |-> sess[Turn.ws]]
<1>1. /\ gate # <<>> /\ gate' = Tail(gate) /\ sent' = sent \cup {r}
      /\ UNCHANGED <<said, pending, unsent, flush, dropped>>
  BY DEF SendReturns
<1> SUFFICES ASSUME NEW t \in 1..Len(said), Sum(pending, gate, unsent, sent, flush, dropped, t) = 1
             PROVE  Sum(pending', gate', unsent', sent', flush', dropped', t) = 1
  BY <1>1, OnceKept
<1>2. gate \in Seq(Ticket) /\ IsFiniteSet(sent)
  BY DEF IInv, TypeOK, TextInv
<1>3. Tail(gate) \in Seq(Ticket)
  BY <1>1, <1>2, TailElements
<1>4. TextTimes(gate, t) = One(gate[1].text = t) + TextTimes(Tail(gate), t)
  BY <1>1, <1>2, TimesTail
<1>5. r.text = gate[1].text
  BY DEF Turn
<1> HIDE DEF r
<1>6. TextTimes(Tail(gate), t) \in Nat
  BY <1>3, TimesZero
<1>7. /\ Times(pending, t) \in Nat /\ TextTimes(gate, t) \in Nat
      /\ TextTimes(unsent, t) \in Nat /\ RecordTimes(sent, t) \in Nat
      /\ FamilyTimes(flush, t) \in Nat /\ One(t \in dropped) \in {0, 1}
  BY SumNaturals
<1> DEFINE gone == One(t \in dropped)
           new == One(r.text = t)
           x == TextTimes(gate, t)
           y == TextTimes(Tail(gate), t)
           b == TextTimes(unsent, t)
           d == RecordTimes(sent, t)
           f == FamilyTimes(flush, t)
           a == Times(pending, t)
<1>8. /\ a \in Nat /\ x \in Nat /\ y \in Nat /\ b \in Nat /\ d \in Nat /\ f \in Nat /\ gone \in Nat
      /\ new \in Nat /\ (r.text = t => new = 1)
  BY <1>6, <1>7 DEF One
<1>9. a + x + b + d + f + gone = 1 /\ x = new + y
  BY <1>4, <1>5 DEF Sum
<1>10. d = 0 \/ r.text # t
  <2> HIDE DEF gone, new, x, y, b, d, f, a
  <2> QED BY <1>8, <1>9
<1>11. RecordTimes(sent \cup {r}, t) = d + new
  <2>1. CASE r.text # t
    <3>1. RecordTimes(sent \cup {r}, t) = d
      BY <1>2, <2>1, RecordMore
    <3>2. new = 0
      BY <2>1 DEF One
    <3> HIDE DEF d, new
    <3> QED BY <1>8, <3>1, <3>2
  <2>2. CASE r.text = t /\ d = 0
    <3>1. RecordTimes(sent \cup {r}, t) = 1
      BY <1>2, <2>2, RecordMore
    <3>2. new = 1
      BY <2>2 DEF One
    <3> HIDE DEF d, new
    <3> QED BY <2>2, <3>1, <3>2
  <2> QED BY <1>10, <2>1, <2>2
<1>12. a + y + b + (d + new) + f + gone = 1
  <2> HIDE DEF gone, new, x, y, b, d, f, a
  <2> QED BY <1>8, <1>9
<1> QED BY <1>1, <1>11, <1>12 DEF Sum

LEMMA NextOnce == IInv /\ EachTextOnce /\ [Next]_vars => EachTextOnce'
<1> SUFFICES ASSUME IInv, EachTextOnce, [Next]_vars PROVE EachTextOnce'
  OBVIOUS
<1>1. ASSUME NEW s \in Sessions, Broadcast(s) PROVE EachTextOnce'
  BY <1>1, BroadcastOnce
<1>2. ASSUME NEW w \in Sockets, Attach(w) PROVE EachTextOnce'
  BY <1>2, AttachOnce
<1>3. ASSUME NEW w \in Sockets, LinkBreaks(w) \/ ClientDisconnect(w) \/ CleanupEnds(w)
      PROVE  EachTextOnce'
  BY <1>3, LeaverOnce
<1>4. ASSUME NEW w \in Sockets, Flush(w) PROVE EachTextOnce'
  BY <1>4, FlushTakesOnce, FlushSendsOnce, FlushEndsOnce, FlushInterruptedOnce DEF Flush
<1>5. ASSUME NEW x \in Stops, Detach(x) PROVE EachTextOnce'
  BY <1>5, DetachOnce
<1>6. CASE Gate
  BY <1>6, SendBeginsOnce, SendReturnsOnce, SendFailsOnce, TextlessGateOnce DEF Gate
<1>7. CASE RequeueLater
  BY <1>7, RequeueLaterOnce
<1>8. CASE Keepalive
  BY <1>8, KeepaliveOnce
<1>9. CASE UNCHANGED vars
  <2>1. UNCHANGED <<unsent, sent, said, flush, pending, dropped, gate>>
    BY <1>9 DEF vars
  <2> QED BY <2>1, GivenUp
<1> QED BY <1>1, <1>2, <1>3, <1>4, <1>5, <1>6, <1>7, <1>8, <1>9 DEF Next

-----------------------------------------------------------------------------
(* The texts of the slot's owner.                                          *)

GivenUpRightly ==
    \A t \in dropped' \ dropped :
      said'[t] # owner \/ owner' # owner \/ Len(pending') = MaxPending

LEMMA TakesSlotKeepsTexts ==
    ASSUME IInv, NEW w, NEW s, TakesSlot(w, s)
    PROVE  GivenUpRightly
<1>1. dropped' # dropped => owner' # owner
  BY DEF TakesSlot, KeptFor
<1> QED BY <1>1 DEF GivenUpRightly

LEMMA NobodysTexts ==
    ASSUME IInv, owner' = owner => owner = NoSession, said' = said,
           dropped' \subseteq dropped \cup Elements(pending)
    PROVE  GivenUpRightly
<1>1. \A t \in Elements(pending) : said[t] \in Sessions
  BY TextFacts
<1>2. \A t \in Elements(pending) : said'[t] # NoSession
  BY <1>1, HubAssumption
<1> QED BY <1>2 DEF GivenUpRightly

LEMMA DetachKeepsTexts ==
    ASSUME IInv, NEW x \in Stops, Detach(x)
    PROVE  GivenUpRightly
<1>1. ASSUME FreesSlot(x)
      PROVE  GivenUpRightly
  <2>1. owner' = NoSession /\ said' = said /\ dropped' \subseteq dropped \cup Elements(pending)
    BY <1>1 DEF FreesSlot
  <2>2. owner' = owner => owner = NoSession
    BY <2>1
  <2> QED BY <2>1, <2>2, NobodysTexts
<1>2. ASSUME NEW s \in Sessions, DetachIgnored(x, s) \/ DetachCloses(x, s)
      PROVE  GivenUpRightly
  <2>1. dropped' = dropped
    BY <1>2 DEF DetachIgnored, DetachCloses
  <2> QED BY <2>1 DEF GivenUpRightly
<1> QED BY <1>1, <1>2 DEF Detach, DetachFree, DetachEnds

LEMMA BroadcastKeepsTexts ==
    ASSUME IInv, NEW s \in Sessions, Broadcast(s)
    PROVE  GivenUpRightly
<1> DEFINE n == Len(said) + 1
<1>1. n \in Texts /\ said'[n] = s
  BY SaidMore
<1>2. \/ s # owner /\ dropped' = dropped \cup {n}
      \/ dropped' = dropped \cup ShedBy(Append(pending, n)) /\ pending' = Appended(Append(pending, n))
      \/ dropped' = dropped
  BY DEF Broadcast
<1>3. Append(pending, n) \in Seq(Texts)
  BY <1>1, AppendElements DEF IInv, TypeOK
<1> HIDE DEF n
<1>4. ShedBy(Append(pending, n)) # {} => Len(Appended(Append(pending, n))) = MaxPending
  <2>1. \A q \in Seq(Texts) : ShedBy(q) # {} => Len(Appended(q)) = MaxPending
    BY AppendedFacts
  <2> QED BY <1>3, <2>1
<1> QED BY <1>1, <1>2, <1>4 DEF GivenUpRightly

LEMMA FlushKeepsTexts ==
    ASSUME IInv, NEW w \in Sockets, Flush(w)
    PROVE  GivenUpRightly
<1>1. ASSUME FlushTakes(w)
      PROVE  GivenUpRightly
  <2>1. CASE owner = NoSession
    <3>1. said' = said /\ dropped' \subseteq dropped \cup Elements(pending)
      BY <1>1 DEF FlushTakes
    <3> QED BY <2>1, <3>1, NobodysTexts
  <2>2. CASE owner # NoSession
    <3>1. dropped' = dropped
      BY <1>1, <2>2 DEF FlushTakes
    <3> QED BY <3>1 DEF GivenUpRightly
  <2> QED BY <2>1, <2>2
<1>2. ASSUME FlushSends(w) \/ FlushEnds(w)
      PROVE  GivenUpRightly
  <2>1. dropped' = dropped
    BY <1>2 DEF FlushSends, FlushEnds
  <2> QED BY <2>1 DEF GivenUpRightly
<1>3. ASSUME FlushInterrupted(w)
      PROVE  GivenUpRightly
  <2>1. pending \in Seq(Texts) /\ flush[w].rest \in Seq(Texts)
    BY DEF IInv, TypeOK
  <2>2. PICK q \in Seq(Texts) : q = pending \o flush[w].rest
    BY <2>1, JoinFacts
  <2>3. pending' = Appended(q) /\ dropped' = dropped \cup ShedBy(q)
    BY <1>3, <2>2 DEF FlushInterrupted
  <2>4. ShedBy(q) # {} => Len(Appended(q)) = MaxPending
    BY AppendedFacts
  <2> QED BY <2>3, <2>4 DEF GivenUpRightly
<1> QED BY <1>1, <1>2, <1>3 DEF Flush

LEMMA RequeuedKeepsTexts ==
    ASSUME IInv, NEW u \in Back, NEW q, Requeued(u, q), said' = said,
           said[u.text] = u.sess, u.sess \in Sessions
    PROVE  GivenUpRightly
<1>1. /\ pending \in Seq(Texts) /\ Len(pending) \in Nat /\ Len(pending) <= MaxPending
      /\ MaxPending \in Nat /\ MaxPending >= 1 /\ u.text \in Texts
  BY HubAssumption DEF IInv, TypeOK, Back
<1>2. CASE ~RequeueAllowed(u)
  <2>1. dropped' = dropped \cup {u.text} /\ u.sess # owner
    BY <1>2, HubAssumption DEF Requeued, RequeueAllowed
  <2> QED BY <2>1 DEF GivenUpRightly
<1>3. CASE RequeueAllowed(u) /\ ~(Len(pending) >= MaxPending)
  <2>1. dropped' = dropped
    BY <1>3 DEF Requeued
  <2> QED BY <2>1 DEF GivenUpRightly
<1>4. CASE RequeueAllowed(u) /\ Len(pending) >= MaxPending
  <2>1. pending' = <<u.text>> \o Tail(pending)
    BY <1>4 DEF Requeued
  <2>2. pending # <<>>
    BY <1>1, <1>4
  <2>3. Tail(pending) \in Seq(Texts) /\ Len(Tail(pending)) = Len(pending) - 1
    BY <1>1, <2>2, TailElements
  <2>4. PICK p \in Seq(Texts) : p = Tail(pending)
    BY <2>3
  <2>5. PICK o \in Seq(Texts) : o = <<u.text>> /\ Len(o) = 1
    BY <1>1, OneElement
  <2>6. Len(o \o p) = Len(o) + Len(p)
    BY JoinFacts
  <2>7. pending' = o \o p
    BY <2>1, <2>4, <2>5
  <2>8. Len(p) = MaxPending - 1
    <3>1. Len(pending) = MaxPending
      BY <1>1, <1>4
    <3> QED BY <2>3, <2>4, <3>1, Zenon
  <2>9. Len(pending') = MaxPending
    BY <1>1, <2>5, <2>6, <2>7, <2>8
  <2> QED BY <2>9 DEF GivenUpRightly
<1> QED BY <1>2, <1>3, <1>4

LEMMA NotSentKeepsTexts ==
    ASSUME IInv, ~raced, NEW failed \in BOOLEAN, gate # <<>>, Turn.op = "send",
           NotSent(Unsent(failed)), said' = said
    PROVE  GivenUpRightly
<1> DEFINE u == Unsent(failed)
<1>1. gate \in Seq(Ticket) /\ Turn \in Elements(gate) /\ Turn \in Ticket
  BY TailElements DEF IInv, TypeOK, Turn
<1>2. Turn.text \in 1..Len(said) /\ Turn.text \in Texts /\ Turn.by \in {"task", "flush"}
  BY <1>1, TextFacts, HubAssumption DEF IInv, TicketInv, TypeOK, Texts
<1>3. u \in Back /\ u.text = Turn.text /\ u.sess = Turn.sess
  BY <1>1, <1>2 DEF Unsent, Back, Ticket
<1>4. said[Turn.text] = Turn.sess /\ said[Turn.text] \in Sessions
  BY <1>1, <1>2, TextFacts DEF IInv, CrossInv, OwnInv
<1>5. NotSent(u)
  OBVIOUS
<1> HIDE DEF u
<1>6. CASE lock = Free /\ unsent = <<>>
  BY <1>3, <1>4, <1>5, <1>6, RequeuedKeepsTexts DEF NotSent
<1>7. CASE ~(lock = Free /\ unsent = <<>>)
  <2>1. dropped' = dropped
    BY <1>5, <1>7 DEF NotSent
  <2> QED BY <2>1 DEF GivenUpRightly
<1> QED BY <1>6, <1>7

LEMMA RequeueLaterKeepsTexts ==
    ASSUME IInv, ~raced, RequeueLater
    PROVE  GivenUpRightly
<1>1. /\ unsent \in Seq(Back) /\ unsent # <<>> /\ Requeued(unsent[1], gate) /\ said' = said
  BY DEF RequeueLater, IInv, TypeOK, Back
<1>2. PICK u \in Back : u = unsent[1]
  BY <1>1, TailElements
<1>3. u \in Elements(unsent)
  BY <1>1, <1>2, TailElements
<1>4. said[u.text] = u.sess /\ u.sess \in Sessions
  <2>1. said[u.text] = u.sess
    BY <1>3 DEF IInv, CrossInv, OwnInv
  <2>2. said[u.text] \in Sessions
    BY <1>3, TextFacts
  <2> QED BY <2>1, <2>2
<1> QED BY <1>1, <1>2, <1>4, RequeuedKeepsTexts

LEMMA NextKeepsTexts == IInv /\ ~raced /\ [Next]_vars => GivenUpRightly
<1> SUFFICES ASSUME IInv, ~raced, [Next]_vars PROVE GivenUpRightly
  OBVIOUS
<1>1. dropped' = dropped => GivenUpRightly
  BY DEF GivenUpRightly
<1>2. ASSUME NEW s \in Sessions, Broadcast(s) PROVE GivenUpRightly
  BY <1>2, BroadcastKeepsTexts
<1>3. ASSUME NEW w \in Sockets, Attach(w) PROVE GivenUpRightly
  <2>1. ASSUME NEW s \in Sessions, AttachFree(w, s) \/ AttachCloses(w, s) PROVE GivenUpRightly
    BY <1>1, <2>1, TakesSlotKeepsTexts DEF AttachFree, AttachCloses
  <2>2. CASE AttachOwns(w)
    BY <2>2, TakesSlotKeepsTexts DEF AttachOwns
  <2>3. CASE Accepted(w) \/ AcceptFails(w)
    BY <1>1, <2>3 DEF Accepted, AcceptFails
  <2> QED BY <1>3, <2>1, <2>2, <2>3 DEF Attach
<1>4. ASSUME NEW w \in Sockets, LinkBreaks(w) \/ ClientDisconnect(w) \/ CleanupEnds(w)
      PROVE  GivenUpRightly
  BY <1>1, <1>4 DEF LinkBreaks, ClientDisconnect, CleanupEnds
<1>5. ASSUME NEW w \in Sockets, Flush(w) PROVE GivenUpRightly
  BY <1>5, FlushKeepsTexts
<1>6. ASSUME NEW x \in Stops, Detach(x) PROVE GivenUpRightly
  BY <1>6, DetachKeepsTexts
<1>7. CASE Gate
  <2>1. CASE SendBegins
    <3>1. gate # <<>> /\ Turn.op = "send" /\ said' = said
      BY <2>1 DEF SendBegins
    <3>2. dropped' = dropped \/ NotSent(Unsent(FALSE))
      BY <2>1 DEF SendBegins
    <3> QED BY <1>1, <3>1, <3>2, NotSentKeepsTexts
  <2>2. CASE SendFails
    <3>1. gate # <<>> /\ Turn.op = "send" /\ said' = said /\ NotSent(Unsent(TRUE))
      BY <2>2 DEF SendFails
    <3> QED BY <3>1, NotSentKeepsTexts
  <2>3. CASE SendReturns \/ CloseBegins \/ CloseReturns \/ PingBegins \/ PingReturns \/ PingRaises
    BY <1>1, <2>3 DEF SendReturns, CloseBegins, CloseReturns, PingBegins, PingReturns, PingRaises
  <2> QED BY <1>7, <2>1, <2>2, <2>3 DEF Gate
<1>8. CASE RequeueLater
  BY <1>8, RequeueLaterKeepsTexts
<1>9. CASE Keepalive
  BY <1>1, <1>9 DEF Keepalive, KeepaliveExits, KeepalivePings, KeepaliveTimesOut, KeepaliveActs,
     KeepaliveMarks
<1>10. CASE UNCHANGED vars
  BY <1>1, <1>10 DEF vars
<1> QED BY <1>2, <1>3, <1>4, <1>5, <1>6, <1>7, <1>8, <1>9, <1>10 DEF Next

-----------------------------------------------------------------------------
(* The client in the slot.                                                 *)

ClientStays == Connected(client) /\ client' = NoSocket => owner' = NoSession

LEMMA NextKeepsClient == IInv /\ [Next]_vars => ClientStays
<1> SUFFICES ASSUME IInv, [Next]_vars PROVE ClientStays
  OBVIOUS
<1>1. client' = client => ClientStays
  BY HubAssumption DEF ClientStays, Connected
<1>2. ~Connected(client) => ClientStays
  BY DEF ClientStays
<1>3. ASSUME NEW s \in Sessions, Broadcast(s) PROVE ClientStays
  BY <1>1, <1>3 DEF Broadcast
<1>4. ASSUME NEW w \in Sockets, Attach(w) PROVE ClientStays
  <2>1. CASE Accepted(w)
    <3>1. client' # NoSocket
      BY <2>1, HubAssumption DEF Accepted
    <3> QED BY <3>1 DEF ClientStays
  <2>2. CASE AttachOwns(w) \/ AcceptFails(w) \/ \E s \in Sessions : AttachFree(w, s) \/ AttachCloses(w, s)
    BY <1>1, <2>2 DEF AttachFree, AttachCloses, AttachOwns, TakesSlot, AcceptFails
  <2> QED BY <1>4, <2>1, <2>2 DEF Attach
<1>5. ASSUME NEW w \in Sockets, LinkBreaks(w) PROVE ClientStays
  BY <1>1, <1>5 DEF LinkBreaks
<1>6. ASSUME NEW w \in Sockets, ClientDisconnect(w) PROVE ClientStays
  <2>1. CASE NoticeCurrent(w)
    <3>1. client = w /\ link[w] = "gone"
      BY <1>6, <2>1 DEF ClientDisconnect, NoticeCurrent, IInv, SocketInv
    <3> QED BY <1>2, <3>1 DEF Connected
  <2>2. CASE ~NoticeCurrent(w)
    BY <1>1, <1>6, <2>2 DEF ClientDisconnect
  <2> QED BY <2>1, <2>2
<1>7. ASSUME NEW w \in Sockets, CleanupEnds(w) PROVE ClientStays
  <2>1. w \in cleanup /\ client' = IF client = w THEN NoSocket ELSE client
    BY <1>7 DEF CleanupEnds
  <2>2. app[w] = "closed"
    BY <2>1 DEF IInv, SocketInv
  <2> QED BY <1>1, <1>2, <2>1, <2>2 DEF Connected
<1>8. ASSUME NEW w \in Sockets, Flush(w) PROVE ClientStays
  BY <1>1, <1>8 DEF Flush, FlushTakes, FlushSends, FlushEnds, FlushInterrupted
<1>9. ASSUME NEW x \in Stops, Detach(x) PROVE ClientStays
  <2>1. client' = client \/ owner' = NoSession
    BY <1>9 DEF Detach, DetachIgnored, DetachFree, DetachCloses, DetachEnds, FreesSlot
  <2> QED BY <1>1, <2>1 DEF ClientStays
<1>10. CASE Gate
  BY <1>1, <1>10 DEF Gate, SendBegins, SendReturns, SendFails, CloseBegins, CloseReturns,
     PingBegins, PingReturns, PingRaises
<1>11. CASE RequeueLater
  BY <1>1, <1>11 DEF RequeueLater
<1>12. CASE KeepaliveMarks
  <2>1. keep = "closing" /\ ~Closing("keep")
    BY <1>12 DEF KeepaliveMarks
  <2>2. ASSUME NEW k \in Elements(gate), k.by = "keep"
        PROVE  FALSE
    <3>1. k.op # "ping"
      BY <2>1, <2>2 DEF IInv, KeepInv
    <3>2. k.op # "close"
      BY <2>1, <2>2 DEF Closing
    <3>3. k.op # "send"
      BY <2>2 DEF IInv, TicketInv
    <3>4. k \in Ticket
      BY <2>2, TextFacts
    <3> QED BY <3>1, <3>2, <3>3, <3>4 DEF Ticket
  <2> QED BY <1>2, <2>1, <2>2 DEF IInv, KeepInv
<1>13. CASE Keepalive /\ ~KeepaliveMarks
  BY <1>1, <1>13 DEF Keepalive, KeepaliveExits, KeepalivePings, KeepaliveTimesOut, KeepaliveActs
<1>14. CASE UNCHANGED vars
  BY <1>1, <1>14 DEF vars
<1> QED BY <1>3, <1>4, <1>5, <1>6, <1>7, <1>8, <1>9, <1>10, <1>11, <1>12, <1>13, <1>14 DEF Next

-----------------------------------------------------------------------------
(* Who waits at the gate with the lock held.                               *)

(* A caller is at the gate once at most.                                    *)
CallerOnce(q) ==
    \A i, j \in 1..Len(q) : q[i].by \in Callers /\ q[j].by = q[i].by => i = j

(* What is to be done at the gate q before the ticket at i is through: each *)
(* ticket up to it begins and returns.                                      *)
Work(q, i) == IF q[1].busy THEN 2 * i - 1 ELSE 2 * i

(* p is q with a ticket taken out, or with the first one now busy.          *)
Thinned(p, q, onward) ==
    \E f \in [1..Len(p) -> 1..Len(q)] :
      /\ \A j, m \in 1..Len(p) : f[j] = f[m] => j = m
      /\ \A j \in 1..Len(p) :
           /\ p[j].by = q[f[j]].by
           /\ j = f[j] - 1 \/ (j = f[j] /\ onward)

(* The one who is inside stays there; nobody was inside, and now one is.    *)
Stays(p, q) == q[1].busy => p[1].busy
Begins(p, q) == ~q[1].busy /\ p[1].busy

(* p is q with one more ticket, of by, behind it.                           *)
Grew(p, q, by) ==
    /\ Len(p) = Len(q) + 1 /\ p[Len(p)].by = by
    /\ \A i \in 1..Len(q) : p[i] = q[i]

LEMMA EnterGrows ==
    ASSUME NEW q \in Seq(Ticket), NEW op, NEW by, NEW w, NEW t, NEW s
    PROVE  Grew(EnterText(q, op, by, w, t, s), q, by)
<1> DEFINE k == [op |-> op, by |-> by, ws |-> w, text |-> t, sess |-> s,
                 prompt |-> q = <<>> /\ by # "task", busy |-> FALSE]
<1>1. k.by = by
  OBVIOUS
<1>2. EnterText(q, op, by, w, t, s) = Append(q, k)
  BY DEF EnterText
<1> HIDE DEF k
<1>3. q \in Seq(Ticket \cup {k}) /\ k \in Ticket \cup {k}
  OBVIOUS
<1>4. /\ Len(Append(q, k)) = Len(q) + 1 /\ Append(q, k)[Len(q) + 1] = k
      /\ \A i \in 1..Len(q) : Append(q, k)[i] = q[i]
  BY <1>3, AppendProperties
<1> QED BY <1>1, <1>2, <1>4 DEF Grew

LEMMA SameThinned ==
    ASSUME NEW q \in Seq(Ticket)
    PROVE  Thinned(q, q, Stays(q, q))
<1> DEFINE f == [j \in 1..Len(q) |-> j]
<1>1. f \in [1..Len(q) -> 1..Len(q)] /\ (\A j \in 1..Len(q) : f[j] = j)
  OBVIOUS
<1> HIDE DEF f
<1> QED BY <1>1 DEF Thinned, Stays

LEMMA TailThinned ==
    ASSUME NEW q \in Seq(Ticket), q # <<>>
    PROVE  Thinned(Tail(q), q, Begins(Tail(q), q))
<1>1. /\ Len(q) \in Nat /\ Len(Tail(q)) = Len(q) - 1
      /\ \A i \in 1..Len(Tail(q)) : i + 1 \in 1..Len(q) /\ Tail(q)[i] = q[i + 1]
  BY TailElements
<1> DEFINE f == [j \in 1..Len(Tail(q)) |-> j + 1]
<1>2. /\ f \in [1..Len(Tail(q)) -> 1..Len(q)]
      /\ \A j \in 1..Len(Tail(q)) : f[j] = j + 1
  BY <1>1
<1> HIDE DEF f
<1> QED BY <1>1, <1>2 DEF Thinned

LEMMA InsideThinned ==
    ASSUME gate \in Seq(Ticket), gate # <<>>, ~Turn.busy
    PROVE  Thinned(Inside, gate, Begins(Inside, gate))
<1>1. 1 \in 1..Len(gate) /\ gate[1] \in Ticket
  BY TailElements
<1>2. PICK b \in Ticket : b = [gate[1] EXCEPT !.busy = TRUE]
  BY <1>1 DEF Ticket
<1>3. b.by = gate[1].by /\ b.busy
  BY <1>1, <1>2 DEF Ticket
<1>4. /\ Len(Inside) = Len(gate)
      /\ \A j \in 1..Len(gate) : Inside[j] = IF j = 1 THEN b ELSE gate[j]
  BY <1>1, <1>2, ExceptSeq DEF Inside
<1> DEFINE f == [j \in 1..Len(Inside) |-> j]
<1>5. /\ f \in [1..Len(Inside) -> 1..Len(gate)]
      /\ \A j \in 1..Len(Inside) : f[j] = j
  BY <1>4
<1> HIDE DEF f
<1>6. Begins(Inside, gate)
  BY <1>1, <1>3, <1>4 DEF Begins, Turn
<1> QED BY <1>1, <1>3, <1>4, <1>5, <1>6 DEF Thinned

LEMMA WithoutKeepThinned ==
    ASSUME NEW q \in Seq(Ticket), KeepOnce(q)
    PROVE  Thinned(WithoutKeep(q), q, Stays(WithoutKeep(q), q))
<1>1. CASE \A i \in 1..Len(q) : q[i].by # "keep"
  <2>1. WithoutKeep(q) = q
    BY <1>1 DEF WithoutKeep, RemoveFirstMatch
  <2> QED BY <2>1, SameThinned
<1>2. CASE \E i \in 1..Len(q) : q[i].by = "keep"
  <2>1. PICK n \in 1..Len(q) : q[n].by = "keep"
    BY <1>2
  <2>2. {i \in 1..Len(q) : q[i].by = "keep"} = {n}
    BY <2>1 DEF KeepOnce
  <2>3. WithoutKeep(q) = SubSeq(q, 1, n - 1) \o SubSeq(q, n + 1, Len(q))
    <3>1. Min({n}) = n
      BY DEF Min
    <3>2. WithoutKeep(q) = RemoveAt(q, Min({n}))
      BY <2>1, <2>2 DEF WithoutKeep, RemoveFirstMatch, SelectInSeq
    <3> QED BY <3>1, <3>2 DEF RemoveAt
  <2>4. PICK p \in Seq(Ticket) : p = WithoutKeep(q)
    BY WithoutKeepFacts
  <2>5. Len(q) \in Nat /\ n \in 1..Len(q)
    OBVIOUS
  <2>6. /\ Len(p) = Len(q) - 1
        /\ \A j \in 1..Len(p) : p[j] = IF j < n THEN q[j] ELSE q[j + 1]
    <3> DEFINE a == SubSeq(q, 1, n - 1)
               b == SubSeq(q, n + 1, Len(q))
    <3>1. /\ a \in Seq(Ticket) /\ Len(a) = n - 1 /\ \A i \in 1..Len(a) : a[i] = q[i]
      BY <2>5
    <3>2. /\ b \in Seq(Ticket) /\ Len(b) = Len(q) - n /\ \A i \in 1..Len(b) : b[i] = q[n + i]
      BY <2>5
    <3>3. p = a \o b
      BY <2>3, <2>4
    <3> HIDE DEF a, b
    <3>4. /\ Len(a \o b) = Len(a) + Len(b)
          /\ \A j \in 1..Len(a) + Len(b) :
               (a \o b)[j] = IF j <= Len(a) THEN a[j] ELSE b[j - Len(a)]
      <4>1. a \in Seq(Ticket) /\ b \in Seq(Ticket)
        BY <3>1, <3>2
      <4> QED BY ONLY <4>1
    <3>5. ASSUME NEW j \in 1..Len(p)
          PROVE  p[j] = IF j < n THEN q[j] ELSE q[j + 1]
      <4>1. p[j] = IF j <= Len(a) THEN a[j] ELSE b[j - Len(a)]
        BY <3>3, <3>4, <3>5
      <4>2. CASE j < n
        BY <2>5, <3>1, <4>1, <4>2
      <4>3. CASE ~(j < n)
        <5>1. j - Len(a) \in 1..Len(b) /\ n + (j - Len(a)) = j + 1
          BY <2>5, <3>1, <3>2, <3>3, <3>4, <4>3
        <5> QED BY <2>5, <3>1, <3>2, <4>1, <4>3, <5>1
      <4> QED BY <4>2, <4>3
    <3> QED BY <2>5, <3>1, <3>2, <3>3, <3>4, <3>5
  <2> DEFINE f == [j \in 1..Len(p) |-> IF j < n THEN j ELSE j + 1]
  <2>7. /\ f \in [1..Len(p) -> 1..Len(q)]
        /\ \A j \in 1..Len(p) : f[j] = IF j < n THEN j ELSE j + 1
    BY <2>5, <2>6
  <2> HIDE DEF f
  <2>8. ASSUME NEW j \in 1..Len(p), j = f[j]
        PROVE  Stays(p, q)
    <3>1. 1 < n /\ 1 \in 1..Len(p)
      BY <2>5, <2>6, <2>7, <2>8
    <3> QED BY <2>6, <3>1 DEF Stays
  <2>9. \A j \in 1..Len(p) : p[j].by = q[f[j]].by /\ f[j] \in {j, j + 1}
    BY <2>6, <2>7
  <2>10. \A j, m \in 1..Len(p) : f[j] = f[m] => j = m
    BY <2>5, <2>6, <2>7
  <2>11. Thinned(p, q, Stays(p, q))
    <3>1. \A j \in 1..Len(p) :
            /\ p[j].by = q[f[j]].by
            /\ j = f[j] - 1 \/ (j = f[j] /\ Stays(p, q))
      BY <2>5, <2>6, <2>8, <2>9
    <3> QED BY <2>7, <2>10, <3>1 DEF Thinned
  <2> QED BY <2>4, <2>11
<1> QED BY <1>1, <1>2

(* How a step changes the gate: a ticket leaves or begins, and one may join *)
(* behind the others, a caller's only when nobody holds the lock.           *)
Joined(q) ==
    gate' = q \/ \E by : Grew(gate', q, by) /\ (by \in Callers => lock = Free)
GateStays == \E q \in Seq(Ticket) : Thinned(q, gate, Stays(q, gate)) /\ Joined(q)
GateServes == \E q \in Seq(Ticket) : Thinned(q, gate, Begins(q, gate)) /\ Joined(q)

LEMMA NotCallers == {"task", "flush", "keep", "cleanup"} \cap Callers = {}
<1> QED BY HubAssumption DEF Callers

LEMMA GateUntouched ==
    ASSUME IInv, gate' = gate
    PROVE  GateStays
<1>1. gate \in Seq(Ticket)
  BY DEF IInv, TypeOK
<1> QED BY <1>1, SameThinned DEF GateStays, Joined

LEMMA GateEntered ==
    ASSUME IInv, NEW op, NEW by, NEW w, NEW t, NEW s, by \in Callers => lock = Free,
           gate' = EnterText(gate, op, by, w, t, s)
    PROVE  GateStays
<1>1. gate \in Seq(Ticket)
  BY DEF IInv, TypeOK
<1>2. Grew(gate', gate, by)
  BY <1>1, EnterGrows
<1> QED BY <1>1, <1>2, SameThinned DEF GateStays, Joined

LEMMA GateLeft ==
    ASSUME IInv, gate # <<>>, gate' = Tail(gate)
    PROVE  GateServes
<1>1. gate \in Seq(Ticket)
  BY DEF IInv, TypeOK
<1>2. Tail(gate) \in Seq(Ticket)
  BY <1>1, TailElements
<1> QED BY <1>1, <1>2, TailThinned DEF GateServes, Joined

LEMMA GateLeftFor ==
    ASSUME IInv, gate # <<>>, NEW by, by \notin Callers, NEW w,
           gate' = Enter(Tail(gate), "close", by, w)
    PROVE  GateServes
<1>1. gate \in Seq(Ticket)
  BY DEF IInv, TypeOK
<1>2. Tail(gate) \in Seq(Ticket)
  BY <1>1, TailElements
<1>3. Grew(gate', Tail(gate), by)
  BY <1>2, EnterGrows DEF Enter
<1> QED BY <1>1, <1>2, <1>3, TailThinned DEF GateServes, Joined

LEMMA GateBegins ==
    ASSUME IInv, gate # <<>>, ~Turn.busy, gate' = Inside
    PROVE  GateServes
<1>1. gate \in Seq(Ticket)
  BY DEF IInv, TypeOK
<1>2. Inside \in Seq(Ticket)
  BY <1>1, InsideFacts
<1> QED BY <1>1, <1>2, InsideThinned DEF GateServes, Joined

LEMMA NotSentServes ==
    ASSUME IInv, gate # <<>>, NEW u, NotSent(u)
    PROVE  GateServes
<1>1. gate' = Tail(gate) \/ gate' = Enter(Tail(gate), "close", "cleanup", u.ws)
  BY DEF NotSent, Requeued
<1>2. "cleanup" \notin Callers
  BY NotCallers
<1> QED BY <1>1, <1>2, GateLeft, GateLeftFor

LEMMA GateStep == IInv /\ Gate => GateServes
<1> SUFFICES ASSUME IInv, Gate PROVE GateServes
  OBVIOUS
<1>1. CASE SendBegins
  <2>1. gate # <<>> /\ ~Turn.busy /\ (gate' = Inside \/ NotSent(Unsent(FALSE)))
    BY <1>1 DEF SendBegins
  <2> QED BY <2>1, GateBegins, NotSentServes
<1>2. CASE SendReturns \/ CloseReturns \/ PingReturns
  <2>1. gate # <<>> /\ gate' = Tail(gate)
    BY <1>2 DEF SendReturns, CloseReturns, PingReturns
  <2> QED BY <2>1, GateLeft
<1>3. CASE SendFails
  <2>1. gate # <<>> /\ NotSent(Unsent(TRUE))
    BY <1>3 DEF SendFails
  <2> QED BY <2>1, NotSentServes
<1>4. CASE CloseBegins
  <2>1. gate # <<>> /\ ~Turn.busy /\ (gate' = Inside \/ gate' = Tail(gate))
    BY <1>4 DEF CloseBegins
  <2> QED BY <2>1, GateBegins, GateLeft
<1>5. CASE PingBegins \/ PingRaises
  <2>1. gate # <<>> /\ ((~Turn.busy /\ gate' = Inside) \/ PingFailed)
    BY <1>5 DEF PingBegins, PingRaises
  <2>2. CASE PingFailed
    <3>1. gate' = Enter(Tail(gate), "close", "keep", Turn.ws)
      BY <2>2 DEF PingFailed
    <3>2. "keep" \notin Callers
      BY NotCallers
    <3> QED BY <2>1, <3>1, <3>2, GateLeftFor
  <2> QED BY <2>1, <2>2, GateBegins
<1> QED BY <1>1, <1>2, <1>3, <1>4, <1>5 DEF Gate

LEMMA OtherStep == IInv /\ [Next]_vars => GateStays \/ GateServes
<1> SUFFICES ASSUME IInv, [Next]_vars PROVE GateStays \/ GateServes
  OBVIOUS
<1>1. "task" \notin Callers /\ "flush" \notin Callers /\ "keep" \notin Callers
      /\ "cleanup" \notin Callers
  BY NotCallers
<1>2. gate \in Seq(Ticket) /\ KeepOnce(gate)
  BY DEF IInv, TypeOK, KeepInv
<1>3. ASSUME gate' = WithoutKeep(gate) PROVE GateStays
  <2>1. WithoutKeep(gate) \in Seq(Ticket)
    BY <1>2, WithoutKeepFacts
  <2> QED BY <1>2, <1>3, <2>1, WithoutKeepThinned DEF GateStays, Joined
<1>4. ASSUME NEW s \in Sessions, Broadcast(s) PROVE GateStays
  <2>1. gate' = gate \/ gate' = EnterSend(gate, "task", client, Len(said) + 1, s)
    BY <1>4 DEF Broadcast
  <2> QED BY <1>1, <2>1, GateUntouched, GateEntered DEF EnterSend
<1>5. ASSUME NEW w \in Sockets, Attach(w) PROVE GateStays
  <2>1. CASE \E s \in Sessions : AttachCloses(w, s)
    <3>1. lock = Free /\ gate' = Enter(gate, "close", w, client)
      BY <2>1 DEF AttachCloses, Arrives
    <3> QED BY <3>1, GateEntered DEF Enter
  <2>2. CASE Accepted(w)
    BY <1>3, <2>2 DEF Accepted
  <2>3. CASE AttachOwns(w) \/ AcceptFails(w) \/ \E s \in Sessions : AttachFree(w, s)
    <3>1. gate' = gate
      BY <2>3 DEF AttachOwns, AcceptFails, AttachFree
    <3> QED BY <3>1, GateUntouched
  <2> QED BY <1>5, <2>1, <2>2, <2>3 DEF Attach
<1>6. ASSUME NEW w \in Sockets, LinkBreaks(w) \/ ClientDisconnect(w) \/ CleanupEnds(w)
      PROVE  GateStays
  <2>1. gate' = gate
    BY <1>6 DEF LinkBreaks, ClientDisconnect, CleanupEnds
  <2> QED BY <2>1, GateUntouched
<1>7. ASSUME NEW w \in Sockets, Flush(w) PROVE GateStays
  <2>1. \/ gate' = gate
        \/ gate' = EnterSend(gate, "flush", w, Head(pending), owner)
        \/ gate' = EnterSend(gate, "flush", w, Head(flush[w].rest), flush[w].sess)
    BY <1>7 DEF Flush, FlushTakes, FlushSends, FlushEnds, FlushInterrupted
  <2> QED BY <1>1, <2>1, GateUntouched, GateEntered DEF EnterSend
<1>8. ASSUME NEW x \in Stops, Detach(x) PROVE GateStays
  <2>1. CASE \E s \in Sessions : DetachCloses(x, s)
    <3>1. lock = Free /\ gate' = Enter(WithoutKeep(gate), "close", x, client)
      BY <2>1 DEF DetachCloses, DetachCalled
    <3>2. WithoutKeep(gate) \in Seq(Ticket)
      BY <1>2, WithoutKeepFacts
    <3>3. Grew(gate', WithoutKeep(gate), x)
      BY <3>1, <3>2, EnterGrows DEF Enter
    <3> QED BY <1>2, <3>1, <3>2, <3>3, WithoutKeepThinned DEF GateStays, Joined
  <2>2. CASE \E s \in Sessions : DetachFree(x, s)
    BY <1>3, <2>2 DEF DetachFree
  <2>3. CASE DetachEnds(x) \/ \E s \in Sessions : DetachIgnored(x, s)
    <3>1. gate' = gate
      BY <2>3 DEF DetachEnds, DetachIgnored
    <3> QED BY <3>1, GateUntouched
  <2> QED BY <1>8, <2>1, <2>2, <2>3 DEF Detach
<1>9. CASE RequeueLater
  <2>1. gate' = gate \/ gate' = Enter(gate, "close", "cleanup", unsent[1].ws)
    BY <1>9 DEF RequeueLater, Requeued
  <2> QED BY <1>1, <2>1, GateUntouched, GateEntered DEF Enter
<1>10. CASE Keepalive
  <2>1. \/ gate' = gate
        \/ gate' = Enter(gate, "ping", "keep", client)
        \/ gate' = Enter(gate, "close", "keep", client)
    BY <1>10 DEF Keepalive, KeepaliveExits, KeepalivePings, KeepaliveTimesOut, KeepaliveActs,
       KeepaliveMarks
  <2> QED BY <1>1, <2>1, GateUntouched, GateEntered DEF Enter
<1>11. CASE UNCHANGED vars
  BY <1>11, GateUntouched DEF vars
<1> QED BY <1>4, <1>5, <1>6, <1>7, <1>8, <1>9, <1>10, <1>11, GateStep DEF Next

(* A caller joins the gate while it takes the lock, and no other joins      *)
(* before it has left.                                                      *)
LEMMA CallerNearer ==
    ASSUME NEW q \in Seq(Ticket), NEW b \in BOOLEAN, Thinned(q, gate, b), Joined(q),
           IInv, CallerOnce(gate)
    PROVE  /\ CallerOnce(gate')
           /\ \A i \in 1..Len(gate), j \in 1..Len(gate') :
                gate[i].by \in Callers /\ gate'[j].by = gate[i].by
                  => j \in 1..Len(q) /\ gate'[1] = q[1] /\ (j = i - 1 \/ (j = i /\ b))
<1>1. PICK f \in [1..Len(q) -> 1..Len(gate)] :
        /\ \A j, m \in 1..Len(q) : f[j] = f[m] => j = m
        /\ \A j \in 1..Len(q) :
             /\ q[j].by = gate[f[j]].by
             /\ j = f[j] - 1 \/ (j = f[j] /\ b)
  BY DEF Thinned
<1>2. Len(q) \in Nat /\ Len(gate) \in Nat
  BY DEF IInv, TypeOK
<1>3. CallerOnce(q)
  <2> SUFFICES ASSUME NEW i \in 1..Len(q), NEW j \in 1..Len(q),
                      q[i].by \in Callers, q[j].by = q[i].by
               PROVE  i = j
    BY DEF CallerOnce
  <2>1. /\ f[i] \in 1..Len(gate) /\ f[j] \in 1..Len(gate)
        /\ gate[f[i]].by = q[i].by /\ gate[f[j]].by = q[j].by
    BY <1>1
  <2>2. \A m, n \in 1..Len(gate) :
           gate[m].by \in Callers /\ gate[n].by = gate[m].by => m = n
    BY DEF CallerOnce
  <2>3. f[i] = f[j]
    BY <2>1, <2>2
  <2> QED BY <1>1, <2>3
<1>4. ASSUME NEW i \in 1..Len(gate), gate[i].by \in Callers
      PROVE  lock # Free
  <2>1. gate[i] \in Elements(gate)
    BY DEF Elements
  <2> QED BY <1>4, <2>1, HubAssumption DEF IInv, TicketInv, Callers
<1>5. ASSUME NEW i \in 1..Len(gate), NEW j \in 1..Len(q),
             gate[i].by \in Callers, q[j].by = gate[i].by
      PROVE  j = i - 1 \/ (j = i /\ b)
  <2>1. f[j] = i
    BY <1>1, <1>5 DEF CallerOnce
  <2> QED BY <1>1, <2>1
<1>6. CASE gate' = q
  BY <1>3, <1>5, <1>6 DEF CallerOnce
<1>7. CASE \E by : Grew(gate', q, by) /\ (by \in Callers => lock = Free)
  <2>1. PICK by : Grew(gate', q, by) /\ (by \in Callers => lock = Free)
    BY <1>7
  <2>2. /\ Len(gate') = Len(q) + 1 /\ gate'[Len(q) + 1].by = by
        /\ \A i \in 1..Len(q) : gate'[i] = q[i]
    BY <1>2, <2>1 DEF Grew
  <2>3. by \notin Callers \/ \A j \in 1..Len(q) : q[j].by \notin Callers
    BY <1>1, <1>4, <2>1
  <2>4. CallerOnce(gate')
    <3> SUFFICES ASSUME NEW i \in 1..Len(gate'), NEW j \in 1..Len(gate'),
                        gate'[i].by \in Callers, gate'[j].by = gate'[i].by
                 PROVE  i = j
      BY DEF CallerOnce
    <3>1. CASE i \in 1..Len(q) /\ j \in 1..Len(q)
      BY <1>3, <2>2, <3>1 DEF CallerOnce
    <3>2. CASE i = Len(q) + 1 /\ j \in 1..Len(q)
      BY <2>2, <2>3, <3>2
    <3>3. CASE i \in 1..Len(q) /\ j = Len(q) + 1
      BY <2>2, <2>3, <3>3
    <3> QED BY <1>2, <2>2, <3>1, <3>2, <3>3
  <2>5. ASSUME NEW i \in 1..Len(gate), NEW j \in 1..Len(gate'),
               gate[i].by \in Callers, gate'[j].by = gate[i].by
        PROVE  j \in 1..Len(q) /\ gate'[1] = q[1] /\ (j = i - 1 \/ (j = i /\ b))
    <3>1. by \notin Callers
      BY <1>4, <2>1, <2>5
    <3>2. j \in 1..Len(q)
      BY <1>2, <2>2, <2>5, <3>1
    <3>3. gate'[1] = q[1]
      BY <1>2, <2>2, <3>2
    <3>4. q[j].by = gate[i].by
      BY <2>2, <2>5, <3>2
    <3> QED BY <1>5, <2>5, <3>2, <3>3, <3>4
  <2> QED BY <2>4, <2>5
<1> QED BY <1>6, <1>7 DEF Joined

LEMMA StaysNearer ==
    ASSUME IInv, CallerOnce(gate), GateStays
    PROVE  /\ CallerOnce(gate')
           /\ \A i \in 1..Len(gate), j \in 1..Len(gate') :
                gate[i].by \in Callers /\ gate'[j].by = gate[i].by
                  => Work(gate', j) <= Work(gate, i)
<1>1. PICK q \in Seq(Ticket) : Thinned(q, gate, Stays(q, gate)) /\ Joined(q)
  BY DEF GateStays
<1>2. /\ CallerOnce(gate')
      /\ \A i \in 1..Len(gate), j \in 1..Len(gate') :
           gate[i].by \in Callers /\ gate'[j].by = gate[i].by
             => j \in 1..Len(q) /\ gate'[1] = q[1] /\ (j = i - 1 \/ (j = i /\ Stays(q, gate)))
  <2>1. Stays(q, gate) \in BOOLEAN
    BY DEF Stays
  <2> QED BY <1>1, <2>1, CallerNearer
<1>3. ASSUME NEW i \in 1..Len(gate), NEW j \in 1..Len(gate'),
             gate[i].by \in Callers, gate'[j].by = gate[i].by
      PROVE  Work(gate', j) <= Work(gate, i)
  <2>1. i \in Int /\ j \in Int /\ (j = i - 1 \/ (j = i /\ (gate[1].busy => gate'[1].busy)))
    BY <1>2, <1>3 DEF Stays
  <2> QED BY <2>1 DEF Work
<1> QED BY <1>2, <1>3

LEMMA ServesNearer ==
    ASSUME IInv, CallerOnce(gate), GateServes
    PROVE  /\ CallerOnce(gate')
           /\ \A i \in 1..Len(gate), j \in 1..Len(gate') :
                gate[i].by \in Callers /\ gate'[j].by = gate[i].by
                  => Work(gate', j) < Work(gate, i)
<1>1. PICK q \in Seq(Ticket) : Thinned(q, gate, Begins(q, gate)) /\ Joined(q)
  BY DEF GateServes
<1>2. /\ CallerOnce(gate')
      /\ \A i \in 1..Len(gate), j \in 1..Len(gate') :
           gate[i].by \in Callers /\ gate'[j].by = gate[i].by
             => j \in 1..Len(q) /\ gate'[1] = q[1] /\ (j = i - 1 \/ (j = i /\ Begins(q, gate)))
  <2>1. PICK b \in BOOLEAN : Thinned(q, gate, b) /\ (b => Begins(q, gate))
    <3>1. CASE Begins(q, gate)
      BY <1>1, <3>1 DEF Thinned
    <3>2. CASE ~Begins(q, gate)
      BY <1>1, <3>2 DEF Thinned
    <3> QED BY <3>1, <3>2
  <2> QED BY <1>1, <2>1, CallerNearer
<1>3. ASSUME NEW i \in 1..Len(gate), NEW j \in 1..Len(gate'),
             gate[i].by \in Callers, gate'[j].by = gate[i].by
      PROVE  Work(gate', j) < Work(gate, i)
  <2>1. i \in Int /\ j \in Int /\ (j = i - 1 \/ (j = i /\ ~gate[1].busy /\ gate'[1].busy))
    BY <1>2, <1>3 DEF Begins
  <2> QED BY <2>1 DEF Work
<1> QED BY <1>2, <1>3

(* No step puts anything before a caller at the gate, and every step of the *)
(* gate brings it nearer.                                                   *)
Nearer ==
    \A i \in 1..Len(gate), j \in 1..Len(gate') :
      gate[i].by \in Callers /\ gate'[j].by = gate[i].by =>
        /\ Work(gate', j) <= Work(gate, i)
        /\ Gate => Work(gate', j) < Work(gate, i)

LEMMA NextNearer == IInv /\ CallerOnce(gate) /\ [Next]_vars => CallerOnce(gate)' /\ Nearer
<1> SUFFICES ASSUME IInv, CallerOnce(gate), [Next]_vars PROVE CallerOnce(gate') /\ Nearer
  BY DEF CallerOnce
<1>1. \A i \in 1..Len(gate), j \in 1..Len(gate') : Work(gate, i) \in Int /\ Work(gate', j) \in Int
  BY DEF Work
<1>2. ASSUME GateServes PROVE CallerOnce(gate') /\ Nearer
  BY <1>1, <1>2, ServesNearer DEF Nearer
<1>3. ASSUME GateStays, ~Gate PROVE CallerOnce(gate') /\ Nearer
  BY <1>3, StaysNearer DEF Nearer
<1> QED BY <1>2, <1>3, GateStep, OtherStep

-----------------------------------------------------------------------------
(* What the hub promises.                                                  *)

(* Who may be at the gate, in the slot, in a flush or waiting for a close,  *)
(* for which session and with which text: what every promise rests on.      *)
THEOREM Inductive == Spec => []IInv
<1> QED BY InitIInv, NextKeeps, PTL DEF Spec

(* The slot, pending, the gate, the flushes and the sends under way keep    *)
(* their types, and whoever waits for a close under the lock holds it.      *)
THEOREM TypeCorrect == Spec => []TypeOK
<1>1. IInv => TypeOK
  BY DEF IInv
<1> QED BY <1>1, Inductive, PTL

(* While the slot has not changed hands during an accept() or a flush, no   *)
(* order of broadcasts, sends, requeues, closes and notices leaves another  *)
(* session's client in the slot or sends it a text (websocket.py 42-44,     *)
(* 94-104 and 116-121), for any number of sockets, calls and sessions.      *)
THEOREM Delivery == Spec => []NoCrossDelivery
<1>1. IInv => NoCrossDelivery
  BY DEF IInv, CrossInv, OwnInv, NoCrossDelivery, ClientOfOwner
<1> QED BY <1>1, Inductive, PTL

(* No send, requeue, flush or shedding of the oldest repeats or forgets a   *)
(* text, raced or not.                                                      *)
THEOREM TextOnce == Spec => []EachTextOnce
<1>1. Init => EachTextOnce
  BY DEF Init, EachTextOnce
<1> QED BY <1>1, Inductive, NextOnce, PTL DEF Spec

(* A text of the slot's owner is given up only by a full pending or a       *)
(* change of hands, while no change of hands raced with an accept() or a    *)
(* flush.                                                                   *)
THEOREM TextsKept == Spec => OwnerTextsKept
<1>1. IInv /\ [Next]_vars
      => [~raced => \A t \in dropped' \ dropped :
            said'[t] # owner \/ owner' # owner \/ Len(pending') = MaxPending]_vars
  BY NextKeepsTexts DEF GivenUpRightly
<1> QED BY <1>1, Inductive, PTL DEF Spec, OwnerTextsKept

(* Neither a late disconnect notice, nor the clean-up after a failed send,  *)
(* nor the keepalive of a replaced socket empties the slot under a          *)
(* connected client.                                                        *)
THEOREM ClientKept == Spec => LiveClientStays
<1>1. IInv /\ [Next]_vars
      => [Connected(client) /\ client' = NoSocket => owner' = NoSession]_vars
  BY NextKeepsClient DEF ClientStays
<1> QED BY <1>1, Inductive, PTL DEF Spec, LiveClientStays

(* Whoever holds the lock while it closes a socket goes on, or waits, once, *)
(* at a gate whose head can go on without the lock (websocket.py 134-135    *)
(* and 168-170): lock and gate never wait for each other.                   *)
THEOREM LockHolder == Spec => []LockHolderProceeds
<1>1. Init => CallerOnce(gate)
  BY DEF Init, CallerOnce
<1>2. IInv /\ CallerOnce(gate) => LockHolderProceeds
  <2> SUFFICES ASSUME IInv, CallerOnce(gate), lock # Free, Closing(lock)
               PROVE  HeadMoves /\ \E i \in 1..Len(gate) :
                                     \A j \in 1..Len(gate) : gate[j].by = lock <=> j = i
    BY DEF LockHolderProceeds
  <2>1. lock \in Callers
    BY DEF IInv, TypeOK
  <2>2. PICK i \in 1..Len(gate) : gate[i].by = lock
    BY DEF Closing, Elements
  <2>3. gate # <<>>
    BY <2>2
  <2> QED BY <2>1, <2>2, <2>3 DEF CallerOnce, HeadMoves, LockOutsideGate
<1> QED BY <1>1, <1>2, Inductive, NextNearer, PTL DEF Spec

(* What it waits for is bounded by what was at the gate before it: no step  *)
(* gets before it, and every step of the gate brings it nearer              *)
(* (websocket.py 160-176 and 127-153).                                      *)
THEOREM LockWaitShrinks ==
    Spec => [][ \A i \in 1..Len(gate), j \in 1..Len(gate') :
                  gate[i].by \in Callers /\ gate'[j].by = gate[i].by =>
                    /\ Work(gate', j) <= Work(gate, i)
                    /\ Gate => Work(gate', j) < Work(gate, i) ]_vars
<1>1. Init => CallerOnce(gate)
  BY DEF Init, CallerOnce
<1>2. IInv /\ CallerOnce(gate) /\ [Next]_vars
      => [ \A i \in 1..Len(gate), j \in 1..Len(gate') :
             gate[i].by \in Callers /\ gate'[j].by = gate[i].by =>
               /\ Work(gate', j) <= Work(gate, i)
               /\ Gate => Work(gate', j) < Work(gate, i) ]_vars
  BY NextNearer DEF Nearer
<1> QED BY <1>1, <1>2, Inductive, NextNearer, PTL DEF Spec
=============================================================================
