------------------------ MODULE InterimChunker_proofs -------------------------
(***************************************************************************)
(* Spans of one segment, for any words, utterances and numbers of calls.   *)
(***************************************************************************)
EXTENDS InterimChunker, FiniteSetTheorems, SequenceTheorems, TLAPS

Going(k) == k.at \in {"ensure", "publish", "return"}
Flushes(k) == k.then = "boundary"
In(c, s) == \E i \in 1 .. Len(s) : s[i] = c
Distinct(s) == \A i, j \in 1 .. Len(s) : s[i] = s[j] => i = j

(* The microtask queue holds the calls that go on, each once; while a       *)
(* response is handed over, none of them has gone on yet.                   *)
Listed(f, s) ==
    /\ s \in Seq(Calls) /\ Distinct(s)
    /\ \A d \in Calls : Going(f[d]) <=> In(d, s)

ReadyInv ==
    /\ Listed(call, ready)
    /\ burst # 0 => \A d \in Calls : call[d].at \in {"idle", "start", "ensure"}
    /\ \A d \in Calls : Flushes(call[d]) =>
         call[d].result \in Results /\ call[d].result.words # <<>>

(* What waits is of the current segment, and so is every call but those     *)
(* that flush the segment before.                                           *)
QueueInv ==
    /\ \A i \in 1 .. Len(queue) : queue[i].seg = currentSegmentId
    /\ currentSegmentId = 0 => queue = <<>> /\ \A d \in Calls : call[d] = Idle
    /\ \A d \in Calls : call[d] = Idle \/ Flushes(call[d]) \/ call[d].seg = currentSegmentId

(* The timer is of the current segment, unless a call that is about to set  *)
(* it goes on before it can fire.                                           *)
TimerInv ==
    /\ \/ trailingTimer \in {0, currentSegmentId}
       \/ \E d \in Calls : call[d].then = "interim" /\ call[d].at # "start"
    /\ ~publisherStarted \/ (\E d \in Calls : call[d].at = "start") =>
         trailingTimer \in {0, currentSegmentId}

(* The flushes under way are those of one response.  They go on in step:    *)
(* before the first of them takes up its result, all have published.        *)
Follows(k, l) ==
    Flushes(k) /\ Flushes(l) =>
      /\ k.at = "return" => l.at = "return"
      /\ k.at = "publish" => l.at \in {"publish", "return"}
      /\ k.at = "ensure" => l.at \in {"ensure", "publish"}

Ordered(f, s) ==
    \A i, j \in 1 .. Len(s) : i < j => Follows(f[s[i]], f[s[j]])

FlushInv(k) ==
    /\ publisherStarted /\ \A d \in Calls : call[d].at # "start"
    /\ k.at = "ensure" => k.seg = currentSegmentId /\ k.result.seg # currentSegmentId
    /\ k.at \in {"publish", "return"} => queue = <<>> \/ currentSegmentId = k.result.seg
    /\ burst # 0 => queue # <<>> /\ k.result.seg = burst
    /\ \A d \in Calls : Flushes(call[d]) => call[d].result.seg = k.result.seg
    /\ currentSegmentId # k.result.seg =>
         \A d \in Calls : call[d] = Idle \/ Flushes(call[d])

BoundaryInv ==
    /\ \A d \in Calls : Flushes(call[d]) => FlushInv(call[d])
    /\ Ordered(call, ready)
    /\ burst # 0 /\ burst # currentSegmentId =>
         \A d \in Calls : call[d] = Idle \/ call[d].at = "start" \/ Flushes(call[d])

SpanInv == \A i \in 1 .. Len(spans) : spans[i].token.seg = spans[i].under

Warm == "cold" \notin odd
WarmInv == Warm => QueueInv /\ TimerInv /\ BoundaryInv /\ SpanInv

IInv == TypeOK /\ ReadyInv /\ WarmInv

-----------------------------------------------------------------------------
(* Numbers: a nonempty set of naturals has a least one, and a greatest one  *)
(* if it has a bound; so Min and Max choose them.                           *)
LEMMA Least ==
    ASSUME NEW S \in SUBSET Nat, S # {}
    PROVE  \E x \in S : \A y \in S : x <= y
<1> DEFINE T == {0 .. y : y \in S}
<1>1. T \subseteq FiniteSubsetsOf(Nat) /\ T # {}
  <2>1. ASSUME NEW y \in S PROVE 0 .. y \in FiniteSubsetsOf(Nat)
    BY FS_Interval DEF FiniteSubsetsOf
  <2> QED
    BY <2>1
<1>2. PICK X \in T : \A Y \in T : ~(<<Y, X>> \in StrictSubsetOrdering(Nat))
  BY <1>1, FS_StrictSubsetOrderingWellFounded, WFMin
<1>3. PICK x \in S : X = 0 .. x
  BY <1>2
<1>4. ASSUME NEW y \in S, y < x PROVE FALSE
  <2>1. 0 .. y \in T /\ <<0 .. y, 0 .. x>> \in (SUBSET Nat) \X (SUBSET Nat)
    OBVIOUS
  <2>2. 0 .. y \subseteq 0 .. x /\ x \in 0 .. x /\ x \notin 0 .. y
    BY <1>4
  <2> QED
    BY <1>2, <1>3, <2>1, <2>2 DEF StrictSubsetOrdering
<1> QED
  BY <1>4

LEMMA Greatest ==
    ASSUME NEW n \in Nat, NEW S \in SUBSET (0 .. n), S # {}
    PROVE  Max(S) \in S /\ \A y \in S : y <= Max(S)
<1> DEFINE B == {m \in Nat : \A y \in S : y <= m}
<1>1. B \in SUBSET Nat /\ n \in B
  OBVIOUS
<1>2. PICK m \in B : \A k \in B : m <= k
  <2> HIDE DEF B
  <2> QED
    BY <1>1, Least
<1>3. m \in S
  <2> SUFFICES ASSUME m \notin S PROVE FALSE
    OBVIOUS
  <2>1. m \in Nat /\ \A y \in S : y \in Nat /\ y <= m /\ y # m
    OBVIOUS
  <2>2. PICK z \in S : TRUE
    OBVIOUS
  <2>3. z < m /\ m # 0 /\ m - 1 \in Nat /\ ~(m <= m - 1)
    BY <2>1, <2>2
  <2>4. \A y \in S : y <= m - 1
    BY <2>1
  <2>5. m - 1 \in B
    BY <2>3, <2>4
  <2> QED
    BY <1>2, <2>3, <2>5
<1>5. \E z \in S : \A y \in S : z >= y
  BY <1>3
<1>6. Max(S) \in S /\ \A y \in S : Max(S) >= y
  BY <1>5 DEF Max
<1> QED
  BY <1>6

LEMMA LeastChosen ==
    ASSUME NEW S \in SUBSET Nat, S # {}
    PROVE  Min(S) \in S /\ \A y \in S : Min(S) <= y
<1>1. \E x \in S : \A y \in S : x <= y
  BY Least
<1> QED
  BY <1>1 DEF Min

-----------------------------------------------------------------------------
(* computeDelta returns words of the result; all of them when there was no  *)
(* text before.                                                             *)
LEMMA SharedStartRange ==
    ASSUME NEW p \in Seq(Words), NEW q \in Seq(Words)
    PROVE  SharedStart(p, q) \in 0 .. Len(q) /\ SharedStart(p, q) <= Len(p)
<1> DEFINE S == {n \in 0 .. Len(q) : Shared(p, q, n)}
<1>1. Len(q) \in Nat /\ Len(p) \in Nat /\ S \in SUBSET (0 .. Len(q))
  OBVIOUS
<1>2. 0 \in S
  BY <1>1 DEF Shared
<1>3. Max(S) \in S
  BY <1>1, <1>2, Greatest
<1> QED
  BY <1>3 DEF SharedStart, Shared

LEMMA SharedEndRange ==
    ASSUME NEW p \in Seq(Words), NEW q \in Seq(Words)
    PROVE  SharedEnd(p, q) \in 0 .. (Min({Len(p), Len(q)}) - SharedStart(p, q))
<1> DEFINE left == Min({Len(p), Len(q)}) - SharedStart(p, q)
           S == {n \in 0 .. left : Shared(Reverse(p), Reverse(q), n)}
<1>1. Min({Len(p), Len(q)}) \in {Len(p), Len(q)}
  <2>1. {Len(p), Len(q)} \in SUBSET Nat /\ {Len(p), Len(q)} # {}
    OBVIOUS
  <2> QED
    BY <2>1, LeastChosen
<1>2. left \in Nat
  BY <1>1, SharedStartRange
<1>3. Reverse(p) \in Seq(Words) /\ Reverse(q) \in Seq(Words)
  BY DEF Reverse
<1>4. 0 \in S
  BY <1>2, <1>3 DEF Shared
<1>5. Max(S) \in S
  BY <1>2, <1>4, Greatest
<1> QED
  BY <1>5 DEF SharedEnd

LEMMA TextsAreSequences ==
    ASSUME NEW p \in Texts
    PROVE  p \in Seq(Words) /\ Len(p) \in Nat /\ Len(p) <= MaxLength
<1>1. PICK m \in 0 .. MaxLength : p \in [1 .. m -> Words]
  BY ChunkerAssumption DEF Texts, BoundedSeq, SeqOf
<1>2. m \in Nat /\ m <= MaxLength
  BY ChunkerAssumption
<1> QED
  BY <1>1, <1>2

LEMMA TokensTyped ==
    ASSUME NEW r \in Results
    PROVE  /\ TokensOf(r) \in Seq(Tokens) /\ Len(TokensOf(r)) = Len(r.words)
           /\ ToSet(TokensOf(r)) \subseteq Tokens
           /\ \A i \in 1 .. Len(r.words) : TokensOf(r)[i].seg = r.seg
<1>1. r.words \in Seq(Words) /\ Len(r.words) \in Nat /\ Len(r.words) <= MaxLength
  BY TextsAreSequences DEF Results
<1>2. r.seg \in Segments /\ r.utt \in Nat
  BY DEF Results
<1>3. ASSUME NEW i \in 1 .. Len(r.words) PROVE Token(r, i) \in Tokens /\ Token(r, i).seg = r.seg
  <2>1. i \in 1 .. MaxLength /\ r.words[i] \in Words
    BY <1>1, ChunkerAssumption
  <2> QED
    BY <1>2, <2>1 DEF Token, Tokens
<1>4. TokensOf(r) \in [1 .. Len(r.words) -> Tokens]
  BY <1>3 DEF TokensOf
<1>5. TokensOf(r) \in Seq(Tokens) /\ Len(TokensOf(r)) = Len(r.words)
  BY <1>1, <1>4
<1>6. \A i \in 1 .. Len(r.words) : TokensOf(r)[i].seg = r.seg
  BY <1>3 DEF TokensOf
<1>7. ToSet(TokensOf(r)) \subseteq Tokens
  BY <1>4 DEF ToSet
<1> QED
  BY <1>5, <1>6, <1>7

LEMMA Cut ==
    ASSUME NEW S, NEW t \in Seq(S), NEW a \in Nat, NEW b \in Nat, a <= b, b <= Len(t)
    PROVE  /\ SubSeq(t, a + 1, b) \in Seq(S) /\ Len(SubSeq(t, a + 1, b)) = b - a
           /\ \A i \in 1 .. b - a : SubSeq(t, a + 1, b)[i] = t[a + i]
<1>1. a + 1 \in 1 .. Len(t) + 1 /\ b \in (a + 1) - 1 .. Len(t)
  OBVIOUS
<1>2. /\ SubSeq(t, a + 1, b) \in Seq(S)
      /\ Len(SubSeq(t, a + 1, b)) = b - (a + 1) + 1
      /\ \A i \in 1 .. b - (a + 1) + 1 : SubSeq(t, a + 1, b)[i] = t[(a + 1) + i - 1]
  BY <1>1, SubSeqProperties
<1>3. b - (a + 1) + 1 = b - a
  OBVIOUS
<1>4. ASSUME NEW i \in 1 .. b - a
      PROVE  i \in 1 .. b - (a + 1) + 1 /\ (a + 1) + i - 1 = a + i
  OBVIOUS
<1> DEFINE s == SubSeq(t, a + 1, b)
<1>5. /\ s \in Seq(S) /\ Len(s) = b - (a + 1) + 1
      /\ \A i \in 1 .. b - (a + 1) + 1 : s[i] = t[(a + 1) + i - 1]
  BY <1>2
<1> HIDE DEF s
<1>6. \A i \in 1 .. b - a : s[i] = t[a + i]
  <2> TAKE i \in 1 .. b - a
  <2>1. s[i] = t[(a + 1) + i - 1]
    BY ONLY <1>4, <1>5, i \in 1 .. b - a
  <2> QED
    BY ONLY <2>1, <1>4, i \in 1 .. b - a
<1>7. s \in Seq(S) /\ Len(s) = b - a
  BY ONLY <1>3, <1>5
<1> QED
  BY ONLY <1>6, <1>7 DEF s

LEMMA DeltaOfSegment ==
    ASSUME NEW old \in Texts, NEW r \in Results
    PROVE  /\ Delta(old, r) \in Seq(Tokens)
           /\ \A i \in 1 .. Len(Delta(old, r)) : Delta(old, r)[i].seg = r.seg
           /\ old = <<>> /\ r.words # <<>> => Delta(old, r) # <<>>
<1> DEFINE q == r.words
           start == SharedStart(old, q)
           end == SharedEnd(old, q)
           t == TokensOf(r)
           lo == Len(old)
           lq == Len(q)
           d == SubSeq(t, start + 1, lq - end)
<1>1. old \in Seq(Words) /\ q \in Seq(Words) /\ lo \in Nat /\ lq \in Nat
  BY TextsAreSequences DEF Results
<1>2. start \in 0 .. lq /\ start <= lo
  BY <1>1, SharedStartRange
<1>3. end \in 0 .. (Min({lo, lq}) - start)
  BY <1>1, SharedEndRange
<1>4. Min({lo, lq}) \in {lo, lq} /\ Min({lo, lq}) <= lo /\ Min({lo, lq}) <= lq
  <2>1. {lo, lq} \in SUBSET Nat /\ {lo, lq} # {}
    BY <1>1
  <2> HIDE DEF lo, lq
  <2> QED
    BY <2>1, LeastChosen
<1>5. start \in Nat /\ end \in Nat /\ start + end <= lo /\ start + end <= lq
  <2> DEFINE m == Min({lo, lq})
  <2>1. m \in Nat
    BY <1>1, <1>4
  <2> HIDE DEF m, start, end, lo, lq
  <2> QED
    BY <1>1, <1>2, <1>3, <1>4, <2>1 DEF m
<1>6. t \in Seq(Tokens) /\ Len(t) = lq /\ \A i \in 1 .. lq : t[i].seg = r.seg
  BY TokensTyped
<1>7. /\ d \in Seq(Tokens) /\ Len(d) = lq - end - start
      /\ \A i \in 1 .. Len(d) : d[i] = t[start + i]
  <2>1. lq - end \in Nat /\ start <= lq - end /\ lq - end <= Len(t)
    <3> HIDE DEF start, end, lq, lo, t
    <3> QED
      BY <1>1, <1>5, <1>6
  <2> HIDE DEF start, end, lq, lo, t
  <2>2. /\ d \in Seq(Tokens) /\ Len(d) = (lq - end) - start
        /\ \A i \in 1 .. (lq - end) - start : d[i] = t[start + i]
    BY <1>5, <1>6, <2>1, Cut
  <2> QED
    BY <2>2
<1>8. \A i \in 1 .. Len(d) : d[i].seg = r.seg
  <2> HIDE DEF start, end, lq, lo, t, d
  <2> TAKE i \in 1 .. Len(d)
  <2>1. start + i \in 1 .. lq
    BY <1>1, <1>5, <1>7
  <2>2. d[i] = t[start + i]
    BY <1>7
  <2> QED
    BY ONLY <1>6, <2>1, <2>2
<1>9. ASSUME old = <<>>, q # <<>> PROVE d # <<>>
  <2>1. lo = 0 /\ lq # 0
    BY <1>1, <1>9
  <2>2. start = 0 /\ end = 0
    <3> HIDE DEF start, end, lq, lo
    <3> QED
      BY <1>1, <1>5, <2>1
  <2>3. Len(d) # 0
    <3> HIDE DEF start, end, lq, lo, d
    <3> QED
      BY <1>1, <1>7, <2>1, <2>2
  <2> HIDE DEF d
  <2> QED
    BY <2>3
<1>10. Delta(old, r) = d
  BY DEF Delta
<1> HIDE DEF d
<1> QED
  BY <1>7, <1>8, <1>9, <1>10

-----------------------------------------------------------------------------
(* A step changes one call, c, and the queue of those that go on; rest are  *)
(* the others in it.                                                        *)
CallStates == {Idle} \cup Underway

Rest(f, c, s) ==
    /\ s \in Seq(Calls) /\ Distinct(s) /\ ~In(c, s)
    /\ \A d \in Calls \ {c} : Going(f[d]) <=> In(d, s)

Changes(c, k, rest) ==
    /\ k \in CallStates
    /\ call' = [call EXCEPT ![c] = k]
    /\ ready' = IF Going(k) THEN Append(rest, c) ELSE rest

LEMMA CallsFinite == Calls \in SUBSET Nat
BY ChunkerAssumption DEF Calls

LEMMA RestOfQueue ==
    ASSUME NEW f, NEW s, Listed(f, s), NEW c \in Calls, ~Going(f[c])
    PROVE  Rest(f, c, s)
BY DEF Listed, Rest

LEMMA TailFacts ==
    ASSUME NEW s \in Seq(Calls), s # <<>>
    PROVE  /\ Tail(s) \in Seq(Calls) /\ Len(Tail(s)) = Len(s) - 1
           /\ \A i \in 1 .. Len(Tail(s)) : Tail(s)[i] = s[i + 1]
           /\ Head(s) = s[1] /\ Len(s) \in Nat \ {0} /\ Head(s) \in Calls
OBVIOUS

LEMMA RestAfterHead ==
    ASSUME NEW f, NEW s, Listed(f, s), s # <<>>
    PROVE  Rest(f, Head(s), Tail(s)) /\ Going(f[Head(s)])
<1> DEFINE t == Tail(s)
           c == Head(s)
           n == Len(s)
<1>1. /\ t \in Seq(Calls) /\ Len(t) = n - 1 /\ \A i \in 1 .. Len(t) : t[i] = s[i + 1]
      /\ c = s[1] /\ n \in Nat \ {0} /\ c \in Calls
  BY TailFacts DEF Listed
<1>2. /\ \A i, j \in 1 .. n : s[i] = s[j] => i = j
      /\ \A d \in Calls : Going(f[d]) <=> \E i \in 1 .. n : s[i] = d
  BY DEF Listed, Distinct, In
<1> HIDE DEF t, c, n
<1>3. Distinct(t)
  BY <1>1, <1>2 DEF Distinct
<1>4. ~In(c, t)
  BY <1>1, <1>2 DEF In
<1>5. ASSUME NEW d \in Calls, d # c
      PROVE  (\E i \in 1 .. n : s[i] = d) <=> In(d, t)
  <2>1. ASSUME NEW i \in 1 .. n, s[i] = d PROVE In(d, t)
    <3>1. i - 1 \in 1 .. Len(t) /\ t[i - 1] = s[i]
      BY <1>1, <1>5, <2>1
    <3> QED
      BY <2>1, <3>1 DEF In
  <2>2. ASSUME NEW i \in 1 .. Len(t), t[i] = d PROVE i + 1 \in 1 .. n /\ s[i + 1] = d
    BY <1>1, <2>2
  <2> QED
    BY <2>1, <2>2 DEF In
<1>6. Going(f[c])
  BY <1>1, <1>2
<1>7. Rest(f, c, t)
  BY <1>1, <1>2, <1>3, <1>4, <1>5 DEF Rest
<1> QED
  BY <1>6, <1>7 DEF t, c

LEMMA AppendFacts ==
    ASSUME NEW s \in Seq(Calls), NEW c \in Calls
    PROVE  /\ Append(s, c) \in Seq(Calls) /\ Len(Append(s, c)) = Len(s) + 1
           /\ \A i \in 1 .. Len(s) : Append(s, c)[i] = s[i]
           /\ Append(s, c)[Len(s) + 1] = c /\ Len(s) \in Nat
OBVIOUS

LEMMA ListedAgain ==
    ASSUME NEW f \in [Calls -> CallStates], NEW c \in Calls, NEW s, Rest(f, c, s),
           NEW k \in CallStates
    PROVE  Listed([f EXCEPT ![c] = k], IF Going(k) THEN Append(s, c) ELSE s)
<1> DEFINE g == [f EXCEPT ![c] = k]
           t == Append(s, c)
           n == Len(s)
<1>1. g[c] = k /\ \A d \in Calls \ {c} : g[d] = f[d]
  OBVIOUS
<1>2. /\ s \in Seq(Calls) /\ t \in Seq(Calls) /\ Len(t) = n + 1 /\ n \in Nat
      /\ \A i \in 1 .. n : t[i] = s[i] /\ t[n + 1] = c
  BY AppendFacts DEF Rest
<1>3. /\ \A i, j \in 1 .. n : s[i] = s[j] => i = j
      /\ \A i \in 1 .. n : s[i] # c
      /\ \A d \in Calls \ {c} : Going(f[d]) <=> \E i \in 1 .. n : s[i] = d
  BY DEF Rest, Distinct, In
<1> HIDE DEF g, t, n
<1>4. CASE ~Going(k)
  <2>1. Listed(g, s)
    BY <1>1, <1>4 DEF Rest, Listed
  <2> QED
    BY <1>4, <2>1 DEF g
<1>5. CASE Going(k)
  <2>1. t[n + 1] = c
    BY <1>2, AppendFacts DEF t, n
  <2>2. Distinct(t)
    BY <1>2, <1>3, <2>1 DEF Distinct
  <2>3. \A d \in Calls \ {c} : (\E i \in 1 .. n : s[i] = d) <=> In(d, t)
    BY <1>2, <2>1 DEF In
  <2>4. In(c, t)
    BY <1>2, <2>1 DEF In
  <2>5. Listed(g, t)
    BY <1>1, <1>2, <1>3, <1>5, <2>2, <2>3, <2>4 DEF Listed
  <2> QED
    BY <1>5, <2>5 DEF g, t
<1> QED
  BY <1>4, <1>5

LEMMA OrderedAgain ==
    ASSUME NEW f \in [Calls -> CallStates], NEW c \in Calls, NEW s, Rest(f, c, s),
           NEW k \in CallStates, Ordered(f, s),
           \A i \in 1 .. Len(s) : Going(k) => Follows(f[s[i]], k)
    PROVE  Ordered([f EXCEPT ![c] = k], IF Going(k) THEN Append(s, c) ELSE s)
<1> DEFINE g == [f EXCEPT ![c] = k]
           t == Append(s, c)
           n == Len(s)
<1>1. g[c] = k /\ \A d \in Calls \ {c} : g[d] = f[d]
  OBVIOUS
<1>2. /\ Len(t) = n + 1 /\ n \in Nat /\ t[n + 1] = c
      /\ \A i \in 1 .. n : t[i] = s[i]
  BY AppendFacts DEF Rest
<1>3. \A i \in 1 .. n : s[i] \in Calls \ {c}
  BY DEF Rest, In
<1>4. \A i, j \in 1 .. n : i < j => Follows(f[s[i]], f[s[j]])
  BY DEF Ordered
<1>5. \A i \in 1 .. n : g[s[i]] = f[s[i]]
  BY <1>1, <1>3
<1> HIDE DEF g, t, n
<1>6. CASE ~Going(k)
  <2>1. Ordered(g, s)
    BY <1>4, <1>5 DEF Ordered, n
  <2> QED
    BY <1>6, <2>1 DEF g
<1>7. CASE Going(k)
  <2>0. \A i \in 1 .. n : Follows(f[s[i]], k)
    BY <1>7 DEF n
  <2>1. ASSUME NEW i \in 1 .. n + 1, NEW j \in 1 .. n + 1, i < j
        PROVE  Follows(g[t[i]], g[t[j]])
    <3>1. i \in 1 .. n
      BY <1>2, <2>1
    <3>2. CASE j \in 1 .. n
      BY <1>2, <1>4, <1>5, <2>1, <3>1, <3>2
    <3>3. CASE j = n + 1
      BY <1>1, <1>2, <1>5, <2>0, <3>1, <3>3
    <3> QED
      BY <1>2, <3>2, <3>3
  <2>2. Ordered(g, t)
    BY <1>2, <2>1 DEF Ordered
  <2> QED
    BY <1>7, <2>2 DEF g, t
<1> QED
  BY <1>6, <1>7

LEMMA OrderedTail ==
    ASSUME NEW f, NEW s \in Seq(Calls), s # <<>>, Ordered(f, s)
    PROVE  /\ Ordered(f, Tail(s))
           /\ \A i \in 1 .. Len(Tail(s)) : Follows(f[Head(s)], f[Tail(s)[i]])
<1> DEFINE t == Tail(s)
           n == Len(s)
<1>1. /\ Len(t) = n - 1 /\ n \in Nat \ {0} /\ Head(s) = s[1]
      /\ \A i \in 1 .. Len(t) : t[i] = s[i + 1]
  BY TailFacts
<1>2. \A i, j \in 1 .. n : i < j => Follows(f[s[i]], f[s[j]])
  BY DEF Ordered
<1> HIDE DEF t, n
<1>3. ASSUME NEW i \in 1 .. Len(t), NEW j \in 1 .. Len(t), i < j
      PROVE  Follows(f[t[i]], f[t[j]])
  <2>1. i + 1 \in 1 .. n /\ j + 1 \in 1 .. n /\ i + 1 < j + 1
    BY <1>1, <1>3
  <2> QED
    BY <1>1, <1>2, <2>1
<1>4. ASSUME NEW i \in 1 .. Len(t) PROVE Follows(f[s[1]], f[t[i]])
  <2>1. i + 1 \in 1 .. n /\ 1 \in 1 .. n /\ 1 < i + 1
    BY <1>1, <1>4
  <2> QED
    BY <1>1, <1>2, <2>1
<1>5. Ordered(f, t)
  BY <1>3 DEF Ordered
<1> QED
  BY <1>1, <1>4, <1>5 DEF t

-----------------------------------------------------------------------------
(* What each part of a handler changes.                                     *)
StartedAt == IF publisherStarted THEN "ensure" ELSE "start"

LEMMA CallCases ==
    ASSUME TypeOK, NEW d \in Calls
    PROVE  /\ call[d] \in CallStates
           /\ call[d] = Idle \/ call[d] \in Underway
           /\ call[d] = Idle <=> call[d].at = "idle"
           /\ Flushes(call[d]) => call[d] \in Underway
BY DEF TypeOK, CallStates, Idle, Underway, Flushes

LEMMA ChangesFacts ==
    ASSUME TypeOK, NEW c \in Calls, NEW k, NEW rest, Rest(call, c, rest),
           Changes(c, k, rest)
    PROVE  /\ call' \in [Calls -> CallStates] /\ ready' \in Seq(Calls)
           /\ Listed(call', ready')
           /\ call'[c] = k /\ \A d \in Calls \ {c} : call'[d] = call[d]
<1>1. call \in [Calls -> CallStates] /\ k \in CallStates
  BY DEF TypeOK, CallStates, Changes
<1>2. Listed([call EXCEPT ![c] = k], IF Going(k) THEN Append(rest, c) ELSE rest)
  BY <1>1, ListedAgain
<1>3. call' = [call EXCEPT ![c] = k]
  BY DEF Changes
<1>4. Listed(call', ready')
  BY <1>2, <1>3 DEF Changes
<1> QED
  BY <1>1, <1>3, <1>4 DEF Listed

LEMMA PublishSpanChanges ==
    ASSUME TypeOK, NEW c \in Calls, NEW then \in {"boundary", "final", "interim", "timer"},
           NEW seg \in Segments, NEW result \in Results \cup {Nothing}, NEW rest,
           PublishSpan(c, then, seg, result, rest)
    PROVE  LET k == [at |-> StartedAt, then |-> then, seg |-> seg, result |-> result]
           IN  k \in Underway /\ Changes(c, k, rest)
<1> DEFINE k == [at |-> StartedAt, then |-> then, seg |-> seg, result |-> result]
<1>1. k \in Underway
  BY DEF StartedAt, Underway
<1>2. Going(k) <=> publisherStarted
  BY DEF Going, StartedAt
<1>3. call' = [call EXCEPT ![c] = k]
  BY DEF PublishSpan, StartedAt
<1>4. ready' = IF Going(k) THEN Append(rest, c) ELSE rest
  BY <1>2 DEF PublishSpan
<1> QED
  BY <1>1, <1>3, <1>4 DEF Changes, CallStates

LEMMA GoesOnChanges ==
    ASSUME TypeOK, NEW c \in Calls, call[c] # Idle, NEW at \in {"publish", "return"},
           NEW rest, GoesOn(c, at, rest)
    PROVE  LET k == [call[c] EXCEPT !.at = at]
           IN  /\ k \in Underway /\ Changes(c, k, rest) /\ Going(k) /\ k.at = at
               /\ k.then = call[c].then /\ k.seg = call[c].seg /\ k.result = call[c].result
<1> DEFINE k == [call[c] EXCEPT !.at = at]
<1>1. call[c] \in Underway
  BY CallCases
<1>2. /\ k \in Underway /\ k.at = at /\ k.then = call[c].then
      /\ k.seg = call[c].seg /\ k.result = call[c].result
  BY <1>1 DEF Underway
<1>3. Going(k)
  BY <1>2 DEF Going
<1>4. call' = [call EXCEPT ![c] = k] /\ ready' = Append(rest, c)
  BY DEF GoesOn
<1>5. Changes(c, k, rest)
  BY <1>2, <1>3, <1>4 DEF Changes, CallStates
<1> QED
  BY <1>2, <1>3, <1>5

LEMMA DoneChanges ==
    ASSUME NEW c, NEW rest, Done(c, rest)
    PROVE  Changes(c, Idle, rest) /\ ~Going(Idle)
BY DEF Done, Changes, CallStates, Going, Idle

(* Of a result that is taken up against base, d is new.                     *)
TakesUp(k, r, base, d) ==
    /\ d = Delta(base, r) /\ d \in Seq(Tokens)
    /\ \A i \in 1 .. Len(d) : d[i].seg = r.seg
    /\ currentSegmentId' = r.seg /\ text' = r.words /\ queue' = queue \o d
    /\ k = Idle \/ (k.at = StartedAt /\ k.then \in {"final", "interim"} /\ k.seg = r.seg)
    /\ \/ trailingTimer' \in {0, r.seg}
       \/ trailingTimer' = trailingTimer /\ (k.then = "interim" \/ base # <<>>)
    /\ (r.final /\ d # <<>> => k.then = "final") /\ (~r.final => k.then # "final")

LEMMA AcceptChanges ==
    ASSUME TypeOK, NEW c \in Calls, NEW r \in Results, r.words # <<>>,
           NEW base \in Texts, NEW rest, Accept(c, r, base, rest)
    PROVE  \E k, d : Changes(c, k, rest) /\ TakesUp(k, r, base, d)
<1> DEFINE d == Delta(base, r)
           K(then) == [at |-> StartedAt, then |-> then, seg |-> r.seg, result |-> Nothing]
<1>1. /\ d = Delta(base, r) /\ d \in Seq(Tokens)
      /\ \A i \in 1 .. Len(d) : d[i].seg = r.seg
      /\ base = <<>> => d # <<>>
  BY DeltaOfSegment
<1>2. currentSegmentId' = r.seg /\ text' = r.words /\ queue' = queue \o d
  BY DEF Accept
<1>3. r.seg \in Segments /\ Nothing \in Results \cup {Nothing}
  BY DEF Results
<1>4. /\ Idle.then = "none"
      /\ \A t : K(t).at = StartedAt /\ K(t).then = t /\ K(t).seg = r.seg
  BY DEF Idle
<1>5. \/ d = <<>> /\ Done(c, rest) /\ UNCHANGED trailingTimer
      \/ r.final /\ trailingTimer' = 0 /\ PublishSpan(c, "final", r.seg, Nothing, rest)
      \/ ~r.final /\ PublishSpan(c, "interim", r.seg, Nothing, rest) /\ UNCHANGED trailingTimer
      \/ ~r.final /\ trailingTimer' = r.seg /\ Done(c, rest)
  BY DEF Accept
<1> HIDE DEF d
<1>6. CASE d = <<>> /\ Done(c, rest) /\ UNCHANGED trailingTimer
  <2>1. Changes(c, Idle, rest)
    BY <1>6, DoneChanges
  <2>2. TakesUp(Idle, r, base, d)
    BY <1>1, <1>2, <1>4, <1>6 DEF TakesUp
  <2> QED
    BY <2>1, <2>2
<1>7. CASE r.final /\ trailingTimer' = 0 /\ PublishSpan(c, "final", r.seg, Nothing, rest)
  <2>1. Changes(c, K("final"), rest)
    BY <1>3, <1>7, PublishSpanChanges
  <2>2. TakesUp(K("final"), r, base, d)
    <3> HIDE DEF K
    <3> QED
      BY <1>1, <1>2, <1>4, <1>7 DEF TakesUp
  <2> QED
    BY <2>1, <2>2
<1>8. CASE ~r.final /\ PublishSpan(c, "interim", r.seg, Nothing, rest) /\ UNCHANGED trailingTimer
  <2>1. Changes(c, K("interim"), rest)
    BY <1>3, <1>8, PublishSpanChanges
  <2>2. TakesUp(K("interim"), r, base, d)
    <3> HIDE DEF K
    <3> QED
      BY <1>1, <1>2, <1>4, <1>8 DEF TakesUp
  <2> QED
    BY <2>1, <2>2
<1>9. CASE ~r.final /\ trailingTimer' = r.seg /\ Done(c, rest)
  <2>1. Changes(c, Idle, rest)
    BY <1>9, DoneChanges
  <2>2. TakesUp(Idle, r, base, d)
    BY <1>1, <1>2, <1>4, <1>9 DEF TakesUp
  <2> QED
    BY <2>1, <2>2
<1> QED
  BY <1>5, <1>6, <1>7, <1>8, <1>9

(* A result arrives: it waits for the flush of the segment before, or it is *)
(* taken up at once.                                                        *)
Waits(k, r) ==
    /\ Boundary(r) /\ queue # <<>>
    /\ k = [at |-> StartedAt, then |-> "boundary", seg |-> currentSegmentId, result |-> r]
    /\ UNCHANGED <<textVars, trailingTimer>>

LEMMA EmptyText == <<>> \in Texts
<1>1. <<>> \in [1 .. 0 -> Words] /\ 0 \in 0 .. MaxLength
  BY ChunkerAssumption
<1> QED
  BY <1>1 DEF Texts, BoundedSeq, SeqOf

LEMMA OnSttResultChanges ==
    ASSUME TypeOK, NEW c \in Calls, NEW r \in Results, r.words # <<>>,
           OnSttResult(c, r)
    PROVE  \E k : /\ Changes(c, k, ready)
                  /\ \/ k \in Underway /\ Waits(k, r)
                     \/ Boundary(r) /\ queue = <<>> /\ \E d : TakesUp(k, r, <<>>, d)
                     \/ ~Boundary(r) /\ \E d : TakesUp(k, r, text, d)
<1>1. CASE /\ Boundary(r) /\ queue # <<>>
           /\ PublishSpan(c, "boundary", currentSegmentId, r, ready)
           /\ UNCHANGED <<textVars, trailingTimer>>
  <2> DEFINE k == [at |-> StartedAt, then |-> "boundary", seg |-> currentSegmentId,
                   result |-> r]
  <2>1. currentSegmentId \in Segments
    BY <1>1, ChunkerAssumption DEF TypeOK, Boundary, Segments
  <2>2. k \in Underway /\ Changes(c, k, ready)
    BY <1>1, <2>1, PublishSpanChanges
  <2>3. Waits(k, r)
    BY <1>1 DEF Waits
  <2> QED
    BY <2>2, <2>3
<1>2. CASE Boundary(r) /\ queue = <<>> /\ Accept(c, r, Baseline, ready)
  BY <1>2, AcceptChanges, EmptyText DEF Baseline
<1>3. CASE ~Boundary(r) /\ Accept(c, r, text, ready)
  BY <1>3, AcceptChanges DEF TypeOK
<1> QED
  BY <1>1, <1>2, <1>3 DEF OnSttResult

LEMMA NewCallFree ==
    ASSUME FreeCalls # {}
    PROVE  NewCall \in Calls /\ call[NewCall] = Idle
<1>1. FreeCalls \in SUBSET Nat
  BY CallsFinite DEF FreeCalls
<1>2. NewCall \in FreeCalls
  BY <1>1, LeastChosen DEF NewCall
<1> QED
  BY <1>2 DEF FreeCalls

-----------------------------------------------------------------------------
(* A result arrives.                                                        *)
LEMMA HypothesisTyped ==
    ASSUME TypeOK, NEW s \in Segments, NEW f \in BOOLEAN, NEW r \in Hypotheses(s, f)
    PROVE  r \in Results /\ r.words # <<>> /\ r.seg = s
<1>1. heard[s].utt \in Nat /\ heard[s].words \in Texts
  BY DEF TypeOK
<1>2. PICK new \in ({Append(heard[s].words, w) : w \in Words} \cap Texts)
                     \cup {heard[s].words} :
        new # <<>> /\ r = [seg |-> s, utt |-> heard[s].utt, words |-> new, final |-> f]
  BY DEF Hypotheses
<1>3. new \in Texts
  BY <1>1, <1>2
<1> QED
  BY <1>1, <1>2, <1>3 DEF Results

LEMMA SpeaksTyped ==
    ASSUME TypeOK, NEW r \in Results, Speaks(r)
    PROVE  /\ heard' \in [Segments -> [utt : Nat, words : Texts]]
           /\ finals' \subseteq Tokens
<1>1. r.seg \in Segments /\ r.words \in Texts
  BY DEF Results
<1>2. /\ heard \in [Segments -> [utt : Nat, words : Texts]] /\ finals \subseteq Tokens
      /\ heard[r.seg].utt \in Nat /\ heard[r.seg] \in [utt : Nat, words : Texts]
  BY <1>1 DEF TypeOK
<1>3. /\ [utt |-> heard[r.seg].utt + 1, words |-> <<>>] \in [utt : Nat, words : Texts]
      /\ [heard[r.seg] EXCEPT !.words = r.words] \in [utt : Nat, words : Texts]
  BY <1>1, <1>2, EmptyText
<1>4. heard' \in [Segments -> [utt : Nat, words : Texts]]
  BY <1>1, <1>2, <1>3 DEF Speaks
<1>5. finals' \subseteq Tokens
  BY <1>2, TokensTyped DEF Speaks
<1> QED
  BY <1>4, <1>5

Quiet == \A d \in Calls : call[d].at \in {"idle", "start", "ensure"}

LEMMA NoneGoing ==
    ASSUME TypeOK, ReadyInv, ready = <<>>
    PROVE  \A d \in Calls : ~Going(call[d]) /\ call[d].at \in {"idle", "start"}
<1>1. \A d \in Calls : ~Going(call[d])
  BY DEF ReadyInv, Listed, In
<1>2. \A d \in Calls : call[d].at \in {"idle", "start", "ensure", "publish", "return"}
  BY CallCases DEF Idle, Underway
<1> QED
  BY <1>1, <1>2 DEF Going

Takes(c, r) ==
    /\ OnSttResult(c, r)
    /\ Warm' /\ Boundary(r) => publisherStarted /\ \A d \in Calls : call[d].at # "start"

LEMMA ResultShape ==
    ASSUME TypeOK, ReadyInv, NEW c \in Calls, NEW r \in Results,
           NEW differs \in BOOLEAN, NEW passes \in BOOLEAN, NEW more \in {0, r.seg},
           HandleInterim(c, r, differs, passes, more)
    PROVE  /\ Quiet /\ (AtRest \/ burst = r.seg) /\ burst' \in {0, r.seg}
           /\ Takes(c, r) \/ UNCHANGED <<textVars, trailingTimer, call, ready>>
           /\ UNCHANGED <<sentAge, publisherStarted, failures, spans>>
           /\ Warm' => Warm
<1> DEFINE ignored == Duplicate(r, differs)
           accepted == ~ignored /\ (r.final \/ passes)
<1>1. AtRest \/ burst = r.seg
  BY DEF HandleInterim
<1>2. Quiet
  <2>1. CASE AtRest
    BY <2>1, NoneGoing DEF AtRest, Quiet
  <2>2. CASE burst = r.seg
    <3>1. burst # 0
      BY <2>2, ChunkerAssumption DEF Results, Segments
    <3> QED
      BY <3>1 DEF ReadyInv, Quiet
  <2> QED
    BY <1>1, <2>1, <2>2
<1>3. odd' = odd \cup Oddities(r, ignored, accepted)
  BY DEF HandleInterim
<1>4. Warm' => Warm
  BY <1>3 DEF Warm
<1>5. ASSUME accepted, Boundary(r), ~publisherStarted \/ \E d \in Calls : call[d].at = "start"
      PROVE  ~Warm'
  <2>1. "cold" \in Oddities(r, ignored, accepted)
    BY <1>5 DEF Oddities
  <2> QED
    BY <1>3, <2>1 DEF Warm
<1>6. \/ accepted /\ OnSttResult(c, r)
      \/ ~accepted /\ UNCHANGED <<textVars, trailingTimer, call, ready>>
  BY DEF HandleInterim
<1>7. burst' \in {0, r.seg} /\ UNCHANGED <<sentAge, publisherStarted, failures, spans>>
  BY DEF HandleInterim
<1> HIDE DEF ignored, accepted
<1>8. CASE accepted /\ OnSttResult(c, r)
  BY <1>1, <1>2, <1>4, <1>5, <1>7, <1>8 DEF Takes
<1> QED
  BY <1>1, <1>2, <1>4, <1>6, <1>7, <1>8

LEMMA ResultTyped ==
    ASSUME TypeOK, ReadyInv, NEW c \in Calls, call[c] = Idle,
           NEW r \in Results, r.words # <<>>,
           NEW differs \in BOOLEAN, NEW passes \in BOOLEAN, NEW more \in {0, r.seg},
           HandleInterim(c, r, differs, passes, more)
    PROVE  TypeOK'
<1>1. r.seg \in Segments /\ r.words \in Texts
  BY DEF Results
<1>2. lastTextByKey' \in [Segments -> Texts]
  BY <1>1 DEF TypeOK, HandleInterim
<1>3. results' \in 0 .. MaxResults /\ burst' \in 0 .. MaxSegment
  BY <1>1, ChunkerAssumption DEF TypeOK, HandleInterim, Segments
<1>4. heard' \in [Segments -> [utt : Nat, words : Texts]] /\ finals' \subseteq Tokens
  <2>1. Speaks(r)
    BY DEF HandleInterim
  <2> QED
    BY <2>1, SpeaksTyped
<1>5. odd' \subseteq {"repeated", "overlapped", "resumed", "cold"}
  <2>1. odd' = odd \cup Oddities(r, Duplicate(r, differs),
                                 ~Duplicate(r, differs) /\ (r.final \/ passes))
    BY DEF HandleInterim
  <2>2. \A i, a : Oddities(r, i, a) \subseteq {"repeated", "overlapped", "resumed", "cold"}
    BY DEF Oddities
  <2> QED
    BY <2>1, <2>2 DEF TypeOK
<1>6. Takes(c, r) \/ UNCHANGED <<textVars, trailingTimer, call, ready>>
  BY ResultShape
<1>7. /\ text' \in Texts /\ currentSegmentId' \in 0 .. MaxSegment
      /\ queue' \in Seq(Tokens) /\ trailingTimer' \in 0 .. MaxSegment
      /\ call' \in [Calls -> CallStates] /\ ready' \in Seq(Calls)
  <2>1. CASE UNCHANGED <<textVars, trailingTimer, call, ready>>
    BY <2>1 DEF TypeOK, textVars, CallStates
  <2>2. CASE Takes(c, r)
    <3>1. PICK k : /\ Changes(c, k, ready)
                   /\ \/ k \in Underway /\ Waits(k, r)
                      \/ Boundary(r) /\ queue = <<>> /\ \E d : TakesUp(k, r, <<>>, d)
                      \/ ~Boundary(r) /\ \E d : TakesUp(k, r, text, d)
      BY <2>2, OnSttResultChanges DEF Takes
    <3>2. ~Going(call[c])
      BY DEF Going, Idle
    <3>3. Rest(call, c, ready)
      BY <3>2, RestOfQueue DEF ReadyInv
    <3>4. call' \in [Calls -> CallStates] /\ ready' \in Seq(Calls)
      BY <3>1, <3>3, ChangesFacts
    <3>5. CASE Waits(k, r)
      BY <3>4, <3>5 DEF Waits, TypeOK, textVars
    <3>6. CASE \E b, d : TakesUp(k, r, b, d)
      <4>1. PICK b, d : TakesUp(k, r, b, d)
        BY <3>6
      <4>2. queue' = queue \o d /\ d \in Seq(Tokens) /\ queue \in Seq(Tokens)
        BY <4>1 DEF TakesUp, TypeOK
      <4>3. queue' \in Seq(Tokens)
        BY <4>2, ConcatProperties
      <4>4. trailingTimer' \in {0, r.seg} \/ trailingTimer' = trailingTimer
        BY <4>1 DEF TakesUp
      <4>5. trailingTimer' \in 0 .. MaxSegment
        BY <1>1, <4>4, ChunkerAssumption DEF Segments, TypeOK
      <4>6. text' \in Texts /\ currentSegmentId' \in 0 .. MaxSegment
        BY <1>1, <4>1, ChunkerAssumption DEF TakesUp, Segments
      <4> QED
        BY <3>4, <4>3, <4>5, <4>6
    <3> QED
      BY <3>1, <3>5, <3>6
  <2> QED
    BY <1>6, <2>1, <2>2
<1>8. UNCHANGED <<sentAge, publisherStarted, failures, spans>>
  BY ResultShape
<1> QED
  BY <1>2, <1>3, <1>4, <1>5, <1>7, <1>8 DEF TypeOK, CallStates

LEMMA ResultReady ==
    ASSUME TypeOK, ReadyInv, NEW c \in Calls, call[c] = Idle,
           NEW r \in Results, r.words # <<>>,
           NEW differs \in BOOLEAN, NEW passes \in BOOLEAN, NEW more \in {0, r.seg},
           HandleInterim(c, r, differs, passes, more)
    PROVE  ReadyInv'
<1>1. Quiet /\ (Takes(c, r) \/ UNCHANGED <<textVars, trailingTimer, call, ready>>)
  BY ResultShape
<1>2. CASE UNCHANGED <<textVars, trailingTimer, call, ready>>
  BY <1>1, <1>2 DEF ReadyInv, Listed, Quiet
<1>3. CASE Takes(c, r)
  <2>1. PICK k : /\ Changes(c, k, ready)
                 /\ \/ k \in Underway /\ Waits(k, r)
                    \/ Boundary(r) /\ queue = <<>> /\ \E d : TakesUp(k, r, <<>>, d)
                    \/ ~Boundary(r) /\ \E d : TakesUp(k, r, text, d)
    BY <1>3, OnSttResultChanges DEF Takes
  <2>2. Rest(call, c, ready)
    BY RestOfQueue DEF ReadyInv, Going, Idle
  <2>3. /\ Listed(call', ready')
        /\ call'[c] = k /\ \A d \in Calls \ {c} : call'[d] = call[d]
    BY <2>1, <2>2, ChangesFacts
  <2>4. k.at \in {"idle", "start", "ensure"} /\ (Flushes(k) => k.result = r)
    BY <2>1 DEF Waits, TakesUp, StartedAt, Flushes, Idle
  <2>5. \A d \in Calls : call'[d].at \in {"idle", "start", "ensure"}
    BY <1>1, <2>3, <2>4 DEF Quiet
  <2>6. \A d \in Calls : Flushes(call'[d]) =>
           call'[d].result \in Results /\ call'[d].result.words # <<>>
    BY <2>3, <2>4 DEF ReadyInv
  <2> QED
    BY <2>3, <2>5, <2>6 DEF ReadyInv
<1> QED
  BY <1>1, <1>2, <1>3

LEMMA FlushGoes ==
    ASSUME TypeOK, WarmInv, Warm, NEW d \in Calls, Flushes(call[d])
    PROVE  FlushInv(call[d]) /\ Going(call[d])
<1>1. FlushInv(call[d])
  BY DEF WarmInv, BoundaryInv
<1>2. call[d].at \in {"start", "ensure", "publish", "return"} /\ call[d].at # "start"
  BY <1>1, CallCases DEF Underway, FlushInv
<1> QED
  BY <1>1, <1>2 DEF Going

(* At rest, no flush is under way.                                          *)
LEMMA NoFlush ==
    ASSUME TypeOK, ReadyInv, WarmInv, Warm, ready = <<>>
    PROVE  \A d \in Calls : ~Flushes(call[d])
BY NoneGoing, FlushGoes

LEMMA Joined ==
    ASSUME NEW q \in Seq(Tokens), NEW d \in Seq(Tokens), NEW s,
           \A i \in 1 .. Len(q) : q[i].seg = s, \A i \in 1 .. Len(d) : d[i].seg = s
    PROVE  \A i \in 1 .. Len(q \o d) : (q \o d)[i].seg = s
<1>1. /\ Len(q \o d) = Len(q) + Len(d) /\ Len(q) \in Nat /\ Len(d) \in Nat
      /\ \A i \in 1 .. Len(q) + Len(d) :
            (q \o d)[i] = IF i <= Len(q) THEN q[i] ELSE d[i - Len(q)]
  BY ConcatProperties
<1>2. ASSUME NEW i \in 1 .. Len(q) + Len(d) PROVE (q \o d)[i].seg = s
  <2>1. CASE i <= Len(q)
    BY <1>1, <2>1
  <2>2. CASE ~(i <= Len(q))
    <3>1. i - Len(q) \in 1 .. Len(d)
      BY <1>1, <2>2
    <3> QED
      BY <1>1, <2>2, <3>1
  <2> QED
    BY <2>1, <2>2
<1> QED
  BY <1>1, <1>2

(* A result that is not taken up.                                           *)
LEMMA NotTakenWarm ==
    ASSUME TypeOK, ReadyInv, WarmInv, Warm, Quiet, NEW r \in Results,
           AtRest \/ burst = r.seg, burst' \in {0, r.seg},
           UNCHANGED <<textVars, trailingTimer, call, ready, publisherStarted, spans>>
    PROVE  QueueInv' /\ TimerInv' /\ BoundaryInv' /\ SpanInv'
<1>1. r.seg # 0
  BY ChunkerAssumption DEF Results, Segments
<1>2. QueueInv /\ TimerInv /\ BoundaryInv /\ SpanInv
  BY DEF WarmInv
<1>3. QueueInv' /\ TimerInv' /\ SpanInv'
  BY <1>2 DEF QueueInv, TimerInv, SpanInv, textVars
<1>4. CASE AtRest
  <2>1. \A d \in Calls : ~Flushes(call[d]) /\ call[d].at \in {"idle", "start"}
    BY <1>4, NoFlush, NoneGoing DEF AtRest
  <2>2. \A d \in Calls : call[d] = Idle \/ call[d].at = "start"
    BY <2>1, CallCases
  <2> QED
    BY <1>2, <1>3, <2>1, <2>2 DEF BoundaryInv, Ordered
<1>5. CASE burst = r.seg
  <2>1. burst' # 0 => burst' = burst
    BY <1>5
  <2>2. ASSUME NEW d \in Calls, Flushes(call[d])' PROVE FlushInv(call[d])'
    <3>1. Flushes(call[d])
      BY <2>2 DEF Flushes
    <3>2. FlushInv(call[d])
      BY <1>2, <3>1 DEF BoundaryInv
    <3> QED
      BY <2>1, <3>2 DEF FlushInv, textVars, Flushes
  <2>3. Ordered(call, ready)'
    BY <1>2 DEF BoundaryInv, Ordered
  <2>4. burst' # 0 /\ burst' # currentSegmentId' =>
          \A d \in Calls : call'[d] = Idle \/ call'[d].at = "start" \/ Flushes(call'[d])
    BY <1>2, <2>1 DEF BoundaryInv, textVars
  <2> QED
    BY <1>3, <2>2, <2>3, <2>4 DEF BoundaryInv
<1> QED
  BY <1>4, <1>5

(* A result that waits for the flush of the segment before.                 *)
LEMMA WaitsWarm ==
    ASSUME TypeOK, ReadyInv, WarmInv, Warm, Quiet, NEW r \in Results,
           NEW c \in Calls, call[c] = Idle, NEW k, k \in Underway,
           Changes(c, k, ready), Waits(k, r),
           publisherStarted, \A d \in Calls : call[d].at # "start",
           AtRest \/ burst = r.seg, burst' \in {0, r.seg},
           UNCHANGED <<publisherStarted, spans>>
    PROVE  QueueInv' /\ TimerInv' /\ BoundaryInv' /\ SpanInv'
<1>1. QueueInv /\ TimerInv /\ BoundaryInv /\ SpanInv
  BY DEF WarmInv
<1>2. Rest(call, c, ready)
  BY RestOfQueue DEF ReadyInv, Going, Idle
<1>3. /\ call' \in [Calls -> CallStates]
      /\ call'[c] = k /\ \A d \in Calls \ {c} : call'[d] = call[d]
  BY <1>2, ChangesFacts
<1>4. /\ k.at = "ensure" /\ k.then = "boundary" /\ k.seg = currentSegmentId
      /\ k.result = r /\ Flushes(k) /\ Going(k) /\ k # Idle
  BY DEF Waits, StartedAt, Flushes, Going, Idle
<1>5. /\ queue # <<>> /\ currentSegmentId # 0 /\ currentSegmentId # r.seg
      /\ UNCHANGED <<text, currentSegmentId, queue, trailingTimer>>
  BY DEF Waits, Boundary, textVars
<1>6. r.seg # 0
  BY ChunkerAssumption DEF Results, Segments
<1>7. \A d \in Calls : Flushes(call[d]) =>
         call[d].at = "ensure" /\ FlushInv(call[d]) /\ call[d].result.seg = r.seg
  <2>1. ASSUME NEW d \in Calls, Flushes(call[d])
        PROVE  call[d].at = "ensure" /\ FlushInv(call[d]) /\ call[d].result.seg = r.seg
    <3>1. FlushInv(call[d]) /\ Going(call[d])
      BY <2>1, FlushGoes
    <3>2. call[d].at = "ensure"
      BY <3>1 DEF Quiet, Going
    <3>3. ~AtRest
      BY <2>1, NoFlush DEF AtRest
    <3> QED
      BY <3>1, <3>2, <3>3, <1>6 DEF FlushInv
  <2> QED
    BY <2>1
<1>8. \A d \in Calls : call[d] = Idle \/ Flushes(call[d])
  <2>1. CASE AtRest
    BY <2>1, NoneGoing, CallCases DEF AtRest
  <2>2. CASE burst = r.seg
    BY <1>1, <1>5, <1>6, <2>2 DEF BoundaryInv
  <2> QED
    BY <2>1, <2>2
<1>9. QueueInv'
  BY <1>1, <1>3, <1>4, <1>5 DEF QueueInv
<1>10. \A d \in Calls : call'[d].at # "start"
  BY <1>3, <1>4
<1>11. trailingTimer \in {0, currentSegmentId}
  <2>1. ASSUME NEW d \in Calls, call[d].then = "interim" PROVE FALSE
    BY <1>8, <2>1 DEF Idle, Flushes
  <2> QED
    BY <1>1, <2>1 DEF TimerInv
<1>12. TimerInv'
  BY <1>5, <1>11 DEF TimerInv
<1>13. \A d \in Calls : Flushes(call'[d]) =>
          call'[d].at = "ensure" /\ call'[d].seg = currentSegmentId /\ call'[d].result.seg = r.seg
  BY <1>3, <1>4, <1>7 DEF FlushInv
<1>14. \A d \in Calls : call'[d] = Idle \/ Flushes(call'[d])
  BY <1>3, <1>4, <1>8
<1>15. ASSUME NEW d \in Calls, Flushes(call[d])' PROVE FlushInv(call[d])'
  <2>1. Flushes(call'[d])
    BY <1>15 DEF Flushes
  <2>2. /\ call'[d].at = "ensure" /\ call'[d].seg = currentSegmentId'
        /\ call'[d].result.seg = r.seg
    BY <1>5, <1>13, <2>1
  <2>3. burst' # 0 => queue' # <<>> /\ call'[d].result.seg = burst'
    BY <1>5, <2>2
  <2>4. \A e \in Calls : Flushes(call'[e]) => call'[e].result.seg = call'[d].result.seg
    BY <1>13, <2>2
  <2>5. publisherStarted' /\ currentSegmentId' # r.seg
    BY <1>5
  <2> QED
    BY <1>10, <1>14, <2>2, <2>3, <2>4, <2>5 DEF FlushInv, Flushes
<1>16. Ordered(call', ready')
  <2>1. \A i \in 1 .. Len(ready) : Going(k) => Follows(call[ready[i]], k)
    <3>1. \A i \in 1 .. Len(ready) : ready[i] \in Calls
      BY DEF TypeOK
    <3> QED
      BY <1>4, <1>7, <3>1 DEF Follows
  <2>2. Ordered([call EXCEPT ![c] = k], IF Going(k) THEN Append(ready, c) ELSE ready)
    BY <1>1, <1>2, <2>1, OrderedAgain DEF BoundaryInv, TypeOK, CallStates
  <2> QED
    BY <2>2 DEF Changes
<1>17. BoundaryInv'
  BY <1>14, <1>15, <1>16 DEF BoundaryInv, Ordered, Flushes
<1>18. SpanInv'
  BY <1>1 DEF SpanInv
<1> QED
  BY <1>9, <1>12, <1>17, <1>18

(* A result that is taken up at once.                                       *)
LEMMA TakesUpWarm ==
    ASSUME TypeOK, ReadyInv, WarmInv, Warm, Quiet, NEW r \in Results,
           NEW c \in Calls, call[c] = Idle, NEW k, Changes(c, k, ready),
           \/ Boundary(r) /\ queue = <<>> /\ \E d : TakesUp(k, r, <<>>, d)
           \/ ~Boundary(r) /\ \E d : TakesUp(k, r, text, d),
           Boundary(r) => publisherStarted /\ \A d \in Calls : call[d].at # "start",
           AtRest \/ burst = r.seg, burst' \in {0, r.seg},
           UNCHANGED <<publisherStarted, spans>>
    PROVE  QueueInv' /\ TimerInv' /\ BoundaryInv' /\ SpanInv'
<1>1. QueueInv /\ TimerInv /\ BoundaryInv /\ SpanInv
  BY DEF WarmInv
<1>2. Rest(call, c, ready)
  BY RestOfQueue DEF ReadyInv, Going, Idle
<1>3. /\ call' \in [Calls -> CallStates]
      /\ call'[c] = k /\ \A d \in Calls \ {c} : call'[d] = call[d]
  BY <1>2, ChangesFacts
<1>4. r.seg # 0
  BY ChunkerAssumption DEF Results, Segments
<1>5. PICK b, e : TakesUp(k, r, b, e) /\ (Boundary(r) => b = <<>>)
  OBVIOUS
<1>6. \A d \in Calls : ~Flushes(call[d])
  <2>1. ASSUME NEW d \in Calls, Flushes(call[d]) PROVE FALSE
    <3>1. FlushInv(call[d]) /\ Going(call[d])
      BY <2>1, FlushGoes
    <3>2. call[d].at = "ensure"
      BY <3>1 DEF Quiet, Going
    <3>3. ~AtRest
      BY <2>1, NoFlush DEF AtRest
    <3>4. burst = r.seg /\ queue # <<>> /\ call[d].result.seg = r.seg /\ currentSegmentId # r.seg
      BY <1>4, <3>1, <3>2, <3>3 DEF FlushInv
    <3>5. currentSegmentId = 0
      BY <3>4 DEF Boundary
    <3> QED
      BY <1>1, <3>4, <3>5 DEF QueueInv
  <2> QED
    BY <2>1
<1>7. Boundary(r) => \A d \in Calls : call[d] = Idle
  <2>1. CASE AtRest
    BY <2>1, NoneGoing, CallCases DEF AtRest
  <2>2. CASE burst = r.seg
    BY <1>1, <1>4, <1>6, <2>2 DEF BoundaryInv, Boundary
  <2> QED
    BY <2>1, <2>2
<1>8. /\ \A d \in Calls : call[d] = Idle \/ call[d].seg = r.seg
      /\ \A i \in 1 .. Len(queue) : queue[i].seg = r.seg
  <2>1. CASE Boundary(r)
    BY <1>7, <2>1
  <2>2. CASE currentSegmentId = 0
    BY <1>1, <2>2 DEF QueueInv
  <2>3. CASE currentSegmentId = r.seg
    BY <1>1, <1>6, <2>3 DEF QueueInv
  <2> QED
    BY <2>1, <2>2, <2>3 DEF Boundary
<1>9. k = Idle \/ (k.at = StartedAt /\ k.then \in {"final", "interim"} /\ k.seg = r.seg)
  BY <1>5 DEF TakesUp
<1>10. currentSegmentId' = r.seg /\ queue' = queue \o e
  BY <1>5 DEF TakesUp
<1>11. \A i \in 1 .. Len(queue') : queue'[i].seg = r.seg
  BY <1>5, <1>8, <1>10, Joined, SMTT(20) DEF TakesUp, TypeOK
<1>12. \A d \in Calls : call'[d] = Idle \/ call'[d].seg = r.seg
  BY <1>3, <1>8, <1>9
<1>13. QueueInv'
  BY <1>4, <1>10, <1>11, <1>12 DEF QueueInv
<1>14. \A d \in Calls : ~Flushes(call'[d])
  BY <1>3, <1>6, <1>9 DEF Flushes, Idle
<1>15. TimerInv'
  <2>1. CASE Boundary(r)
    <3>1. trailingTimer' \in {0, r.seg} \/ k.then = "interim"
      BY <1>5, <2>1 DEF TakesUp
    <3>2. \A d \in Calls : call'[d].at # "start"
      BY <1>3, <1>9, <2>1 DEF StartedAt, Idle
    <3>3. publisherStarted' /\ (trailingTimer' \in {0, currentSegmentId'} \/ call'[c].then = "interim")
      BY <1>3, <1>10, <2>1, <3>1
    <3> QED
      BY <3>2, <3>3 DEF TimerInv
  <2>2. CASE ~Boundary(r)
    <3>1. trailingTimer \in {0, currentSegmentId} => trailingTimer' \in {0, r.seg}
      <4>1. currentSegmentId \in {0, r.seg}
        BY <2>2 DEF Boundary
      <4>2. trailingTimer' \in {0, r.seg} \/ trailingTimer' = trailingTimer
        BY <1>5 DEF TakesUp
      <4> QED
        BY <4>1, <4>2
    <3>2. ASSUME NEW d \in Calls, call[d].then = "interim", call[d].at # "start"
          PROVE  call'[d].then = "interim" /\ call'[d].at # "start"
      BY <1>3, <3>2 DEF Idle
    <3>3. ASSUME ~publisherStarted' \/ \E d \in Calls : call'[d].at = "start"
          PROVE  ~publisherStarted \/ \E d \in Calls : call[d].at = "start"
      BY <1>3, <1>9, <3>3 DEF StartedAt, Idle
    <3> QED
      BY <1>1, <1>10, <3>1, <3>2, <3>3 DEF TimerInv
  <2> QED
    BY <2>1, <2>2
<1>16. BoundaryInv'
  <2>1. Ordered(call, ready)'
    <3>1. Listed(call', ready')
      BY <1>2, ChangesFacts
    <3>2. \A i \in 1 .. Len(ready') : ready'[i] \in Calls
      BY <3>1 DEF Listed
    <3> QED
      BY <1>14, <3>2 DEF Ordered, Follows, Flushes
  <2> QED
    BY <1>10, <1>14, <2>1 DEF BoundaryInv, Flushes
<1>17. SpanInv'
  BY <1>1 DEF SpanInv
<1> QED
  BY <1>13, <1>15, <1>16, <1>17

LEMMA ResultWarm ==
    ASSUME TypeOK, ReadyInv, WarmInv, NEW c \in Calls, call[c] = Idle,
           NEW r \in Results, r.words # <<>>,
           NEW differs \in BOOLEAN, NEW passes \in BOOLEAN, NEW more \in {0, r.seg},
           HandleInterim(c, r, differs, passes, more)
    PROVE  WarmInv'
<1> SUFFICES ASSUME Warm' PROVE QueueInv' /\ TimerInv' /\ BoundaryInv' /\ SpanInv'
  BY DEF WarmInv
<1>1. /\ Quiet /\ (AtRest \/ burst = r.seg) /\ burst' \in {0, r.seg}
      /\ Takes(c, r) \/ UNCHANGED <<textVars, trailingTimer, call, ready>>
      /\ UNCHANGED <<sentAge, publisherStarted, failures, spans>>
      /\ Warm
  BY ResultShape
<1>2. CASE UNCHANGED <<textVars, trailingTimer, call, ready>>
  BY <1>1, <1>2, NotTakenWarm
<1>3. CASE Takes(c, r)
  <2>1. PICK k : /\ Changes(c, k, ready)
                 /\ \/ k \in Underway /\ Waits(k, r)
                    \/ Boundary(r) /\ queue = <<>> /\ \E d : TakesUp(k, r, <<>>, d)
                    \/ ~Boundary(r) /\ \E d : TakesUp(k, r, text, d)
    BY <1>3, OnSttResultChanges DEF Takes
  <2>2. Boundary(r) => publisherStarted /\ \A d \in Calls : call[d].at # "start"
    BY <1>3 DEF Takes
  <2>3. CASE k \in Underway /\ Waits(k, r)
    BY <1>1, <2>1, <2>2, <2>3, WaitsWarm DEF Waits
  <2>4. CASE \/ Boundary(r) /\ queue = <<>> /\ \E d : TakesUp(k, r, <<>>, d)
             \/ ~Boundary(r) /\ \E d : TakesUp(k, r, text, d)
    BY <1>1, <2>1, <2>2, <2>4, TakesUpWarm
  <2> QED
    BY <2>1, <2>3, <2>4
<1> QED
  BY <1>1, <1>2, <1>3

-----------------------------------------------------------------------------
(* A call goes on, from the start of the publisher to its return.           *)
Moves(c, k, rest) ==
    /\ call[c] # Idle /\ Rest(call, c, rest) /\ Changes(c, k, rest)
    /\ k \in Underway /\ k.at \in {"publish", "return"}
    /\ k.then = call[c].then /\ k.seg = call[c].seg /\ k.result = call[c].result

NothingSent == UNCHANGED <<queue, sentAge, spans>>

LEMMA AfterStartMoves ==
    ASSUME TypeOK, NEW c \in Calls, call[c] # Idle, NEW rest, Rest(call, c, rest),
           AfterStart(c, rest)
    PROVE  \E k : /\ Moves(c, k, rest)
                  /\ \/ k.at = "return" /\ ~Flushes(call[c]) /\ NothingSent
                     \/ k.at = "publish" /\ Sends(c)
<1>1. CASE Skips(c) /\ GoesOn(c, "return", rest) /\ NothingSent
  <2>1. ~Flushes(call[c])
    BY <1>1 DEF Skips, Forced, Flushes
  <2> QED
    BY <1>1, <2>1, GoesOnChanges DEF Moves
<1>2. CASE Sends(c) /\ GoesOn(c, "publish", rest)
  BY <1>2, GoesOnChanges DEF Moves
<1> QED
  BY <1>1, <1>2 DEF AfterStart, NothingSent

LEMMA FunctionIsSequence ==
    ASSUME NEW T, NEW n \in Nat, NEW f \in [1 .. n -> T]
    PROVE  f \in Seq(T)
OBVIOUS

LEMMA SendsTyped ==
    ASSUME TypeOK, NEW c \in Calls, call[c] # Idle, Sends(c)
    PROVE  /\ queue' \in Seq(Tokens) /\ sentAge' \in {"rapid", "fresh", "old"}
           /\ spans' \in Seq([under : Segments, token : Tokens])
<1> DEFINE m == [i \in 1 .. Len(queue) |-> [under |-> call[c].seg, token |-> queue[i]]]
<1>1. call[c].seg \in Segments /\ queue \in Seq(Tokens) /\ Len(queue) \in Nat
  BY CallCases DEF TypeOK, Underway
<1>2. m \in Seq([under : Segments, token : Tokens])
  <2>1. \A i \in 1 .. Len(queue) : queue[i] \in Tokens
    BY <1>1
  <2>2. m \in [1 .. Len(queue) -> [under : Segments, token : Tokens]]
    BY <1>1, <2>1
  <2> DEFINE n == Len(queue)
  <2>3. n \in Nat /\ m \in [1 .. n -> [under : Segments, token : Tokens]]
    BY <1>1, <2>2
  <2> HIDE DEF m, n
  <2> QED
    BY <2>3, FunctionIsSequence
<1>3. spans' = spans \o m /\ queue' = <<>> /\ sentAge' = "rapid"
  BY DEF Sends
<1> HIDE DEF m
<1>4. spans' \in Seq([under : Segments, token : Tokens])
  BY <1>2, <1>3, ConcatProperties DEF TypeOK
<1> QED
  BY <1>3, <1>4

LEMMA SendsSpans ==
    ASSUME TypeOK, NEW c \in Calls, call[c] # Idle, Sends(c), SpanInv,
           \A i \in 1 .. Len(queue) : queue[i].seg = call[c].seg
    PROVE  SpanInv'
<1> DEFINE m == [i \in 1 .. Len(queue) |-> [under |-> call[c].seg, token |-> queue[i]]]
<1>1. queue \in Seq(Tokens) /\ Len(queue) \in Nat /\ spans \in Seq([under : Segments, token : Tokens])
  BY DEF TypeOK
<1>2. Len(m) = Len(queue) /\ \A i \in 1 .. Len(queue) : m[i].token.seg = m[i].under
  BY <1>1
<1>3. m \in Seq([under : {call[c].seg}, token : Tokens])
  <2>1. \A i \in 1 .. Len(queue) : queue[i] \in Tokens
    BY <1>1
  <2>2. m \in [1 .. Len(queue) -> [under : {call[c].seg}, token : Tokens]]
    BY <1>1, <2>1
  <2> DEFINE n == Len(queue)
  <2>3. n \in Nat /\ m \in [1 .. n -> [under : {call[c].seg}, token : Tokens]]
    BY <1>1, <2>2
  <2> HIDE DEF m, n
  <2> QED
    BY <2>3, FunctionIsSequence
<1>4. spans' = spans \o m
  BY DEF Sends
<1> HIDE DEF m
<1>5. /\ Len(spans \o m) = Len(spans) + Len(m) /\ Len(spans) \in Nat /\ Len(m) \in Nat
      /\ \A i \in 1 .. Len(spans) + Len(m) :
            (spans \o m)[i] = IF i <= Len(spans) THEN spans[i] ELSE m[i - Len(spans)]
  BY <1>1, <1>3, ConcatProperties
<1>6. ASSUME NEW i \in 1 .. Len(spans') PROVE spans'[i].token.seg = spans'[i].under
  <2>1. CASE i <= Len(spans)
    <3>1. i \in 1 .. Len(spans) /\ spans'[i] = spans[i]
      BY <1>4, <1>5, <2>1
    <3> QED
      BY <3>1 DEF SpanInv
  <2>2. CASE ~(i <= Len(spans))
    <3>1. i - Len(spans) \in 1 .. Len(m) /\ spans'[i] = m[i - Len(spans)]
      BY <1>4, <1>5, <2>2
    <3> QED
      BY <1>2, <3>1
  <2> QED
    BY <2>1, <2>2
<1> QED
  BY <1>6 DEF SpanInv

LEMMA MovesReady ==
    ASSUME TypeOK, ReadyInv, NEW c \in Calls, NEW k, NEW rest, Moves(c, k, rest),
           burst' = 0
    PROVE  /\ ReadyInv' /\ call' \in [Calls -> CallStates] /\ ready' \in Seq(Calls)
           /\ call'[c] = k /\ \A d \in Calls \ {c} : call'[d] = call[d]
<1>1. /\ call' \in [Calls -> CallStates] /\ ready' \in Seq(Calls) /\ Listed(call', ready')
      /\ call'[c] = k /\ \A d \in Calls \ {c} : call'[d] = call[d]
  BY ChangesFacts DEF Moves
<1>2. \A d \in Calls : call'[d].then = call[d].then /\ call'[d].result = call[d].result
  BY <1>1 DEF Moves
<1>3. \A d \in Calls : Flushes(call'[d]) =>
         call'[d].result \in Results /\ call'[d].result.words # <<>>
  BY <1>2 DEF ReadyInv, Flushes
<1>4. ReadyInv'
  BY <1>1, <1>3 DEF ReadyInv
<1> QED
  BY <1>1, <1>4

LEMMA MovesWarm ==
    ASSUME TypeOK, ReadyInv, WarmInv, Warm, NEW c \in Calls, NEW k, NEW rest,
           Moves(c, k, rest), burst' = 0,
           UNCHANGED <<text, currentSegmentId, trailingTimer>>,
           publisherStarted => publisherStarted', queue' \in {queue, <<>>},
           SpanInv => SpanInv',
           Flushes(k) => queue' = <<>> \/ currentSegmentId = k.result.seg,
           \A i \in 1 .. Len(rest) : Follows(call[rest[i]], k),
           Ordered(call, rest)
    PROVE  QueueInv' /\ TimerInv' /\ BoundaryInv' /\ SpanInv'
<1>1. QueueInv /\ TimerInv /\ BoundaryInv /\ SpanInv
  BY DEF WarmInv
<1>2. /\ call'[c] = k /\ \A d \in Calls \ {c} : call'[d] = call[d]
  BY MovesReady
<1>3. /\ k # Idle /\ call[c] # Idle /\ k.at \in {"publish", "return"}
      /\ k.then = call[c].then /\ k.seg = call[c].seg /\ k.result = call[c].result
  BY DEF Moves, Idle
<1>4. \A d \in Calls : /\ call'[d] = Idle <=> call[d] = Idle
                       /\ call'[d].then = call[d].then /\ call'[d].seg = call[d].seg
                       /\ call'[d].result = call[d].result
                       /\ call'[d].at = "start" => call[d].at = "start"
                       /\ call'[d].at = "ensure" => call[d].at = "ensure"
                       /\ Flushes(call'[d]) <=> Flushes(call[d])
  BY <1>2, <1>3 DEF Flushes
<1>5. QueueInv'
  <2>1. \A i \in 1 .. Len(queue') : queue'[i].seg = currentSegmentId'
    <3>1. CASE queue' = queue
      BY <1>1, <3>1 DEF QueueInv
    <3>2. CASE queue' = <<>>
      BY <3>2
    <3> QED
      BY <3>1, <3>2
  <2> QED
    BY <1>1, <1>4, <2>1 DEF QueueInv
<1>6. TimerInv'
  <2>1. ASSUME NEW d \in Calls, call[d].then = "interim", call[d].at # "start"
        PROVE  call'[d].then = "interim" /\ call'[d].at # "start"
    BY <1>4, <2>1
  <2> QED
    BY <1>1, <1>4, <2>1 DEF TimerInv
<1>7. ASSUME NEW d \in Calls, Flushes(call[d])' PROVE FlushInv(call[d])'
  <2>1. Flushes(call[d]) /\ FlushInv(call[d])
    BY <1>1, <1>4, <1>7 DEF BoundaryInv, Flushes
  <2>2. call'[d].at \in {"publish", "return"} =>
           queue' = <<>> \/ currentSegmentId' = call'[d].result.seg
    <3>1. CASE d = c
      BY <1>2, <1>3, <2>1, <3>1 DEF Flushes
    <3>2. CASE d # c
      BY <1>2, <2>1, <3>2 DEF FlushInv
    <3> QED
      BY <3>1, <3>2
  <2>3. call'[d].at = "ensure" =>
           call'[d].seg = currentSegmentId' /\ call'[d].result.seg # currentSegmentId'
    BY <1>4, <2>1 DEF FlushInv
  <2>4. \A e \in Calls : Flushes(call'[e]) => call'[e].result.seg = call'[d].result.seg
    BY <1>4, <2>1 DEF FlushInv
  <2>5. publisherStarted' /\ \A e \in Calls : call'[e].at # "start"
    BY <1>4, <2>1 DEF FlushInv
  <2>6. currentSegmentId' # call'[d].result.seg =>
           \A e \in Calls : call'[e] = Idle \/ Flushes(call'[e])
    BY <1>4, <2>1 DEF FlushInv
  <2> QED
    BY <2>2, <2>3, <2>4, <2>5, <2>6 DEF FlushInv, Flushes
<1>8. Ordered(call', ready')
  <2>1. Ordered([call EXCEPT ![c] = k], IF Going(k) THEN Append(rest, c) ELSE rest)
    BY OrderedAgain DEF TypeOK, CallStates, Moves
  <2> QED
    BY <2>1 DEF Moves, Changes
<1>9. BoundaryInv'
  BY <1>7, <1>8 DEF BoundaryInv, Ordered
<1> QED
  BY <1>1, <1>5, <1>6, <1>9

(* A call ends: of the new baseline, the order or the end of a span nothing *)
(* else depends, but an interim sets the timer.                             *)
LEMMA DoneWarm ==
    ASSUME TypeOK, ReadyInv, WarmInv, Warm, NEW c \in Calls, NEW rest,
           call[c].at = "return", ~Flushes(call[c]), Rest(call, c, rest),
           Ordered(call, rest), Changes(c, Idle, rest), burst' = 0,
           UNCHANGED <<currentSegmentId, queue, publisherStarted, spans>>,
           \/ call[c].then = "interim" /\ trailingTimer' = call[c].seg
           \/ call[c].then # "interim" /\ trailingTimer' = trailingTimer
    PROVE  QueueInv' /\ TimerInv' /\ BoundaryInv' /\ SpanInv'
<1>1. QueueInv /\ TimerInv /\ BoundaryInv /\ SpanInv
  BY DEF WarmInv
<1>2. /\ call'[c] = Idle /\ \A d \in Calls \ {c} : call'[d] = call[d]
      /\ Idle.at = "idle" /\ Idle.then = "none"
  BY ChangesFacts DEF Idle
<1>3. QueueInv'
  BY <1>1, <1>2 DEF QueueInv
<1>4. TimerInv'
  <2>1. CASE call[c].then = "interim" /\ trailingTimer' = call[c].seg
    <3>1. trailingTimer' = currentSegmentId
      BY <1>1, <1>2, <2>1 DEF QueueInv
    <3> QED
      BY <3>1 DEF TimerInv
  <2>2. CASE call[c].then # "interim" /\ trailingTimer' = trailingTimer
    <3>1. ASSUME NEW d \in Calls, call[d].then = "interim", call[d].at # "start"
          PROVE  call'[d].then = "interim" /\ call'[d].at # "start"
      BY <1>2, <2>2, <3>1
    <3>2. \A d \in Calls : call'[d].at = "start" => call[d].at = "start"
      BY <1>2
    <3> QED
      BY <1>1, <2>2, <3>1, <3>2 DEF TimerInv
  <2> QED
    BY <2>1, <2>2
<1>5. \A d \in Calls : Flushes(call'[d]) => d # c /\ call'[d] = call[d] /\ Flushes(call[d])
  BY <1>2 DEF Flushes
<1>6. ASSUME NEW d \in Calls, Flushes(call[d])' PROVE FlushInv(call[d])'
  <2>1. d # c /\ call'[d] = call[d] /\ Flushes(call[d]) /\ FlushInv(call[d])
    BY <1>1, <1>5, <1>6 DEF BoundaryInv, Flushes
  <2>2. \A e \in Calls : Flushes(call'[e]) => call'[e].result.seg = call'[d].result.seg
    BY <1>5, <2>1 DEF FlushInv
  <2>3. publisherStarted' /\ \A e \in Calls : call'[e].at # "start"
    BY <1>2, <2>1 DEF FlushInv
  <2>4. currentSegmentId' # call'[d].result.seg =>
           \A e \in Calls : call'[e] = Idle \/ Flushes(call'[e])
    BY <1>2, <2>1 DEF FlushInv
  <2> QED
    BY <2>1, <2>2, <2>3, <2>4 DEF FlushInv, Flushes
<1>7. Ordered(call', ready')
  <2>1. \A i \in 1 .. Len(rest) : Going(Idle) => Follows(call[rest[i]], Idle)
    BY DEF Going, Idle
  <2>2. Ordered([call EXCEPT ![c] = Idle], IF Going(Idle) THEN Append(rest, c) ELSE rest)
    BY <2>1, OrderedAgain DEF TypeOK, CallStates
  <2> QED
    BY <2>2 DEF Changes
<1>8. BoundaryInv'
  BY <1>6, <1>7 DEF BoundaryInv, Ordered
<1> QED
  BY <1>1, <1>3, <1>4, <1>8 DEF SpanInv

(* A flush returns, and its result is taken up: the other flushes have      *)
(* published too, and their results are of the same segment.                *)
LEMMA FlushReturnsWarm ==
    ASSUME TypeOK, ReadyInv, WarmInv, Warm, burst = 0, burst' = 0,
           ready # <<>>, NEW c \in Calls, c = Head(ready),
           call[c].at = "return", Flushes(call[c]),
           NEW k, NEW d, Changes(c, k, Tail(ready)), TakesUp(k, call[c].result, <<>>, d),
           UNCHANGED <<publisherStarted, spans>>
    PROVE  QueueInv' /\ TimerInv' /\ BoundaryInv' /\ SpanInv'
<1> DEFINE r == call[c].result
           rest == Tail(ready)
<1>1. QueueInv /\ TimerInv /\ BoundaryInv /\ SpanInv /\ FlushInv(call[c])
  BY DEF WarmInv, BoundaryInv
<1>2. Rest(call, c, rest)
  BY RestAfterHead DEF ReadyInv
<1>3. /\ call'[c] = k /\ \A e \in Calls \ {c} : call'[e] = call[e]
      /\ Listed(call', ready')
  BY <1>2, ChangesFacts
<1>4. Ordered(call, rest) /\ \A i \in 1 .. Len(rest) : Follows(call[c], call[rest[i]])
  BY <1>1, OrderedTail DEF BoundaryInv, TypeOK
<1>5. r \in Results /\ r.seg # 0
  BY ChunkerAssumption DEF ReadyInv, Results, Segments
<1>6. /\ currentSegmentId' = r.seg /\ queue' = queue \o d
      /\ d \in Seq(Tokens) /\ \A i \in 1 .. Len(d) : d[i].seg = r.seg
      /\ k = Idle \/ (k.at = StartedAt /\ k.then \in {"final", "interim"} /\ k.seg = r.seg)
      /\ \/ trailingTimer' \in {0, r.seg}
         \/ trailingTimer' = trailingTimer /\ k.then = "interim"
  BY DEF TakesUp
<1>7. publisherStarted /\ \A e \in Calls : call[e].at # "start"
  BY <1>1 DEF FlushInv
<1>8. k = Idle \/ (k.at = "ensure" /\ k.then \in {"final", "interim"} /\ k.seg = r.seg)
  BY <1>6, <1>7 DEF StartedAt
<1>9. ASSUME NEW e \in Calls, e # c, Flushes(call[e])
      PROVE  call[e].at = "return" /\ FlushInv(call[e]) /\ call[e].result.seg = r.seg
  <2>1. FlushInv(call[e]) /\ Going(call[e])
    BY <1>9, FlushGoes
  <2>2. PICK i \in 1 .. Len(rest) : rest[i] = e
    BY <1>2, <1>9, <2>1 DEF Rest, In
  <2>3. Follows(call[c], call[e])
    BY <1>4, <2>2
  <2> QED
    BY <1>1, <1>9, <2>1, <2>3 DEF Follows, FlushInv
<1>10. \A e \in Calls \ {c} : call[e] = Idle \/ Flushes(call[e]) \/ call[e].seg = r.seg
  BY <1>1 DEF QueueInv, FlushInv
<1>11. \A i \in 1 .. Len(queue) : queue[i].seg = r.seg
  BY <1>1 DEF QueueInv, FlushInv
<1>12. \A i \in 1 .. Len(queue') : queue'[i].seg = r.seg
  BY <1>6, <1>11, Joined DEF TypeOK
<1>13. \A e \in Calls : call'[e] = Idle \/ Flushes(call'[e]) \/ call'[e].seg = r.seg
  BY <1>3, <1>8, <1>10
<1>14. QueueInv'
  BY <1>5, <1>6, <1>12, <1>13 DEF QueueInv
<1>15. \A e \in Calls : call'[e].at # "start"
  BY <1>3, <1>7, <1>8 DEF Idle
<1>16. TimerInv'
  <2>1. trailingTimer' \in {0, currentSegmentId'} \/ call'[c].then = "interim"
    BY <1>3, <1>6
  <2> QED
    BY <1>7, <1>15, <2>1 DEF TimerInv
<1>17. ASSUME NEW e \in Calls, Flushes(call[e])' PROVE FlushInv(call[e])'
  <2>1. e # c /\ call'[e] = call[e] /\ Flushes(call[e])
    BY <1>3, <1>8, <1>17 DEF Flushes, Idle
  <2>2. call'[e].at = "return" /\ call'[e].result.seg = currentSegmentId'
    BY <1>6, <1>9, <2>1
  <2>3. \A g \in Calls : Flushes(call'[g]) => call'[g].result.seg = r.seg
    BY <1>3, <1>8, <1>9 DEF Flushes, Idle
  <2> QED
    BY <1>6, <1>7, <1>15, <2>2, <2>3 DEF FlushInv, Flushes
<1>18. Ordered(call', ready')
  <2>1. \A i \in 1 .. Len(rest) : Going(k) => Follows(call[rest[i]], k)
    BY <1>8 DEF Follows, Flushes, Idle
  <2>2. Ordered([call EXCEPT ![c] = k], IF Going(k) THEN Append(rest, c) ELSE rest)
    BY <1>2, <1>4, <2>1, OrderedAgain DEF TypeOK, CallStates, Changes
  <2> QED
    BY <2>2 DEF Changes
<1>19. BoundaryInv'
  BY <1>17, <1>18 DEF BoundaryInv, Ordered
<1> QED
  BY <1>1, <1>14, <1>16, <1>19 DEF SpanInv

LEMMA EnsureStep ==
    ASSUME IInv, NEW c \in Calls, Resume(c), call[c].at = "ensure",
           AfterStart(c, Tail(ready)), UNCHANGED <<text, currentSegmentId, trailingTimer>>
    PROVE  IInv'
<1> USE DEF IInv
<1>1. /\ burst = 0 /\ ready # <<>> /\ Head(ready) = c
      /\ UNCHANGED <<lastTextByKey, heard, finals, results, publisherStarted, burst,
                     failures, odd>>
  BY DEF Resume, gateVars
<1>2. Rest(call, c, Tail(ready)) /\ call[c] # Idle
  BY <1>1, RestAfterHead DEF ReadyInv, Idle
<1>3. PICK k : /\ Moves(c, k, Tail(ready))
               /\ \/ k.at = "return" /\ ~Flushes(call[c]) /\ NothingSent
                  \/ k.at = "publish" /\ Sends(c)
  BY <1>2, AfterStartMoves
<1>4. ReadyInv' /\ call' \in [Calls -> CallStates] /\ ready' \in Seq(Calls)
  BY <1>1, <1>3, MovesReady
<1>5. /\ queue' \in Seq(Tokens) /\ sentAge' \in {"rapid", "fresh", "old"}
      /\ spans' \in Seq([under : Segments, token : Tokens])
  BY <1>2, <1>3, SendsTyped DEF NothingSent, TypeOK
<1>6. TypeOK'
  BY <1>1, <1>4, <1>5 DEF TypeOK, CallStates
<1>7. ASSUME Warm PROVE QueueInv' /\ TimerInv' /\ BoundaryInv' /\ SpanInv'
  <2>1. QueueInv /\ BoundaryInv /\ ready \in Seq(Calls)
    BY <1>7 DEF WarmInv, TypeOK
  <2>2. Ordered(call, Tail(ready)) /\ \A i \in 1 .. Len(Tail(ready)) : Follows(call[c], call[Tail(ready)[i]])
    BY <1>1, <2>1, OrderedTail DEF BoundaryInv
  <2>3. Flushes(k) <=> Flushes(call[c])
    BY <1>3 DEF Moves, Flushes
  <2>4. \A i \in 1 .. Len(Tail(ready)) : Follows(call[Tail(ready)[i]], k)
    <3>1. ASSUME NEW i \in 1 .. Len(Tail(ready)) PROVE Follows(call[Tail(ready)[i]], k)
      <4>1. Follows(call[c], call[Tail(ready)[i]])
        BY <2>2
      <4>2. CASE ~Flushes(k)
        BY <4>2 DEF Follows
      <4>3. CASE Flushes(k) /\ Flushes(call[Tail(ready)[i]])
        <5>1. k.at = "publish" /\ call[Tail(ready)[i]].at \in {"ensure", "publish"}
          BY <1>3, <2>3, <4>1, <4>3 DEF Follows
        <5> QED
          BY <5>1 DEF Follows
      <4> QED
        BY <4>2, <4>3 DEF Follows
    <3> QED
      BY <3>1
  <2>5. call[c].seg = currentSegmentId
    <3>1. CASE Flushes(call[c])
      BY <1>7, <3>1, FlushGoes DEF FlushInv
    <3> QED
      BY <1>2, <2>1, <3>1 DEF QueueInv
  <2>6. SpanInv => SpanInv'
    <3>1. CASE NothingSent
      BY <3>1 DEF NothingSent, SpanInv
    <3>2. CASE Sends(c)
      BY <1>2, <2>1, <2>5, <3>2, SendsSpans DEF QueueInv
    <3> QED
      BY <1>3, <3>1, <3>2
  <2>7. queue' \in {queue, <<>>} /\ (Flushes(k) => queue' = <<>>)
    BY <1>3, <2>3 DEF NothingSent, Sends
  <2> QED
    BY <1>1, <1>3, <1>7, <2>2, <2>4, <2>6, <2>7, MovesWarm
<1> QED
  BY <1>1, <1>4, <1>6, <1>7 DEF WarmInv, Warm

LEMMA PublishStep ==
    ASSUME IInv, NEW c \in Calls, Resume(c), call[c].at = "publish",
           GoesOn(c, "return", Tail(ready)),
           UNCHANGED <<textVars, sentAge, spans, trailingTimer>>
    PROVE  IInv'
<1> USE DEF IInv
<1>1. /\ burst = 0 /\ ready # <<>> /\ Head(ready) = c
      /\ UNCHANGED <<lastTextByKey, heard, finals, results, publisherStarted, burst,
                     failures, odd, text, currentSegmentId, queue>>
  BY DEF Resume, gateVars, textVars
<1>2. Rest(call, c, Tail(ready)) /\ call[c] # Idle
  BY <1>1, RestAfterHead DEF ReadyInv, Idle
<1>3. PICK k : Moves(c, k, Tail(ready)) /\ k.at = "return"
  BY <1>2, GoesOnChanges DEF Moves
<1>4. ReadyInv' /\ call' \in [Calls -> CallStates] /\ ready' \in Seq(Calls)
  BY <1>1, <1>3, MovesReady
<1>6. TypeOK'
  BY <1>1, <1>4 DEF TypeOK, CallStates
<1>7. ASSUME Warm PROVE QueueInv' /\ TimerInv' /\ BoundaryInv' /\ SpanInv'
  <2>1. BoundaryInv /\ ready \in Seq(Calls)
    BY <1>7 DEF WarmInv, TypeOK
  <2>2. Ordered(call, Tail(ready)) /\ \A i \in 1 .. Len(Tail(ready)) : Follows(call[c], call[Tail(ready)[i]])
    BY <1>1, <2>1, OrderedTail DEF BoundaryInv
  <2>3. Flushes(k) <=> Flushes(call[c])
    BY <1>3 DEF Moves, Flushes
  <2>4. \A i \in 1 .. Len(Tail(ready)) : Follows(call[Tail(ready)[i]], k)
    <3>1. ASSUME NEW i \in 1 .. Len(Tail(ready)) PROVE Follows(call[Tail(ready)[i]], k)
      <4>1. Follows(call[c], call[Tail(ready)[i]])
        BY <2>2
      <4>3. CASE Flushes(k) /\ Flushes(call[Tail(ready)[i]])
        <5>1. k.at = "return" /\ call[Tail(ready)[i]].at \in {"publish", "return"}
          BY <1>3, <2>3, <4>1, <4>3 DEF Follows
        <5> QED
          BY <5>1 DEF Follows
      <4> QED
        BY <4>3 DEF Follows
    <3> QED
      BY <3>1
  <2>5. SpanInv => SpanInv'
    BY DEF SpanInv
  <2>6. Flushes(k) => queue' = <<>> \/ currentSegmentId = k.result.seg
    <3>1. ASSUME Flushes(k) PROVE queue' = <<>> \/ currentSegmentId = k.result.seg
      <4>1. FlushInv(call[c])
        BY <1>7, <2>3, <3>1, FlushGoes
      <4> QED
        BY <1>1, <1>3, <4>1 DEF FlushInv, Moves
    <3> QED
      BY <3>1
  <2> QED
    BY <1>1, <1>3, <1>7, <2>2, <2>4, <2>5, <2>6, MovesWarm
<1> QED
  BY <1>1, <1>4, <1>6, <1>7 DEF WarmInv, Warm

LEMMA ReturnStep ==
    ASSUME IInv, NEW c \in Calls, Resume(c), call[c].at = "return",
           Returns(c, Tail(ready)), UNCHANGED <<sentAge, spans>>
    PROVE  IInv'
<1> USE DEF IInv
<1> DEFINE rest == Tail(ready)
<1>1. /\ burst = 0 /\ ready # <<>> /\ Head(ready) = c
      /\ UNCHANGED <<lastTextByKey, heard, finals, results, publisherStarted, burst,
                     failures, odd>>
  BY DEF Resume, gateVars
<1>2. Rest(call, c, rest) /\ call[c] # Idle
  BY <1>1, RestAfterHead DEF ReadyInv, Idle
<1>3. call[c] \in Underway /\ call[c].seg \in Segments
  BY <1>2, CallCases DEF Underway
<1>4. Warm => Ordered(call, rest)
  BY <1>1, OrderedTail DEF BoundaryInv, WarmInv, TypeOK
<1> HIDE DEF rest
<1>5. CASE Flushes(call[c])
  <2>1. call[c].result \in Results /\ call[c].result.words # <<>>
    BY <1>5 DEF ReadyInv
  <2>2. Accept(c, call[c].result, <<>>, rest)
    BY <1>5 DEF Returns, Flushes, Baseline, rest
  <2>3. PICK k, d : Changes(c, k, rest) /\ TakesUp(k, call[c].result, <<>>, d)
    BY <2>1, <2>2, AcceptChanges, EmptyText
  <2>4. /\ call' \in [Calls -> CallStates] /\ ready' \in Seq(Calls) /\ Listed(call', ready')
        /\ call'[c] = k /\ \A e \in Calls \ {c} : call'[e] = call[e]
    BY <1>2, <2>3, ChangesFacts
  <2>5. ~Flushes(k)
    BY <2>3 DEF TakesUp, Flushes, Idle
  <2>6. ReadyInv'
    <3>1. \A e \in Calls : Flushes(call'[e]) =>
             call'[e].result \in Results /\ call'[e].result.words # <<>>
      BY <2>4, <2>5 DEF ReadyInv
    <3> QED
      BY <1>1, <2>4, <3>1 DEF ReadyInv
  <2>7. call[c].result.seg \in Segments /\ call[c].result.words \in Texts
    BY <2>1 DEF Results
  <2>8. queue' \in Seq(Tokens)
    BY <2>3, ConcatProperties DEF TakesUp, TypeOK
  <2>9. trailingTimer' \in 0 .. MaxSegment
    <3>1. trailingTimer' \in {0, call[c].result.seg} \/ trailingTimer' = trailingTimer
      BY <2>3 DEF TakesUp
    <3> QED
      BY <2>7, <3>1, ChunkerAssumption DEF Segments, TypeOK
  <2>10. text' \in Texts /\ currentSegmentId' \in 0 .. MaxSegment
    BY <2>3, <2>7, ChunkerAssumption DEF TakesUp, Segments
  <2>11. TypeOK'
    BY <1>1, <2>4, <2>8, <2>9, <2>10 DEF TypeOK, CallStates
  <2>12. ASSUME Warm PROVE QueueInv' /\ TimerInv' /\ BoundaryInv' /\ SpanInv'
    BY <1>1, <1>5, <2>3, <2>12, FlushReturnsWarm DEF rest
  <2> QED
    BY <1>1, <2>6, <2>11, <2>12 DEF WarmInv, Warm
<1>6. CASE ~Flushes(call[c])
  <2>1. /\ Done(c, rest) /\ text' \in {text, <<>>}
        /\ UNCHANGED <<currentSegmentId, queue>>
        /\ \/ call[c].then = "interim" /\ trailingTimer' = call[c].seg
           \/ call[c].then # "interim" /\ trailingTimer' = trailingTimer
    BY <1>6 DEF Returns, Flushes, Baseline, textVars, rest
  <2>2. Changes(c, Idle, rest)
    BY <2>1, DoneChanges
  <2>3. /\ call' \in [Calls -> CallStates] /\ ready' \in Seq(Calls) /\ Listed(call', ready')
        /\ call'[c] = Idle /\ \A e \in Calls \ {c} : call'[e] = call[e]
    BY <1>2, <2>2, ChangesFacts
  <2>4. ReadyInv'
    <3>1. ~Flushes(Idle)
      BY DEF Flushes, Idle
    <3>2. \A e \in Calls : Flushes(call'[e]) =>
             call'[e].result \in Results /\ call'[e].result.words # <<>>
      BY <2>3, <3>1 DEF ReadyInv
    <3> QED
      BY <1>1, <2>3, <3>2 DEF ReadyInv
  <2>5. text' \in Texts /\ trailingTimer' \in 0 .. MaxSegment
    BY <1>3, <2>1, EmptyText, ChunkerAssumption DEF TypeOK, Segments
  <2>6. TypeOK'
    BY <1>1, <2>1, <2>3, <2>5 DEF TypeOK, CallStates
  <2>7. ASSUME Warm PROVE QueueInv' /\ TimerInv' /\ BoundaryInv' /\ SpanInv'
    BY <1>1, <1>2, <1>4, <1>6, <2>1, <2>2, <2>7, DoneWarm
  <2> QED
    BY <1>1, <2>4, <2>6, <2>7 DEF WarmInv, Warm
<1> QED
  BY <1>5, <1>6

LEMMA ResumeStep ==
    ASSUME IInv, NEW c \in Calls, Resume(c)
    PROVE  IInv'
<1>1. CASE /\ call[c].at = "ensure"
           /\ AfterStart(c, Tail(ready)) /\ UNCHANGED <<text, currentSegmentId, trailingTimer>>
  BY <1>1, EnsureStep
<1>2. CASE /\ call[c].at = "publish" /\ GoesOn(c, "return", Tail(ready))
           /\ UNCHANGED <<textVars, sentAge, spans, trailingTimer>>
  BY <1>2, PublishStep
<1>3. CASE /\ call[c].at = "return"
           /\ Returns(c, Tail(ready)) /\ UNCHANGED <<sentAge, spans>>
  BY <1>3, ReturnStep
<1> QED
  BY <1>1, <1>2, <1>3 DEF Resume

-----------------------------------------------------------------------------
(* The start of the publisher returns, or fails: no flush waits for it.     *)
LEMMA StartMoves ==
    ASSUME IInv, Warm, NEW c \in Calls, call[c].at = "start", AtRest,
           NEW k, Moves(c, k, ready), burst' = 0,
           UNCHANGED <<text, currentSegmentId, trailingTimer>>,
           publisherStarted => publisherStarted',
           NothingSent \/ Sends(c)
    PROVE  QueueInv' /\ TimerInv' /\ BoundaryInv' /\ SpanInv'
<1> USE DEF IInv
<1>1. QueueInv /\ BoundaryInv /\ ready = <<>>
  BY DEF WarmInv, AtRest
<1>2. ~Flushes(call[c]) /\ ~Flushes(k)
  BY <1>1, NoFlush DEF Moves, Flushes
<1>3. call[c] # Idle /\ call[c].seg = currentSegmentId
  BY <1>1, <1>2 DEF QueueInv, Moves
<1>4. SpanInv => SpanInv'
  <2>1. CASE NothingSent
    BY <2>1 DEF NothingSent, SpanInv
  <2>2. CASE Sends(c)
    BY <1>1, <1>3, <2>2, SendsSpans DEF QueueInv
  <2> QED
    BY <2>1, <2>2
<1>5. queue' \in {queue, <<>>}
  BY DEF NothingSent, Sends
<1>6. Ordered(call, ready) /\ \A i \in 1 .. Len(ready) : Follows(call[ready[i]], k)
  BY <1>1 DEF BoundaryInv
<1> QED
  BY <1>2, <1>4, <1>5, <1>6, MovesWarm

LEMMA StartReturnsStep ==
    ASSUME IInv, NEW c \in Calls, StartReturns(c)
    PROVE  IInv'
<1> USE DEF IInv
<1>1. /\ AtRest /\ call[c].at = "start" /\ publisherStarted' = TRUE
      /\ AfterStart(c, ready) /\ burst' = 0
      /\ UNCHANGED <<lastTextByKey, heard, finals, results, text, currentSegmentId,
                     trailingTimer, burst, failures, odd>>
  BY DEF StartReturns, gateVars, AtRest
<1>2. Rest(call, c, ready) /\ call[c] # Idle
  BY <1>1, RestOfQueue DEF ReadyInv, Idle, Going
<1>3. PICK k : /\ Moves(c, k, ready)
               /\ \/ k.at = "return" /\ ~Flushes(call[c]) /\ NothingSent
                  \/ k.at = "publish" /\ Sends(c)
  BY <1>1, <1>2, AfterStartMoves
<1>4. ReadyInv' /\ call' \in [Calls -> CallStates] /\ ready' \in Seq(Calls)
  BY <1>1, <1>3, MovesReady
<1>5. /\ queue' \in Seq(Tokens) /\ sentAge' \in {"rapid", "fresh", "old"}
      /\ spans' \in Seq([under : Segments, token : Tokens])
  BY <1>2, <1>3, SendsTyped DEF NothingSent, TypeOK
<1>6. TypeOK'
  BY <1>1, <1>4, <1>5 DEF TypeOK, CallStates
<1>7. ASSUME Warm PROVE QueueInv' /\ TimerInv' /\ BoundaryInv' /\ SpanInv'
  BY <1>1, <1>3, <1>7, StartMoves
<1> QED
  BY <1>1, <1>4, <1>6, <1>7 DEF WarmInv, Warm

LEMMA StartFailsStep ==
    ASSUME IInv, NEW c \in Calls, StartFails(c)
    PROVE  IInv'
<1> USE DEF IInv
<1>1. /\ AtRest /\ call[c].at = "start" /\ GoesOn(c, "return", ready)
      /\ failures < MaxFailures /\ failures' = failures + 1 /\ burst' = 0
      /\ UNCHANGED <<lastTextByKey, heard, finals, results, text, currentSegmentId,
                     queue, sentAge, trailingTimer, publisherStarted, burst, spans, odd>>
  BY DEF StartFails, gateVars, textVars, AtRest
<1>2. Rest(call, c, ready) /\ call[c] # Idle
  BY <1>1, RestOfQueue DEF ReadyInv, Idle, Going
<1>3. PICK k : Moves(c, k, ready)
  BY <1>1, <1>2, GoesOnChanges DEF Moves
<1>4. ReadyInv' /\ call' \in [Calls -> CallStates] /\ ready' \in Seq(Calls)
  BY <1>1, <1>3, MovesReady
<1>5. failures' \in 0 .. MaxFailures
  BY <1>1, ChunkerAssumption DEF TypeOK
<1>6. TypeOK'
  BY <1>1, <1>4, <1>5 DEF TypeOK, CallStates
<1>7. ASSUME Warm PROVE QueueInv' /\ TimerInv' /\ BoundaryInv' /\ SpanInv'
  BY <1>1, <1>3, <1>7, StartMoves DEF NothingSent
<1> QED
  BY <1>1, <1>4, <1>6, <1>7 DEF WarmInv, Warm

-----------------------------------------------------------------------------
(* The timer fires: at rest it is of the current segment.                   *)
LEMMA TimerFiresStep ==
    ASSUME IInv, TimerFires
    PROVE  IInv'
<1> USE DEF IInv
<1> DEFINE c == NewCall
           k == [at |-> StartedAt, then |-> "timer", seg |-> trailingTimer,
                 result |-> Nothing]
<1>1. /\ AtRest /\ ready = <<>> /\ burst = 0 /\ burst' = 0
      /\ trailingTimer # 0 /\ trailingTimer' = 0
      /\ c \in Calls /\ call[c] = Idle
      /\ UNCHANGED <<lastTextByKey, heard, finals, results, text, currentSegmentId, queue,
                     sentAge, publisherStarted, burst, failures, spans, odd>>
  BY NewCallFree DEF TimerFires, gateVars, textVars, AtRest
<1>2. \/ PublishSpan(c, "timer", trailingTimer, Nothing, ready)
      \/ UNCHANGED <<call, ready>>
  BY DEF TimerFires
<1> HIDE DEF c
<1>3. trailingTimer \in Segments
  BY <1>1, ChunkerAssumption DEF TypeOK, Segments
<1>4. Rest(call, c, ready)
  BY <1>1, RestOfQueue DEF ReadyInv, Going, Idle
<1>5. CASE UNCHANGED <<call, ready>>
  <2>1. TypeOK'
    BY <1>1, <1>5, ChunkerAssumption DEF TypeOK
  <2>2. ReadyInv'
    BY <1>1, <1>5 DEF ReadyInv
  <2>3. ASSUME Warm PROVE QueueInv' /\ TimerInv' /\ BoundaryInv' /\ SpanInv'
    <3>1. QueueInv /\ TimerInv /\ BoundaryInv /\ SpanInv
      BY <2>3 DEF WarmInv
    <3>2. QueueInv' /\ TimerInv' /\ SpanInv'
      BY <1>1, <1>5, <3>1 DEF QueueInv, TimerInv, SpanInv
    <3>3. BoundaryInv'
      BY <1>1, <1>5, <3>1 DEF BoundaryInv, FlushInv, Ordered, Flushes
    <3> QED
      BY <3>2, <3>3
  <2> QED
    BY <1>1, <2>1, <2>2, <2>3 DEF WarmInv, Warm
<1>6. CASE PublishSpan(c, "timer", trailingTimer, Nothing, ready)
  <2>1. k \in Underway /\ Changes(c, k, ready)
    BY <1>1, <1>3, <1>6, PublishSpanChanges
  <2>2. /\ call' \in [Calls -> CallStates] /\ ready' \in Seq(Calls) /\ Listed(call', ready')
        /\ call'[c] = k /\ \A d \in Calls \ {c} : call'[d] = call[d]
    BY <1>1, <1>4, <2>1, ChangesFacts
  <2>3. k.at = StartedAt /\ k.then = "timer" /\ k.seg = trailingTimer /\ ~Flushes(k)
    BY DEF Flushes
  <2> HIDE DEF k
  <2>4. TypeOK'
    BY <1>1, <2>2, ChunkerAssumption DEF TypeOK, CallStates
  <2>5. ReadyInv'
    <3>1. \A d \in Calls : Flushes(call'[d]) =>
             call'[d].result \in Results /\ call'[d].result.words # <<>>
      BY <2>2, <2>3 DEF ReadyInv
    <3> QED
      BY <1>1, <2>2, <3>1 DEF ReadyInv
  <2>6. ASSUME Warm PROVE QueueInv' /\ TimerInv' /\ BoundaryInv' /\ SpanInv'
    <3>1. QueueInv /\ TimerInv /\ BoundaryInv /\ SpanInv
      BY <2>6 DEF WarmInv
    <3>2. /\ \A d \in Calls : ~Flushes(call[d])
          /\ \A d \in Calls : call[d].at \in {"idle", "start"}
      BY <1>1, <2>6, NoFlush, NoneGoing
    <3>3. trailingTimer = currentSegmentId
      <4>1. ASSUME NEW d \in Calls, call[d].then = "interim", call[d].at # "start" PROVE FALSE
        <5>1. call[d] = Idle
          BY <3>2, <4>1, CallCases
        <5> QED
          BY <4>1, <5>1 DEF Idle
      <4> QED
        BY <1>1, <3>1, <4>1 DEF TimerInv
    <3>4. QueueInv'
      BY <1>1, <2>2, <2>3, <3>1, <3>3 DEF QueueInv
    <3>5. TimerInv'
      BY <1>1 DEF TimerInv
    <3>6. \A d \in Calls : ~Flushes(call'[d])
      BY <2>2, <2>3, <3>2
    <3>7. Ordered(call', ready')
      BY <2>2, <3>6 DEF Ordered, Follows, Listed
    <3>8. BoundaryInv'
      BY <1>1, <3>6, <3>7 DEF BoundaryInv, Ordered, Flushes
    <3> QED
      BY <1>1, <3>1, <3>4, <3>5, <3>8 DEF SpanInv
  <2> QED
    BY <1>1, <2>4, <2>5, <2>6 DEF WarmInv, Warm
<1> QED
  BY <1>2, <1>5, <1>6

(* The end of a response and the clock change nothing that is related here. *)
LEMMA ResponseEndsStep ==
    ASSUME IInv, ResponseEnds
    PROVE  IInv'
<1> USE DEF IInv
<1>1. /\ burst' = 0
      /\ UNCHANGED <<lastTextByKey, heard, finals, results, text, currentSegmentId, queue,
                     sentAge, trailingTimer, publisherStarted, call, ready, failures,
                     spans, odd>>
  BY DEF ResponseEnds, gateVars, textVars
<1>2. TypeOK'
  BY <1>1, ChunkerAssumption DEF TypeOK
<1>3. ReadyInv'
  BY <1>1 DEF ReadyInv
<1>4. ASSUME Warm PROVE QueueInv' /\ TimerInv' /\ BoundaryInv' /\ SpanInv'
  <2>1. QueueInv /\ TimerInv /\ BoundaryInv /\ SpanInv
    BY <1>4 DEF WarmInv
  <2>2. QueueInv' /\ TimerInv' /\ SpanInv'
    BY <1>1, <2>1 DEF QueueInv, TimerInv, SpanInv
  <2>3. BoundaryInv'
    BY <1>1, <2>1 DEF BoundaryInv, FlushInv, Ordered, Flushes
  <2> QED
    BY <2>2, <2>3
<1> QED
  BY <1>1, <1>2, <1>3, <1>4 DEF WarmInv, Warm

LEMMA TimePassesStep ==
    ASSUME IInv, TimePasses
    PROVE  IInv'
<1> USE DEF IInv
<1>1. /\ sentAge' \in {"rapid", "fresh", "old"}
      /\ UNCHANGED <<lastTextByKey, heard, finals, results, text, currentSegmentId, queue,
                     trailingTimer, publisherStarted, call, ready, burst, failures,
                     spans, odd>>
  BY DEF TimePasses, gateVars, textVars
<1>2. TypeOK'
  BY <1>1 DEF TypeOK
<1>3. ReadyInv'
  BY <1>1 DEF ReadyInv
<1>4. WarmInv'
  BY <1>1 DEF WarmInv, Warm, QueueInv, TimerInv, SpanInv, BoundaryInv, FlushInv, Ordered, Flushes
<1> QED
  BY <1>2, <1>3, <1>4

LEMMA ResultStep ==
    ASSUME IInv, Result
    PROVE  IInv'
<1> USE DEF IInv
<1>1. PICK s \in Segments, f \in BOOLEAN, differs \in BOOLEAN, passes \in BOOLEAN :
        \E r \in Hypotheses(s, f) : \E more \in {0, s} :
          HandleInterim(NewCall, r, differs, passes, more)
  BY DEF Result
<1>2. PICK r \in Hypotheses(s, f) : \E more \in {0, s} :
        HandleInterim(NewCall, r, differs, passes, more)
  BY <1>1
<1>3. r \in Results /\ r.words # <<>> /\ r.seg = s
  BY HypothesisTyped
<1>4. PICK more \in {0, r.seg} : HandleInterim(NewCall, r, differs, passes, more)
  BY <1>2, <1>3
<1>5. NewCall \in Calls /\ call[NewCall] = Idle
  BY <1>4, NewCallFree DEF HandleInterim
<1>6. TypeOK'
  BY <1>3, <1>4, <1>5, ResultTyped
<1>7. ReadyInv'
  BY <1>3, <1>4, <1>5, ResultReady
<1>8. WarmInv'
  BY <1>3, <1>4, <1>5, ResultWarm
<1> QED
  BY <1>6, <1>7, <1>8

LEMMA StutterStep ==
    ASSUME IInv, UNCHANGED vars
    PROVE  IInv'
<1> USE DEF IInv
<1>1. UNCHANGED <<lastTextByKey, heard, finals, results, text, currentSegmentId, queue,
                  sentAge, trailingTimer, publisherStarted, call, ready, burst, failures,
                  spans, odd>>
  BY DEF vars
<1>2. TypeOK'
  BY <1>1 DEF TypeOK
<1>3. ReadyInv'
  BY <1>1 DEF ReadyInv
<1>4. WarmInv'
  BY <1>1 DEF WarmInv, Warm, QueueInv, TimerInv, SpanInv, BoundaryInv, FlushInv, Ordered, Flushes
<1> QED
  BY <1>2, <1>3, <1>4

LEMMA InitHolds == Init => IInv
<1> SUFFICES ASSUME Init PROVE IInv
  OBVIOUS
<1> USE DEF Init
<1>1. \A d \in Calls : call[d] = Idle /\ Idle.at = "idle" /\ ~Flushes(Idle) /\ Idle.then = "none"
  BY DEF Idle, Flushes
<1>2. TypeOK
  <2>1. lastTextByKey \in [Segments -> Texts] /\ text \in Texts
    BY EmptyText
  <2>2. heard \in [Segments -> [utt : Nat, words : Texts]]
    BY EmptyText
  <2>3. 0 \in 0 .. MaxSegment /\ 0 \in 0 .. MaxResults /\ 0 \in 0 .. MaxFailures
    BY ChunkerAssumption
  <2>4. call \in [Calls -> {Idle} \cup Underway]
    OBVIOUS
  <2>5. ready \in Seq(Calls) /\ spans \in Seq([under : Segments, token : Tokens])
        /\ queue \in Seq(Tokens)
    OBVIOUS
  <2> QED
    BY <2>1, <2>2, <2>3, <2>4, <2>5 DEF TypeOK
<1>3. ReadyInv
  <2>1. Len(ready) = 0 /\ ready \in Seq(Calls)
    OBVIOUS
  <2>2. \A d \in Calls : ~Going(call[d])
    BY <1>1 DEF Going
  <2> QED
    BY <1>1, <2>1, <2>2 DEF ReadyInv, Listed, Distinct, In
<1>4. WarmInv
  BY <1>1 DEF WarmInv, QueueInv, TimerInv, BoundaryInv, Ordered, SpanInv
<1> QED
  BY <1>2, <1>3, <1>4 DEF IInv

LEMMA NextHolds == IInv /\ [Next]_vars => IInv'
<1> SUFFICES ASSUME IInv, [Next]_vars PROVE IInv'
  OBVIOUS
<1>1. CASE Result
  BY <1>1, ResultStep
<1>2. CASE ResponseEnds
  BY <1>2, ResponseEndsStep
<1>3. CASE TimerFires
  BY <1>3, TimerFiresStep
<1>4. CASE TimePasses
  BY <1>4, TimePassesStep
<1>5. ASSUME NEW c \in Calls, Resume(c) PROVE IInv'
  BY <1>5, ResumeStep
<1>6. ASSUME NEW c \in Calls, StartReturns(c) PROVE IInv'
  BY <1>6, StartReturnsStep
<1>7. ASSUME NEW c \in Calls, StartFails(c) PROVE IInv'
  BY <1>7, StartFailsStep
<1>8. CASE UNCHANGED vars
  BY <1>8, StutterStep
<1> QED
  BY <1>1, <1>2, <1>3, <1>4, <1>5, <1>6, <1>7, <1>8 DEF Next

-----------------------------------------------------------------------------
(* The handlers of a result, of the timer and of the publisher's start keep *)
(* the relations above, in every order the microtask queue allows.          *)
THEOREM Inductive == Spec => []IInv
<1> QED
  BY InitHolds, NextHolds, PTL DEF Spec

(* Queue, spans, calls and texts are what their names say.                  *)
THEOREM TypeCorrect == Spec => []TypeOK
<1>1. IInv => TypeOK
  BY DEF IInv
<1> QED
  BY <1>1, Inductive, PTL

(* The words of a span are of the segment it is published under (148-151),  *)
(* although other calls queued them, unless the segment changed before the  *)
(* publisher had started.                                                   *)
THEOREM OneSegment == Spec => []SpanOfOneSegment
<1>1. IInv => SpanOfOneSegment
  BY DEF IInv, WarmInv, Warm, SpanInv, SpanOfOneSegment
<1> QED
  BY <1>1, Inductive, PTL

-----------------------------------------------------------------------------
(* What was said, once and in order.  Calm: every final brought something   *)
(* new, and no result was taken up while a boundary or a final was.         *)
Calm == odd \cap {"repeated", "overlapped"} = {}
Closing(k) == k.then \in {"boundary", "final"}
Finishing == \E d \in Calls : call[d].then = "final"
Begins(p, q) == Len(p) <= Len(q) /\ \A i \in 1 .. Len(p) : p[i] = q[i]

Alone == \A c, d \in Calls : Closing(call[c]) /\ Closing(call[d]) => c = d

(* The stream has gone on since it brought a result, but not to another     *)
(* final.                                                                   *)
Since(r) ==
    IF r.final THEN heard[r.seg].utt = r.utt + 1
    ELSE heard[r.seg].utt = r.utt /\ Begins(r.words, heard[r.seg].words)

PendingInv == \A d \in Calls : Flushes(call[d]) => Since(call[d].result)

(* What the next result is compared with is the beginning of the utterance  *)
(* that is heard, and was published or waits for it.                        *)
BaselineInv ==
    /\ currentSegmentId = 0 => text = <<>>
    /\ currentSegmentId # 0 /\ ~Finishing =>
         /\ Begins(text, heard[currentSegmentId].words)
         /\ \A i \in 1 .. Len(text) :
              [seg |-> currentSegmentId, utt |-> heard[currentSegmentId].utt,
               pos |-> i, word |-> text[i]] \in ToSet(Published)

FinalsInv ==
    \A t \in finals :
      \/ t \in ToSet(Published)
      \/ \E d \in Calls : /\ Flushes(call[d]) /\ call[d].result.final
                          /\ t \in ToSet(TokensOf(call[d].result))

CalmInv == Alone /\ PendingInv /\ BaselineInv /\ FinalsInv

(* What was published is of the segments so far, and of the current one it  *)
(* does not go beyond the text.                                             *)
Reached(t) ==
    /\ t.seg <= currentSegmentId
    /\ t.seg = currentSegmentId =>
         \/ t.utt < heard[t.seg].utt
         \/ ~Finishing /\ t.utt = heard[t.seg].utt /\ t.pos <= Len(text)

OrderInv ==
    /\ OnceInOrder
    /\ \A t \in ToSet(Published) : Reached(t)
    /\ \A d \in Calls : Flushes(call[d]) => call[d].result.seg > currentSegmentId

OnceInv ==
    /\ Calm => CalmInv
    /\ Calm /\ "resumed" \notin odd => OrderInv

LEMMA SpanTokens ==
    ASSUME NEW s \in Seq([under : Segments, token : Tokens])
    PROVE  Len(s) \in Nat /\ \A i \in 1 .. Len(s) : s[i].token \in Tokens
<1>1. \A i \in 1 .. Len(s) : s[i] \in [under : Segments, token : Tokens]
  BY ElementOfSeq
<1>2. Len(s) \in Nat
  BY LenProperties
<1> QED
  BY <1>1, <1>2

LEMMA PublishedTyped ==
    ASSUME TypeOK
    PROVE  /\ Published \in Seq(Tokens)
           /\ [i \in 1 .. Len(spans) |-> spans[i].token] \in Seq(Tokens)
<1> DEFINE p == [i \in 1 .. Len(spans) |-> spans[i].token]
           n == Len(spans)
<1>1. n \in Nat /\ queue \in Seq(Tokens)
  BY DEF TypeOK
<1>2. \A i \in 1 .. n : spans[i].token \in Tokens
  BY SpanTokens DEF TypeOK
<1>3. p \in [1 .. n -> Tokens]
  BY <1>2
<1> HIDE DEF n
<1>4. p \in Seq(Tokens)
  BY <1>1, <1>3, FunctionIsSequence
<1> HIDE DEF p
<1>5. p \o queue \in Seq(Tokens)
  BY <1>1, <1>4, ConcatProperties
<1> QED
  BY <1>4, <1>5 DEF Published, p, n

LEMMA PublishedTokens ==
    ASSUME TypeOK
    PROVE  ToSet(Published) \subseteq Tokens
<1>1. DOMAIN Published = 1 .. Len(Published)
  BY PublishedTyped, LenProperties
<1>2. \A j \in 1 .. Len(Published) : Published[j] \in Tokens
  BY PublishedTyped, ElementOfSeq
<1> QED
  BY <1>1, <1>2 DEF ToSet

(* To publish moves words from the queue to a span.                         *)
LEMMA SendsKeeps ==
    ASSUME TypeOK, NEW c \in Calls, call[c] # Idle, Sends(c)
    PROVE  Published' = Published
<1> DEFINE m == [i \in 1 .. Len(queue) |-> [under |-> call[c].seg, token |-> queue[i]]]
           R == [under : Segments, token : Tokens]
           p == [i \in 1 .. Len(spans) |-> spans[i].token]
           p2 == [i \in 1 .. Len(spans') |-> spans'[i].token]
<1>1. /\ queue \in Seq(Tokens) /\ Len(queue) \in Nat /\ call[c].seg \in Segments
      /\ spans \in Seq(R) /\ Len(spans) \in Nat
  BY CallCases DEF TypeOK, Underway
<1>2. m \in Seq(R) /\ Len(m) = Len(queue)
      /\ \A i \in 1 .. Len(queue) : m[i].token = queue[i]
  <2>1. \A i \in 1 .. Len(queue) : queue[i] \in Tokens
    BY <1>1
  <2>2. m \in [1 .. Len(queue) -> R]
    BY <1>1, <2>1
  <2>3. \A i \in 1 .. Len(queue) : m[i].token = queue[i]
    OBVIOUS
  <2> DEFINE n == Len(queue)
  <2>4. n \in Nat /\ m \in [1 .. n -> R] /\ DOMAIN m = 1 .. n
    BY <1>1, <2>2
  <2> HIDE DEF m, n, R
  <2>5. m \in Seq(R)
    BY <2>4, FunctionIsSequence
  <2>6. Len(m) = n
    BY <2>4, <2>5
  <2> QED
    BY <2>3, <2>5, <2>6 DEF n
<1>3. spans' = spans \o m /\ queue' = <<>>
  BY DEF Sends
<1> HIDE DEF m, R
<1>4. /\ Len(spans') = Len(spans) + Len(queue)
      /\ \A i \in 1 .. Len(spans) + Len(queue) :
            spans'[i] = IF i <= Len(spans) THEN spans[i] ELSE m[i - Len(spans)]
  BY <1>1, <1>2, <1>3, ConcatProperties
<1>5. p \in Seq(Tokens) /\ Len(p) = Len(spans) /\ \A i \in 1 .. Len(spans) : p[i] = spans[i].token
  BY <1>1, PublishedTyped
<1>6. p2 \in Seq(Tokens)
  <2>1. spans' \in Seq(R)
    BY <1>1, <1>2, <1>3, ConcatProperties
  <2>2. \A i \in 1 .. Len(spans') : spans'[i].token \in Tokens
    BY <2>1, SpanTokens DEF R
  <2> DEFINE n == Len(spans')
  <2>3. n \in Nat /\ p2 \in [1 .. n -> Tokens]
    BY <2>1, <2>2
  <2> HIDE DEF p2, n
  <2> QED
    BY <2>3, FunctionIsSequence
<1>7. Len(p2) = Len(spans) + Len(queue) /\ DOMAIN p2 = 1 .. Len(spans) + Len(queue)
      /\ \A i \in 1 .. Len(spans) + Len(queue) : p2[i] = spans'[i].token
  BY <1>1, <1>4
<1> HIDE DEF p, p2
<1>8. /\ p \o queue \in Seq(Tokens) /\ Len(p \o queue) = Len(spans) + Len(queue)
      /\ \A i \in 1 .. Len(spans) + Len(queue) :
            (p \o queue)[i] = IF i <= Len(spans) THEN p[i] ELSE queue[i - Len(spans)]
  <2>1. /\ p \o queue \in Seq(Tokens) /\ Len(p \o queue) = Len(p) + Len(queue)
        /\ \A i \in 1 .. Len(p) + Len(queue) :
              (p \o queue)[i] = IF i <= Len(p) THEN p[i] ELSE queue[i - Len(p)]
    <3>1. p \in Seq(Tokens) /\ queue \in Seq(Tokens)
      BY <1>1, <1>5
    <3> QED
      BY ONLY <3>1, ConcatProperties
  <2> QED
    BY <1>5, <2>1
<1>9. ASSUME NEW i \in 1 .. Len(spans) + Len(queue) PROVE p2[i] = (p \o queue)[i]
  <2>1. CASE i <= Len(spans)
    <3>1. i \in 1 .. Len(spans)
      BY <1>1, <2>1
    <3> QED
      BY <1>4, <1>5, <1>7, <1>8, <2>1, <3>1
  <2>2. CASE ~(i <= Len(spans))
    <3>1. i - Len(spans) \in 1 .. Len(queue)
      BY <1>1, <2>2
    <3> QED
      BY <1>2, <1>4, <1>7, <1>8, <2>2, <3>1
  <2> QED
    BY <2>1, <2>2
<1>10. p2 = p \o queue
  BY <1>6, <1>7, <1>8, <1>9, SeqEqual
<1>11. p2 \o <<>> = p2
  BY <1>6, ConcatEmptySeq
<1> QED
  BY <1>3, <1>10, <1>11 DEF Published, p, p2

LEMMA QueueGrows ==
    ASSUME TypeOK, NEW d \in Seq(Tokens), queue' = queue \o d, spans' = spans
    PROVE  Published' = Published \o d
<1> DEFINE p == [i \in 1 .. Len(spans) |-> spans[i].token]
<1>1. p \in Seq(Tokens) /\ queue \in Seq(Tokens)
  BY PublishedTyped DEF TypeOK
<1>2. Published' = p \o (queue \o d) /\ Published = p \o queue
  BY DEF Published
<1> HIDE DEF p
<1> QED
  BY <1>1, <1>2, ConcatAssociative, SMTT(20)

LEMMA JoinedSet ==
    ASSUME NEW T, NEW p \in Seq(T), NEW d \in Seq(T)
    PROVE  ToSet(p \o d) = ToSet(p) \cup ToSet(d)
<1>1. /\ Len(p) \in Nat /\ Len(d) \in Nat /\ DOMAIN p = 1 .. Len(p) /\ DOMAIN d = 1 .. Len(d)
      /\ DOMAIN (p \o d) = 1 .. Len(p) + Len(d)
      /\ \A i \in 1 .. Len(p) + Len(d) :
            (p \o d)[i] = IF i <= Len(p) THEN p[i] ELSE d[i - Len(p)]
  BY ConcatProperties, LenProperties
<1>2. ASSUME NEW i \in 1 .. Len(p) + Len(d) PROVE (p \o d)[i] \in ToSet(p) \cup ToSet(d)
  <2>1. CASE i <= Len(p)
    <3>1. i \in 1 .. Len(p)
      BY <1>1, <2>1
    <3> QED
      BY <1>1, <2>1, <3>1 DEF ToSet
  <2>2. CASE ~(i <= Len(p))
    <3>1. i - Len(p) \in 1 .. Len(d)
      BY <1>1, <2>2
    <3> QED
      BY <1>1, <2>2, <3>1 DEF ToSet
  <2> QED
    BY <2>1, <2>2
<1>3. ASSUME NEW i \in 1 .. Len(p) PROVE p[i] \in ToSet(p \o d)
  <2>1. i \in 1 .. Len(p) + Len(d) /\ (p \o d)[i] = p[i]
    BY <1>1
  <2> QED
    BY <1>1, <2>1 DEF ToSet
<1>4. ASSUME NEW i \in 1 .. Len(d) PROVE d[i] \in ToSet(p \o d)
  <2>1. Len(p) + i \in 1 .. Len(p) + Len(d) /\ (p \o d)[Len(p) + i] = d[i]
    BY <1>1
  <2> QED
    BY <1>1, <2>1 DEF ToSet
<1>5. ToSet(p \o d) \subseteq ToSet(p) \cup ToSet(d)
  BY <1>1, <1>2 DEF ToSet
<1>6. ToSet(p) \subseteq ToSet(p \o d)
  BY <1>1, <1>3 DEF ToSet
<1>7. ToSet(d) \subseteq ToSet(p \o d)
  BY <1>1, <1>4 DEF ToSet
<1> QED
  BY <1>5, <1>6, <1>7

(* When the text goes on, what is new is the rest of it.                    *)
LEMMA DeltaOfRest ==
    ASSUME NEW old \in Texts, NEW r \in Results, Begins(old, r.words)
    PROVE  /\ Len(Delta(old, r)) = Len(r.words) - Len(old)
           /\ \A i \in 1 .. Len(r.words) - Len(old) :
                Delta(old, r)[i] = Token(r, Len(old) + i)
<1> DEFINE q == r.words
           lo == Len(old)
           lq == Len(q)
           start == SharedStart(old, q)
           end == SharedEnd(old, q)
           t == TokensOf(r)
<1>1. old \in Seq(Words) /\ q \in Seq(Words) /\ lo \in Nat /\ lq \in Nat /\ lo <= lq
  BY TextsAreSequences DEF Results, Begins
<1>2. start = lo
  <2> DEFINE S == {n \in 0 .. lq : Shared(old, q, n)}
  <2>1. SubSeq(old, 1, lo) = SubSeq(q, 1, lo)
    <3>1. \A i \in 1 .. lo : old[i] = q[i]
      BY DEF Begins
    <3>2. /\ SubSeq(old, 0 + 1, lo) \in Seq(Words) /\ Len(SubSeq(old, 0 + 1, lo)) = lo - 0
          /\ \A i \in 1 .. lo - 0 : SubSeq(old, 0 + 1, lo)[i] = old[0 + i]
      BY <1>1, Cut
    <3>3. /\ SubSeq(q, 0 + 1, lo) \in Seq(Words) /\ Len(SubSeq(q, 0 + 1, lo)) = lo - 0
          /\ \A i \in 1 .. lo - 0 : SubSeq(q, 0 + 1, lo)[i] = q[0 + i]
      BY <1>1, Cut
    <3> HIDE DEF lo, lq, q
    <3>4. lo - 0 = lo /\ 0 + 1 = 1 /\ \A i \in 1 .. lo : 0 + i = i
      BY <1>1
    <3>5. \A i \in 1 .. lo : SubSeq(old, 1, lo)[i] = SubSeq(q, 1, lo)[i]
      BY <3>1, <3>2, <3>3, <3>4
    <3> QED
      BY <3>2, <3>3, <3>4, <3>5, SeqEqual
  <2>2. lo \in S
    BY <1>1, <2>1 DEF Shared
  <2>3. S \in SUBSET (0 .. lq)
    OBVIOUS
  <2>4. lo <= Max(S)
    <3> HIDE DEF S, lo, lq
    <3> QED
      BY <1>1, <2>2, <2>3, Greatest
  <2>5. start = Max(S)
    BY DEF SharedStart
  <2>6. start \in 0 .. lq /\ start <= lo
    BY <1>1, SharedStartRange
  <2> HIDE DEF S, lo, lq, start
  <2> QED
    BY <1>1, <2>4, <2>5, <2>6
<1>3. end = 0
  <2>1. end \in 0 .. (Min({lo, lq}) - start)
    BY <1>1, SharedEndRange
  <2>2. Min({lo, lq}) \in Nat /\ Min({lo, lq}) <= lo
    <3>1. {lo, lq} \in SUBSET Nat /\ {lo, lq} # {}
      BY <1>1
    <3> HIDE DEF lo, lq
    <3> QED
      BY <3>1, LeastChosen
  <2> DEFINE m == Min({lo, lq})
  <2> HIDE DEF m, end, start, lo, lq
  <2>3. end \in 0 .. (m - lo) /\ m \in Nat /\ m <= lo
    BY <1>2, <2>1, <2>2 DEF m
  <2> QED
    BY <1>1, <2>3
<1>4. t \in Seq(Tokens) /\ Len(t) = lq /\ \A i \in 1 .. lq : t[i] = Token(r, i)
  BY TokensTyped DEF TokensOf
<1>5. Delta(old, r) = SubSeq(t, lo + 1, lq)
  <2>1. Delta(old, r) = SubSeq(t, start + 1, lq - end)
    BY DEF Delta
  <2>2. lq - 0 = lq
    BY <1>1
  <2> HIDE DEF start, end, lo, lq, t
  <2> QED
    BY <1>2, <1>3, <2>1, <2>2
<1> HIDE DEF start, end, lo, lq, t
<1>6. /\ Len(SubSeq(t, lo + 1, lq)) = lq - lo
      /\ \A i \in 1 .. lq - lo : SubSeq(t, lo + 1, lq)[i] = t[lo + i]
  BY <1>1, <1>4, Cut, SMTT(20)
<1>7. \A i \in 1 .. lq - lo : lo + i \in 1 .. lq
  BY <1>1
<1> QED
  BY <1>4, <1>5, <1>6, <1>7 DEF lo, lq

Before(a, b) ==
    a.seg = b.seg => a.utt < b.utt \/ (a.utt = b.utt /\ a.pos < b.pos)

InOrder(p) == \A i, j \in 1 .. Len(p) : i < j => Before(p[i], p[j])

LEMMA OrderMeaning == OnceInOrder <=> InOrder(Published)
BY DEF OnceInOrder, InOrder, Before

LEMMA OrderJoined ==
    ASSUME NEW p \in Seq(Tokens), NEW d \in Seq(Tokens), InOrder(p), InOrder(d),
           \A a \in ToSet(p), b \in ToSet(d) : Before(a, b)
    PROVE  InOrder(p \o d)
<1>1. /\ Len(p) \in Nat /\ Len(d) \in Nat /\ Len(p \o d) = Len(p) + Len(d)
      /\ \A i \in 1 .. Len(p) + Len(d) :
            (p \o d)[i] = IF i <= Len(p) THEN p[i] ELSE d[i - Len(p)]
  BY ConcatProperties, LenProperties
<1>2. \A i \in 1 .. Len(p), j \in 1 .. Len(d) : Before(p[i], d[j])
  BY DEF ToSet
<1>3. ASSUME NEW i \in 1 .. Len(p) + Len(d), NEW j \in 1 .. Len(p) + Len(d), i < j
      PROVE  Before((p \o d)[i], (p \o d)[j])
  <2>1. CASE j <= Len(p)
    <3>1. i \in 1 .. Len(p) /\ j \in 1 .. Len(p) /\ i <= Len(p)
      BY <1>1, <1>3, <2>1
    <3> QED
      BY <1>1, <1>3, <2>1, <3>1 DEF InOrder
  <2>2. CASE i <= Len(p) /\ ~(j <= Len(p))
    <3>1. i \in 1 .. Len(p) /\ j - Len(p) \in 1 .. Len(d)
      BY <1>1, <1>3, <2>2
    <3> QED
      BY <1>1, <1>2, <1>3, <2>2, <3>1
  <2>3. CASE ~(i <= Len(p))
    <3>1. /\ i - Len(p) \in 1 .. Len(d) /\ j - Len(p) \in 1 .. Len(d)
          /\ i - Len(p) < j - Len(p) /\ ~(j <= Len(p))
      BY <1>1, <1>3, <2>3
    <3> QED
      BY <1>1, <1>3, <2>3, <3>1 DEF InOrder
  <2> QED
    BY <1>1, <1>3, <2>1, <2>2, <2>3
<1> QED
  BY <1>1, <1>3 DEF InOrder

LEMMA TokenFields ==
    ASSUME NEW r \in Results, NEW i
    PROVE  /\ Token(r, i).seg = r.seg /\ Token(r, i).utt = r.utt /\ Token(r, i).pos = i
           /\ Token(r, i) = [seg |-> r.seg, utt |-> r.utt, pos |-> i, word |-> r.words[i]]
BY DEF Token

LEMMA TokensOfResult ==
    ASSUME NEW r \in Results
    PROVE  ToSet(TokensOf(r)) = {Token(r, i) : i \in 1 .. Len(r.words)}
BY DEF ToSet, TokensOf

(* A result r is taken up by call c, and nothing else waits: its words      *)
(* follow those of base, which were published.                              *)
Base(r, base) ==
    /\ base \in Texts /\ Begins(base, r.words) /\ (r.final => base # r.words)
    /\ \A i \in 1 .. Len(base) : Token(r, i) \in ToSet(Published)

Continues(r, base, d) ==
    /\ Published' = Published \o d
    /\ \A i \in 1 .. Len(r.words) : Token(r, i) \in ToSet(Published')
    /\ d \in Seq(Tokens) /\ (r.final => d # <<>>)
    /\ \A i \in 1 .. Len(d) : d[i] = Token(r, Len(base) + i)
    /\ Len(d) = Len(r.words) - Len(base)

LEMMA TakesUpContinues ==
    ASSUME TypeOK, NEW r \in Results, NEW base, Base(r, base),
           NEW k, NEW d, TakesUp(k, r, base, d), spans' = spans
    PROVE  Continues(r, base, d) /\ ToSet(Published') = ToSet(Published) \cup ToSet(d)
<1>1. /\ base \in Texts /\ Begins(base, r.words) /\ (r.final => base # r.words)
      /\ \A i \in 1 .. Len(base) : Token(r, i) \in ToSet(Published)
  BY DEF Base
<1>2. d = Delta(base, r) /\ d \in Seq(Tokens) /\ queue' = queue \o d
  BY DEF TakesUp
<1>3. Published' = Published \o d
  BY <1>2, QueueGrows
<1>4. ToSet(Published') = ToSet(Published) \cup ToSet(d)
  BY <1>2, <1>3, PublishedTyped, JoinedSet
<1>5. /\ Len(d) = Len(r.words) - Len(base)
      /\ \A i \in 1 .. Len(d) : d[i] = Token(r, Len(base) + i)
  BY <1>1, <1>2, DeltaOfRest
<1>6. /\ base \in Seq(Words) /\ r.words \in Seq(Words)
      /\ Len(base) \in Nat /\ Len(r.words) \in Nat /\ Len(base) <= Len(r.words)
      /\ \A i \in 1 .. Len(base) : base[i] = r.words[i]
  BY <1>1, TextsAreSequences DEF Results, Begins
<1>7. ASSUME NEW i \in 1 .. Len(r.words) PROVE Token(r, i) \in ToSet(Published')
  <2>1. CASE i <= Len(base)
    <3>1. i \in 1 .. Len(base)
      BY <1>6, <2>1
    <3> QED
      BY <1>1, <1>4, <3>1
  <2>2. CASE ~(i <= Len(base))
    <3>1. i - Len(base) \in 1 .. Len(d) /\ Len(base) + (i - Len(base)) = i
      BY <1>5, <1>6, <2>2
    <3>2. d[i - Len(base)] = Token(r, i)
      BY <1>5, <3>1
    <3>3. DOMAIN d = 1 .. Len(d)
      BY <1>2, LenProperties
    <3>4. Token(r, i) \in ToSet(d)
      BY <3>1, <3>2, <3>3 DEF ToSet
    <3> QED
      BY <1>4, <3>4
  <2> QED
    BY <2>1, <2>2
<1>8. ASSUME r.final PROVE d # <<>>
  <2>1. Len(base) # Len(r.words)
    BY <1>1, <1>6, <1>8, SeqEqual
  <2>2. Len(d) # 0
    BY <1>5, <1>6, <2>1
  <2> QED
    BY <2>2
<1> QED
  BY <1>2, <1>3, <1>4, <1>5, <1>7, <1>8 DEF Continues

LEMMA TakesUpOnce ==
    ASSUME TypeOK, NEW r \in Results, NEW base, Base(r, base),
           NEW c \in Calls, NEW k, NEW d, TakesUp(k, r, base, d), spans' = spans,
           call'[c] = k, \A e \in Calls \ {c} : ~Closing(call'[e]),
           Since(r)',
           \A t \in finals' : t \in ToSet(Published) \/ (r.final /\ t \in ToSet(TokensOf(r)))
    PROVE  CalmInv' /\ (Finishing' <=> r.final)
<1>1. Continues(r, base, d) /\ ToSet(Published') = ToSet(Published) \cup ToSet(d)
  BY TakesUpContinues
<1>2. /\ currentSegmentId' = r.seg /\ text' = r.words
      /\ k = Idle \/ k.then \in {"final", "interim"}
      /\ r.final /\ d # <<>> => k.then = "final"
      /\ ~r.final => k.then # "final"
  BY DEF TakesUp
<1>3. r.seg # 0 /\ r.final \in BOOLEAN
  BY ChunkerAssumption DEF Results, Segments
<1>4. \A e \in Calls : ~Flushes(call'[e])
  BY <1>2 DEF Flushes, Closing, Idle
<1>5. Finishing' <=> r.final
  <2>1. Finishing' <=> call'[c].then = "final"
    BY DEF Finishing, Closing
  <2>2. r.final => k.then = "final"
    BY <1>1, <1>2 DEF Continues
  <2> QED
    BY <1>2, <1>3, <2>1, <2>2
<1>6. Alone'
  BY DEF Alone, Closing
<1>7. PendingInv'
  BY <1>4 DEF PendingInv, Flushes
<1>8. BaselineInv'
  <2>1. CASE r.final
    BY <1>2, <1>3, <1>5, <2>1 DEF BaselineInv
  <2>2. CASE ~r.final
    <3>1. heard'[r.seg].utt = r.utt /\ Begins(r.words, heard'[r.seg].words)
      BY <2>2 DEF Since, Begins
    <3>2. \A i \in 1 .. Len(r.words) :
             [seg |-> r.seg, utt |-> r.utt, pos |-> i, word |-> r.words[i]] \in ToSet(Published')
      BY <1>1, TokenFields DEF Continues
    <3> QED
      BY <1>2, <1>3, <3>1, <3>2 DEF BaselineInv, Begins
  <2> QED
    BY <2>1, <2>2
<1>9. FinalsInv'
  <2>1. ASSUME NEW t \in finals' PROVE t \in ToSet(Published')
    <3>1. CASE t \in ToSet(Published)
      BY <1>1, <3>1
    <3>2. CASE t \in ToSet(TokensOf(r))
      BY <1>1, <3>2, TokensOfResult DEF Continues
    <3> QED
      BY <2>1, <3>1, <3>2
  <2> QED
    BY <2>1 DEF FinalsInv
<1> QED
  BY <1>5, <1>6, <1>7, <1>8, <1>9 DEF CalmInv

LEMMA TakesUpInOrder ==
    ASSUME TypeOK, NEW r \in Results, NEW base, Base(r, base),
           NEW c \in Calls, NEW k, NEW d, TakesUp(k, r, base, d), spans' = spans,
           call'[c] = k, \A e \in Calls \ {c} : ~Closing(call'[e]),
           Since(r)', Finishing' <=> r.final, OnceInOrder,
           \A t \in ToSet(Published) :
              \/ t.seg < r.seg
              \/ t.seg = r.seg /\ (t.utt < r.utt \/ (t.utt = r.utt /\ t.pos <= Len(base)))
    PROVE  OrderInv'
<1>1. Continues(r, base, d) /\ ToSet(Published') = ToSet(Published) \cup ToSet(d)
  BY TakesUpContinues
<1>2. /\ currentSegmentId' = r.seg /\ text' = r.words
      /\ k = Idle \/ k.then \in {"final", "interim"}
  BY DEF TakesUp
<1>3. /\ Published' = Published \o d /\ d \in Seq(Tokens) /\ Published \in Seq(Tokens)
      /\ Len(d) = Len(r.words) - Len(base)
      /\ \A i \in 1 .. Len(d) : d[i] = Token(r, Len(base) + i)
  BY <1>1, PublishedTyped DEF Continues
<1>4. /\ Len(base) \in Nat /\ Len(r.words) \in Nat /\ r.seg \in Segments /\ r.utt \in Nat
      /\ Len(d) \in Nat /\ DOMAIN d = 1 .. Len(d) /\ r.final \in BOOLEAN
  BY <1>3, TextsAreSequences, LenProperties DEF Base, Results
<1>5. \A b \in ToSet(d) : \E i \in 1 .. Len(d) : b = Token(r, Len(base) + i)
  BY <1>3, <1>4 DEF ToSet
<1>6. \A i \in 1 .. Len(d) : /\ Token(r, Len(base) + i).seg = r.seg
                             /\ Token(r, Len(base) + i).utt = r.utt
                             /\ Token(r, Len(base) + i).pos = Len(base) + i
  BY TokenFields
<1>7. InOrder(Published')
  <2>1. InOrder(d)
    <3>1. ASSUME NEW i \in 1 .. Len(d), NEW j \in 1 .. Len(d), i < j
          PROVE  Before(d[i], d[j])
      <4>1. Len(base) + i < Len(base) + j
        BY <1>4, <3>1
      <4> QED
        BY <1>3, <1>6, <4>1 DEF Before
    <3> QED
      BY <3>1 DEF InOrder
  <2>2. ASSUME NEW a \in ToSet(Published), NEW b \in ToSet(d) PROVE Before(a, b)
    <3>1. PICK i \in 1 .. Len(d) : b = Token(r, Len(base) + i)
      BY <1>5
    <3>2. b.seg = r.seg /\ b.utt = r.utt /\ b.pos = Len(base) + i
      BY <1>6, <3>1
    <3>3. a \in Tokens
      BY PublishedTokens
    <3>4. a.pos \in Nat /\ a.utt \in Nat /\ a.seg \in Nat /\ r.seg \in Nat
      BY <1>4, <3>3, ChunkerAssumption DEF Tokens, Segments
    <3>5. a.pos <= Len(base) => a.pos < Len(base) + i
      BY <1>4, <3>4
    <3>6. a.seg < r.seg => a.seg # r.seg
      BY <3>4
    <3> QED
      BY <3>2, <3>5, <3>6 DEF Before
  <2> QED
    BY <1>3, <2>1, <2>2, OrderMeaning, OrderJoined
<1>8. OnceInOrder'
  BY <1>7 DEF OnceInOrder, InOrder, Before
<1>9. ASSUME NEW t \in ToSet(Published') PROVE Reached(t)'
  <2>1. CASE t \in ToSet(Published)
    <3>1. CASE t.seg < r.seg
      <4>1. t \in Tokens
        BY <2>1, PublishedTokens
      <4>2. t.seg \in Nat /\ r.seg \in Nat
        BY <1>4, <4>1, ChunkerAssumption DEF Tokens, Segments
      <4> QED
        BY <1>2, <3>1, <4>2 DEF Reached
    <3>2. CASE /\ t.seg = r.seg
               /\ t.utt < r.utt \/ (t.utt = r.utt /\ t.pos <= Len(base))
      <4>1. t \in Tokens
        BY <2>1, PublishedTokens
      <4>2. t.utt \in Nat /\ t.pos \in Nat /\ r.seg \in Nat
        BY <1>4, <4>1, ChunkerAssumption DEF Tokens, Segments
      <4>3. Len(base) <= Len(r.words)
        BY DEF Base, Begins
      <4>4. IF r.final THEN heard'[r.seg].utt = r.utt + 1 ELSE heard'[r.seg].utt = r.utt
        BY DEF Since
      <4>5. t.seg <= currentSegmentId'
        BY <1>2, <3>2, <4>2
      <4>6. CASE r.final
        <5>1. t.utt < heard'[t.seg].utt
          BY <1>4, <3>2, <4>2, <4>4, <4>6
        <5> QED
          BY <4>5, <5>1 DEF Reached
      <4>7. CASE ~r.final
        <5>1. t.utt < heard'[t.seg].utt \/ (t.utt = heard'[t.seg].utt /\ t.pos <= Len(text'))
          BY <1>2, <1>4, <3>2, <4>2, <4>3, <4>4, <4>7
        <5> QED
          BY <4>5, <4>7, <5>1 DEF Reached
      <4> QED
        BY <4>6, <4>7
    <3> QED
      BY <2>1, <3>1, <3>2
  <2>2. CASE t \in ToSet(d)
    <3>1. PICK i \in 1 .. Len(d) : t = Token(r, Len(base) + i)
      BY <1>5, <2>2
    <3>2. t.seg = r.seg /\ t.utt = r.utt /\ t.pos = Len(base) + i
      BY <1>6, <3>1
    <3>3. Len(base) + i <= Len(r.words) /\ r.seg <= r.seg
      BY <1>3, <1>4, ChunkerAssumption DEF Segments
    <3>4. IF r.final THEN heard'[r.seg].utt = r.utt + 1 ELSE heard'[r.seg].utt = r.utt
      BY DEF Since
    <3>5. CASE r.final
      <4>1. t.utt < heard'[t.seg].utt
        BY <1>4, <3>2, <3>4, <3>5
      <4> QED
        BY <1>2, <3>2, <3>3, <4>1 DEF Reached
    <3>6. CASE ~r.final
      BY <1>2, <3>2, <3>3, <3>4, <3>6 DEF Reached
    <3> QED
      BY <3>5, <3>6
  <2> QED
    BY <1>1, <2>1, <2>2
<1>10. \A e \in Calls : ~Flushes(call'[e])
  BY <1>2 DEF Flushes, Closing, Idle
<1> QED
  BY <1>8, <1>9, <1>10 DEF OrderInv, Flushes

(* Steps of the other calls: what is published and heard stays the same.    *)
SameCalls ==
    \A d \in Calls : \/ call'[d].then = call[d].then /\ call'[d].result = call[d].result
                     \/ ~Closing(call'[d]) /\ ~Closing(call[d])

LEMMA SameOnce ==
    ASSUME OnceInv, SameCalls, Published' = Published,
           UNCHANGED <<text, currentSegmentId, heard, finals, odd>>
    PROVE  OnceInv'
<1>1. /\ \A d \in Calls : Flushes(call'[d]) <=> Flushes(call[d])
      /\ \A d \in Calls : Flushes(call[d]) => call'[d].result = call[d].result
      /\ \A d \in Calls : Closing(call'[d]) <=> Closing(call[d])
      /\ \A d \in Calls : call'[d].then = "final" <=> call[d].then = "final"
  BY DEF SameCalls, Closing, Flushes
<1>2. Finishing' <=> Finishing
  BY <1>1 DEF Finishing
<1>3. ASSUME Calm PROVE CalmInv'
  <2>1. Alone /\ PendingInv /\ BaselineInv /\ FinalsInv
    BY <1>3 DEF OnceInv, CalmInv
  <2>2. Alone'
    BY <1>1, <2>1 DEF Alone, Closing
  <2>3. PendingInv'
    <3>1. ASSUME NEW d \in Calls, Flushes(call'[d]) PROVE Since(call[d].result)'
      <4>1. Since(call[d].result) /\ call'[d].result = call[d].result
        BY <1>1, <2>1, <3>1 DEF PendingInv
      <4> QED
        BY <4>1 DEF Since, Begins
    <3> QED
      BY <3>1 DEF PendingInv, Flushes
  <2>4. BaselineInv'
    BY <1>2, <2>1 DEF BaselineInv, Begins
  <2>5. FinalsInv'
    <3>1. ASSUME NEW t \in finals, t \notin ToSet(Published)
          PROVE  \E d \in Calls : /\ Flushes(call'[d]) /\ call'[d].result.final
                                  /\ t \in ToSet(TokensOf(call'[d].result))
      <4>1. PICK d \in Calls : /\ Flushes(call[d]) /\ call[d].result.final
                               /\ t \in ToSet(TokensOf(call[d].result))
        BY <2>1, <3>1 DEF FinalsInv
      <4> QED
        BY <1>1, <4>1
    <3> QED
      BY <3>1 DEF FinalsInv, Flushes
  <2> QED
    BY <2>2, <2>3, <2>4, <2>5 DEF CalmInv
<1>4. ASSUME OrderInv PROVE OrderInv'
  <2>1. OnceInOrder'
    BY <1>4 DEF OrderInv, OnceInOrder
  <2>2. \A t \in ToSet(Published) : Reached(t)'
    BY <1>2, <1>4 DEF OrderInv, Reached
  <2>3. \A d \in Calls : Flushes(call'[d]) => call'[d].result.seg > currentSegmentId'
    BY <1>1, <1>4 DEF OrderInv
  <2> QED
    BY <2>1, <2>2, <2>3 DEF OrderInv, Flushes
<1> QED
  BY <1>3, <1>4 DEF OnceInv, Calm

(* A final returns: the next utterance is compared with nothing.            *)
LEMMA FinalReturnsOnce ==
    ASSUME OnceInv, NEW c \in Calls, call[c].then = "final", call'[c] = Idle,
           \A d \in Calls \ {c} : call'[d] = call[d],
           text' = <<>>, Published' = Published,
           UNCHANGED <<currentSegmentId, heard, finals, odd>>
    PROVE  OnceInv'
<1>1. /\ ~Closing(Idle) /\ ~Flushes(Idle) /\ Idle.then # "final"
      /\ Closing(call[c]) /\ ~Flushes(call[c]) /\ Finishing
  BY DEF Closing, Flushes, Idle, Finishing
<1>2. ASSUME Calm PROVE CalmInv'
  <2>1. Alone /\ PendingInv /\ BaselineInv /\ FinalsInv
    BY <1>2 DEF OnceInv, CalmInv
  <2>2. \A d \in Calls : ~Closing(call'[d])
    BY <1>1, <2>1 DEF Alone
  <2>3. \A d \in Calls : ~Flushes(call'[d]) /\ ~Flushes(call[d])
    BY <1>1, <2>1, <2>2 DEF Alone, Closing, Flushes
  <2>4. BaselineInv'
    BY DEF BaselineInv, Begins
  <2>5. FinalsInv'
    BY <2>1, <2>3 DEF FinalsInv
  <2> QED
    BY <2>2, <2>3, <2>4, <2>5 DEF CalmInv, Alone, PendingInv, Closing, Flushes
<1>3. ASSUME OrderInv PROVE OrderInv'
  <2>1. OnceInOrder'
    BY <1>3 DEF OrderInv, OnceInOrder
  <2>2. \A t \in ToSet(Published) : Reached(t)'
    BY <1>1, <1>3 DEF OrderInv, Reached
  <2>3. \A d \in Calls : Flushes(call'[d]) => call'[d].result.seg > currentSegmentId'
    BY <1>1, <1>3 DEF OrderInv
  <2> QED
    BY <2>1, <2>2, <2>3 DEF OrderInv, Flushes
<1> QED
  BY <1>2, <1>3 DEF OnceInv, Calm

(* A flush returns, and its result is taken up.                             *)
LEMMA FlushReturnsOnce ==
    ASSUME TypeOK, ReadyInv, OnceInv, NEW c \in Calls, Flushes(call[c]),
           NEW k, NEW d, TakesUp(k, call[c].result, <<>>, d), call'[c] = k,
           \A e \in Calls \ {c} : call'[e] = call[e],
           UNCHANGED <<spans, heard, finals, odd>>
    PROVE  OnceInv'
<1>0. PICK r : r = call[c].result
  OBVIOUS
<1>1. r \in Results /\ r.words # <<>> /\ r.words \in Texts
  BY <1>0 DEF ReadyInv, Results
<1>2. Base(r, <<>>)
  <2>1. Len(<<>>) = 0 /\ r.words \in Seq(Words) /\ Len(r.words) \in Nat
    BY <1>1, TextsAreSequences
  <2> QED
    BY <1>1, <2>1, EmptyText DEF Base, Begins
<1>3. ASSUME Calm
      PROVE  /\ CalmInv' /\ (Finishing' <=> r.final) /\ Since(r)'
             /\ \A e \in Calls \ {c} : ~Closing(call'[e])
  <2>1. Alone /\ PendingInv /\ BaselineInv /\ FinalsInv
    BY <1>3 DEF OnceInv, CalmInv
  <2>2. \A e \in Calls \ {c} : ~Closing(call'[e]) /\ ~Closing(call[e]) /\ ~Flushes(call[e])
    BY <2>1 DEF Alone, Closing, Flushes
  <2>3. Since(r)'
    <3>1. Since(r)
      BY <1>0, <2>1 DEF PendingInv
    <3> QED
      BY <3>1 DEF Since, Begins
  <2>4. \A t \in finals' : t \in ToSet(Published) \/ (r.final /\ t \in ToSet(TokensOf(r)))
    BY <1>0, <2>1, <2>2 DEF FinalsInv
  <2>5. TakesUp(k, r, <<>>, d)
    BY <1>0
  <2> QED
    BY <1>1, <1>2, <2>2, <2>3, <2>4, <2>5, TakesUpOnce
<1>4. ASSUME Calm, OrderInv PROVE OrderInv'
  <2>1. \A t \in ToSet(Published) : t.seg <= currentSegmentId
    BY <1>4 DEF OrderInv, Reached
  <2>2. r.seg > currentSegmentId
    BY <1>0, <1>4 DEF OrderInv
  <2>3. \A t \in ToSet(Published) : t.seg < r.seg
    <3>1. ToSet(Published) \subseteq Tokens
      BY PublishedTokens
    <3>2. \A t \in ToSet(Published) : t.seg \in Int
      BY <3>1, ChunkerAssumption DEF Tokens, Segments
    <3>3. r.seg \in Int /\ currentSegmentId \in Int
      BY <1>1, ChunkerAssumption DEF Results, Segments, TypeOK
    <3> QED
      BY <2>1, <2>2, <3>2, <3>3
  <2>4. OnceInOrder /\ Since(r)' /\ (Finishing' <=> r.final)
        /\ \A e \in Calls \ {c} : ~Closing(call'[e])
    BY <1>3, <1>4 DEF OrderInv
  <2>5. TakesUp(k, r, <<>>, d) /\ spans' = spans
    BY <1>0
  <2> QED
    BY <1>1, <1>2, <2>3, <2>4, <2>5, TakesUpInOrder
<1> QED
  BY <1>3, <1>4 DEF OnceInv, Calm

(* A result that grows what its stream has said.                            *)
Says(r) ==
    /\ r \in Results /\ r.words # <<>>
    /\ r.utt = heard[r.seg].utt /\ Begins(heard[r.seg].words, r.words)

LEMMA HypothesisSays ==
    ASSUME TypeOK, NEW s \in Segments, NEW f \in BOOLEAN, NEW r \in Hypotheses(s, f)
    PROVE  Says(r)
<1>1. r \in Results /\ r.words # <<>> /\ r.seg = s
  BY HypothesisTyped
<1>2. PICK new \in {Append(heard[s].words, w) : w \in Words} \cup {heard[s].words} :
        r = [seg |-> s, utt |-> heard[s].utt, words |-> new, final |-> f]
  BY DEF Hypotheses
<1>3. heard[s].words \in Seq(Words) /\ Len(heard[s].words) \in Nat
  <2>1. heard[s].words \in Texts
    BY DEF TypeOK
  <2> QED
    BY <2>1, TextsAreSequences
<1>4. Begins(heard[s].words, new)
  <2>1. CASE new = heard[s].words
    BY <1>3, <2>1 DEF Begins
  <2>2. ASSUME NEW w \in Words, new = Append(heard[s].words, w)
        PROVE  Begins(heard[s].words, new)
    <3> DEFINE p == heard[s].words
    <3>1. Len(Append(p, w)) = Len(p) + 1 /\ \A i \in 1 .. Len(p) : Append(p, w)[i] = p[i]
      BY <1>3
    <3> QED
      BY <1>3, <2>2, <3>1 DEF Begins
  <2> QED
    BY <1>2, <2>1, <2>2
<1> QED
  BY <1>1, <1>2, <1>4 DEF Says

LEMMA BeginsTwice ==
    ASSUME NEW p, NEW q, NEW r, Begins(p, q), Begins(q, r),
           Len(p) \in Nat, Len(q) \in Nat, Len(r) \in Nat
    PROVE  Begins(p, r)
<1>1. Len(p) <= Len(r) /\ \A i \in 1 .. Len(p) : i \in 1 .. Len(q)
  BY DEF Begins
<1> QED
  BY <1>1 DEF Begins

LEMMA TextLength ==
    ASSUME TypeOK
    PROVE  /\ text \in Seq(Words) /\ Len(text) \in Nat
           /\ \A s \in Segments : Len(heard[s].words) \in Nat
           /\ \A q \in Results : Len(q.words) \in Nat /\ q.seg \in Segments /\ q.seg # 0
                                 /\ q.final \in BOOLEAN /\ q.words \in Texts /\ q.utt \in Nat
<1>1. \A s \in Segments : heard[s].words \in Texts
  BY DEF TypeOK
<1> QED
  BY <1>1, TextsAreSequences, ChunkerAssumption, SMTT(20) DEF TypeOK, Results, Segments

LEMMA SpeaksHeard ==
    ASSUME TypeOK, NEW r, Says(r), Speaks(r)
    PROVE  /\ \A s \in Segments \ {r.seg} : heard'[s] = heard[s]
           /\ r.final => /\ heard'[r.seg].utt = r.utt + 1
                         /\ finals' = finals \cup ToSet(TokensOf(r))
           /\ ~r.final => /\ heard'[r.seg].utt = r.utt /\ heard'[r.seg].words = r.words
                          /\ finals' = finals
           /\ Since(r)'
<1>1. r.seg \in Segments /\ heard \in [Segments -> [utt : Nat, words : Texts]]
  BY DEF Says, Results, TypeOK
<1>2. \A s \in Segments \ {r.seg} : heard'[s] = heard[s]
  BY <1>1 DEF Speaks
<1>3. ASSUME r.final PROVE heard'[r.seg].utt = r.utt + 1 /\ finals' = finals \cup ToSet(TokensOf(r))
  BY <1>1, <1>3 DEF Speaks, Says
<1>4. ASSUME ~r.final
      PROVE  heard'[r.seg].utt = r.utt /\ heard'[r.seg].words = r.words /\ finals' = finals
  BY <1>1, <1>4 DEF Speaks, Says
<1>5. Begins(r.words, r.words)
  BY TextLength DEF Says, Begins
<1>6. Since(r)'
  BY <1>3, <1>4, <1>5 DEF Since, Begins
<1> QED
  BY <1>2, <1>3, <1>4, <1>6

LEMMA SinceStays ==
    ASSUME TypeOK, NEW r, Says(r), Speaks(r), NEW q \in Results, Since(q),
           q.seg # r.seg \/ ~r.final
    PROVE  Since(q)'
<1>1. q.seg \in Segments /\ r.seg \in Segments
  BY TextLength DEF Says
<1>2. CASE q.seg # r.seg
  <2>1. heard'[q.seg] = heard[q.seg]
    BY <1>1, <1>2, SpeaksHeard
  <2> QED
    BY <2>1 DEF Since, Begins
<1>3. CASE q.seg = r.seg /\ ~r.final
  <2>1. /\ heard'[q.seg].utt = heard[q.seg].utt /\ heard'[q.seg].words = r.words
        /\ Begins(heard[q.seg].words, r.words)
    BY <1>3, SpeaksHeard DEF Says
  <2>2. CASE q.final
    BY <2>1, <2>2 DEF Since
  <2>3. CASE ~q.final
    <3>1. Begins(q.words, r.words)
      BY <1>1, <2>1, <2>3, TextLength, BeginsTwice DEF Since, Says
    <3> QED
      BY <2>1, <2>3, <3>1 DEF Since, Begins
  <2> QED
    BY <2>2, <2>3
<1> QED
  BY <1>2, <1>3

(* What the history of exceptions says of the step that adds to it.         *)
TakenUp(c, r) ==
    /\ OnSttResult(c, r)
    /\ Calm' => /\ \A d \in Calls : ~Closing(call[d])
                /\ r.final => Boundary(r) \/ text # r.words
    /\ "resumed" \notin odd' => ~(r.seg < currentSegmentId)

LEMMA ResultOddities ==
    ASSUME NEW c \in Calls, NEW r \in Results, NEW differs \in BOOLEAN,
           NEW passes \in BOOLEAN, NEW more,
           HandleInterim(c, r, differs, passes, more)
    PROVE  /\ Calm' => Calm
           /\ "resumed" \notin odd' => "resumed" \notin odd
           /\ \/ TakenUp(c, r)
              \/ /\ UNCHANGED <<textVars, call>>
                 /\ Calm' => ~r.final
<1> DEFINE ignored == Duplicate(r, differs)
           accepted == ~ignored /\ (r.final \/ passes)
<1>1. odd' = odd \cup Oddities(r, ignored, accepted)
  BY DEF HandleInterim
<1>2. (Calm' => Calm) /\ ("resumed" \notin odd' => "resumed" \notin odd)
  BY <1>1 DEF Calm
<1>3. r.final /\ (ignored \/ (accepted /\ ~Boundary(r) /\ text = r.words)) => ~Calm'
  <2>1. r.final /\ (ignored \/ (accepted /\ ~Boundary(r) /\ text = r.words)) =>
          "repeated" \in Oddities(r, ignored, accepted)
    BY DEF Oddities
  <2> QED
    BY <1>1, <2>1 DEF Calm
<1>4. accepted /\ (\E d \in Calls : Closing(call[d])) => ~Calm'
  <2>1. accepted /\ (\E d \in Calls : Closing(call[d])) =>
          "overlapped" \in Oddities(r, ignored, accepted)
    BY DEF Oddities, Closing
  <2> QED
    BY <1>1, <2>1 DEF Calm
<1>5. accepted /\ r.seg < currentSegmentId => "resumed" \in odd'
  <2>1. accepted /\ r.seg < currentSegmentId => "resumed" \in Oddities(r, ignored, accepted)
    BY DEF Oddities
  <2> QED
    BY <1>1, <2>1
<1>6. \/ accepted /\ OnSttResult(c, r)
      \/ ~accepted /\ UNCHANGED <<textVars, trailingTimer, call, ready>>
  BY DEF HandleInterim
<1>7. ~accepted /\ r.final => ignored
  OBVIOUS
<1> HIDE DEF ignored, accepted
<1>8. CASE accepted /\ OnSttResult(c, r)
  BY <1>2, <1>3, <1>4, <1>5, <1>8 DEF TakenUp
<1>9. CASE ~accepted /\ UNCHANGED <<textVars, trailingTimer, call, ready>>
  BY <1>2, <1>3, <1>7, <1>9
<1> QED
  BY <1>6, <1>8, <1>9

LEMMA HeardGrowsOnce ==
    ASSUME TypeOK, ReadyInv, NEW r, Says(r), ~r.final, Speaks(r),
           UNCHANGED <<textVars, call, spans>>
    PROVE  (CalmInv => CalmInv') /\ (OrderInv => OrderInv')
<1>1. /\ UNCHANGED <<text, currentSegmentId, queue, call, spans>>
      /\ Published' = Published
  BY DEF textVars, Published
<1>2. /\ \A s \in Segments \ {r.seg} : heard'[s] = heard[s]
      /\ heard'[r.seg].utt = heard[r.seg].utt /\ heard'[r.seg].words = r.words
      /\ Begins(heard[r.seg].words, r.words) /\ finals' = finals
      /\ r.seg \in Segments /\ r \in Results
  BY SpeaksHeard, TextLength DEF Says
<1>3. \A s \in Segments : heard'[s].utt = heard[s].utt
  BY <1>2
<1>4. currentSegmentId # 0 => currentSegmentId \in Segments
  BY ChunkerAssumption DEF TypeOK, Segments
<1>5. Finishing' <=> Finishing
  BY <1>1 DEF Finishing
<1>6. ASSUME CalmInv PROVE CalmInv'
  <2>1. Alone' /\ FinalsInv'
    BY <1>1, <1>2, <1>6 DEF CalmInv, Alone, FinalsInv, Flushes, Closing
  <2>2. PendingInv'
    <3>1. ASSUME NEW d \in Calls, Flushes(call[d]) PROVE Since(call[d].result)'
      <4>1. PICK q : q = call[d].result
        OBVIOUS
      <4>2. q \in Results /\ Since(q)
        BY <1>6, <3>1, <4>1 DEF ReadyInv, CalmInv, PendingInv
      <4>3. Since(q)'
        BY <4>2, SinceStays
      <4> QED
        BY <1>1, <4>1, <4>3 DEF Since
    <3> QED
      BY <1>1, <3>1 DEF PendingInv, Flushes
  <2>3. BaselineInv'
    <3>1. ASSUME currentSegmentId # 0, ~Finishing
          PROVE  /\ Begins(text, heard'[currentSegmentId].words)
                 /\ heard'[currentSegmentId].utt = heard[currentSegmentId].utt
      <4>1. Begins(text, heard[currentSegmentId].words)
        BY <1>6, <3>1 DEF CalmInv, BaselineInv
      <4>2. CASE currentSegmentId = r.seg
        BY <1>2, <1>3, <4>1, <4>2, TextLength, BeginsTwice
      <4>3. CASE currentSegmentId # r.seg
        BY <1>2, <1>4, <3>1, <4>1, <4>3
      <4> QED
        BY <4>2, <4>3
    <3> QED
      BY <1>1, <1>5, <1>6, <3>1 DEF CalmInv, BaselineInv, Begins
  <2> QED
    BY <2>1, <2>2, <2>3 DEF CalmInv
<1>7. ASSUME OrderInv PROVE OrderInv'
  <2>1. OnceInOrder'
    BY <1>1, <1>7 DEF OrderInv, OnceInOrder
  <2>2. ASSUME NEW t \in ToSet(Published) PROVE Reached(t)'
    <3>1. Reached(t)
      BY <1>7 DEF OrderInv
    <3>2. t.seg = currentSegmentId => heard'[t.seg].utt = heard[t.seg].utt
      <4>1. t \in Tokens
        BY PublishedTokens
      <4>2. t.seg \in Segments
        BY <4>1 DEF Tokens
      <4> QED
        BY <1>3, <4>2
    <3> QED
      BY <1>1, <1>5, <3>1, <3>2 DEF Reached
  <2>3. \A d \in Calls : Flushes(call'[d]) => call'[d].result.seg > currentSegmentId'
    BY <1>1, <1>7 DEF OrderInv
  <2> QED
    BY <1>1, <2>1, <2>2, <2>3 DEF OrderInv, Flushes
<1> QED
  BY <1>6, <1>7

(* A result waits for the flush of the segment before.                      *)
LEMMA WaitsOnce ==
    ASSUME TypeOK, ReadyInv, NEW r, Says(r), Speaks(r),
           NEW c \in Calls, call[c] = Idle, NEW k, Waits(k, r), call'[c] = k,
           \A d \in Calls \ {c} : call'[d] = call[d],
           \A d \in Calls : ~Closing(call[d]), spans' = spans, CalmInv
    PROVE  CalmInv' /\ (OrderInv /\ ~(r.seg < currentSegmentId) => OrderInv')
<1>1. /\ UNCHANGED <<text, currentSegmentId, queue, spans>> /\ Published' = Published
      /\ currentSegmentId # 0 /\ currentSegmentId # r.seg
      /\ k.then = "boundary" /\ k.result = r
  BY DEF Waits, Boundary, textVars, Published
<1>2. /\ \A s \in Segments \ {r.seg} : heard'[s] = heard[s]
      /\ r.seg \in Segments /\ r \in Results /\ Since(r)'
      /\ r.final => finals' = finals \cup ToSet(TokensOf(r))
      /\ ~r.final => finals' = finals
      /\ r.final \in BOOLEAN
  BY SpeaksHeard, TextLength DEF Says
<1>3. currentSegmentId \in Segments
  BY <1>1, ChunkerAssumption DEF TypeOK, Segments
<1>4. heard'[currentSegmentId] = heard[currentSegmentId]
  BY <1>1, <1>2, <1>3
<1>5. /\ \A d \in Calls : Closing(call'[d]) => d = c
      /\ \A d \in Calls : Flushes(call'[d]) => d = c
      /\ Flushes(call'[c]) /\ call'[c].result = r
  BY <1>1 DEF Closing, Flushes
<1>6. ~Finishing /\ ~Finishing'
  BY <1>1, <1>5 DEF Finishing, Closing
<1>7. CalmInv'
  <2>1. Alone'
    BY <1>5 DEF Alone, Closing
  <2>2. PendingInv'
    BY <1>2, <1>5 DEF PendingInv, Flushes, Since
  <2>3. BaselineInv'
    BY <1>1, <1>4, <1>6 DEF CalmInv, BaselineInv, Begins
  <2>4. \A t \in finals : t \in ToSet(Published)
    BY DEF CalmInv, FinalsInv, Closing, Flushes
  <2>5. FinalsInv'
    <3>1. ASSUME NEW t \in finals', t \notin finals
          PROVE  r.final /\ t \in ToSet(TokensOf(r))
      BY <1>2, <3>1
    <3>2. ASSUME NEW t \in finals', t \notin ToSet(Published)
          PROVE  /\ Flushes(call'[c]) /\ call'[c].result.final
                 /\ t \in ToSet(TokensOf(call'[c].result))
      BY <1>5, <2>4, <3>1, <3>2
    <3> QED
      BY <1>1, <3>2 DEF FinalsInv, Flushes
  <2> QED
    BY <2>1, <2>2, <2>3, <2>5 DEF CalmInv
<1>8. ASSUME OrderInv, ~(r.seg < currentSegmentId) PROVE OrderInv'
  <2>1. OnceInOrder'
    BY <1>1, <1>8 DEF OrderInv, OnceInOrder
  <2>2. \A t \in ToSet(Published) : Reached(t)'
    BY <1>1, <1>4, <1>6, <1>8 DEF OrderInv, Reached
  <2>3. r.seg > currentSegmentId
    BY <1>1, <1>2, <1>3, <1>8, ChunkerAssumption DEF Segments
  <2>4. \A d \in Calls : Flushes(call'[d]) => call'[d].result.seg > currentSegmentId'
    BY <1>1, <1>5, <2>3
  <2> QED
    BY <1>1, <2>1, <2>2, <2>4 DEF OrderInv, Flushes
<1> QED
  BY <1>7, <1>8

(* A result is taken up at once.                                            *)
LEMMA TakesOnce ==
    ASSUME TypeOK, ReadyInv, NEW r, Says(r), Speaks(r),
           NEW c \in Calls, call[c] = Idle, NEW k, call'[c] = k,
           \A d \in Calls \ {c} : call'[d] = call[d],
           NEW base, NEW d, TakesUp(k, r, base, d),
           (Boundary(r) /\ base = <<>>) \/ (~Boundary(r) /\ base = text),
           r.final => Boundary(r) \/ text # r.words,
           \A e \in Calls : ~Closing(call[e]), spans' = spans, CalmInv
    PROVE  CalmInv' /\ (OrderInv /\ ~(r.seg < currentSegmentId) => OrderInv')
<1>1. /\ r.seg \in Segments /\ r \in Results /\ Since(r)' /\ r.words # <<>>
      /\ r.final => finals' = finals \cup ToSet(TokensOf(r))
      /\ ~r.final => finals' = finals
      /\ r.final \in BOOLEAN /\ r.utt = heard[r.seg].utt /\ r.seg # 0
      /\ Begins(heard[r.seg].words, r.words)
      /\ Len(r.words) \in Nat /\ Len(heard[r.seg].words) \in Nat /\ Len(text) \in Nat
  BY SpeaksHeard, TextLength DEF Says
<1>2. ~Finishing /\ \A e \in Calls \ {c} : ~Closing(call'[e])
  BY DEF Finishing, Closing
<1>3. Base(r, base)
  <2>1. CASE base = <<>> /\ (Boundary(r) \/ currentSegmentId = 0)
    <3>1. Begins(<<>>, r.words) /\ Len(<<>>) = 0
      BY <1>1 DEF Begins
    <3> QED
      BY <1>1, <2>1, <3>1, EmptyText DEF Base
  <2>2. CASE ~Boundary(r) /\ base = text /\ currentSegmentId # 0
    <3>1. currentSegmentId = r.seg
      BY <2>2 DEF Boundary
    <3>2. /\ Begins(text, heard[r.seg].words)
          /\ \A i \in 1 .. Len(text) :
               [seg |-> r.seg, utt |-> r.utt, pos |-> i, word |-> text[i]] \in ToSet(Published)
      BY <1>1, <1>2, <2>2, <3>1 DEF CalmInv, BaselineInv
    <3>3. Begins(text, r.words)
      BY <1>1, <3>2, BeginsTwice
    <3>4. \A i \in 1 .. Len(text) : Token(r, i) \in ToSet(Published)
      BY <3>2, <3>3 DEF Token, Begins
    <3>5. text \in Texts
      BY DEF TypeOK
    <3> QED
      BY <2>2, <3>3, <3>4, <3>5 DEF Base
  <2>3. currentSegmentId = 0 => text = <<>>
    BY DEF CalmInv, BaselineInv
  <2> QED
    BY <2>1, <2>2, <2>3
<1>4. \A t \in finals' : t \in ToSet(Published) \/ (r.final /\ t \in ToSet(TokensOf(r)))
  <2>1. \A t \in finals : t \in ToSet(Published)
    BY DEF CalmInv, FinalsInv, Closing, Flushes
  <2> QED
    BY <1>1, <2>1
<1>5. CalmInv' /\ (Finishing' <=> r.final)
  BY <1>1, <1>2, <1>3, <1>4, TakesUpOnce
<1>6. ASSUME OrderInv, ~(r.seg < currentSegmentId) PROVE OrderInv'
  <2>1. ASSUME NEW t \in ToSet(Published)
        PROVE  \/ t.seg < r.seg
               \/ t.seg = r.seg /\ (t.utt < r.utt \/ (t.utt = r.utt /\ t.pos <= Len(base)))
    <3>1. Reached(t)
      BY <1>6 DEF OrderInv
    <3>2. t \in Tokens
      BY PublishedTokens
    <3>3. t.seg \in Nat \ {0} /\ r.seg \in Nat /\ currentSegmentId \in Nat
      BY <1>1, <3>2, ChunkerAssumption, SMTT(20) DEF Tokens, Segments, TypeOK
    <3>4. t.seg <= currentSegmentId /\ currentSegmentId <= r.seg
      BY <1>6, <3>1, <3>3 DEF Reached
    <3>5. CASE t.seg # currentSegmentId \/ currentSegmentId # r.seg
      BY <3>3, <3>4, <3>5
    <3>6. CASE t.seg = currentSegmentId /\ currentSegmentId = r.seg
      <4>1. base = text
        BY <3>6 DEF Boundary
      <4>2. t.utt < heard[t.seg].utt \/ (t.utt = heard[t.seg].utt /\ t.pos <= Len(text))
        BY <3>1, <3>6 DEF Reached
      <4> QED
        BY <1>1, <3>6, <4>1, <4>2
    <3> QED
      BY <3>5, <3>6
  <2>2. OnceInOrder
    BY <1>6 DEF OrderInv
  <2> QED
    BY <1>1, <1>2, <1>3, <1>5, <2>1, <2>2, TakesUpInOrder
<1> QED
  BY <1>5, <1>6

LEMMA ResultOnce ==
    ASSUME IInv, OnceInv, Result
    PROVE  OnceInv'
<1> USE DEF IInv
<1>1. PICK s \in Segments, f \in BOOLEAN, differs \in BOOLEAN, passes \in BOOLEAN :
        \E r \in Hypotheses(s, f) : \E more \in {0, s} :
          HandleInterim(NewCall, r, differs, passes, more)
  BY DEF Result
<1>2. PICK r \in Hypotheses(s, f), more \in {0, s} :
        HandleInterim(NewCall, r, differs, passes, more)
  BY <1>1
<1>3. Says(r) /\ r \in Results /\ r.words # <<>>
  BY HypothesisSays DEF Says
<1>4. PICK c : c = NewCall
  OBVIOUS
<1>5. /\ c \in Calls /\ call[c] = Idle /\ HandleInterim(c, r, differs, passes, more)
      /\ Speaks(r) /\ spans' = spans
  BY <1>2, <1>4, NewCallFree DEF HandleInterim
<1>6. /\ Calm' => Calm
      /\ "resumed" \notin odd' => "resumed" \notin odd
      /\ TakenUp(c, r) \/ (UNCHANGED <<textVars, call>> /\ (Calm' => ~r.final))
  BY <1>3, <1>5, ResultOddities
<1> SUFFICES ASSUME Calm'
             PROVE  CalmInv' /\ ("resumed" \notin odd' => OrderInv')
  BY DEF OnceInv
<1>7. CalmInv /\ ("resumed" \notin odd' => OrderInv)
  BY <1>6 DEF OnceInv
<1>8. CASE UNCHANGED <<textVars, call>> /\ ~r.final
  BY <1>3, <1>5, <1>7, <1>8, HeardGrowsOnce
<1>9. CASE TakenUp(c, r)
  <2>1. /\ OnSttResult(c, r) /\ \A d \in Calls : ~Closing(call[d])
        /\ r.final => Boundary(r) \/ text # r.words
        /\ "resumed" \notin odd' => ~(r.seg < currentSegmentId)
    BY <1>9 DEF TakenUp
  <2>2. PICK k : /\ Changes(c, k, ready)
                 /\ \/ k \in Underway /\ Waits(k, r)
                    \/ Boundary(r) /\ queue = <<>> /\ \E d : TakesUp(k, r, <<>>, d)
                    \/ ~Boundary(r) /\ \E d : TakesUp(k, r, text, d)
    BY <1>3, <1>5, <2>1, OnSttResultChanges
  <2>3. Rest(call, c, ready)
    BY <1>5, RestOfQueue DEF ReadyInv, Going, Idle
  <2>4. call'[c] = k /\ \A d \in Calls \ {c} : call'[d] = call[d]
    BY <1>5, <2>2, <2>3, ChangesFacts
  <2>5. CASE Waits(k, r)
    BY <1>3, <1>5, <1>7, <2>1, <2>4, <2>5, WaitsOnce
  <2>6. CASE Boundary(r) /\ \E d : TakesUp(k, r, <<>>, d)
    <3>1. PICK d : TakesUp(k, r, <<>>, d)
      BY <2>6
    <3> QED
      BY <1>3, <1>5, <1>7, <2>1, <2>4, <2>6, <3>1, TakesOnce
  <2>7. CASE ~Boundary(r) /\ \E d : TakesUp(k, r, text, d)
    <3>1. PICK b : b = text
      OBVIOUS
    <3>2. PICK d : TakesUp(k, r, b, d)
      BY <2>7, <3>1
    <3> QED
      BY <1>3, <1>5, <1>7, <2>1, <2>4, <2>7, <3>1, <3>2, TakesOnce
  <2> QED
    BY <2>2, <2>5, <2>6, <2>7
<1> QED
  BY <1>6, <1>8, <1>9

(* A call that goes on keeps its kind and result; words it sends stay       *)
(* published.                                                               *)
LEMMA MovesOnce ==
    ASSUME TypeOK, OnceInv, NEW c \in Calls, NEW k, NEW rest, Moves(c, k, rest),
           NothingSent \/ Sends(c),
           UNCHANGED <<text, currentSegmentId, heard, finals, odd>>
    PROVE  OnceInv'
<1>1. call'[c] = k /\ \A d \in Calls \ {c} : call'[d] = call[d]
  BY ChangesFacts DEF Moves
<1>2. SameCalls
  BY <1>1 DEF SameCalls, Moves
<1>3. Published' = Published
  BY SendsKeeps DEF NothingSent, Published, Moves
<1> QED
  BY <1>2, <1>3, SameOnce

LEMMA ResumeOnce ==
    ASSUME IInv, OnceInv, NEW c \in Calls, Resume(c)
    PROVE  OnceInv'
<1> USE DEF IInv
<1>1. ready # <<>> /\ Head(ready) = c /\ UNCHANGED <<heard, finals, odd>>
  BY DEF Resume, gateVars
<1>2. Rest(call, c, Tail(ready)) /\ call[c] # Idle
  BY <1>1, RestAfterHead DEF ReadyInv, Idle, Going
<1>3. CASE /\ call[c].at = "ensure"
           /\ AfterStart(c, Tail(ready)) /\ UNCHANGED <<text, currentSegmentId, trailingTimer>>
  <2>1. PICK k : Moves(c, k, Tail(ready)) /\ (NothingSent \/ Sends(c))
    BY <1>2, <1>3, AfterStartMoves
  <2> QED
    BY <1>1, <1>3, <2>1, MovesOnce
<1>4. CASE /\ call[c].at = "publish" /\ GoesOn(c, "return", Tail(ready))
           /\ UNCHANGED <<textVars, sentAge, spans, trailingTimer>>
  <2>1. PICK k : Moves(c, k, Tail(ready))
    BY <1>2, <1>4, GoesOnChanges DEF Moves
  <2>2. NothingSent
    BY <1>4 DEF NothingSent, textVars
  <2> QED
    BY <1>1, <1>4, <2>1, <2>2, MovesOnce DEF textVars
<1>5. CASE /\ call[c].at = "return"
           /\ Returns(c, Tail(ready)) /\ UNCHANGED <<sentAge, spans>>
  <2>1. CASE Flushes(call[c])
    <3>1. call[c].result \in Results /\ call[c].result.words # <<>>
      BY <2>1 DEF ReadyInv
    <3>2. Accept(c, call[c].result, <<>>, Tail(ready))
      BY <1>5, <2>1 DEF Returns, Flushes, Baseline
    <3>3. PICK k, d : Changes(c, k, Tail(ready)) /\ TakesUp(k, call[c].result, <<>>, d)
      BY <3>1, <3>2, AcceptChanges, EmptyText
    <3>4. call'[c] = k /\ \A e \in Calls \ {c} : call'[e] = call[e]
      BY <1>2, <3>3, ChangesFacts
    <3> QED
      BY <1>1, <1>5, <2>1, <3>3, <3>4, FlushReturnsOnce
  <2>2. CASE ~Flushes(call[c])
    <3>1. /\ Done(c, Tail(ready)) /\ UNCHANGED <<currentSegmentId, queue>>
          /\ \/ call[c].then = "final" /\ text' = <<>>
             \/ call[c].then \in {"interim", "timer"} /\ text' = text
      BY <1>5, <2>2 DEF Returns, Flushes, Baseline, textVars
    <3>2. call'[c] = Idle /\ \A e \in Calls \ {c} : call'[e] = call[e]
      BY <1>2, <3>1, DoneChanges, ChangesFacts
    <3>3. Published' = Published
      BY <1>5, <3>1 DEF Published
    <3>4. CASE call[c].then = "final" /\ text' = <<>>
      BY <1>1, <3>1, <3>2, <3>3, <3>4, FinalReturnsOnce
    <3>5. CASE call[c].then \in {"interim", "timer"} /\ text' = text
      <4>1. SameCalls
        BY <3>2, <3>5 DEF SameCalls, Closing, Idle
      <4> QED
        BY <1>1, <3>1, <3>3, <3>5, <4>1, SameOnce
    <3> QED
      BY <3>1, <3>4, <3>5
  <2> QED
    BY <2>1, <2>2
<1> QED
  BY <1>3, <1>4, <1>5 DEF Resume

LEMMA StartOnce ==
    ASSUME IInv, OnceInv, NEW c \in Calls, StartReturns(c) \/ StartFails(c)
    PROVE  OnceInv'
<1> USE DEF IInv
<1>1. /\ call[c].at = "start"
      /\ UNCHANGED <<text, currentSegmentId, heard, finals, odd>>
  BY DEF StartReturns, StartFails, gateVars, textVars
<1>2. Rest(call, c, ready) /\ call[c] # Idle
  BY <1>1, RestOfQueue DEF ReadyInv, Idle, Going
<1>3. CASE AfterStart(c, ready)
  <2>1. PICK k : Moves(c, k, ready) /\ (NothingSent \/ Sends(c))
    BY <1>2, <1>3, AfterStartMoves
  <2> QED
    BY <1>1, <2>1, MovesOnce
<1>4. CASE GoesOn(c, "return", ready) /\ UNCHANGED <<textVars, sentAge, spans>>
  <2>1. PICK k : Moves(c, k, ready)
    BY <1>2, <1>4, GoesOnChanges DEF Moves
  <2> QED
    BY <1>1, <1>4, <2>1, MovesOnce DEF NothingSent, textVars
<1> QED
  BY <1>3, <1>4 DEF StartReturns, StartFails

LEMMA TimerOnce ==
    ASSUME IInv, OnceInv, TimerFires
    PROVE  OnceInv'
<1> USE DEF IInv
<1>1. PICK c : c = NewCall
  OBVIOUS
<1>2. /\ c \in Calls /\ call[c] = Idle /\ trailingTimer # 0
      /\ UNCHANGED <<text, currentSegmentId, queue, spans, heard, finals, odd>>
      /\ \/ PublishSpan(c, "timer", trailingTimer, Nothing, ready)
         \/ UNCHANGED <<call, ready>>
  BY <1>1, NewCallFree DEF TimerFires, gateVars, textVars
<1>3. Published' = Published
  BY <1>2 DEF Published
<1>4. SameCalls
  <2>1. CASE UNCHANGED <<call, ready>>
    BY <2>1 DEF SameCalls
  <2>2. CASE PublishSpan(c, "timer", trailingTimer, Nothing, ready)
    <3>1. \A d \in Calls \ {c} : call'[d] = call[d]
      BY <1>2, <2>2 DEF PublishSpan
    <3>2. call'[c].then = "timer"
      BY <1>2, <2>2 DEF PublishSpan, TypeOK
    <3> QED
      BY <1>2, <3>1, <3>2 DEF SameCalls, Closing, Idle
  <2> QED
    BY <1>2, <2>1, <2>2
<1> QED
  BY <1>2, <1>3, <1>4, SameOnce

LEMMA InitOnce == Init => OnceInv
<1> SUFFICES ASSUME Init PROVE OnceInv
  OBVIOUS
<1> USE DEF Init
<1>1. \A d \in Calls : ~Closing(call[d]) /\ ~Flushes(call[d])
  BY DEF Idle, Closing, Flushes
<1>2. Published = <<>>
  <2>1. [i \in 1 .. 0 |-> spans[i].token] = <<>>
    OBVIOUS
  <2>2. [i \in 1 .. Len(spans) |-> spans[i].token] = <<>>
    BY <2>1
  <2> QED
    BY <2>2 DEF Published
<1>3. OnceInOrder /\ ToSet(Published) = {}
  BY <1>2 DEF OnceInOrder, ToSet
<1>4. CalmInv
  BY <1>1 DEF CalmInv, Alone, PendingInv, BaselineInv, FinalsInv
<1>5. OrderInv
  BY <1>1, <1>3 DEF OrderInv
<1> QED
  BY <1>4, <1>5 DEF OnceInv

LEMMA NextOnce == IInv /\ OnceInv /\ [Next]_vars => OnceInv'
<1> SUFFICES ASSUME IInv, OnceInv, [Next]_vars PROVE OnceInv'
  OBVIOUS
<1>1. CASE Result
  BY <1>1, ResultOnce
<1>2. CASE ResponseEnds \/ TimePasses \/ UNCHANGED vars
  <2>1. UNCHANGED <<text, currentSegmentId, queue, spans, call, heard, finals, odd>>
    BY <1>2 DEF ResponseEnds, TimePasses, vars, gateVars, textVars
  <2>2. SameCalls /\ Published' = Published
    BY <2>1 DEF SameCalls, Published
  <2> QED
    BY <2>1, <2>2, SameOnce
<1>3. CASE TimerFires
  BY <1>3, TimerOnce
<1>4. ASSUME NEW c \in Calls, Resume(c) PROVE OnceInv'
  BY <1>4, ResumeOnce
<1>5. ASSUME NEW c \in Calls, StartReturns(c) \/ StartFails(c) PROVE OnceInv'
  BY <1>5, StartOnce
<1> QED
  BY <1>1, <1>2, <1>3, <1>4, <1>5 DEF Next

(* What was said is published once and in order (41-43, 50-52, 72-78), if   *)
(* finals bring something new, no result overtakes the flush of a boundary  *)
(* or final before it, and none of a replaced stream comes late.            *)
THEOREM SpokenOnce == Spec => []SpokenTextOnce
<1>1. OnceInv => SpokenTextOnce
  <2> SUFFICES ASSUME OnceInv PROVE SpokenTextOnce
    OBVIOUS
  <2>1. ASSUME Calm PROVE FinalsAreDelivered
    <3>1. FinalsInv
      BY <2>1 DEF OnceInv, CalmInv
    <3>2. ASSUME Settled, NEW t \in finals PROVE t \in ToSet(Published)
      <4>1. \A d \in Calls : ~Flushes(call[d])
        BY <3>2 DEF Settled, Flushes, Idle
      <4> QED
        BY <3>1, <3>2, <4>1 DEF FinalsInv
    <3> QED
      BY <3>2 DEF FinalsAreDelivered
  <2>2. ASSUME Calm, "resumed" \notin odd PROVE OnceInOrder
    BY <2>2 DEF OnceInv, OrderInv
  <2> QED
    BY <2>1, <2>2 DEF SpokenTextOnce, Calm
<1>2. Init /\ IInv => OnceInv
  BY InitOnce
<1>3. Spec => []OnceInv
  BY <1>2, Inductive, InitOnce, NextOnce, PTL DEF Spec
<1> QED
  BY <1>1, <1>3, PTL

=============================================================================
