----------------------------- MODULE PumpProofs -----------------------------
(***************************************************************************)
(* The data path of one session for any number of subscribers, any channel *)
(* capacity and any stream of frames.                                      *)
(***************************************************************************)
EXTENDS Pump, SequenceTheorems, TLAPS

Coming == stage \in {"init", "frag", "raw"}

\* The parameter sets in hand are not yet stashed.
Unstashed == Coming /\ frame.kind = "config"

\* Chunk d may stand in front of whatever fan-out f broadcasts next, when the
\* pump is at st with frame n in hand.
DueAt(f, d, st, n) ==
    /\ d.n <= n
    /\ f = "fmp4" /\ st = "init" => d.n < n
    /\ f = "fmp4" /\ st = "frag" => d.n < n \/ d.what = "init"
    /\ f = "raw" /\ st \in {"init", "frag", "raw"} => d.n < n

Due(f, d) == DueAt(f, d, stage, frame.n)

LoopInv ==
    /\ ~initWritten => /\ stage \in {"read", "ended"} /\ configBuf = 0
                       /\ cachedInit = None /\ cachedKey = None
    /\ stage = "init" => cachedInit = None /\ frame.kind = "config"
    /\ initWritten => frame.gen > 0 /\ (stage # "init" => cachedInit # None)
    /\ stage = "ended" => subs = {}
    /\ \A x \in Subscribers \ subs : chan[x] = <<>> /\ got[x] = <<>>

CacheInv ==
    /\ cachedInit # None => cachedInit.what = "init" /\ Due("fmp4", cachedInit)
    /\ cachedKey # None => /\ cachedInit # None
                           /\ cachedKey.what = "frag" /\ Due("fmp4", cachedKey)
                           /\ Before(cachedInit, cachedKey)
    /\ cachedRawKey # None => Due("raw", cachedRawKey)

\* What a subscriber's stream is like.
LinedUp(f, s, st, n) ==
    /\ \A i \in 1..Len(s) : DueAt(f, s[i], st, n)
    /\ \A i \in 1..Len(s) - 1 : Before(s[i], s[i + 1])

Follows(x) == LinedUp(Fanout(x), Stream(x), stage, frame.n)

StartsWithInit(x) ==
    /\ cachedInit = None <=> Stream(x) = <<>>
    /\ \A i \in 1..Len(Stream(x)) : Stream(x)[i].what = "init" <=> i = 1

HasAll(x) ==
    /\ joined[x] <= Len(log[Fanout(x)])
    /\ ~lagged[x] => Stream(x) = prime[x] \o SubSeq(log[Fanout(x)], joined[x] + 1,
                                                    Len(log[Fanout(x)]))

StreamInv == \A x \in subs : /\ Follows(x) /\ HasAll(x)
                             /\ x \in VideoSubs => StartsWithInit(x)

\* What the keys broadcast so far say of the parameter sets kept.
KeyInv ==
    /\ \A i \in 1..Len(log["raw"]) : log["raw"][i].gen <= frame.gen
    /\ ~Unstashed /\ configBuf # 0 => configBuf = frame.gen
    /\ ~Unstashed /\ configBuf = 0 /\ initWritten =>
         \E i \in 1..Len(log["raw"]) : log["raw"][i].key /\ log["raw"][i].gen = frame.gen

IInv == TypeOK /\ LoopInv /\ CacheInv /\ StreamInv /\ KeyInv /\ FirstKeyCarriesItsParams

-----------------------------------------------------------------------------
(* Sequences.                                                              *)

LEMMA ConcatAppend ==
    ASSUME NEW S, NEW s \in Seq(S), NEW t \in Seq(S), NEW e \in S
    PROVE  s \o Append(t, e) = Append(s \o t, e)
<1>1. s \o t \in Seq(S) /\ <<e>> \in Seq(S)
  BY ConcatProperties
<1>2. s \o Append(t, e) = (s \o t) \o <<e>>
  BY <1>1, AppendIsConcat, ConcatAssociative
<1> QED BY <1>1, <1>2, AppendIsConcat

LEMMA ChunkBehind ==
    \A s, t \in Seq(Chunks), c \in Chunks : s \o Append(t, c) = Append(s \o t, c)
  BY ConcatAppend

LEMMA Pair ==
    ASSUME NEW c \in Chunks, NEW d \in Chunks
    PROVE  <<c>> \o <<d>> = <<c, d>>
<1>1. <<c>> \in Seq(Chunks) /\ <<d>> \in Seq(Chunks) /\ <<c, d>> \in Seq(Chunks)
  OBVIOUS
<1>2. Len(<<c>>) = 1 /\ Len(<<d>>) = 1 /\ Len(<<c, d>>) = 2
  OBVIOUS
<1>3. <<c>> \o <<d>> \in Seq(Chunks) /\ Len(<<c>> \o <<d>>) = 2
  BY <1>1, <1>2, ConcatProperties
<1>4. ASSUME NEW i \in 1..2 PROVE (<<c>> \o <<d>>)[i] = <<c, d>>[i]
  <2>1. (<<c>> \o <<d>>)[i] = IF i <= 1 THEN <<c>>[i] ELSE <<d>>[i - 1]
    BY <1>1, <1>2, ConcatProperties
  <2>2. i = 1 \/ i = 2
    OBVIOUS
  <2> QED BY <2>1, <2>2
<1> QED BY <1>1, <1>2, <1>3, <1>4, SeqEqual

\* Taking the head of t over to s leaves their concatenation as it is.
LEMMA ConcatShift ==
    ASSUME NEW S, NEW s \in Seq(S), NEW t \in Seq(S), t # <<>>
    PROVE  Append(s, Head(t)) \o Tail(t) = s \o t
<1>1. Head(t) \in S /\ Tail(t) \in Seq(S) /\ <<Head(t)>> \in Seq(S)
  BY HeadTailProperties
<1>2. <<Head(t)>> \o Tail(t) = t
  <2>1. <<Head(t)>> \o Tail(t) \in Seq(S)
    BY <1>1, ConcatProperties
  <2>2. Len(<<Head(t)>> \o Tail(t)) = Len(t)
    BY <1>1, ConcatProperties, HeadTailProperties, LenProperties
  <2>3. ASSUME NEW i \in 1..Len(t) PROVE (<<Head(t)>> \o Tail(t))[i] = t[i]
    <3>1. Len(<<Head(t)>>) = 1 /\ Len(Tail(t)) = Len(t) - 1 /\ Len(t) \in Nat
      BY HeadTailProperties, LenProperties
    <3>2. i \in 1..Len(<<Head(t)>>) + Len(Tail(t))
      BY <3>1
    <3>3. (<<Head(t)>> \o Tail(t))[i] = IF i <= 1 THEN <<Head(t)>>[i] ELSE Tail(t)[i - 1]
      BY <1>1, <3>1, <3>2, ConcatProperties
    <3>4. CASE i = 1
      BY <3>3, <3>4
    <3>5. CASE i # 1
      <4>1. i - 1 \in 1..Len(Tail(t))
        BY <3>1, <3>5
      <4>2. Tail(t)[i - 1] = t[(i - 1) + 1]
        BY <4>1, HeadTailProperties
      <4> QED BY <3>1, <3>3, <3>5, <4>2
    <3> QED BY <3>4, <3>5
  <2> QED BY <2>1, <2>2, <2>3, SeqEqual
<1>3. Append(s, Head(t)) \o Tail(t) = (s \o <<Head(t)>>) \o Tail(t)
  BY <1>1, AppendIsConcat
<1>4. (s \o <<Head(t)>>) \o Tail(t) = s \o (<<Head(t)>> \o Tail(t))
  BY <1>1, ConcatAssociative
<1> QED BY <1>2, <1>3, <1>4

\* What was sent since position j, when one more is sent.
LEMMA SubSeqAppend ==
    ASSUME NEW S, NEW s \in Seq(S), NEW e \in S, NEW j \in Nat, j <= Len(s)
    PROVE  SubSeq(Append(s, e), j + 1, Len(Append(s, e)))
             = Append(SubSeq(s, j + 1, Len(s)), e)
<1> DEFINE a == Append(s, e)
           n == Len(s)
<1>1. a \in Seq(S) /\ Len(a) = n + 1 /\ a[n + 1] = e /\ n \in Nat
      /\ \A i \in 1..n : a[i] = s[i]
  OBVIOUS
<1>2. \A i \in (j + 1)..(n + 1) : a[i] \in S
  BY <1>1, ElementOfSeq
<1>3. \A i \in (j + 1)..n : s[i] \in S
  BY <1>1, ElementOfSeq
<1> HIDE DEF a, n
<1>4. /\ SubSeq(a, j + 1, n + 1) \in Seq(S)
      /\ Len(SubSeq(a, j + 1, n + 1)) = n - j + 1
      /\ \A i \in 1..(n + 1) - (j + 1) + 1 : SubSeq(a, j + 1, n + 1)[i] = a[(j + 1) + i - 1]
  <2>1. Len(SubSeq(a, j + 1, n + 1)) = IF j + 1 <= n + 1 THEN (n + 1) - (j + 1) + 1 ELSE 0
    BY <1>1, <1>2, SubSeqProperties
  <2> QED BY <1>1, <1>2, <2>1, SubSeqProperties DEF n
<1>5. /\ SubSeq(s, j + 1, n) \in Seq(S)
      /\ Len(SubSeq(s, j + 1, n)) = n - j
      /\ \A i \in 1..n - (j + 1) + 1 : SubSeq(s, j + 1, n)[i] = s[(j + 1) + i - 1]
  <2>1. Len(SubSeq(s, j + 1, n)) = IF j + 1 <= n THEN n - (j + 1) + 1 ELSE 0
    BY <1>1, <1>3, SubSeqProperties
  <2> QED BY <1>1, <1>3, <2>1, SubSeqProperties DEF n
<1> DEFINE u == Append(SubSeq(s, j + 1, n), e)
<1>6. /\ u \in Seq(S) /\ Len(u) = n - j + 1 /\ u[n - j + 1] = e
      /\ \A i \in 1..n - j : u[i] = SubSeq(s, j + 1, n)[i]
  BY <1>5
<1> HIDE DEF u
<1>7. ASSUME NEW i \in 1..n - j + 1 PROVE SubSeq(a, j + 1, n + 1)[i] = u[i]
  <2>1. SubSeq(a, j + 1, n + 1)[i] = a[j + i]
    <3>1. i \in 1..(n + 1) - (j + 1) + 1 /\ (j + 1) + i - 1 = j + i
      BY <1>1
    <3> QED BY <1>4, <3>1
  <2>2. CASE i = n - j + 1
    BY <1>1, <1>6, <2>1, <2>2
  <2>3. CASE i # n - j + 1
    <3>1. i \in 1..n - j /\ i \in 1..n - (j + 1) + 1 /\ (j + 1) + i - 1 = j + i /\ j + i \in 1..n
      BY <1>1, <2>3
    <3> QED BY <1>1, <1>5, <1>6, <2>1, <3>1
  <2> QED BY <2>2, <2>3
<1>8. SubSeq(a, j + 1, n + 1) = u
  BY <1>1, <1>4, <1>6, <1>7, SeqEqual
<1> QED BY <1>1, <1>8 DEF a, n, u

-----------------------------------------------------------------------------
(* A broadcast.                                                            *)

LEMMA StreamType ==
    ASSUME TypeOK, NEW x \in Subscribers
    PROVE  Stream(x) \in Seq(Chunks)
  BY ConcatProperties DEF TypeOK, Stream

LEMMA DeliverType ==
    ASSUME TypeOK, NEW f \in Fanouts, NEW c \in Chunks, Deliver(f, c)
    PROVE  /\ chan' \in [Subscribers -> Seq(Chunks)]
           /\ \A x \in Subscribers : Len(chan'[x]) <= Cap
           /\ lagged' \in [Subscribers -> BOOLEAN]
           /\ log' \in [Fanouts -> Seq(Chunks)]
           /\ \A x \in Subscribers \ subs : chan'[x] = chan[x]
<1> USE PumpAssumption
<1> DEFINE P == {x \in subs : Fanout(x) = f}
           Full == {x \in P : Len(chan[x]) = Cap}
<1>1. /\ chan' = [x \in Subscribers |-> IF x \in P \ Full THEN Append(chan[x], c) ELSE chan[x]]
      /\ lagged' = [x \in Subscribers |-> lagged[x] \/ x \in Full]
      /\ log' = [log EXCEPT ![f] = Append(@, c)]
  BY DEF Deliver
<1>2. ASSUME NEW x \in Subscribers
      PROVE  chan[x] \in Seq(Chunks) /\ Len(chan[x]) \in Nat /\ Len(chan[x]) <= Cap
  BY LenProperties DEF TypeOK
<1>3. ASSUME NEW x \in Subscribers
      PROVE  chan'[x] \in Seq(Chunks) /\ Len(chan'[x]) <= Cap
  <2>1. Append(chan[x], c) \in Seq(Chunks) /\ Len(Append(chan[x], c)) = Len(chan[x]) + 1
    BY <1>2
  <2>2. CASE x \in P \ Full
    BY <1>1, <1>2, <2>1, <2>2
  <2>3. CASE x \notin P \ Full
    BY <1>1, <1>2, <2>3
  <2> QED BY <2>2, <2>3
<1>4. chan' \in [Subscribers -> Seq(Chunks)]
  BY <1>1, <1>3
<1>5. lagged' \in [Subscribers -> BOOLEAN]
  BY <1>1, Zenon
<1>6. log' \in [Fanouts -> Seq(Chunks)]
  BY <1>1 DEF TypeOK
<1>7. \A x \in Subscribers \ subs : chan'[x] = chan[x]
  BY <1>1
<1> QED BY <1>3, <1>4, <1>5, <1>6, <1>7

\* The chunk is put behind the stream of each subscriber of the fan-out that
\* has room for it; the others are as they were, or lag.
LEMMA DeliverStream ==
    ASSUME TypeOK, NEW f \in Fanouts, NEW c \in Chunks, Deliver(f, c), got' = got,
           NEW x \in Subscribers
    PROVE  /\ x \in subs /\ Fanout(x) = f /\ Len(chan[x]) # Cap =>
                Stream(x)' = Append(Stream(x), c)
           /\ ~(x \in subs /\ Fanout(x) = f /\ Len(chan[x]) # Cap) => Stream(x)' = Stream(x)
           /\ x \in subs /\ Fanout(x) = f /\ Len(chan[x]) = Cap => lagged'[x]
           /\ lagged[x] => lagged'[x]
           /\ log'[f] = Append(log[f], c)
           /\ \A g \in Fanouts \ {f} : log'[g] = log[g]
<1> DEFINE P == {y \in subs : Fanout(y) = f}
           Full == {y \in P : Len(chan[y]) = Cap}
<1>1. /\ chan' = [y \in Subscribers |-> IF y \in P \ Full THEN Append(chan[y], c) ELSE chan[y]]
      /\ lagged' = [y \in Subscribers |-> lagged[y] \/ y \in Full]
      /\ log' = [log EXCEPT ![f] = Append(@, c)]
  BY DEF Deliver
<1>2. chan[x] \in Seq(Chunks) /\ got[x] \in Seq(Chunks)
  BY DEF TypeOK
<1>3. x \in P \ Full <=> x \in subs /\ Fanout(x) = f /\ Len(chan[x]) # Cap
  OBVIOUS
<1>4. x \in P \ Full => Stream(x)' = Append(Stream(x), c)
  <2> SUFFICES ASSUME x \in P \ Full PROVE Stream(x)' = Append(Stream(x), c)
    OBVIOUS
  <2>1. chan'[x] = Append(chan[x], c)
    BY <1>1
  <2>2. got[x] \o Append(chan[x], c) = Append(got[x] \o chan[x], c)
    BY <1>2, ChunkBehind
  <2> QED BY <2>1, <2>2 DEF Stream
<1>5. x \notin P \ Full => Stream(x)' = Stream(x)
  BY <1>1 DEF Stream
<1>6. (x \in Full => lagged'[x]) /\ (lagged[x] => lagged'[x])
  BY <1>1, Zenon
<1>7. log'[f] = Append(log[f], c) /\ \A g \in Fanouts \ {f} : log'[g] = log[g]
  BY <1>1 DEF TypeOK
<1>8. x \in subs /\ Fanout(x) = f /\ Len(chan[x]) = Cap => x \in Full
  OBVIOUS
<1> QED BY <1>3, <1>4, <1>5, <1>6, <1>7, <1>8

LEMMA DeliverKeepsHasAll ==
    ASSUME TypeOK, NEW f \in Fanouts, NEW c \in Chunks, Deliver(f, c),
           UNCHANGED <<got, prime, joined>>, NEW x \in subs, HasAll(x)
    PROVE  HasAll(x)'
<1> DEFINE g == Fanout(x)
           s == log[g]
<1>0. x \in Subscribers /\ g \in Fanouts /\ g' = g
  BY DEF TypeOK, Fanout, Fanouts
<1>1. /\ s \in Seq(Chunks) /\ joined[x] \in Nat /\ prime[x] \in Seq(Chunks)
      /\ Len(s) \in Nat /\ joined[x] <= Len(s)
  BY <1>0, LenProperties DEF TypeOK, HasAll
<1>2. joined'[x] = joined[x] /\ prime'[x] = prime[x]
  OBVIOUS
<1>3. CASE g = f
  <2>1. log'[g] = Append(s, c) /\ Len(Append(s, c)) = Len(s) + 1
    BY <1>0, <1>1, <1>3, DeliverStream
  <2>2. joined'[x] <= Len(log'[g])
    BY <1>1, <1>2, <2>1
  <2>3. ASSUME ~lagged'[x]
        PROVE  Stream(x)' = prime'[x] \o SubSeq(log'[g], joined'[x] + 1, Len(log'[g]))
    <3>1. ~lagged[x] /\ Stream(x)' = Append(Stream(x), c)
      BY <1>0, <1>3, <2>3, DeliverStream
    <3>2. Stream(x) = prime[x] \o SubSeq(s, joined[x] + 1, Len(s))
      BY <3>1 DEF HasAll
    <3>3. SubSeq(Append(s, c), joined[x] + 1, Len(Append(s, c)))
             = Append(SubSeq(s, joined[x] + 1, Len(s)), c)
      BY <1>1, SubSeqAppend
    <3>4. SubSeq(s, joined[x] + 1, Len(s)) \in Seq(Chunks)
      <4>1. \A i \in joined[x] + 1 .. Len(s) : s[i] \in Chunks
        BY <1>1, ElementOfSeq
      <4> QED BY <1>1, <4>1, SubSeqProperties
    <3>5. prime[x] \o Append(SubSeq(s, joined[x] + 1, Len(s)), c)
            = Append(prime[x] \o SubSeq(s, joined[x] + 1, Len(s)), c)
      BY <1>1, <3>4, ChunkBehind
    <3> QED BY <1>2, <2>1, <3>1, <3>2, <3>3, <3>5
  <2> QED BY <1>0, <2>2, <2>3 DEF HasAll
<1>4. CASE g # f
  <2>1. log'[g] = s /\ Stream(x)' = Stream(x) /\ (lagged[x] => lagged'[x])
    BY <1>0, <1>4, DeliverStream
  <2> QED BY <1>0, <1>2, <2>1 DEF HasAll
<1> QED BY <1>3, <1>4

\* A stream stays in line while what was due stays due, and when what is put
\* behind it was next.
LEMMA LinedUpStays ==
    ASSUME NEW f, NEW s \in Seq(Chunks), NEW st, NEW n, LinedUp(f, s, st, n),
           NEW st2, NEW n2,
           \A d \in Chunks : DueAt(f, d, st, n) => DueAt(f, d, st2, n2)
    PROVE  LinedUp(f, s, st2, n2)
  BY ElementOfSeq DEF LinedUp

LEMMA LinedUpAppend ==
    ASSUME NEW f, NEW s \in Seq(Chunks), NEW st, NEW n, LinedUp(f, s, st, n),
           NEW st2, NEW n2, NEW c \in Chunks,
           \A d \in Chunks : DueAt(f, d, st, n) => DueAt(f, d, st2, n2) /\ Before(d, c),
           DueAt(f, c, st2, n2)
    PROVE  LinedUp(f, Append(s, c), st2, n2)
<1> DEFINE a == Append(s, c)
<1>1. /\ Len(s) \in Nat /\ Len(a) = Len(s) + 1 /\ a[Len(s) + 1] = c
      /\ \A i \in 1..Len(s) : a[i] = s[i] /\ s[i] \in Chunks
  BY ElementOfSeq, LenProperties
<1> HIDE DEF a
<1>2. ASSUME NEW i \in 1..Len(a) PROVE DueAt(f, a[i], st2, n2)
  <2>1. CASE i \in 1..Len(s)
    BY <1>1, <2>1 DEF LinedUp
  <2>2. CASE i = Len(s) + 1
    BY <1>1, <2>2
  <2> QED BY <1>1, <2>1, <2>2
<1>3. ASSUME NEW i \in 1..Len(a) - 1 PROVE Before(a[i], a[i + 1])
  <2>0. i \in 1..Len(s) /\ a[i] = s[i] /\ s[i] \in Chunks
    BY <1>1
  <2>1. CASE i \in 1..Len(s) - 1
    <3>1. i + 1 \in 1..Len(s)
      BY <1>1, <2>1
    <3> QED BY <1>1, <2>0, <2>1, <3>1 DEF LinedUp
  <2>2. CASE i = Len(s)
    <3>1. a[i + 1] = c
      BY <1>1, <2>2
    <3>2. DueAt(f, s[i], st, n)
      BY <2>0 DEF LinedUp
    <3> QED BY <2>0, <3>1, <3>2
  <2> QED BY <1>1, <2>0, <2>1, <2>2
<1>4. LinedUp(f, a, st2, n2)
  BY <1>2, <1>3 DEF LinedUp
<1> QED BY <1>4 DEF a

LEMMA DeliverKeepsFollows ==
    ASSUME TypeOK, NEW f \in Fanouts, NEW c \in Chunks, Deliver(f, c), got' = got,
           NEW x \in subs, Follows(x),
           \A d \in Chunks : Due(Fanout(x), d) => DueAt(Fanout(x), d, stage', frame'.n),
           Fanout(x) = f => /\ DueAt(f, c, stage', frame'.n)
                            /\ \A d \in Chunks : Due(f, d) => Before(d, c)
    PROVE  Follows(x)'
<1> DEFINE s == Stream(x)
           n == frame.n
           n2 == frame'.n
<1>0. x \in Subscribers /\ Fanout(x)' = Fanout(x) /\ s \in Seq(Chunks)
  BY StreamType DEF TypeOK, Fanout
<1>1. LinedUp(Fanout(x), s, stage, n)
  BY DEF Follows
<1>2. \A d \in Chunks : DueAt(Fanout(x), d, stage, n) => DueAt(Fanout(x), d, stage', n2)
  BY DEF Due
<1>3. CASE Stream(x)' = s
  <2>1. LinedUp(Fanout(x), s, stage', n2)
    BY <1>0, <1>1, <1>2, LinedUpStays
  <2> QED BY <1>3, <2>1 DEF Follows
<1>4. CASE Stream(x)' = Append(s, c) /\ Fanout(x) = f
  <2>1. \A d \in Chunks : DueAt(f, d, stage, n) => DueAt(f, d, stage', n2) /\ Before(d, c)
    BY <1>2, <1>4 DEF Due
  <2>2. LinedUp(f, Append(s, c), stage', n2)
    <3> HIDE DEF s, n, n2
    <3>1. LinedUp(f, s, stage, n)
      BY <1>1, <1>4
    <3>2. DueAt(f, c, stage', n2)
      BY <1>4 DEF n2
    <3> QED BY <1>0, <2>1, <3>1, <3>2, LinedUpAppend
  <2> QED BY <1>4, <2>2 DEF Follows
<1> QED BY <1>0, <1>3, <1>4, DeliverStream

-----------------------------------------------------------------------------
(* What a step leaves alone.                                               *)

LEMMA StreamSame ==
    ASSUME NEW x \in Subscribers, got'[x] = got[x], chan'[x] = chan[x]
    PROVE  Stream(x)' = Stream(x)
  BY DEF Stream

LEMMA FollowsSame ==
    ASSUME TypeOK, NEW x \in Subscribers, Follows(x), Stream(x)' = Stream(x),
           \A d \in Chunks : Due(Fanout(x), d) => DueAt(Fanout(x), d, stage', frame'.n)
    PROVE  Follows(x)'
<1> DEFINE s == Stream(x)
           n == frame.n
           n2 == frame'.n
<1>1. s \in Seq(Chunks) /\ LinedUp(Fanout(x), s, stage, n)
  BY StreamType DEF Follows
<1>2. \A d \in Chunks : DueAt(Fanout(x), d, stage, n) => DueAt(Fanout(x), d, stage', n2)
  BY DEF Due
<1>3. LinedUp(Fanout(x), s, stage', n2)
  <2> HIDE DEF s, n, n2
  <2> QED BY <1>1, <1>2, LinedUpStays
<1> QED BY <1>3 DEF Follows, Fanout

LEMMA HasAllSame ==
    ASSUME NEW x \in Subscribers, HasAll(x), Stream(x)' = Stream(x), log' = log,
           joined'[x] = joined[x], prime'[x] = prime[x], lagged'[x] = lagged[x]
    PROVE  HasAll(x)'
  BY DEF HasAll, Fanout

LEMMA StartsSame ==
    ASSUME NEW x \in Subscribers, StartsWithInit(x), Stream(x)' = Stream(x),
           (cachedInit' = None) <=> (cachedInit = None)
    PROVE  StartsWithInit(x)'
  BY DEF StartsWithInit

\* Whoever is dismissed has nothing left, the others have what they had.
LEMMA Dismissed ==
    ASSUME IInv, NEW P, Dismiss(P),
           log' = log, (cachedInit' = None) <=> (cachedInit = None),
           \A x \in subs \ P : \A d \in Chunks :
               Due(Fanout(x), d) => DueAt(Fanout(x), d, stage', frame'.n)
    PROVE  /\ {chan', got', prime'} \subseteq [Subscribers -> Seq(Chunks)]
           /\ \A x \in Subscribers : Len(chan'[x]) <= Cap
           /\ joined' \in [Subscribers -> Nat] /\ lagged' \in [Subscribers -> BOOLEAN]
           /\ subs' \subseteq Subscribers
           /\ \A x \in Subscribers \ subs' : chan'[x] = <<>> /\ got'[x] = <<>>
           /\ StreamInv'
<1> USE PumpAssumption
<1>0. /\ subs' = subs \ P
      /\ chan' = [x \in Subscribers |-> IF x \in P THEN <<>> ELSE chan[x]]
      /\ got' = [x \in Subscribers |-> IF x \in P THEN <<>> ELSE got[x]]
      /\ prime' = [x \in Subscribers |-> IF x \in P THEN <<>> ELSE prime[x]]
      /\ joined' = [x \in Subscribers |-> IF x \in P THEN 0 ELSE joined[x]]
      /\ lagged' = [x \in Subscribers |-> lagged[x] /\ x \notin P]
  BY DEF Dismiss
<1>1. /\ {chan', got', prime'} \subseteq [Subscribers -> Seq(Chunks)]
      /\ joined' \in [Subscribers -> Nat]
      /\ subs' \subseteq Subscribers
  BY <1>0, EmptySeq DEF IInv, TypeOK
<1>2. lagged' \in [Subscribers -> BOOLEAN]
  BY <1>0, Zenon
<1>3. \A x \in Subscribers : Len(chan'[x]) <= Cap
  BY <1>0, EmptySeq DEF IInv, TypeOK
<1>4. \A x \in Subscribers \ subs' : chan'[x] = <<>> /\ got'[x] = <<>>
  BY <1>0 DEF IInv, LoopInv
<1>5. ASSUME NEW x \in subs'
      PROVE  Follows(x)' /\ HasAll(x)' /\ (x \in VideoSubs => StartsWithInit(x)')
  <2>1. /\ x \in Subscribers /\ x \in subs /\ x \notin P
        /\ Follows(x) /\ HasAll(x) /\ (x \in VideoSubs => StartsWithInit(x))
    BY <1>0 DEF IInv, TypeOK, StreamInv
  <2>2. /\ chan'[x] = chan[x] /\ got'[x] = got[x] /\ prime'[x] = prime[x]
        /\ joined'[x] = joined[x]
    BY <1>0, <2>1
  <2>3. lagged'[x] = lagged[x]
    <3>1. lagged'[x] <=> lagged[x]
      BY <1>0, <2>1, Zenon
    <3>2. lagged'[x] \in BOOLEAN /\ lagged[x] \in BOOLEAN
      BY <1>2, <2>1 DEF IInv, TypeOK
    <3> QED BY <3>1, <3>2
  <2>4. Stream(x)' = Stream(x)
    BY <2>1, <2>2, StreamSame
  <2>5. Follows(x)'
    BY <2>1, <2>4, FollowsSame DEF IInv
  <2>6. HasAll(x)'
    BY <2>1, <2>2, <2>3, <2>4, HasAllSame
  <2> QED BY <2>1, <2>4, <2>5, <2>6, StartsSame
<1>6. StreamInv'
  BY <1>5 DEF StreamInv
<1> QED BY <1>1, <1>2, <1>3, <1>4, <1>6

LEMMA StreamsSame ==
    ASSUME IInv, UNCHANGED <<subVars, log, cachedInit>>,
           \A f \in Fanouts, d \in Chunks : Due(f, d) => DueAt(f, d, stage', frame'.n)
    PROVE  StreamInv'
<1>1. /\ subs' = subs /\ chan' = chan /\ got' = got /\ prime' = prime
      /\ joined' = joined /\ lagged' = lagged /\ log' = log /\ cachedInit' = cachedInit
  BY DEF subVars
<1>2. ASSUME NEW x \in subs
      PROVE  Follows(x)' /\ HasAll(x)' /\ (x \in VideoSubs => StartsWithInit(x)')
  <2>1. /\ x \in Subscribers /\ Fanout(x) \in Fanouts
        /\ Follows(x) /\ HasAll(x) /\ (x \in VideoSubs => StartsWithInit(x))
    BY DEF IInv, TypeOK, StreamInv, Fanout, Fanouts
  <2>2. Stream(x)' = Stream(x)
    BY <1>1, <2>1, StreamSame
  <2>3. Follows(x)'
    BY <2>1, <2>2, FollowsSame DEF IInv
  <2>4. HasAll(x)'
    BY <1>1, <2>1, <2>2, HasAllSame
  <2> QED BY <1>1, <2>1, <2>2, <2>3, <2>4, StartsSame
<1> QED BY <1>1, <1>2 DEF StreamInv

LEMMA CachesSame ==
    ASSUME IInv, UNCHANGED cacheVars,
           \A f \in Fanouts, d \in Chunks : Due(f, d) => DueAt(f, d, stage', frame'.n)
    PROVE  CacheInv'
<1>1. cachedInit' = cachedInit /\ cachedKey' = cachedKey /\ cachedRawKey' = cachedRawKey
  BY DEF cacheVars
<1>2. {cachedInit, cachedKey, cachedRawKey} \subseteq Chunks \cup {None}
  BY DEF IInv, TypeOK
<1> QED BY <1>1, <1>2 DEF IInv, CacheInv, Due, Fanouts

LEMMA KeysSame ==
    ASSUME FirstKeyCarriesItsParams, log' = log
    PROVE  FirstKeyCarriesItsParams'
  BY DEF FirstKeyCarriesItsParams

-----------------------------------------------------------------------------
(* The steps.                                                              *)

LEMMA InitIInv == Init => IInv
<1> SUFFICES ASSUME Init PROVE IInv
  OBVIOUS
<1> USE PumpAssumption DEF Init
<1>0. subs = {} /\ log = [f \in Fanouts |-> <<>>] /\ log["raw"] = <<>>
  BY DEF Fanouts
<1>1. TypeOK
  <2>1. frame \in [n : 0..MaxFrames, kind : Kinds, gen : Nat] /\ stage = "read"
    BY DEF Kinds
  <2>2. \A x \in Subscribers : Len(chan[x]) <= Cap
    BY EmptySeq
  <2>3. /\ {chan, got, prime} \subseteq [Subscribers -> Seq(Chunks)]
        /\ log \in [Fanouts -> Seq(Chunks)]
    BY EmptySeq
  <2>4. joined \in [Subscribers -> Nat] /\ lagged \in [Subscribers -> BOOLEAN]
    BY Zenon
  <2> QED BY <2>1, <2>2, <2>3, <2>4 DEF TypeOK
<1>2. LoopInv
  BY DEF LoopInv
<1>3. CacheInv
  BY DEF CacheInv
<1>4. StreamInv
  BY <1>0 DEF StreamInv
<1>5. KeyInv
  BY <1>0, EmptySeq DEF KeyInv
<1>6. FirstKeyCarriesItsParams
  BY <1>0, EmptySeq DEF FirstKeyCarriesItsParams
<1> QED BY <1>1, <1>2, <1>3, <1>4, <1>5, <1>6 DEF IInv

LEMMA ReadFailsStep == IInv /\ ReadFails => IInv'
<1> SUFFICES ASSUME IInv, ReadFails PROVE IInv'
  OBVIOUS
<1>1. /\ stage = "read" /\ stage' = "ended" /\ Dismiss(Subscribers)
      /\ frame' = frame /\ initWritten' = initWritten /\ configBuf' = configBuf
      /\ log' = log /\ UNCHANGED cacheVars
      /\ cachedInit' = cachedInit /\ cachedKey' = cachedKey /\ cachedRawKey' = cachedRawKey
  BY DEF ReadFails, Ends, cacheVars
<1>2. \A f \in Fanouts, d \in Chunks : Due(f, d) => DueAt(f, d, stage', frame'.n)
  BY <1>1 DEF Due, DueAt
<1>3. /\ {chan', got', prime'} \subseteq [Subscribers -> Seq(Chunks)]
      /\ \A x \in Subscribers : Len(chan'[x]) <= Cap
      /\ joined' \in [Subscribers -> Nat] /\ lagged' \in [Subscribers -> BOOLEAN]
      /\ subs' \subseteq Subscribers
      /\ \A x \in Subscribers \ subs' : chan'[x] = <<>> /\ got'[x] = <<>>
      /\ StreamInv'
  <2>1. \A x \in subs \ Subscribers : \A d \in Chunks :
            Due(Fanout(x), d) => DueAt(Fanout(x), d, stage', frame'.n)
    BY DEF IInv, TypeOK
  <2> QED BY <1>1, <2>1, Dismissed
<1>4. subs' = {}
  BY <1>1 DEF Dismiss, IInv, TypeOK
<1>5. TypeOK'
  BY <1>1, <1>3 DEF IInv, TypeOK
<1>6. LoopInv'
  BY <1>1, <1>3, <1>4 DEF IInv, LoopInv
<1>7. CacheInv'
  BY <1>1, <1>2, CachesSame
<1>8. KeyInv'
  BY <1>1 DEF IInv, KeyInv, Unstashed, Coming
<1> QED BY <1>1, <1>3, <1>5, <1>6, <1>7, <1>8, KeysSame DEF IInv

LEMMA ReadFrameStep ==
    ASSUME IInv, NEW k \in Kinds, ReadFrame(k)
    PROVE  IInv'
<1> USE PumpAssumption
<1>1. /\ stage = "read" /\ frame.n < MaxFrames
      /\ frame' = [n |-> frame.n + 1, kind |-> k,
                   gen |-> IF k = "config" THEN frame.gen + 1 ELSE frame.gen]
      /\ configBuf' = configBuf /\ log' = log /\ UNCHANGED cacheVars
      /\ cachedInit' = cachedInit /\ cachedKey' = cachedKey /\ cachedRawKey' = cachedRawKey
  BY DEF ReadFrame, cacheVars
<1>2. frame \in [n : 0..MaxFrames, kind : Kinds, gen : Nat]
  BY DEF IInv, TypeOK
<1>3. frame'.n = frame.n + 1 /\ frame'.kind = k /\ frame'.gen >= frame.gen
      /\ frame' \in [n : 0..MaxFrames, kind : Kinds, gen : Nat]
      /\ (k = "config" => frame'.gen > 0) /\ (k # "config" => frame'.gen = frame.gen)
  BY <1>1, <1>2
<1>4. stage' \in {"frag", "init", "ended"}
  BY DEF ReadFrame, Ends
<1>5. \A f \in Fanouts, d \in Chunks : Due(f, d) => DueAt(f, d, stage', frame'.n)
  BY <1>2, <1>3 DEF Due, DueAt, Chunks
<1>6. CacheInv'
  BY <1>1, <1>5, CachesSame
<1>7. FirstKeyCarriesItsParams'
  BY <1>1, KeysSame DEF IInv
<1>8. /\ log["raw"] \in Seq(Chunks)
      /\ \A i \in 1..Len(log["raw"]) : log'["raw"][i].gen <= frame'.gen
  <2>1. log["raw"] \in Seq(Chunks)
    BY DEF IInv, TypeOK, Fanouts
  <2>2. ASSUME NEW i \in 1..Len(log["raw"])
        PROVE  log["raw"][i].gen <= frame.gen /\ log["raw"][i].gen \in Nat
    <3>1. log["raw"][i] \in Chunks
      BY <2>1, ElementOfSeq
    <3>2. log["raw"][i].gen <= frame.gen
      BY DEF IInv, KeyInv
    <3> QED BY <3>1, <3>2 DEF Chunks
  <2> QED BY <1>1, <1>2, <1>3, <2>1, <2>2
<1>9. CASE initWritten /\ stage' = "frag" /\ UNCHANGED <<initWritten, subVars>>
  <2>1. StreamInv'
    BY <1>1, <1>5, <1>9, StreamsSame
  <2>2. TypeOK'
    BY <1>1, <1>3, <1>9 DEF IInv, TypeOK, subVars
  <2>3. LoopInv'
    BY <1>1, <1>2, <1>3, <1>9 DEF IInv, LoopInv, subVars
  <2>4. KeyInv'
    BY <1>1, <1>3, <1>8, <1>9 DEF IInv, KeyInv, Unstashed, Coming
  <2> QED BY <1>6, <1>7, <2>1, <2>2, <2>3, <2>4 DEF IInv
<1>10. CASE /\ ~initWritten /\ k = "config"
            /\ initWritten' = TRUE /\ stage' = "init" /\ UNCHANGED subVars
  <2>1. StreamInv'
    BY <1>1, <1>5, <1>10, StreamsSame
  <2>2. TypeOK'
    BY <1>1, <1>3, <1>10 DEF IInv, TypeOK, subVars
  <2>3. LoopInv'
    BY <1>1, <1>2, <1>3, <1>10 DEF IInv, LoopInv, subVars
  <2>4. KeyInv'
    BY <1>1, <1>3, <1>8, <1>10 DEF IInv, KeyInv, Unstashed, Coming
  <2> QED BY <1>6, <1>7, <2>1, <2>2, <2>3, <2>4 DEF IInv
<1>11. CASE ~initWritten /\ k # "config" /\ Ends /\ UNCHANGED initWritten
  <2>0. stage' = "ended" /\ Dismiss(Subscribers) /\ initWritten' = initWritten
    BY <1>11 DEF Ends
  <2>1. /\ {chan', got', prime'} \subseteq [Subscribers -> Seq(Chunks)]
        /\ \A x \in Subscribers : Len(chan'[x]) <= Cap
        /\ joined' \in [Subscribers -> Nat] /\ lagged' \in [Subscribers -> BOOLEAN]
        /\ subs' \subseteq Subscribers
        /\ \A x \in Subscribers \ subs' : chan'[x] = <<>> /\ got'[x] = <<>>
        /\ StreamInv'
    <3>1. \A x \in subs \ Subscribers : \A d \in Chunks :
              Due(Fanout(x), d) => DueAt(Fanout(x), d, stage', frame'.n)
      BY DEF IInv, TypeOK
    <3> QED BY <1>1, <2>0, <3>1, Dismissed
  <2>2. subs' = {}
    BY <2>0 DEF Dismiss, IInv, TypeOK
  <2>3. TypeOK'
    BY <1>1, <1>3, <2>0, <2>1 DEF IInv, TypeOK
  <2>4. LoopInv'
    BY <1>1, <1>11, <2>0, <2>1, <2>2 DEF IInv, LoopInv
  <2>5. KeyInv'
    BY <1>1, <1>3, <1>8, <1>11, <2>0 DEF IInv, KeyInv, LoopInv, Unstashed, Coming
  <2> QED BY <1>6, <1>7, <2>1, <2>3, <2>4, <2>5 DEF IInv
<1> QED BY <1>9, <1>10, <1>11 DEF ReadFrame

LEMMA StashConfigStep == IInv /\ StashConfig => IInv'
<1> SUFFICES ASSUME IInv, StashConfig PROVE IInv'
  OBVIOUS
<1>1. /\ stage = "raw" /\ frame.kind = "config" /\ stage' = "read" /\ configBuf' = frame.gen
      /\ frame' = frame /\ initWritten' = initWritten /\ log' = log
      /\ UNCHANGED cacheVars /\ UNCHANGED subVars
      /\ cachedInit' = cachedInit /\ cachedKey' = cachedKey /\ cachedRawKey' = cachedRawKey
      /\ subs' = subs /\ chan' = chan /\ got' = got /\ prime' = prime
      /\ joined' = joined /\ lagged' = lagged
  BY DEF StashConfig, cacheVars, subVars
<1>2. frame.gen \in Nat
  BY DEF IInv, TypeOK
<1>3. \A f \in Fanouts, d \in Chunks : Due(f, d) => DueAt(f, d, stage', frame'.n)
  BY <1>1 DEF Due, DueAt
<1>4. TypeOK'
  BY <1>1, <1>2 DEF IInv, TypeOK
<1>5. LoopInv'
  BY <1>1 DEF IInv, LoopInv
<1>6. KeyInv'
  BY <1>1, <1>2 DEF IInv, KeyInv, LoopInv, Unstashed, Coming
<1>7. StreamInv' /\ CacheInv' /\ FirstKeyCarriesItsParams'
  BY <1>1, <1>3, StreamsSame, CachesSame, KeysSame DEF IInv
<1> QED BY <1>4, <1>5, <1>6, <1>7 DEF IInv

\* A broadcast on the fMP4 fan-out leaves what concerns the raw keys alone.
LEMMA RawKeysSame ==
    ASSUME IInv, NEW c \in Chunks, Deliver("fmp4", c),
           frame' = frame, configBuf' = configBuf, initWritten' = initWritten,
           stage \in {"init", "frag"}, stage' \in {"frag", "raw"}
    PROVE  KeyInv' /\ FirstKeyCarriesItsParams'
<1>1. log'["raw"] = log["raw"]
  BY DEF Deliver, IInv, TypeOK, Fanouts
<1>2. KeyInv'
  BY <1>1 DEF IInv, KeyInv, Unstashed, Coming
<1>3. FirstKeyCarriesItsParams'
  BY <1>1 DEF IInv, FirstKeyCarriesItsParams
<1> QED BY <1>2, <1>3

LEMMA BroadcastInitStep == IInv /\ BroadcastInit => IInv'
<1> SUFFICES ASSUME IInv, BroadcastInit PROVE IInv'
  OBVIOUS
<1> USE PumpAssumption
<1> DEFINE c == Chunk("init", FALSE, frame.gen)
<1>1. /\ stage = "init" /\ stage' = "frag" /\ cachedInit' = c /\ Deliver("fmp4", c)
      /\ frame' = frame /\ initWritten' = initWritten /\ configBuf' = configBuf
      /\ cachedKey' = cachedKey /\ cachedRawKey' = cachedRawKey /\ subs' = subs
      /\ got' = got /\ prime' = prime /\ joined' = joined
  BY DEF BroadcastInit
<1>2. c \in Chunks /\ c.what = "init" /\ c.n = frame.n /\ c # None
  <2>1. TypeOK /\ frame.gen \in Nat /\ FALSE \in BOOLEAN
    BY DEF IInv, TypeOK
  <2>2. c \in Chunks /\ c.what = "init" /\ c.n = frame.n
    BY <2>1 DEF Chunk, Chunks, TypeOK
  <2> QED BY <2>2
<1> HIDE DEF c
<1>3. cachedInit = None /\ cachedKey = None /\ initWritten /\ frame.gen > 0
  BY <1>1 DEF IInv, LoopInv, CacheInv
<1>4. frame.n \in Nat /\ "fmp4" \in Fanouts
  BY DEF IInv, TypeOK, Fanouts
<1>5. /\ \A f \in Fanouts, d \in Chunks : Due(f, d) => DueAt(f, d, stage', frame'.n)
      /\ \A d \in Chunks : Due("fmp4", d) => Before(d, c)
      /\ DueAt("fmp4", c, stage', frame'.n)
  BY <1>1, <1>2, <1>4 DEF Due, DueAt, Fanouts, Before
<1>6. TypeOK'
  BY <1>1, <1>2, <1>4, DeliverType DEF IInv, TypeOK
<1>7. LoopInv'
  <2>1. \A x \in Subscribers \ subs : chan'[x] = chan[x]
    BY <1>1, <1>2, <1>4, DeliverType DEF IInv
  <2> QED BY <1>1, <1>2, <1>3, <2>1 DEF IInv, LoopInv
<1>8. CacheInv'
  <2>1. cachedRawKey \in Chunks \cup {None}
    BY DEF IInv, TypeOK
  <2> QED BY <1>1, <1>2, <1>3, <1>5, <2>1 DEF IInv, CacheInv, Due, Fanouts
<1>9. ASSUME NEW x \in subs
      PROVE  Follows(x)' /\ HasAll(x)' /\ (x \in VideoSubs => StartsWithInit(x)')
  <2>1. /\ x \in Subscribers /\ Fanout(x) \in Fanouts
        /\ Follows(x) /\ HasAll(x) /\ (x \in VideoSubs => StartsWithInit(x))
    BY DEF IInv, TypeOK, StreamInv, Fanout, Fanouts
  <2>2. HasAll(x)'
    BY <1>1, <1>2, <1>4, <2>1, DeliverKeepsHasAll DEF IInv
  <2>3. Follows(x)'
    BY <1>1, <1>2, <1>4, <1>5, <2>1, DeliverKeepsFollows DEF IInv
  <2>4. ASSUME x \in VideoSubs PROVE StartsWithInit(x)'
    <3>1. Stream(x) = <<>> /\ Fanout(x) = "fmp4"
      BY <1>3, <2>1, <2>4 DEF StartsWithInit, Fanout
    <3>2. Len(chan[x]) # Cap
      <4>1. got[x] \in Seq(Chunks) /\ chan[x] \in Seq(Chunks)
        BY <2>1 DEF IInv, TypeOK
      <4>2. Len(got[x]) + Len(chan[x]) = 0
        BY <3>1, <4>1, ConcatProperties, EmptySeq DEF Stream
      <4>3. Len(got[x]) \in Nat /\ Len(chan[x]) \in Nat
        BY <4>1, LenProperties
      <4>4. \A i, j \in Nat : i + j = 0 => j = 0
        OBVIOUS
      <4>5. Len(chan[x]) = 0
        BY <4>2, <4>3, <4>4, Zenon
      <4> QED BY <4>5 DEF PumpAssumption
    <3>3. Stream(x)' = Append(<<>>, c)
      BY <1>1, <1>2, <1>4, <2>1, <3>1, <3>2, DeliverStream DEF IInv
    <3>4. Len(Append(<<>>, c)) = 1 /\ Append(<<>>, c)[1] = c /\ Append(<<>>, c) # <<>>
      OBVIOUS
    <3> QED BY <1>1, <1>2, <3>3, <3>4 DEF StartsWithInit
  <2> QED BY <2>2, <2>3, <2>4
<1>10. StreamInv'
  BY <1>1, <1>9 DEF StreamInv
<1>11. KeyInv' /\ FirstKeyCarriesItsParams'
  BY <1>1, <1>2, RawKeysSame
<1> QED BY <1>6, <1>7, <1>8, <1>10, <1>11 DEF IInv

LEMMA BroadcastFragStep == IInv /\ BroadcastFrag => IInv'
<1> SUFFICES ASSUME IInv, BroadcastFrag PROVE IInv'
  OBVIOUS
<1> USE PumpAssumption
<1> DEFINE c == Chunk("frag", frame.kind = "idr" \/ frame.n = 1, 0)
<1>1. /\ stage = "frag" /\ stage' = "raw" /\ cachedKey' \in {c, cachedKey}
      /\ Deliver("fmp4", c)
      /\ frame' = frame /\ initWritten' = initWritten /\ configBuf' = configBuf
      /\ cachedInit' = cachedInit /\ cachedRawKey' = cachedRawKey /\ subs' = subs
      /\ got' = got /\ prime' = prime /\ joined' = joined
  BY DEF BroadcastFrag
<1>2. c \in Chunks /\ c.what = "frag" /\ c.n = frame.n /\ c # None
  <2>1. TypeOK /\ (frame.kind = "idr" \/ frame.n = 1) \in BOOLEAN
    BY DEF IInv
  <2>2. c \in Chunks /\ c.what = "frag" /\ c.n = frame.n
    BY <2>1 DEF Chunk, Chunks, TypeOK
  <2> QED BY <2>2
<1> HIDE DEF c
<1>3. cachedInit # None /\ initWritten /\ frame.gen > 0
  BY <1>1 DEF IInv, LoopInv
<1>4. frame.n \in Nat /\ "fmp4" \in Fanouts
  BY DEF IInv, TypeOK, Fanouts
<1>5. /\ \A f \in Fanouts, d \in Chunks : Due(f, d) => DueAt(f, d, stage', frame'.n)
      /\ \A d \in Chunks : Due("fmp4", d) => Before(d, c)
      /\ DueAt("fmp4", c, stage', frame'.n)
  BY <1>1, <1>2, <1>4 DEF Due, DueAt, Fanouts, Before, Chunks
<1>6. TypeOK'
  BY <1>1, <1>2, <1>4, DeliverType DEF IInv, TypeOK
<1>7. LoopInv'
  <2>1. \A x \in Subscribers \ subs : chan'[x] = chan[x]
    BY <1>1, <1>2, <1>4, DeliverType DEF IInv
  <2> QED BY <1>1, <1>2, <1>3, <2>1 DEF IInv, LoopInv
<1>8. CacheInv'
  <2>1. {cachedInit, cachedKey, cachedRawKey} \subseteq Chunks \cup {None}
    BY DEF IInv, TypeOK
  <2>2. cachedInit \in Chunks /\ Due("fmp4", cachedInit)
    BY <1>3, <2>1 DEF IInv, CacheInv
  <2>3. Before(cachedInit, c)
    BY <1>5, <2>2
  <2> QED BY <1>1, <1>2, <1>3, <1>5, <2>1, <2>2, <2>3 DEF IInv, CacheInv, Due, Fanouts
<1>9. ASSUME NEW x \in subs
      PROVE  Follows(x)' /\ HasAll(x)' /\ (x \in VideoSubs => StartsWithInit(x)')
  <2>1. /\ x \in Subscribers /\ Fanout(x) \in Fanouts
        /\ Follows(x) /\ HasAll(x) /\ (x \in VideoSubs => StartsWithInit(x))
    BY DEF IInv, TypeOK, StreamInv, Fanout, Fanouts
  <2>2. HasAll(x)'
    BY <1>1, <1>2, <1>4, <2>1, DeliverKeepsHasAll DEF IInv
  <2>3. Follows(x)'
    BY <1>1, <1>2, <1>4, <1>5, <2>1, DeliverKeepsFollows DEF IInv
  <2>4. ASSUME x \in VideoSubs PROVE StartsWithInit(x)'
    <3>1. CASE Stream(x)' = Stream(x)
      BY <1>1, <2>1, <2>4, <3>1, StartsSame
    <3>2. CASE Stream(x)' = Append(Stream(x), c)
      <4> DEFINE s == Stream(x)
                 a == Append(s, c)
      <4>1. s \in Seq(Chunks) /\ s # <<>>
        BY <1>3, <2>1, <2>4, StreamType DEF IInv, StartsWithInit
      <4>2. /\ Len(s) \in Nat /\ Len(s) > 0 /\ Len(a) = Len(s) + 1 /\ a[Len(s) + 1] = c
            /\ \A i \in 1..Len(s) : a[i] = s[i]
        BY <4>1, EmptySeq, LenProperties
      <4>3. \A i \in 1..Len(s) : s[i].what = "init" <=> i = 1
        BY <2>1, <2>4 DEF StartsWithInit
      <4> HIDE DEF s, a
      <4>4. \A i \in 1..Len(a) : a[i].what = "init" <=> i = 1
        <5> TAKE i \in 1..Len(a)
        <5>1. CASE i \in 1..Len(s)
          BY <4>2, <4>3, <5>1
        <5>2. CASE i = Len(s) + 1
          BY <1>2, <4>2, <5>2
        <5> QED BY <4>2, <5>1, <5>2
      <4>5. a # <<>>
        BY <4>2, EmptySeq
      <4> QED BY <1>1, <1>3, <3>2, <4>4, <4>5 DEF StartsWithInit, s, a
    <3> QED BY <1>1, <1>2, <1>4, <2>1, <3>1, <3>2, DeliverStream DEF IInv
  <2> QED BY <2>2, <2>3, <2>4
<1>10. StreamInv'
  BY <1>1, <1>9 DEF StreamInv
<1>11. KeyInv' /\ FirstKeyCarriesItsParams'
  BY <1>1, <1>2, RawKeysSame
<1> QED BY <1>6, <1>7, <1>8, <1>10, <1>11 DEF IInv

LEMMA BroadcastRawStep == IInv /\ BroadcastRaw => IInv'
<1> SUFFICES ASSUME IInv, BroadcastRaw PROVE IInv'
  OBVIOUS
<1> DEFINE c == Chunk("raw", IsKey, IF IsKey THEN configBuf ELSE 0)
           raw == log["raw"]
           n == Len(raw)
<1>1. /\ stage = "raw" /\ stage' = "read" /\ frame.kind # "config"
      /\ cachedRawKey' \in {c, cachedRawKey} /\ Deliver("raw", c)
      /\ configBuf' = IF IsKey THEN 0 ELSE configBuf
      /\ frame' = frame /\ initWritten' = initWritten
      /\ cachedInit' = cachedInit /\ cachedKey' = cachedKey /\ subs' = subs
      /\ got' = got /\ prime' = prime /\ joined' = joined
  BY DEF BroadcastRaw
<1>2. /\ c \in Chunks /\ c.n = frame.n /\ c.gen = frame.gen
      /\ c.key = IsKey /\ c.params = IF IsKey THEN configBuf ELSE 0
  <2>1. TypeOK /\ IsKey \in BOOLEAN /\ configBuf \in Nat
    BY DEF IInv, TypeOK, IsKey
  <2> QED BY <2>1 DEF Chunk, Chunks, TypeOK
<1>3. initWritten /\ cachedInit # None /\ frame.gen > 0
  BY <1>1 DEF IInv, LoopInv
<1>4. frame.n \in Nat /\ frame.gen \in Nat /\ configBuf \in Nat /\ "raw" \in Fanouts
  BY DEF IInv, TypeOK, Fanouts
<1>5. raw \in Seq(Chunks) /\ n \in Nat /\ \A i \in 1..n : raw[i] \in Chunks
  BY <1>4, ElementOfSeq, LenProperties DEF IInv, TypeOK
<1>6. /\ log'["raw"] = Append(raw, c) /\ Len(log'["raw"]) = n + 1 /\ log'["raw"][n + 1] = c
      /\ \A i \in 1..n : log'["raw"][i] = raw[i]
  BY <1>1, <1>2, <1>4, <1>5 DEF Deliver, IInv, TypeOK
<1> HIDE DEF c
<1>7. /\ \A f \in Fanouts, d \in Chunks : Due(f, d) => DueAt(f, d, stage', frame'.n)
      /\ \A d \in Chunks : Due("raw", d) => Before(d, c)
      /\ DueAt("raw", c, stage', frame'.n)
  BY <1>1, <1>2, <1>4 DEF Due, DueAt, Fanouts, Before, Chunks
<1>8. TypeOK'
  BY <1>1, <1>2, <1>4, DeliverType DEF IInv, TypeOK
<1>9. LoopInv'
  <2>1. \A x \in Subscribers \ subs : chan'[x] = chan[x]
    BY <1>1, <1>2, <1>4, DeliverType DEF IInv
  <2> QED BY <1>1, <1>3, <2>1 DEF IInv, LoopInv
<1>10. CacheInv'
  <2>1. {cachedInit, cachedKey, cachedRawKey} \subseteq Chunks \cup {None}
    BY DEF IInv, TypeOK
  <2> QED BY <1>1, <1>2, <1>7, <2>1 DEF IInv, CacheInv, Due, Fanouts
<1>11. ASSUME NEW x \in subs
       PROVE  Follows(x)' /\ HasAll(x)' /\ (x \in VideoSubs => StartsWithInit(x)')
  <2>1. /\ x \in Subscribers /\ Fanout(x) \in Fanouts
        /\ Follows(x) /\ HasAll(x) /\ (x \in VideoSubs => StartsWithInit(x))
    BY DEF IInv, TypeOK, StreamInv, Fanout, Fanouts
  <2>2. HasAll(x)'
    BY <1>1, <1>2, <1>4, <2>1, DeliverKeepsHasAll DEF IInv
  <2>3. Follows(x)'
    BY <1>1, <1>2, <1>4, <1>7, <2>1, DeliverKeepsFollows DEF IInv
  <2>4. ASSUME x \in VideoSubs PROVE StartsWithInit(x)'
    <3>1. Stream(x)' = Stream(x)
      BY <1>1, <1>2, <1>4, <2>1, <2>4, DeliverStream DEF IInv, Fanout
    <3> QED BY <1>1, <2>1, <2>4, <3>1, StartsSame
  <2> QED BY <2>2, <2>3, <2>4
<1>12. StreamInv'
  BY <1>1, <1>11 DEF StreamInv
<1>13. configBuf # 0 => configBuf = frame.gen
  BY <1>1 DEF IInv, KeyInv, Unstashed
<1>14. configBuf = 0 => \E i \in 1..n : raw[i].key /\ raw[i].gen = frame.gen
  BY <1>1, <1>3 DEF IInv, KeyInv, Unstashed
<1>15. KeyInv'
  <2>1. \A i \in 1..Len(log'["raw"]) : log'["raw"][i].gen <= frame'.gen
    <3>1. \A i \in 1..n : raw[i].gen <= frame.gen
      BY DEF IInv, KeyInv
    <3> QED BY <1>1, <1>2, <1>4, <1>5, <1>6, <3>1
  <2>2. configBuf' # 0 => configBuf' = frame'.gen
    BY <1>1, <1>13
  <2>3. ASSUME configBuf' = 0
        PROVE  \E i \in 1..Len(log'["raw"]) :
                  log'["raw"][i].key /\ log'["raw"][i].gen = frame'.gen
    <3>1. CASE IsKey
      <4>1. n + 1 \in 1..Len(log'["raw"])
        BY <1>5, <1>6
      <4> QED BY <1>1, <1>2, <1>6, <3>1, <4>1
    <3>2. CASE ~IsKey
      <4>1. PICK i \in 1..n : raw[i].key /\ raw[i].gen = frame.gen
        BY <1>1, <1>14, <2>3, <3>2
      <4>2. i \in 1..Len(log'["raw"])
        BY <1>5, <1>6
      <4> QED BY <1>1, <1>6, <4>1, <4>2
    <3> QED BY <3>1, <3>2
  <2> QED BY <2>1, <2>2, <2>3 DEF KeyInv
<1>16. FirstKeyCarriesItsParams'
  <2> DEFINE sent == log'["raw"]
  <2> SUFFICES ASSUME NEW i \in 1..n + 1, sent[i].key,
                      \A j \in 1..i - 1 :
                          ~(sent[i].key /\ sent[j].key /\ sent[i].gen = sent[j].gen)
               PROVE  sent[i].params = sent[i].gen
    <3>1. DOMAIN sent = 1..n + 1
      BY <1>2, <1>5, <1>6
    <3> QED BY <3>1 DEF FirstKeyCarriesItsParams
  <2>1. CASE i \in 1..n
    <3>1. \A j \in 1..i - 1 : j \in 1..n /\ sent[j] = raw[j]
      BY <1>5, <1>6, <2>1
    <3>2. i \in DOMAIN raw /\ sent[i] = raw[i]
      BY <1>5, <1>6, <2>1
    <3> QED BY <3>1, <3>2 DEF IInv, FirstKeyCarriesItsParams
  <2>2. CASE i = n + 1
    <3>1. sent[i] = c /\ IsKey
      BY <1>2, <1>6, <2>2
    <3>2. configBuf # 0
      <4> SUFFICES ASSUME configBuf = 0 PROVE FALSE
        OBVIOUS
      <4>1. PICK j \in 1..n : raw[j].key /\ raw[j].gen = frame.gen
        BY <1>14
      <4>2. j \in 1..i - 1 /\ sent[j] = raw[j]
        BY <1>5, <1>6, <2>2
      <4> QED BY <1>2, <3>1, <4>1, <4>2
    <3> QED BY <1>2, <1>13, <3>1, <3>2
  <2> QED BY <1>5, <2>1, <2>2
<1> QED BY <1>8, <1>9, <1>10, <1>12, <1>15, <1>16 DEF IInv

\* What a new channel holds is in line, and begins with the init segment.
LEMMA BootstrapInLine ==
    ASSUME IInv, NEW x \in Subscribers
    PROVE  /\ Bootstrap(x) \in Seq(Chunks) /\ Len(Bootstrap(x)) <= 2
           /\ LinedUp(Fanout(x), Bootstrap(x), stage, frame.n)
           /\ x \in VideoSubs =>
                /\ cachedInit = None <=> Bootstrap(x) = <<>>
                /\ \A i \in 1..Len(Bootstrap(x)) : Bootstrap(x)[i].what = "init" <=> i = 1
<1>0. {cachedInit, cachedKey, cachedRawKey} \subseteq Chunks \cup {None}
  BY DEF IInv, TypeOK
<1>1. CASE x \in VideoSubs
  <2>0. Fanout(x) = "fmp4" /\ Bootstrap(x) = IfAny(cachedInit) \o IfAny(cachedKey)
    BY <1>1 DEF Fanout, Bootstrap
  <2>1. CASE cachedInit = None
    <3>1. Bootstrap(x) = <<>>
      BY <2>0, <2>1, EmptySeq DEF IInv, CacheInv, IfAny
    <3> QED BY <2>1, <3>1, EmptySeq DEF LinedUp
  <2>2. CASE cachedInit # None /\ cachedKey = None
    <3>1. Bootstrap(x) = <<cachedInit>> /\ cachedInit \in Chunks
      BY <1>0, <2>0, <2>2 DEF IfAny
    <3>2. cachedInit.what = "init" /\ DueAt("fmp4", cachedInit, stage, frame.n)
      BY <2>2 DEF IInv, CacheInv, Due
    <3> DEFINE b == <<cachedInit>>
    <3>3. b \in Seq(Chunks) /\ Len(b) = 1 /\ b[1] = cachedInit /\ b # <<>>
      BY <3>1
    <3> HIDE DEF b
    <3>4. LinedUp("fmp4", b, stage, frame.n)
      BY <3>2, <3>3 DEF LinedUp
    <3>5. Len(b) <= 2 /\ \A i \in 1..Len(b) : b[i].what = "init" <=> i = 1
      BY <3>2, <3>3
    <3>6. Bootstrap(x) = b
      BY <3>1 DEF b
    <3> QED BY <2>0, <2>2, <3>3, <3>4, <3>5, <3>6, Zenon
  <2>3. CASE cachedInit # None /\ cachedKey # None
    <3>0. {cachedInit, cachedKey} \subseteq Chunks
      BY <1>0, <2>3
    <3>1. Bootstrap(x) = <<cachedInit, cachedKey>>
      <4>1. Bootstrap(x) = <<cachedInit>> \o <<cachedKey>>
        BY <2>0, <2>3 DEF IfAny
      <4> QED BY <3>0, <4>1, Pair
    <3>2. /\ cachedInit.what = "init" /\ DueAt("fmp4", cachedInit, stage, frame.n)
          /\ cachedKey.what = "frag" /\ DueAt("fmp4", cachedKey, stage, frame.n)
          /\ Before(cachedInit, cachedKey)
      BY <2>3 DEF IInv, CacheInv, Due
    <3> DEFINE b == <<cachedInit, cachedKey>>
    <3>3. b \in Seq(Chunks) /\ Len(b) = 2 /\ b[1] = cachedInit /\ b[2] = cachedKey /\ b # <<>>
      BY <3>0
    <3> HIDE DEF b
    <3>4. \A i \in 1..Len(b) : i = 1 \/ i = 2
      BY <3>3
    <3>5. \A i \in 1..Len(b) - 1 : i = 1 /\ i + 1 = 2
      BY <3>3
    <3>6. LinedUp("fmp4", b, stage, frame.n)
      <4>1. \A i \in 1..Len(b) : DueAt("fmp4", b[i], stage, frame.n)
        BY <3>2, <3>3, <3>4
      <4>2. \A i \in 1..Len(b) - 1 : Before(b[i], b[i + 1])
        BY <3>2, <3>3, <3>5
      <4> QED BY <4>1, <4>2 DEF LinedUp
    <3>7. \A i \in 1..Len(b) : b[i].what = "init" <=> i = 1
      BY <3>2, <3>3, <3>4
    <3>8. Bootstrap(x) = b
      BY <3>1 DEF b
    <3>9. Len(b) <= 2
      BY <3>3
    <3> QED BY <2>0, <2>3, <3>3, <3>6, <3>7, <3>8, <3>9, Zenon
  <2> QED BY <2>1, <2>2, <2>3
<1>2. CASE x \notin VideoSubs
  <2>0. Fanout(x) = "raw" /\ Bootstrap(x) = IfAny(cachedRawKey)
    BY <1>2 DEF Fanout, Bootstrap
  <2>1. CASE cachedRawKey = None
    <3>1. Bootstrap(x) = <<>>
      BY <2>0, <2>1 DEF IfAny
    <3> QED BY <1>2, <3>1, EmptySeq DEF LinedUp
  <2>2. CASE cachedRawKey # None
    <3>1. Bootstrap(x) = <<cachedRawKey>> /\ cachedRawKey \in Chunks
      BY <1>0, <2>0, <2>2 DEF IfAny
    <3>2. DueAt("raw", cachedRawKey, stage, frame.n)
      BY <2>2 DEF IInv, CacheInv, Due
    <3> QED BY <1>2, <2>0, <3>1, <3>2 DEF LinedUp
  <2> QED BY <2>1, <2>2
<1> QED BY <1>1, <1>2

LEMMA SubscribeStep ==
    ASSUME IInv, NEW x \in Subscribers, Subscribe(x)
    PROVE  IInv'
<1> DEFINE b == Bootstrap(x)
           s == log[Fanout(x)]
<1>1. /\ stage # "ended" /\ x \notin subs /\ subs' = subs \cup {x}
      /\ chan' = [chan EXCEPT ![x] = b] /\ prime' = [prime EXCEPT ![x] = b]
      /\ joined' = [joined EXCEPT ![x] = Len(s)]
      /\ stage' = stage /\ frame' = frame /\ initWritten' = initWritten
      /\ configBuf' = configBuf /\ UNCHANGED cacheVars
      /\ cachedInit' = cachedInit /\ cachedKey' = cachedKey /\ cachedRawKey' = cachedRawKey
      /\ got' = got /\ lagged' = lagged /\ log' = log
  BY DEF Subscribe, pumpVars, cacheVars
<1>2. /\ b \in Seq(Chunks) /\ Len(b) <= 2
      /\ LinedUp(Fanout(x), b, stage, frame.n)
      /\ x \in VideoSubs =>
           /\ cachedInit = None <=> b = <<>>
           /\ \A i \in 1..Len(b) : b[i].what = "init" <=> i = 1
  BY BootstrapInLine
<1> HIDE DEF b
<1>3. /\ s \in Seq(Chunks) /\ Len(s) \in Nat /\ Len(b) \in Nat
  BY <1>2, LenProperties DEF IInv, TypeOK, Fanout, Fanouts
<1>4. got[x] = <<>>
  BY <1>1 DEF IInv, LoopInv
<1>5. /\ chan'[x] = b /\ prime'[x] = b /\ joined'[x] = Len(s)
      /\ \A y \in Subscribers \ {x} : /\ chan'[y] = chan[y] /\ prime'[y] = prime[y]
                                      /\ joined'[y] = joined[y]
  BY <1>1 DEF IInv, TypeOK
<1>6. Stream(x)' = b
  BY <1>1, <1>2, <1>4, <1>5, ConcatEmptySeq DEF Stream
<1>7. TypeOK'
  <2>1. /\ chan' \in [Subscribers -> Seq(Chunks)] /\ prime' \in [Subscribers -> Seq(Chunks)]
        /\ joined' \in [Subscribers -> Nat]
    BY <1>1, <1>2, <1>3 DEF IInv, TypeOK
  <2>2. ASSUME NEW y \in Subscribers PROVE Len(chan'[y]) <= Cap
    <3>1. CASE y = x
      BY <1>2, <1>3, <1>5, <3>1, PumpAssumption DEF PumpAssumption
    <3>2. CASE y # x
      BY <1>5, <3>2 DEF IInv, TypeOK
    <3> QED BY <3>1, <3>2
  <2> QED BY <1>1, <2>1, <2>2 DEF IInv, TypeOK
<1>8. LoopInv'
  BY <1>1, <1>5 DEF IInv, LoopInv
<1>9. \A f \in Fanouts, d \in Chunks : Due(f, d) => DueAt(f, d, stage', frame'.n)
  BY <1>1 DEF Due
<1>10. CacheInv' /\ FirstKeyCarriesItsParams'
  BY <1>1, <1>9, CachesSame, KeysSame DEF IInv
<1>11. KeyInv'
  BY <1>1 DEF IInv, KeyInv, Unstashed, Coming
<1>12. ASSUME NEW y \in subs
       PROVE  Follows(y)' /\ HasAll(y)' /\ (y \in VideoSubs => StartsWithInit(y)')
  <2>1. /\ y \in Subscribers \ {x} /\ Fanout(y) \in Fanouts
        /\ Follows(y) /\ HasAll(y) /\ (y \in VideoSubs => StartsWithInit(y))
    BY <1>1 DEF IInv, TypeOK, StreamInv, Fanout, Fanouts
  <2>2. Stream(y)' = Stream(y)
    BY <1>1, <1>5, <2>1, StreamSame
  <2>3. Follows(y)'
    BY <1>9, <2>1, <2>2, FollowsSame DEF IInv
  <2>4. HasAll(y)'
    BY <1>1, <1>5, <2>1, <2>2, HasAllSame
  <2> QED BY <1>1, <2>1, <2>2, <2>3, <2>4, StartsSame
<1>13. Follows(x)'
  BY <1>1, <1>2, <1>6 DEF Follows, Fanout
<1>14. HasAll(x)'
  <2>1. SubSeq(s, Len(s) + 1, Len(s)) = <<>>
    BY <1>3
  <2>2. b \o <<>> = b
    BY <1>2, ConcatEmptySeq
  <2>3. Fanout(x)' = Fanout(x) /\ log'[Fanout(x)] = s
    BY <1>1 DEF Fanout
  <2>4. joined'[x] <= Len(log'[Fanout(x)])
    BY <1>3, <1>5, <2>3
  <2>5. prime'[x] \o SubSeq(log'[Fanout(x)], joined'[x] + 1, Len(log'[Fanout(x)])) = b
    BY <1>5, <2>1, <2>2, <2>3
  <2> HIDE DEF s
  <2> QED BY <1>6, <2>3, <2>4, <2>5 DEF HasAll
<1>15. x \in VideoSubs => StartsWithInit(x)'
  BY <1>1, <1>2, <1>6 DEF StartsWithInit
<1>16. StreamInv'
  BY <1>1, <1>12, <1>13, <1>14, <1>15 DEF StreamInv
<1> QED BY <1>7, <1>8, <1>10, <1>11, <1>16 DEF IInv

LEMMA CancelStep ==
    ASSUME IInv, NEW x \in Subscribers, Cancel(x)
    PROVE  IInv'
<1>1. /\ Dismiss({x}) /\ log' = log /\ UNCHANGED cacheVars
      /\ stage' = stage /\ frame' = frame /\ initWritten' = initWritten
      /\ configBuf' = configBuf
      /\ cachedInit' = cachedInit /\ cachedKey' = cachedKey /\ cachedRawKey' = cachedRawKey
  BY DEF Cancel, pumpVars, cacheVars
<1>2. \A f, d : Due(f, d) => DueAt(f, d, stage', frame'.n)
  BY <1>1 DEF Due
<1>3. /\ {chan', got', prime'} \subseteq [Subscribers -> Seq(Chunks)]
      /\ \A y \in Subscribers : Len(chan'[y]) <= Cap
      /\ joined' \in [Subscribers -> Nat] /\ lagged' \in [Subscribers -> BOOLEAN]
      /\ subs' \subseteq Subscribers
      /\ \A y \in Subscribers \ subs' : chan'[y] = <<>> /\ got'[y] = <<>>
      /\ StreamInv'
  BY <1>1, <1>2, Dismissed
<1>4. subs' = subs \ {x}
  BY <1>1 DEF Dismiss
<1>5. TypeOK'
  BY <1>1, <1>3 DEF IInv, TypeOK
<1>6. LoopInv'
  BY <1>1, <1>3, <1>4 DEF IInv, LoopInv
<1>7. CacheInv' /\ FirstKeyCarriesItsParams'
  BY <1>1, <1>2, CachesSame, KeysSame DEF IInv
<1>8. KeyInv'
  BY <1>1 DEF IInv, KeyInv, Unstashed, Coming
<1> QED BY <1>3, <1>5, <1>6, <1>7, <1>8 DEF IInv

LEMMA ConsumeStep ==
    ASSUME IInv, NEW x \in Subscribers, Consume(x)
    PROVE  IInv'
<1>1. /\ x \in subs /\ chan[x] # <<>>
      /\ got' = [got EXCEPT ![x] = Append(@, Head(chan[x]))]
      /\ chan' = [chan EXCEPT ![x] = Tail(@)]
      /\ subs' = subs /\ prime' = prime /\ joined' = joined /\ lagged' = lagged /\ log' = log
      /\ stage' = stage /\ frame' = frame /\ initWritten' = initWritten
      /\ configBuf' = configBuf /\ UNCHANGED cacheVars
      /\ cachedInit' = cachedInit /\ cachedKey' = cachedKey /\ cachedRawKey' = cachedRawKey
  BY DEF Consume, pumpVars, cacheVars
<1>2. /\ chan[x] \in Seq(Chunks) /\ got[x] \in Seq(Chunks)
      /\ chan \in [Subscribers -> Seq(Chunks)] /\ got \in [Subscribers -> Seq(Chunks)]
  BY DEF IInv, TypeOK
<1>3. /\ Head(chan[x]) \in Chunks /\ Tail(chan[x]) \in Seq(Chunks)
      /\ Len(Tail(chan[x])) = Len(chan[x]) - 1 /\ Len(chan[x]) \in Nat
      /\ Append(got[x], Head(chan[x])) \in Seq(Chunks)
  <2>1. Head(chan[x]) \in Chunks /\ Tail(chan[x]) \in Seq(Chunks)
        /\ Len(Tail(chan[x])) = Len(chan[x]) - 1 /\ Len(chan[x]) \in Nat
    BY <1>1, <1>2, HeadTailProperties, LenProperties
  <2> QED BY <1>2, <2>1, AppendIsConcat
<1>4. /\ chan' \in [Subscribers -> Seq(Chunks)] /\ got' \in [Subscribers -> Seq(Chunks)]
      /\ chan'[x] = Tail(chan[x]) /\ got'[x] = Append(got[x], Head(chan[x]))
      /\ \A y \in Subscribers \ {x} : chan'[y] = chan[y] /\ got'[y] = got[y]
  BY <1>1, <1>2, <1>3
<1>5. TypeOK'
  <2>1. ASSUME NEW y \in Subscribers PROVE Len(chan'[y]) <= Cap
    <3>1. CASE y = x
      <4>1. Len(chan[x]) <= Cap /\ Cap \in Nat
        BY PumpAssumption DEF IInv, TypeOK, PumpAssumption
      <4> QED BY <1>3, <1>4, <3>1, <4>1
    <3>2. CASE y # x
      BY <1>4, <3>2 DEF IInv, TypeOK
    <3> QED BY <3>1, <3>2
  <2> QED BY <1>1, <1>4, <2>1 DEF IInv, TypeOK
<1>6. LoopInv'
  BY <1>1, <1>4 DEF IInv, LoopInv
<1>7. \A f, d : Due(f, d) => DueAt(f, d, stage', frame'.n)
  BY <1>1 DEF Due
<1>8. CacheInv' /\ FirstKeyCarriesItsParams'
  BY <1>1, <1>7, CachesSame, KeysSame DEF IInv
<1>9. KeyInv'
  BY <1>1 DEF IInv, KeyInv, Unstashed, Coming
<1>10. ASSUME NEW y \in subs
       PROVE  Follows(y)' /\ HasAll(y)' /\ (y \in VideoSubs => StartsWithInit(y)')
  <2>1. /\ y \in Subscribers
        /\ Follows(y) /\ HasAll(y) /\ (y \in VideoSubs => StartsWithInit(y))
    BY DEF IInv, TypeOK, StreamInv
  <2>2. Stream(y)' = Stream(y)
    <3>1. CASE y = x
      <4>1. Append(got[x], Head(chan[x])) \o Tail(chan[x]) = got[x] \o chan[x]
        BY <1>1, <1>2, ConcatShift
      <4> QED BY <1>4, <3>1, <4>1 DEF Stream
    <3>2. CASE y # x
      BY <1>4, <2>1, <3>2, StreamSame
    <3> QED BY <3>1, <3>2
  <2>3. Follows(y)'
    BY <1>7, <2>1, <2>2, FollowsSame DEF IInv
  <2>4. HasAll(y)'
    BY <1>1, <2>1, <2>2, HasAllSame
  <2> QED BY <1>1, <2>1, <2>2, <2>3, <2>4, StartsSame
<1>11. StreamInv'
  BY <1>1, <1>10 DEF StreamInv
<1> QED BY <1>5, <1>6, <1>8, <1>9, <1>11 DEF IInv

LEMMA StutterStep == IInv /\ UNCHANGED vars => IInv'
<1> SUFFICES ASSUME IInv, UNCHANGED vars PROVE IInv'
  OBVIOUS
<1>1. /\ stage' = stage /\ frame' = frame /\ initWritten' = initWritten
      /\ configBuf' = configBuf /\ UNCHANGED cacheVars /\ log' = log
      /\ cachedInit' = cachedInit /\ cachedKey' = cachedKey /\ cachedRawKey' = cachedRawKey
      /\ UNCHANGED subVars
      /\ subs' = subs /\ chan' = chan /\ got' = got /\ prime' = prime
      /\ joined' = joined /\ lagged' = lagged
  BY DEF vars, pumpVars, cacheVars, subVars
<1>2. \A f \in Fanouts, d \in Chunks : Due(f, d) => DueAt(f, d, stage', frame'.n)
  BY <1>1 DEF Due
<1>3. TypeOK'
  BY <1>1 DEF IInv, TypeOK
<1>4. LoopInv'
  BY <1>1 DEF IInv, LoopInv
<1>5. KeyInv'
  BY <1>1 DEF IInv, KeyInv, Unstashed, Coming
<1> QED BY <1>1, <1>2, <1>3, <1>4, <1>5, StreamsSame, CachesSame, KeysSame DEF IInv

-----------------------------------------------------------------------------
(* The theorems.                                                           *)

LEMMA Inductive == Spec => []IInv
<1>1. IInv /\ [Next]_vars => IInv'
  <2> SUFFICES ASSUME IInv, [Next]_vars PROVE IInv'
    OBVIOUS
  <2>1. CASE \E k \in Kinds : ReadFrame(k)
    BY <2>1, ReadFrameStep
  <2>2. CASE BroadcastInit
    BY <2>2, BroadcastInitStep
  <2>3. CASE BroadcastFrag
    BY <2>3, BroadcastFragStep
  <2>4. CASE StashConfig
    BY <2>4, StashConfigStep
  <2>5. CASE BroadcastRaw
    BY <2>5, BroadcastRawStep
  <2>6. CASE ReadFails
    BY <2>6, ReadFailsStep
  <2>7. ASSUME NEW x \in Subscribers, Subscribe(x) \/ Cancel(x) \/ Consume(x)
        PROVE  IInv'
    BY <2>7, SubscribeStep, CancelStep, ConsumeStep
  <2>8. CASE UNCHANGED vars
    BY <2>8, StutterStep
  <2> QED BY <2>1, <2>2, <2>3, <2>4, <2>5, <2>6, <2>7, <2>8 DEF Next, PumpStep
<1> QED BY <1>1, InitIInv, PTL DEF Spec

\* The variables keep their types, and no channel ever holds more than its
\* capacity, for any number of subscribers and frames.
THEOREM PumpTypeCorrect == Spec => []TypeOK
<1>1. IInv => TypeOK
  BY DEF IInv
<1> QED BY <1>1, Inductive, PTL

\* Nothing is lost between a subscriber's bootstrap and its first broadcast, and
\* a slow neighbour costs it nothing, whatever the capacity.
THEOREM NothingLost == Spec => []GaplessUnlessSlow
<1>1. IInv => GaplessUnlessSlow
  BY DEF IInv, StreamInv, HasAll, GaplessUnlessSlow
<1> QED BY <1>1, Inductive, PTL

\* Every subscriber, slow or not, gets the chunks in stream order and none twice.
THEOREM StreamInOrder == Spec => []InOrderOnce
<1>1. ASSUME IInv PROVE InOrderOnce
  <2> SUFFICES ASSUME NEW x \in Subscribers, NEW i \in 1..Len(Stream(x)) - 1
               PROVE  Before(Stream(x)[i], Stream(x)[i + 1])
    BY DEF InOrderOnce
  <2>1. CASE x \in subs
    BY <1>1, <2>1 DEF IInv, StreamInv, Follows, LinedUp
  <2>2. CASE x \notin subs
    <3>1. Stream(x) = <<>>
      BY <1>1, <2>2, ConcatEmptySeq, EmptySeq DEF IInv, LoopInv, Stream
    <3>2. Len(Stream(x)) = 0
      BY <3>1, EmptySeq
    <3> QED BY <3>2
  <2> QED BY <2>1, <2>2
<1> QED BY <1>1, Inductive, PTL

\* An fMP4 stream has exactly one init segment and it comes first.
THEOREM StreamStartsWithInit == Spec => []InitFirst
<1>1. ASSUME IInv PROVE InitFirst
  <2> SUFFICES ASSUME NEW x \in VideoSubs, NEW i \in DOMAIN Stream(x)
               PROVE  Stream(x)[i].what = "init" <=> i = 1
    BY DEF InitFirst
  <2>1. x \in Subscribers /\ Stream(x) \in Seq(Chunks) /\ i \in 1..Len(Stream(x))
    BY <1>1, StreamType DEF Subscribers, IInv
  <2>2. CASE x \in subs
    BY <1>1, <2>1, <2>2 DEF IInv, StreamInv, StartsWithInit
  <2>3. CASE x \notin subs
    <3>1. Stream(x) = <<>>
      BY <1>1, <2>1, <2>3, ConcatEmptySeq, EmptySeq DEF IInv, LoopInv, Stream
    <3> QED BY <2>1, <3>1, EmptySeq
  <2> QED BY <2>2, <2>3
<1> QED BY <1>1, Inductive, PTL

\* On the raw fan-out the first key after parameter sets carries exactly those,
\* for any stream the device sends.
THEOREM KeysCarryTheirParams == Spec => []FirstKeyCarriesItsParams
<1>1. IInv => FirstKeyCarriesItsParams
  BY DEF IInv
<1> QED BY <1>1, Inductive, PTL

=============================================================================
