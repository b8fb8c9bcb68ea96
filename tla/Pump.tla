-------------------------------- MODULE Pump --------------------------------
(***************************************************************************)
(* The video pump of one Session (internal/infrastructure/scrcpy/          *)
(* session.go, fmp4.go): frames are read from the device's video socket,   *)
(* muxed to fMP4 for one fan-out and merged with their parameter sets for  *)
(* the other, cached for late subscribers, and delivered into the bounded  *)
(* channels of subscribers that come, read at their own pace, and go.      *)
(*                                                                         *)
(* A frame is its position in the stream, its kind, and the generation of  *)
(* the parameter sets (SPS and PPS) it was coded with.  Bytes and          *)
(* timestamps are left out.  How the pump starts and is torn down is the   *)
(* subject of module Session.                                              *)
(***************************************************************************)
EXTENDS Naturals, Sequences

CONSTANTS VideoSubs,   \* Subscribe calls (fMP4)
          RawSubs,     \* SubscribeRaw calls (Annex-B)
          Cap,         \* subscriberBuffer (256 in the server)
          MaxFrames,   \* bound of the runs: frames the device sends
          None         \* an empty cache

Subscribers == VideoSubs \cup RawSubs
Fanouts == {"fmp4", "raw"}
Fanout(x) == IF x \in VideoSubs THEN "fmp4" ELSE "raw"

\* What the device's encoder sends: parameter sets, an IDR picture, an intra
\* picture that carries the key flag and is no IDR, a predicted picture.
Kinds  == {"config", "idr", "intra", "delta"}
Chunks == [what : {"init", "frag", "raw"}, n : Nat, gen : Nat, key : BOOLEAN,
           params : Nat]

ASSUME PumpAssumption ==
    /\ Cap \in Nat /\ Cap >= 2 /\ MaxFrames \in Nat
    /\ VideoSubs \cap RawSubs = {}
    /\ None \notin Chunks

VARIABLES
    stage,         \* where the pump is in its loop, or "ended"
    frame,         \* the frame in hand; frame.n frames were read so far
    initWritten,   \* Fmp4Muxer.initWritten
    configBuf,     \* generation of the parameter sets kept for the next key, or 0
    cachedInit, cachedKey, cachedRawKey,
    subs,          \* the keys of subs and rawSubs
    chan,          \* the channel of each subscriber
    got,           \* history: what each subscriber took out of its channel
    prime,         \* history: what its channel held when it subscribed
    joined,        \* history: how many chunks its fan-out had broadcast by then
    lagged,        \* history: its channel was full when a chunk was for it
    log            \* history: every chunk broadcast on each fan-out

pumpVars  == <<stage, frame, initWritten, configBuf>>
cacheVars == <<cachedInit, cachedKey, cachedRawKey>>
subVars   == <<subs, chan, got, prime, joined, lagged>>
vars      == <<pumpVars, cacheVars, subVars, log>>

TypeOK ==
    /\ stage \in {"read", "init", "frag", "raw", "ended"}
    /\ frame \in [n : 0..MaxFrames, kind : Kinds, gen : Nat]
    /\ initWritten \in BOOLEAN /\ configBuf \in Nat
    /\ {cachedInit, cachedKey, cachedRawKey} \subseteq Chunks \cup {None}
    /\ subs \subseteq Subscribers
    /\ {chan, got, prime} \subseteq [Subscribers -> Seq(Chunks)]
    /\ \A x \in Subscribers : Len(chan[x]) <= Cap
    /\ joined \in [Subscribers -> Nat] /\ lagged \in [Subscribers -> BOOLEAN]
    /\ log \in [Fanouts -> Seq(Chunks)]

Init ==
    /\ stage = "read" /\ frame = [n |-> 0, kind |-> "delta", gen |-> 0]
    /\ initWritten = FALSE /\ configBuf = 0
    /\ cachedInit = None /\ cachedKey = None /\ cachedRawKey = None
    /\ subs = {} /\ log = [f \in Fanouts |-> <<>>]
    /\ chan = [x \in Subscribers |-> <<>>] /\ got = [x \in Subscribers |-> <<>>]
    /\ prime = [x \in Subscribers |-> <<>>] /\ joined = [x \in Subscribers |-> 0]
    /\ lagged = [x \in Subscribers |-> FALSE]

-----------------------------------------------------------------------------
(* The pump.                                                               *)

\* isKey: the key flag of the header, or an IDR slice.
IsKey == frame.kind \in {"idr", "intra"}

Chunk(what, key, params) ==
    [what |-> what, n |-> frame.n, gen |-> frame.gen, key |-> key, params |-> params]

\* The subscribers of P are gone: their channels are closed, and what they still
\* drain is of no account here.
Dismiss(P) ==
    /\ subs' = subs \ P
    /\ chan' = [x \in Subscribers |-> IF x \in P THEN <<>> ELSE chan[x]]
    /\ got' = [x \in Subscribers |-> IF x \in P THEN <<>> ELSE got[x]]
    /\ prime' = [x \in Subscribers |-> IF x \in P THEN <<>> ELSE prime[x]]
    /\ joined' = [x \in Subscribers |-> IF x \in P THEN 0 ELSE joined[x]]
    /\ lagged' = [x \in Subscribers |-> lagged[x] /\ x \notin P]

\* The read failed, or the muxer refused the frame: the pump ends.
Ends == stage' = "ended" /\ Dismiss(Subscribers)

ReadFails ==
    /\ stage = "read"
    /\ Ends
    /\ UNCHANGED <<frame, initWritten, configBuf, cacheVars, log>>

\* Slip: the key is published to late subscribers before it is broadcast.
ReadFrameCachesKey(k) ==
    /\ stage = "read" /\ frame.n < MaxFrames
    /\ frame' = [n |-> frame.n + 1, kind |-> k,
                 gen |-> IF k = "config" THEN frame.gen + 1 ELSE frame.gen]
    /\ \/ /\ initWritten
          /\ stage' = "frag"
          /\ cachedRawKey' = IF k = "idr"
                               THEN [what |-> "raw", n |-> frame.n + 1, gen |-> frame.gen,
                                     key |-> TRUE, params |-> configBuf]
                               ELSE cachedRawKey
          /\ UNCHANGED <<initWritten, subVars>>
       \/ /\ ~initWritten /\ k = "config"
          /\ initWritten' = TRUE /\ stage' = "init" /\ UNCHANGED <<subVars, cachedRawKey>>
       \/ /\ ~initWritten /\ k # "config"
          /\ Ends /\ UNCHANGED <<initWritten, cachedRawKey>>
    /\ UNCHANGED <<configBuf, cachedInit, cachedKey, log>>

\* A frame is read and muxed.  The first one must hold the parameter sets.
ReadFrame(k) ==
    /\ stage = "read" /\ frame.n < MaxFrames
    /\ frame' = [n |-> frame.n + 1, kind |-> k,
                 gen |-> IF k = "config" THEN frame.gen + 1 ELSE frame.gen]
    /\ \/ initWritten /\ stage' = "frag" /\ UNCHANGED <<initWritten, subVars>>
       \/ /\ ~initWritten /\ k = "config"
          /\ initWritten' = TRUE /\ stage' = "init" /\ UNCHANGED subVars
       \/ ~initWritten /\ k # "config" /\ Ends /\ UNCHANGED initWritten
    /\ UNCHANGED <<configBuf, cacheVars, log>>

\* Slip: the fan-out stops at a subscriber that is full.
DeliverUntilFull(f, c) ==
    LET P == {x \in subs : Fanout(x) = f}
        Full == {x \in P : Len(chan[x]) = Cap} IN
    /\ chan' = [x \in Subscribers |->
                   IF x \in P /\ Full = {} THEN Append(chan[x], c) ELSE chan[x]]
    /\ lagged' = [x \in Subscribers |-> lagged[x] \/ x \in Full]
    /\ log' = [log EXCEPT ![f] = Append(@, c)]

\* deliverLocked for every subscriber of a fan-out: never blocks; a full channel
\* loses the chunk.
Deliver(f, c) ==
    LET P == {x \in subs : Fanout(x) = f}
        Full == {x \in P : Len(chan[x]) = Cap} IN
    /\ chan' = [x \in Subscribers |->
                   IF x \in P \ Full THEN Append(chan[x], c) ELSE chan[x]]
    /\ lagged' = [x \in Subscribers |-> lagged[x] \/ x \in Full]
    /\ log' = [log EXCEPT ![f] = Append(@, c)]

BroadcastInit ==
    /\ stage = "init"
    /\ LET c == Chunk("init", FALSE, frame.gen)
       IN cachedInit' = c /\ Deliver("fmp4", c)
    /\ stage' = "frag"
    /\ UNCHANGED <<frame, initWritten, configBuf, cachedKey, cachedRawKey, subs,
                   got, prime, joined>>

\* The fragment is a sync sample when the muxer found an IDR slice, or wrote the
\* init segment from the same frame; the pump caches it by IsKey.
BroadcastFrag ==
    /\ stage = "frag"
    /\ LET c == Chunk("frag", frame.kind = "idr" \/ frame.n = 1, 0)
       IN /\ cachedKey' = IF IsKey THEN c ELSE cachedKey
          /\ Deliver("fmp4", c)
    /\ stage' = "raw"
    /\ UNCHANGED <<frame, initWritten, configBuf, cachedInit, cachedRawKey, subs,
                   got, prime, joined>>

\* Slip: parameter sets that wait for their key are not replaced.
StashConfigOnce ==
    /\ stage = "raw" /\ frame.kind = "config"
    /\ configBuf' = IF configBuf = 0 THEN frame.gen ELSE configBuf
    /\ stage' = "read"
    /\ UNCHANGED <<frame, initWritten, cacheVars, subVars, log>>

\* Parameter sets are kept and not broadcast on the raw fan-out.
StashConfig ==
    /\ stage = "raw" /\ frame.kind = "config"
    /\ configBuf' = frame.gen
    /\ stage' = "read"
    /\ UNCHANGED <<frame, initWritten, cacheVars, subVars, log>>

\* The next key takes them along, and the buffer is cleared.
BroadcastRaw ==
    /\ stage = "raw" /\ frame.kind # "config"
    /\ LET c == Chunk("raw", IsKey, IF IsKey THEN configBuf ELSE 0)
       IN /\ cachedRawKey' = IF IsKey THEN c ELSE cachedRawKey
          /\ Deliver("raw", c)
    /\ configBuf' = IF IsKey THEN 0 ELSE configBuf
    /\ stage' = "read"
    /\ UNCHANGED <<frame, initWritten, cachedInit, cachedKey, subs, got, prime, joined>>

-----------------------------------------------------------------------------
(* The subscribers.                                                        *)

IfAny(c) == IF c = None THEN <<>> ELSE <<c>>

\* Slip: the key is queued in front of the init segment.
BootstrapKeyFirst(x) == IF x \in VideoSubs THEN IfAny(cachedKey) \o IfAny(cachedInit)
                                           ELSE IfAny(cachedRawKey)

\* What a new channel holds.
Bootstrap(x) == IF x \in VideoSubs THEN IfAny(cachedInit) \o IfAny(cachedKey)
                                   ELSE IfAny(cachedRawKey)

\* Subscribe and SubscribeRaw, under subsMu.
Subscribe(x) ==
    /\ stage # "ended" /\ x \notin subs
    /\ subs' = subs \cup {x}
    /\ chan' = [chan EXCEPT ![x] = Bootstrap(x)]
    /\ prime' = [prime EXCEPT ![x] = Bootstrap(x)]
    /\ joined' = [joined EXCEPT ![x] = Len(log[Fanout(x)])]
    /\ UNCHANGED <<pumpVars, cacheVars, got, lagged, log>>

Cancel(x) ==
    /\ x \in subs
    /\ Dismiss({x})
    /\ UNCHANGED <<pumpVars, cacheVars, log>>

Consume(x) ==
    /\ x \in subs /\ chan[x] # <<>>
    /\ got' = [got EXCEPT ![x] = Append(@, Head(chan[x]))]
    /\ chan' = [chan EXCEPT ![x] = Tail(@)]
    /\ UNCHANGED <<pumpVars, cacheVars, subs, prime, joined, lagged, log>>

-----------------------------------------------------------------------------
PumpStep == \/ \E k \in Kinds : ReadFrame(k)
            \/ BroadcastInit \/ BroadcastFrag \/ StashConfig \/ BroadcastRaw

Next == \/ PumpStep
        \/ ReadFails
        \/ \E x \in Subscribers : Subscribe(x) \/ Cancel(x) \/ Consume(x)

Spec == Init /\ [][Next]_vars

-----------------------------------------------------------------------------
(* Properties.                                                             *)

Stream(x) == got[x] \o chan[x]

\* A subscriber whose channel never was full has exactly what was cached when
\* it came and every chunk of its fan-out since: no chunk is lost between the
\* bootstrap and the first broadcast, and a slow neighbour does it no harm.
GaplessUnlessSlow ==
    \A x \in subs : ~lagged[x] =>
        LET broadcast == log[Fanout(x)]
        IN  Stream(x) = prime[x] \o SubSeq(broadcast, joined[x] + 1, Len(broadcast))

\* Slow or not, a subscriber gets the chunks in the order of the stream and
\* none twice; the cached key it starts with is not the next live frame again.
Before(c, d) == c.n < d.n \/ (c.n = d.n /\ c.what = "init" /\ d.what = "frag")
InOrderOnce ==
    \A x \in Subscribers :
        \A i \in 1..Len(Stream(x)) - 1 : Before(Stream(x)[i], Stream(x)[i + 1])

\* session.go:74: an fMP4 stream starts with its init segment and has one,
\* whether the subscriber came before it, between it and the first fragment or
\* later, and however slow it is.
InitFirst ==
    \A x \in VideoSubs :
        \A i \in DOMAIN Stream(x) : (Stream(x)[i].what = "init") <=> (i = 1)

\* On the raw fan-out the first key after parameter sets carries exactly those,
\* never older ones: "no old SPS with a new IDR" (session.go:447).
FirstKeyCarriesItsParams ==
    LET raw == log["raw"]
        SameKey(i, j) == raw[i].key /\ raw[j].key /\ raw[i].gen = raw[j].gen
    IN  \A i \in DOMAIN raw :
            raw[i].key /\ (\A j \in 1..i - 1 : ~SameKey(i, j)) => raw[i].params = raw[i].gen

-----------------------------------------------------------------------------
(* What comments say of the code, and the code does not do.                *)

\* session.go:114 "the latest IDR raw frame (SPS+PPS+IDR), a new subscriber
\* primes its VideoDecoder with it at once".
CachedRawKeySelfContained == cachedRawKey # None => cachedRawKey.params # 0
=============================================================================
