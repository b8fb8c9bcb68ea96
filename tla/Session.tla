------------------------------ MODULE Session ------------------------------
(***************************************************************************)
(* One scrcpy Session (internal/infrastructure/scrcpy/session.go): how it  *)
(* is opened with a rollback at every step, the pump goroutine that owns   *)
(* the video socket, concurrent Close and SendControl calls, and the       *)
(* subscribers of its two fan-outs, from Starting to Dead.                 *)
(*                                                                         *)
(* What travels over the sockets is the subject of module Pump.            *)
(***************************************************************************)
EXTENDS Integers, FiniteSets

CONSTANTS Closers,     \* goroutines that call Close, once each
          Senders,     \* goroutines that call SendControl
          VideoSubs,   \* Subscribe calls (fMP4)
          RawSubs,     \* SubscribeRaw calls (Annex-B)
          None         \* nobody holds closeMu

Subscribers == VideoSubs \cup RawSubs

ASSUME SessionAssumption ==
    /\ IsFiniteSet(VideoSubs) /\ IsFiniteSet(RawSubs)
    /\ VideoSubs \cap RawSubs = {}
    /\ Closers \cap Senders = {}
    /\ None \notin Closers \cup Senders

VARIABLES
    phase,      \* the step OpenSession is at; "up" when it has returned a session
    held,       \* the resources that exist because of this session
    state,      \* the atomic SessionState
    done,       \* the done channel is closed
    pump,       \* the pump goroutine
    closeMu,    \* who holds closeMu
    closer,     \* where each Close call is
    owner,      \* history: the Close call that won the teardown
    sender,     \* where each SendControl caller is
    mapsLive,   \* subs and rawSubs are not nil
    subs,       \* the keys of subs
    rawSubs,    \* the keys of rawSubs
    sub,        \* where each Subscribe call is
    closes,     \* how often the channel of a subscriber was closed
    gauge       \* SubscribersGauge

openVars == <<phase, held>>
lifeVars == <<state, done, pump>>
callVars == <<closeMu, closer, owner, sender>>
subVars  == <<mapsLive, subs, rawSubs, sub, closes, gauge>>
vars     == <<openVars, lifeVars, callVars, subVars>>

Resources == {"jar", "listener", "reverse", "process", "video", "control"}
Steps     == {"jar", "push", "listen", "reverse", "server", "video", "control", "meta"}

TypeOK ==
    /\ phase \in Steps \cup {"up", "error"}
    /\ held \subseteq Resources
    /\ state \in {"starting", "running", "closing", "dead"}
    /\ done \in BOOLEAN
    /\ pump \in {"none", "reading", "ended", "drained", "marked", "exited"}
    /\ closeMu \in Closers \cup Senders \cup {None}
    /\ closer \in [Closers -> {"out", "lock", "check", "cas", "sockets", "rest",
                               "wait", "returned"}]
    /\ owner \in Closers \cup {None}
    /\ sender \in [Senders -> {"out", "lock", "check", "write"}]
    /\ mapsLive \in BOOLEAN
    /\ subs \subseteq VideoSubs /\ rawSubs \subseteq RawSubs
    /\ sub \in [Subscribers -> {"out", "checked", "on", "refused"}]
    /\ closes \in [Subscribers -> Nat]
    /\ gauge \in Int

Init ==
    /\ phase = "jar" /\ held = {}
    /\ state = "starting" /\ done = FALSE /\ pump = "none"
    /\ closeMu = None /\ owner = None
    /\ closer = [c \in Closers |-> "out"] /\ sender = [d \in Senders |-> "out"]
    /\ mapsLive = TRUE /\ subs = {} /\ rawSubs = {}
    /\ sub = [x \in Subscribers |-> "out"]
    /\ closes = [x \in Subscribers |-> 0] /\ gauge = 0

-----------------------------------------------------------------------------
(* OpenSession.                                                            *)

\* The step after a step, and what a step that succeeded leaves behind.
After == [jar    |-> "push",  push    |-> "listen",  listen |-> "reverse",
          reverse |-> "server", server |-> "video",  video  |-> "control",
          control |-> "meta",   meta   |-> "up"]
Gains == [jar    |-> {"jar"}, push    |-> {},          listen |-> {"listener"},
          reverse |-> {"reverse"}, server |-> {"process"}, video |-> {"video"},
          control |-> {"control"}, meta |-> {}]

\* Slip: the error path of StartServer forgets the tunnel.
RollbackNoTunnel == [jar |-> {"jar"}, push |-> {"jar"}, listen |-> {"jar"},
    reverse |-> {"listener", "jar"}, server |-> {"listener", "jar"},
    video |-> Resources, control |-> Resources, meta |-> Resources]

\* What the error path of each step gives back.  A socket that was not
\* accepted yet is nil there and skipped.
Rollback == [jar    |-> {"jar"},
             push   |-> {"jar"},
             listen |-> {"jar"},
             reverse |-> {"listener", "jar"},
             server |-> {"reverse", "listener", "jar"},
             video  |-> Resources,
             control |-> Resources,
             meta   |-> Resources]

StepSucceeds ==
    /\ phase \in Steps
    /\ held' = held \cup Gains[phase]
    /\ phase' = After[phase]
    /\ IF phase = "meta" THEN state' = "running" /\ pump' = "reading"
                         ELSE UNCHANGED <<state, pump>>
    /\ UNCHANGED <<done, callVars, subVars>>

StepFails ==
    /\ phase \in Steps
    /\ held' = held \ Rollback[phase]
    /\ phase' = "error"
    /\ UNCHANGED <<lifeVars, callVars, subVars>>

-----------------------------------------------------------------------------
(* The lifecycle word.                                                     *)

\* SessionState.CanTransition.
CanTransition(from, to) ==
    \/ from = "starting" /\ to \in {"running", "dead"}
    \/ from = "running"  /\ to \in {"closing", "dead"}
    \/ from = "closing"  /\ to = "dead"

\* transitionTo: compare-and-swap, no effect when the move is not legal.
TransitionTo(to) == state' = IF CanTransition(state, to) THEN to ELSE state

-----------------------------------------------------------------------------
(* The pump.  Its loop ends on a read error or a muxer error; its deferred *)
(* function then runs in three visible steps.                              *)

PumpSeesClose ==
    /\ pump = "reading" /\ "video" \notin held
    /\ pump' = "ended"
    /\ UNCHANGED <<openVars, state, done, callVars, subVars>>

\* The device went away, or the muxer refused a frame.
PumpFails ==
    /\ pump = "reading" /\ "video" \in held
    /\ pump' = "ended"
    /\ UNCHANGED <<openVars, state, done, callVars, subVars>>

\* Slip: the fan-out added last is forgotten.
PumpDrainsVideoOnly ==
    /\ pump = "ended"
    /\ closes' = [x \in Subscribers |-> IF x \in subs THEN closes[x] + 1 ELSE closes[x]]
    /\ gauge' = gauge - Cardinality(subs)
    /\ mapsLive' = FALSE /\ subs' = {} /\ rawSubs' = {}
    /\ pump' = "drained"
    /\ UNCHANGED <<openVars, state, done, callVars, sub>>

\* Under subsMu: every channel is closed, both maps become nil.
PumpDrains ==
    /\ pump = "ended"
    /\ closes' = [x \in Subscribers |->
                     IF x \in subs \cup rawSubs THEN closes[x] + 1 ELSE closes[x]]
    /\ gauge' = gauge - (Cardinality(subs) + Cardinality(rawSubs))
    /\ mapsLive' = FALSE /\ subs' = {} /\ rawSubs' = {}
    /\ pump' = "drained"
    /\ UNCHANGED <<openVars, state, done, callVars, sub>>

PumpMarksDead ==
    /\ pump = "drained"
    /\ TransitionTo("dead")
    /\ pump' = "marked"
    /\ UNCHANGED <<openVars, done, callVars, subVars>>

PumpSignals ==
    /\ pump = "marked"
    /\ done' = TRUE
    /\ pump' = "exited"
    /\ UNCHANGED <<openVars, state, callVars, subVars>>

-----------------------------------------------------------------------------
(* Close.  Steps of one call c, which holds closeMu from CloseLock to the  *)
(* step that lets it wait for done.                                        *)

Goto(c, l) == closer' = [closer EXCEPT ![c] = l]

CloseEnter(c) ==
    /\ phase = "up" /\ closer[c] = "out"
    /\ Goto(c, "lock")
    /\ UNCHANGED <<openVars, lifeVars, closeMu, owner, sender, subVars>>

CloseLock(c) ==
    /\ closer[c] = "lock" /\ closeMu = None
    /\ closeMu' = c
    /\ Goto(c, "check")
    /\ UNCHANGED <<openVars, lifeVars, owner, sender, subVars>>

\* Slip: the early return keeps the mutex.
CloseCheckKeepsMu(c) ==
    /\ closer[c] = "check"
    /\ IF state \in {"closing", "dead"} THEN Goto(c, "wait") ELSE Goto(c, "cas")
    /\ UNCHANGED <<openVars, lifeVars, closeMu, owner, sender, subVars>>

CloseCheck(c) ==
    /\ closer[c] = "check"
    /\ IF state \in {"closing", "dead"} THEN Goto(c, "wait") /\ closeMu' = None
                                        ELSE Goto(c, "cas")  /\ UNCHANGED closeMu
    /\ UNCHANGED <<openVars, lifeVars, owner, sender, subVars>>

\* The compare-and-swap that picks the owner of the teardown; it loses to a
\* pump that died in between.
CloseCas(c) ==
    /\ closer[c] = "cas"
    /\ TransitionTo("closing")
    /\ IF CanTransition(state, "closing")
         THEN Goto(c, "sockets") /\ owner' = c /\ UNCHANGED closeMu
         ELSE Goto(c, "wait") /\ closeMu' = None /\ UNCHANGED owner
    /\ UNCHANGED <<openVars, done, pump, sender, subVars>>

\* s.video.Close(): from here on the pump reads an error.
CloseVideo(c) ==
    /\ closer[c] = "sockets"
    /\ held' = held \ {"video"}
    /\ Goto(c, "rest")
    /\ UNCHANGED <<phase, lifeVars, closeMu, owner, sender, subVars>>

\* Slip: the tunnel is not removed.
CloseRestNoTunnel(c) ==
    /\ closer[c] = "rest"
    /\ held' = held \ {"control", "listener", "process", "jar"}
    /\ closeMu' = None
    /\ Goto(c, "wait")
    /\ UNCHANGED <<phase, lifeVars, owner, sender, subVars>>

\* The control socket, the listener, the server process, the reverse tunnel
\* and the jar.  The wait for the process and adb reverse --remove, whose
\* context never ends, may take for ever, with the mutex held.
CloseRest(c) ==
    /\ closer[c] = "rest"
    /\ held' = held \ {"control", "listener", "process", "reverse", "jar"}
    /\ closeMu' = None
    /\ Goto(c, "wait")
    /\ UNCHANGED <<phase, lifeVars, owner, sender, subVars>>

CloseReturns(c) ==
    /\ closer[c] = "wait" /\ done
    /\ Goto(c, "returned")
    /\ UNCHANGED <<openVars, lifeVars, closeMu, owner, sender, subVars>>

-----------------------------------------------------------------------------
(* SendControl.  The write happens under closeMu and may block as long as  *)
(* the device does not read its control socket.                            *)

SendGoto(d, l) == sender' = [sender EXCEPT ![d] = l]

SendEnter(d) ==
    /\ phase = "up" /\ sender[d] = "out"
    /\ SendGoto(d, "lock")
    /\ UNCHANGED <<openVars, lifeVars, closeMu, closer, owner, subVars>>

\* Slip: the write without the mutex.
SendUnlocked(d) ==
    /\ sender[d] = "lock"
    /\ SendGoto(d, "check")
    /\ UNCHANGED <<openVars, lifeVars, closeMu, closer, owner, subVars>>

SendLock(d) ==
    /\ sender[d] = "lock" /\ closeMu = None
    /\ closeMu' = d
    /\ SendGoto(d, "check")
    /\ UNCHANGED <<openVars, lifeVars, closer, owner, subVars>>

SendCheck(d) ==
    /\ sender[d] = "check"
    /\ IF state \in {"closing", "dead"} THEN SendGoto(d, "out") /\ closeMu' = None
                                        ELSE SendGoto(d, "write") /\ UNCHANGED closeMu
    /\ UNCHANGED <<openVars, lifeVars, closer, owner, subVars>>

SendWritten(d) ==
    /\ sender[d] = "write"
    /\ SendGoto(d, "out") /\ closeMu' = None
    /\ UNCHANGED <<openVars, lifeVars, closer, owner, subVars>>

-----------------------------------------------------------------------------
(* Subscribe and SubscribeRaw.                                             *)

\* The unlocked look at the lifecycle word.
SubCheck(x) ==
    /\ phase = "up" /\ sub[x] = "out"
    /\ sub' = [sub EXCEPT ![x] = IF state \in {"closing", "dead"} THEN "refused"
                                                                 ELSE "checked"]
    /\ UNCHANGED <<openVars, lifeVars, callVars, mapsLive, subs, rawSubs, closes, gauge>>

\* Under subsMu: a nil map means that the pump is gone.
SubRegister(x) ==
    /\ sub[x] = "checked"
    /\ IF mapsLive
         THEN /\ sub' = [sub EXCEPT ![x] = "on"]
              /\ IF x \in VideoSubs THEN subs' = subs \cup {x} /\ UNCHANGED rawSubs
                                    ELSE rawSubs' = rawSubs \cup {x} /\ UNCHANGED subs
              /\ gauge' = gauge + 1
         ELSE sub' = [sub EXCEPT ![x] = "refused"] /\ UNCHANGED <<subs, rawSubs, gauge>>
    /\ UNCHANGED <<openVars, lifeVars, callVars, mapsLive, closes>>

\* Slip: cancel does not look whether the subscriber is still in the map.
CancelBlind(x) ==
    /\ sub[x] = "on" /\ closes[x] < 2
    /\ subs' = subs \ {x} /\ rawSubs' = rawSubs \ {x}
    /\ closes' = [closes EXCEPT ![x] = @ + 1]
    /\ gauge' = gauge - 1
    /\ UNCHANGED <<openVars, lifeVars, callVars, mapsLive, sub>>

\* cancel(), called by the subscriber or by the goroutine that watches its
\* context, any number of times and at any time after the subscription.  It
\* does nothing to a subscriber that is not in the map any more.
Cancel(x) ==
    /\ sub[x] = "on" /\ x \in subs \cup rawSubs
    /\ subs' = subs \ {x} /\ rawSubs' = rawSubs \ {x}
    /\ closes' = [closes EXCEPT ![x] = @ + 1]
    /\ gauge' = gauge - 1
    /\ UNCHANGED <<openVars, lifeVars, callVars, mapsLive, sub>>

-----------------------------------------------------------------------------
Open   == StepSucceeds \/ StepFails
Pump   == PumpSeesClose \/ PumpFails \/ PumpDrains \/ PumpMarksDead \/ PumpSignals
Close(c) == \/ CloseEnter(c) \/ CloseLock(c)  \/ CloseCheck(c) \/ CloseCas(c)
            \/ CloseVideo(c) \/ CloseRest(c)  \/ CloseReturns(c)
Send(d)  == SendEnter(d) \/ SendLock(d) \/ SendCheck(d) \/ SendWritten(d)
Subscribe(x) == SubCheck(x) \/ SubRegister(x) \/ Cancel(x)

Next == \/ Open
        \/ Pump
        \/ \E c \in Closers : Close(c)
        \/ \E d \in Senders : Send(d)
        \/ \E x \in Subscribers : Subscribe(x)

Spec == Init /\ [][Next]_vars

(***************************************************************************)
(* Fairness: a goroutine that can run does; Go's mutex hands itself to a   *)
(* waiter that starved for a millisecond, hence strong fairness for the    *)
(* lock.  Nothing is assumed of the device or of adb: OpenSession may      *)
(* block, the pump may read for ever, a control write or the commands of a *)
(* Close may never return, and nobody has to call Close.                   *)
(***************************************************************************)
Fairness ==
    /\ WF_vars(PumpSeesClose) /\ WF_vars(PumpDrains)
    /\ WF_vars(PumpMarksDead) /\ WF_vars(PumpSignals)
    /\ \A c \in Closers :
         /\ SF_vars(CloseLock(c))  /\ WF_vars(CloseCheck(c)) /\ WF_vars(CloseCas(c))
         /\ WF_vars(CloseVideo(c)) /\ WF_vars(CloseReturns(c))
    /\ \A d \in Senders : SF_vars(SendLock(d)) /\ WF_vars(SendCheck(d))

FairSpec == Spec /\ Fairness

-----------------------------------------------------------------------------
(* Properties.                                                             *)

\* An OpenSession that returned an error gave everything back: the temporary
\* jar, the listener, the tunnel, the server process and both sockets.
FailedOpenHoldsNothing == phase = "error" => held = {}

\* No channel is closed twice, which panics, and no channel in a map is
\* closed, on which the next broadcast would panic, although the pump, the
\* subscriber and its context's watcher all close channels.
ChannelsSound ==
    /\ \A x \in Subscribers : closes[x] <= 1
    /\ \A x \in subs \cup rawSubs : closes[x] = 0

\* The gauge counts the subscribers in the maps, whoever removed the others.
GaugeExact == gauge = Cardinality(subs) + Cardinality(rawSubs)

\* Done is closed only when the session is dead and every subscriber that ever
\* got a channel has seen it closed, also one that subscribed while the pump
\* was on its way out.
DoneMeansDrained ==
    done => state = "dead" /\ \A x \in Subscribers : sub[x] = "on" => closes[x] = 1

\* A control write under way has its socket: Close cannot take it away
\* between the check and the write.
WriteHasSocket == \A d \in Senders : sender[d] = "write" => "control" \in held

\* The Close call that owned the teardown left nothing behind.
OwnerReleasedEverything ==
    \A c \in Closers : closer[c] = "returned" /\ owner = c => held = {}

\* session_state.go:11 "any backward transition is a bug".
LifecycleForward == [][state' # state => CanTransition(state, state')]_vars

\* Every Close returns, whether it owns the teardown, waits for it, or lost to
\* the pump, on the condition that what holds closeMu without a deadline does:
\* the control writes, and the wait for the process and adb reverse --remove of
\* the owner (session.go:637-643).
WritesReturn    == \A d \in Senders : []<>(sender[d] # "write")
TeardownReturns == \A c \in Closers : []<>(closer[c] # "rest")
CloseCompletes ==
    WritesReturn /\ TeardownReturns =>
        \A c \in Closers : closer[c] = "lock" ~> closer[c] = "returned"

\* A dying session lets go of every subscriber.
SubscribersReleased ==
    \A x \in Subscribers : (sub[x] = "on" /\ pump = "ended") ~> closes[x] = 1

-----------------------------------------------------------------------------
(* What a comment says of the code, and the code does not do.              *)

\* session.go:611 "Close releases all resources of the session: closes the
\* sockets, kills the process, removes the reverse, deletes the jar".
CloseReleasesEverything == \A c \in Closers : closer[c] = "returned" => held = {}
=============================================================================
