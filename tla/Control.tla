------------------------------- MODULE Control -------------------------------
(***************************************************************************)
(* Control of devices: from a pointer on one mirror screen                 *)
(* (web/src/features/mirror: useTouchGesture.ts, the send of               *)
(* MirrorScreen.tsx), over the mirror sockets of the instances it is       *)
(* broadcast to and their readers (mirror_handler.go), or from the HTTP    *)
(* endpoints (control_handler.go), to the control service                  *)
(* (control_service.go) and its lock per instance                          *)
(* (InstanceService.LockInstance), which takes turns on the device.        *)
(*                                                                         *)
(* All touches of a device are of one pointer (scrcpyFingerPointerID): any  *)
(* up lifts it, whoever put it down.  Instances are started and stopped     *)
(* meanwhile, without that lock, and nothing keeps the serials of the rows  *)
(* apart: a device that is gone leaves its port to the next, while a row    *)
(* may still name it.                                                      *)
(*                                                                         *)
(* A gesture goes to each of its targets on a path of its own, so that one *)
(* target is followed: the instance on whose screen the pointer is, or one *)
(* of the others in broadcast mode.  Positions are left out.               *)
(***************************************************************************)
EXTENDS Naturals, Sequences, FiniteSets

CONSTANTS Instances, Serials,
          Target,       \* the instance whose share of a broadcast is followed
          Requests,     \* HTTP requests, one call each
          Conns,        \* mirror connections of the target in use at a time (bound)
          MaxFrames,    \* control frames the gesture sends (bound)
          None

Gesture == "gesture"

\* A call of the control service: by a request, or by the reader of one of the
\* target's mirror connections.
Calls == Requests \cup Conns

ASSUME ControlAssumption ==
    /\ Target \in Instances /\ None \notin Serials \cup Conns
    /\ MaxFrames \in Nat
    /\ Requests \cap Conns = {} /\ Requests \cap {Gesture, "gone", "up"} = {}
    /\ IsFiniteSet(Calls)

VARIABLES
    g,          \* GestureState of the hook
    screen,     \* the hook's screen: with its canvas, without, or unmounted
    sent,       \* control frames the gesture has sent
    self,       \* the target is the one on whose screen the pointer is
    targeted,   \* resolveTapTargets returns the target
    cur,        \* the connection of the target's registered transport, if open
    net,        \* per connection the frames on the way to its reader
    serial,     \* per row the serial it has, None if it has none
    call,       \* per call where it is and what it does
    writeLocks, \* which mutex of each instance is in the map, 0 for none
    finger,     \* per device: "gone", "up", or who put the finger down last
    acted,      \* the last gesture frame that took effect
    lost        \* history: a gesture frame for the target was dropped, may have
                \* gone to another device, or may be overtaken

clientVars == <<g, screen, sent, self, targeted, cur>>
deviceVars == <<finger, acted>>
vars == <<clientVars, net, serial, call, writeLocks, deviceVars, lost>>

Actions == {"down", "move", "up"}
Frames  == [action : Actions, n : 1..MaxFrames]
CallState == [at : {"idle", "locking", "holding", "between", "done"},
              inst : Instances, op : {"tap", "touch", "other"}, action : Actions,
              n : 0..MaxFrames, serial : Serials \cup {None}, mu : Nat,
              down : Serials \cup {None}, result : {"none", "ok", "astray", "error"}]

TypeOK ==
    /\ g \in [active : BOOLEAN, raf : BOOLEAN]
    /\ screen \in {"canvas", "bare", "unmounted"}
    /\ sent \in 0..MaxFrames
    /\ self \in BOOLEAN /\ targeted \in BOOLEAN /\ cur \in Conns \cup {None}
    /\ net \in [Conns -> Seq(Frames)]
    /\ serial \in [Instances -> Serials \cup {None}]
    /\ call \in [Calls -> CallState]
    /\ writeLocks \in [Instances -> Nat]
    /\ finger \in [Serials -> {"gone", "up", Gesture} \cup Requests]
    /\ acted \in 0..MaxFrames /\ lost \in BOOLEAN

Init ==
    /\ g = [active |-> FALSE, raf |-> FALSE] /\ screen = "canvas"
    /\ sent = 0 /\ self \in BOOLEAN /\ targeted = TRUE /\ cur = None
    /\ net = [k \in Conns |-> <<>>]
    /\ \E p \in Serials :
         /\ serial = [i \in Instances |-> IF i = Target THEN p ELSE None]
         /\ finger = [q \in Serials |-> IF q = p THEN "up" ELSE "gone"]
    /\ call = [c \in Calls |->
                 [at |-> "idle", inst |-> Target, op |-> "touch", action |-> "down", n |-> 0,
                  serial |-> None, mu |-> 0, down |-> None, result |-> "none"]]
    /\ writeLocks = [i \in Instances |-> 0]
    /\ acted = 0 /\ lost = FALSE

-----------------------------------------------------------------------------
(* The gesture.                                                            *)

\* send: to the target, if it is one, over k, the connection of its registered
\* transport; if there is none the frame is gone.
Send(action, k) ==
    /\ sent < MaxFrames
    /\ sent' = sent + 1
    /\ net' = IF targeted /\ k # None
              THEN [net EXCEPT ![k] = Append(@, [action |-> action, n |-> sent + 1])]
              ELSE net
    /\ lost' = (lost \/ (targeted /\ k = None))

\* onPointerDown, by any pointer: it does not ask whether one is active.
PointerDown ==
    /\ screen = "canvas"
    /\ g' = [active |-> TRUE, raf |-> FALSE]
    /\ Send("down", cur)
    /\ UNCHANGED <<screen, self, targeted, cur, serial, call, writeLocks, deviceVars>>

PointerMove ==
    /\ screen = "canvas" /\ g.active
    /\ g' = [g EXCEPT !.raf = TRUE]
    /\ UNCHANGED <<screen, sent, self, targeted, cur, net, serial, call,
                   writeLocks, deviceVars, lost>>

\* The animation frame: what came since the last one is one move, or none if
\* it led back to where the last one was sent.
FlushMove ==
    /\ g.raf
    /\ g' = [g EXCEPT !.raf = FALSE]
    /\ \/ g.active /\ Send("move", cur)
       \/ UNCHANGED <<sent, net, lost>>
    /\ UNCHANGED <<screen, self, targeted, cur, serial, call, writeLocks, deviceVars>>

EndGesture == [g EXCEPT !.active = FALSE, !.raf = FALSE]

\* onPointerUp and onPointerCancel
PointerUp ==
    /\ screen = "canvas" /\ g.active
    /\ g' = EndGesture /\ Send("up", cur)
    /\ UNCHANGED <<screen, self, targeted, cur, serial, call, writeLocks, deviceVars>>

\* Slip: the gesture is ended and no up is sent.
UnmountSilently ==
    /\ screen # "unmounted" /\ screen' = "unmounted"
    /\ cur' = IF self THEN None ELSE cur
    /\ g' = EndGesture
    /\ UNCHANGED <<sent, net, lost, self, targeted, serial, call, writeLocks, deviceVars>>

\* The screen under the pointer is unmounted: the cleanup of its transport runs
\* before that of the gesture, whose forced up no longer reaches the screen's
\* own instance, while others still get it.
Unmount ==
    /\ screen # "unmounted" /\ screen' = "unmounted"
    /\ cur' = IF self THEN None ELSE cur
    /\ IF g.active THEN g' = EndGesture /\ Send("up", cur')
                   ELSE UNCHANGED <<g, sent, net, lost>>
    /\ UNCHANGED <<self, targeted, serial, call, writeLocks, deviceVars>>

\* The instance of the screen under the pointer is seen to stop, or to run
\* again: the canvas goes and comes, with the transport, but the gesture stays
\* what it was.
CanvasGoes ==
    /\ screen = "canvas" /\ screen' = "bare"
    /\ cur' = IF self THEN None ELSE cur
    /\ UNCHANGED <<g, sent, self, targeted, net, serial, call, writeLocks,
                   deviceVars, lost>>

CanvasComes ==
    /\ screen = "bare" /\ screen' = "canvas"
    /\ UNCHANGED <<g, sent, self, targeted, cur, net, serial, call, writeLocks,
                   deviceVars, lost>>

\* The user switches between broadcast and single mode: an instance other than
\* the one under the pointer comes or goes, and misses a part of a gesture that
\* is going on.
SwitchMode ==
    /\ ~self
    /\ targeted' = ~targeted
    /\ lost' = (lost \/ g.active)
    /\ UNCHANGED <<g, screen, sent, self, cur, net, serial, call, writeLocks, deviceVars>>

\* The target's socket breaks: what is on its way may still be read.
SocketBreaks ==
    /\ cur # None /\ cur' = None
    /\ UNCHANGED <<g, screen, sent, self, targeted, net, serial, call, writeLocks,
                   deviceVars, lost>>

\* The reader of a connection has frames to read, or is in the touch of one.
Busy(k) == net[k] # <<>> \/ call[k].at # "idle"

\* A socket opens, on a connection that has a reader of its own: another may
\* still be busy, and the frames it has may be overtaken.
SocketOpens ==
    /\ cur = None /\ serial[Target] # None /\ (self => screen = "canvas")
    /\ \E k \in Conns : ~Busy(k)
    /\ cur' = CHOOSE k \in Conns : ~Busy(k)
    /\ lost' = (lost \/ \E k \in Conns : Busy(k))
    /\ UNCHANGED <<g, screen, sent, self, targeted, net, serial, call, writeLocks, deviceVars>>

-----------------------------------------------------------------------------
(* The instances and their devices.                                        *)

\* An emulator comes up on a port that no other is on, whatever the rows say,
\* and the row takes its serial.
Start(i) ==
    /\ serial[i] = None
    /\ \E p \in Serials :
         /\ finger[p] = "gone" /\ finger' = [finger EXCEPT ![p] = "up"]
         /\ serial' = [serial EXCEPT ![i] = p]
    /\ UNCHANGED <<clientVars, net, call, writeLocks, acted, lost>>

\* The emulator is killed by its serial, and the row's serial is cleared.
Stop(i) ==
    /\ serial[i] # None
    /\ serial' = [serial EXCEPT ![i] = None]
    /\ finger' = [finger EXCEPT ![serial[i]] = "gone"]
    /\ lost' = (lost \/ i = Target)
    /\ UNCHANGED <<clientVars, net, call, writeLocks, acted>>

\* A device dies, or is killed by a stop that read its serial when it was
\* another row's; the rows that have the serial keep it.
DeviceGoes(p) ==
    /\ finger[p] # "gone"
    /\ finger' = [finger EXCEPT ![p] = "gone"]
    /\ UNCHANGED <<clientVars, net, serial, call, writeLocks, acted, lost>>

-----------------------------------------------------------------------------
(* The calls.                                                              *)

\* A call ends: a reader goes on to its next frame, whatever became of this
\* one; a request is answered (writeControlError), and only the answer is kept.
Ended(r, result) ==
    [r EXCEPT !.at = IF r.op = "touch" THEN "idle" ELSE "done",
              !.result = IF r.op = "touch" THEN "none" ELSE result,
              !.inst = Target, !.op = "touch", !.action = "down", !.n = 0,
              !.serial = None, !.down = None, !.mu = 0]

\* A frame of the gesture that a reader could not get to the device is lost.
Fails(c, r) ==
    /\ call' = [call EXCEPT ![c] = Ended(r, "error")]
    /\ lost' = (lost \/ c \in Conns)

\* run by a call in state r, up to the lock: LookupOwnedInstance, which may fail,
\* and the serial it found.
Lookup(c, r) ==
    \/ Fails(c, r)
    \/ /\ serial[r.inst] # None
       /\ call' = [call EXCEPT ![c] = [r EXCEPT !.at = "locking", !.serial = serial[r.inst]]]
       /\ UNCHANGED lost

\* An endpoint of control_handler.go: authenticated, id and body parsed.  The
\* keys, swipes, texts and panels are one kind of operation here.
Request(c) ==
    /\ call[c].at = "idle"
    /\ \E i \in Instances, op \in {"tap", "other"} :
         Lookup(c, [call[c] EXCEPT !.inst = i, !.op = op])
    /\ UNCHANGED <<clientVars, net, serial, writeLocks, deviceVars>>

\* Slip: the newest frame is taken first.
ReadNewest(k) ==
    /\ call[k].at = "idle" /\ net[k] # <<>>
    /\ LET f == net[k][Len(net[k])]
       IN  /\ net' = [net EXCEPT ![k] = SubSeq(@, 1, Len(@) - 1)]
           /\ Lookup(k, [call[k] EXCEPT !.n = f.n, !.action = f.action])
    /\ UNCHANGED <<clientVars, serial, writeLocks, deviceVars>>

\* runControlReader of one connection: the next frame, dispatched unless the
\* window of the rate limiter is full; the reader reads on when the touch is
\* done.  A connection that has ended may fail to give the rest.
Read(k) ==
    /\ call[k].at = "idle" /\ net[k] # <<>>
    /\ \/ /\ k # cur
          /\ net' = [net EXCEPT ![k] = <<>>] /\ lost' = TRUE /\ UNCHANGED call
       \/ /\ net' = [net EXCEPT ![k] = Tail(@)]
          /\ \/ lost' = TRUE /\ UNCHANGED call
             \/ Lookup(k, [call[k] EXCEPT !.n = Head(net[k]).n, !.action = Head(net[k]).action])
    /\ UNCHANGED <<clientVars, serial, writeLocks, deviceVars>>

\* The second Touch of a tap.
LiftsTap(c) ==
    /\ call[c].at = "between" /\ Lookup(c, call[c])
    /\ UNCHANGED <<clientVars, net, serial, writeLocks, deviceVars>>

\* LockInstance: get or make the mutex under the lock of the map.
MutexOf(i) == IF writeLocks[i] = 0 THEN 1 ELSE writeLocks[i]

Lock(c) ==
    LET i == call[c].inst
    IN  /\ call[c].at = "locking"
        /\ \A d \in Calls : call[d].at = "holding" /\ call[d].inst = i
                               => call[d].mu # MutexOf(i)
        /\ writeLocks' = [writeLocks EXCEPT ![i] = MutexOf(i)]
        /\ call' = [call EXCEPT ![c] = [@ EXCEPT !.at = "holding", !.mu = MutexOf(i)]]
        /\ UNCHANGED <<clientVars, net, serial, deviceVars, lost>>

\* The device that the call's serial leads to is there.
Reached(c) == call[c].at = "holding" /\ finger[call[c].serial] # "gone"

\* A touch on the one pointer of that device.
Press(c, who) ==
    finger' = [finger EXCEPT ![call[c].serial] = IF call[c].action = "up" THEN "up" ELSE who]

\* fn(serial) without effect, and the unlock: the device is gone, has no scrcpy
\* session (Dimensions) or the command fails.
ActFails(c) ==
    /\ call[c].at = "holding" /\ Fails(c, call[c])
    /\ UNCHANGED <<clientVars, net, serial, writeLocks, deviceVars>>

\* A key, a swipe, a text or a panel.
ActOther(c) ==
    /\ Reached(c) /\ call[c].op = "other"
    /\ call' = [call EXCEPT ![c] = Ended(@, "ok")]
    /\ UNCHANGED <<clientVars, net, serial, writeLocks, deviceVars, lost>>

\* Touch of a frame of the gesture.
ActTouch(c) ==
    /\ Reached(c) /\ call[c].op = "touch"
    /\ Press(c, Gesture)
    /\ acted' = call[c].n
    /\ call' = [call EXCEPT ![c] = Ended(@, "ok")]
    /\ UNCHANGED <<clientVars, net, serial, writeLocks, lost>>

\* Slip: only the down.
ActTapDown(c) ==
    /\ Reached(c) /\ call[c].op = "tap"
    /\ Press(c, c)
    /\ call' = [call EXCEPT ![c] = Ended(@, "ok")]
    /\ UNCHANGED <<clientVars, net, serial, writeLocks, acted, lost>>

\* Tap: a Touch down; then, with the lock released and the serial looked up
\* again, a Touch up, which is answered with success wherever it went.
ActTap(c) ==
    /\ Reached(c) /\ call[c].op = "tap"
    /\ Press(c, c)
    /\ call' = [call EXCEPT ![c] =
                  IF @.action = "down"
                  THEN [@ EXCEPT !.at = "between", !.action = "up", !.mu = 0,
                               !.down = call[c].serial]
                  ELSE Ended(@, IF @.serial = @.down THEN "ok" ELSE "astray")]
    /\ UNCHANGED <<clientVars, net, serial, writeLocks, acted, lost>>

-----------------------------------------------------------------------------

Call(c) == LiftsTap(c) \/ Lock(c) \/ ActFails(c) \/ ActOther(c) \/ ActTouch(c) \/ ActTap(c)

Next ==
    \/ PointerDown \/ PointerMove \/ FlushMove \/ PointerUp \/ Unmount
    \/ CanvasGoes \/ CanvasComes \/ SwitchMode
    \/ SocketBreaks \/ SocketOpens
    \/ \E i \in Instances : Start(i) \/ Stop(i)
    \/ \E p \in Serials : DeviceGoes(p)
    \/ \E c \in Requests : Request(c)
    \/ \E k \in Conns : Read(k)
    \/ \E c \in Calls : Call(c)

Spec == Init /\ [][Next]_vars

\* Readers read on, the database answers, and a mutex of Go is not refused for
\* ever to one of those that wait for it.  What is done under the mutex need not
\* return.
Fairness ==
    /\ \A k \in Conns : WF_vars(Read(k))
    /\ \A c \in Calls : WF_vars(LiftsTap(c)) /\ SF_vars(Lock(c))

FairSpec == Spec /\ Fairness

-----------------------------------------------------------------------------
(* Properties.                                                             *)

\* Writes to one instance are serial (instance_service.go:98-101): no two calls
\* are between lock and unlock of the same instance.
OneWriterPerInstance ==
    \A c, d \in Calls :
        call[c].at = "holding" /\ call[d].at = "holding" /\ call[c].inst = call[d].inst
            => c = d

\* The frames of a gesture take effect in the order they were made: never a
\* move after its up.  Only the reader of a connection that has ended, busy when
\* the next was opened, lets an older frame follow a newer one
\* (mirror_handler.go:93-98: each connection has a reader of its own).
InGestureOrder ==
    [][acted' # acted =>
         \/ acted' > acted
         \/ lost /\ \E k \in Conns \ {cur} : call[k].at = "holding" /\ call'[k].at = "idle"]_vars

\* Every finger a tap has put down is lifted, by its own up or by whoever
\* touches the device next: it is down only as long as the tap has its up to
\* send, or if that failed or led to another device (a stop or a restart
\* between the halves).
TapLifts ==
    \A c \in Requests, p \in Serials :
        finger[p] = c => \/ call[c].at # "done" /\ call[c].down = p
                         \/ call[c].result \in {"error", "astray"}

\* What is done under an instance's mutex (the device's dimensions, the write to
\* its control socket, an adb command) returns: the code sets it no deadline.
CallsReturn == \A c \in Calls : []<>(call[c].at # "holding")

\* When a gesture is over and none of its frames for a target was dropped, sent
\* astray or overtaken, no device keeps its finger, whoever else touches it.
FingerLifts ==
    CallsReturn =>
        ((~g.active /\ ~lost) ~> (g.active \/ lost \/ \A p \in Serials : finger[p] # Gesture))

=============================================================================
