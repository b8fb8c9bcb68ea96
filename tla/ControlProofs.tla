--------------------------- MODULE ControlProofs ----------------------------
(***************************************************************************)
(* The safety of Control, for every number of instances, serials, requests,*)
(* connections and frames: one writer per instance, gestures in their      *)
(* order as long as no connection overtakes another, and taps that leave   *)
(* no finger on the pointer they share with everybody.                     *)
(***************************************************************************)
EXTENDS Control, SequenceTheorems, TLAPS

USE ControlAssumption

-----------------------------------------------------------------------------
(* Calls.                                                                  *)

\* A call in state r is what the code of its caller makes of one: readers touch;
\* a request lifts only what it has put down, with its tap.
CallSound(c, r) ==
    /\ r.at \in {"locking", "holding"} => r.serial # None
    /\ c \in Conns => r.op = "touch" /\ r.at \in {"idle", "locking", "holding"}
    /\ c \in Requests =>
         /\ r.at \in {"locking", "holding", "between"} => r.op # "touch"
         /\ r.at # "done" => r.result = "none"
         /\ r.action # "move"
         /\ r.action = "up" <=> r.down # None
         /\ r.action = "up" => r.op = "tap" /\ r.at \in {"between", "locking", "holding"}

CallsSound == \A c \in Calls : CallSound(c, call[c])

\* The types as the steps below need them.
LEMMA Types ==
    ASSUME TypeOK
    PROVE  /\ Requests \subseteq Calls /\ Conns \subseteq Calls /\ Calls = Requests \cup Conns
           /\ call \in [Calls -> CallState]
           /\ \A c \in Calls : /\ call[c] \in CallState /\ call[c].inst \in Instances
                               /\ call[c].n \in 0..MaxFrames
                               /\ call[c].serial # None => call[c].serial \in Serials
                               /\ call[c].down # None => call[c].down \in Serials
           /\ finger \in [Serials -> {"gone", "up", Gesture} \cup Requests]
           /\ serial \in [Instances -> Serials \cup {None}]
           /\ acted \in Nat /\ sent \in Nat /\ cur \in Conns \cup {None}
<1>1. \A c \in Calls : /\ call[c] \in CallState /\ call[c].inst \in Instances
                       /\ call[c].n \in 0..MaxFrames
                       /\ call[c].serial # None => call[c].serial \in Serials
                       /\ call[c].down # None => call[c].down \in Serials
  BY DEF TypeOK, CallState
<1>2. Requests \subseteq Calls /\ Conns \subseteq Calls /\ Calls = Requests \cup Conns
  BY DEF Calls
<1> QED BY <1>1, <1>2 DEF TypeOK

\* The end of a call.
LEMMA EndedSound ==
    ASSUME NEW c \in Calls, NEW r \in CallState, NEW result \in {"ok", "astray", "error"},
           c \in Conns => r.op = "touch", c \in Requests => r.op # "touch"
    PROVE  LET q == Ended(r, result)
           IN  /\ q \in CallState /\ CallSound(c, q) /\ q.down = None
               /\ c \in Conns => q.at = "idle"
               /\ c \in Requests => q.at = "done" /\ q.result = result
<1> DEFINE q == Ended(r, result)
<1>1. /\ q.at = (IF r.op = "touch" THEN "idle" ELSE "done")
      /\ q.result = (IF r.op = "touch" THEN "none" ELSE result)
      /\ q.op = "touch" /\ q.action = "down" /\ q.serial = None /\ q.down = None
  BY DEF Ended, CallState
<1>2. q \in CallState
  <2>1. /\ Target \in Instances /\ 0 \in 0..MaxFrames /\ "down" \in Actions
        /\ None \in Serials \cup {None}
    BY DEF Actions
  <2> DEFINE at == IF r.op = "touch" THEN "idle" ELSE "done"
             res == IF r.op = "touch" THEN "none" ELSE result
             q1 == [r EXCEPT !.at = at, !.result = res]
             q2 == [q1 EXCEPT !.inst = Target, !.op = "touch", !.action = "down", !.n = 0]
  <2>3. q1 \in CallState
    BY DEF CallState
  <2> HIDE DEF q1
  <2>4. q2 \in CallState
    BY <2>1, <2>3 DEF CallState
  <2> HIDE DEF q2
  <2>5. [q2 EXCEPT !.serial = None, !.down = None, !.mu = 0] \in CallState
    BY <2>1, <2>4 DEF CallState
  <2> QED BY <2>5 DEF Ended, q1, q2
<1> HIDE DEF q
<1>3. CallSound(c, q)
  BY <1>1 DEF CallSound
<1> QED BY <1>1, <1>2, <1>3 DEF q, Calls

\* What a lookup by a sound call makes of it.
LEMMA LookupSound ==
    ASSUME TypeOK, NEW c \in Calls, NEW r \in CallState, Lookup(c, r),
           c \in Conns => r.op = "touch",
           c \in Requests =>
             /\ r.op # "touch" /\ r.result = "none" /\ r.action # "move"
             /\ r.action = "up" <=> r.down # None
             /\ r.action = "up" => r.op = "tap"
    PROVE  \E q \in CallState :
             /\ call' = [call EXCEPT ![c] = q] /\ CallSound(c, q)
             /\ \/ q.at = "locking" /\ q.n = r.n /\ q.down = r.down
                \/ c \in Conns /\ q.at = "idle"
                \/ c \in Requests /\ q.at = "done" /\ q.result = "error"
<1>1. CASE Fails(c, r)
  <2>1. call' = [call EXCEPT ![c] = Ended(r, "error")]
    BY <1>1 DEF Fails
  <2> QED BY <2>1, EndedSound DEF Calls
<1>2. CASE /\ serial[r.inst] # None
           /\ call' = [call EXCEPT ![c] = [r EXCEPT !.at = "locking",
                                                    !.serial = serial[r.inst]]]
  <2> DEFINE q == [r EXCEPT !.at = "locking", !.serial = serial[r.inst]]
  <2>1. serial[r.inst] \in Serials
    BY <1>2 DEF TypeOK, CallState
  <2>2. /\ q.at = "locking" /\ q.serial = serial[r.inst] /\ q.op = r.op /\ q.n = r.n
        /\ q.result = r.result /\ q.action = r.action /\ q.down = r.down
    BY DEF CallState
  <2>3. q \in CallState
    BY <2>1 DEF CallState
  <2> HIDE DEF q
  <2>4. CallSound(c, q)
    BY <1>2, <2>2 DEF CallSound
  <2> QED BY <1>2, <2>2, <2>3, <2>4 DEF q
<1> QED BY <1>1, <1>2 DEF Lookup

\* What a step of a call makes of its state.  At "holding" is only who has just
\* locked.
LEMMA CallSteps ==
    ASSUME TypeOK, CallsSound, NEW c \in Calls,
           \/ Call(c) \/ (c \in Requests /\ Request(c)) \/ (c \in Conns /\ Read(c))
    PROVE  \E q \in CallState :
             /\ call' = [call EXCEPT ![c] = q] /\ CallSound(c, q)
             /\ q.at = "holding" => Lock(c) /\ q.mu = MutexOf(q.inst) /\ q.inst = call[c].inst
             /\ c \in Conns => \/ q.at = "idle"
                               \/ call[c].at # "idle" /\ q.n = call[c].n
                               \/ /\ Read(c) /\ net'[c] = Tail(net[c])
                                  /\ q.n = Head(net[c]).n
             /\ c \in Requests => \/ q.at # "done" /\ q.down = call[c].down
                                  \/ q.at = "done" /\ q.result = "error"
                                  \/ ActOther(c) \/ ActTap(c)
<1>0. /\ call \in [Calls -> CallState] /\ call[c] \in CallState /\ CallSound(c, call[c])
      /\ c \in Conns <=> c \notin Requests
  BY Types DEF CallsSound, Calls
<1>1. CASE c \in Requests /\ Request(c)
  <2>1. PICK i \in Instances, op \in {"tap", "other"} :
          Lookup(c, [call[c] EXCEPT !.inst = i, !.op = op])
    BY <1>1 DEF Request
  <2> DEFINE r == [call[c] EXCEPT !.inst = i, !.op = op]
  <2>2. /\ r \in CallState /\ r.op = op /\ r.result = call[c].result
        /\ r.action = call[c].action /\ r.down = call[c].down
    BY <1>0 DEF CallState
  <2> HIDE DEF r
  <2>3. /\ r.op # "touch" /\ r.result = "none" /\ r.action # "move"
        /\ r.action = "up" <=> r.down # None
        /\ r.action # "up"
    BY <1>0, <1>1, <2>2 DEF CallSound, Request
  <2>4. PICK q \in CallState :
             /\ call' = [call EXCEPT ![c] = q] /\ CallSound(c, q)
             /\ \/ q.at = "locking" /\ q.n = r.n /\ q.down = r.down
                \/ c \in Conns /\ q.at = "idle"
                \/ c \in Requests /\ q.at = "done" /\ q.result = "error"
    <3>1. Lookup(c, r)
      BY <2>1 DEF r
    <3>2. c \notin Conns
      BY <1>0, <1>1
    <3> QED BY <2>2, <2>3, <3>1, <3>2, LookupSound
  <2> QED BY <1>0, <1>1, <2>2, <2>4
<1>2. CASE c \in Conns /\ Read(c)
  <2>1. CASE UNCHANGED call
    BY <1>0, <1>2, <2>1 DEF Read
  <2>2. CASE ~UNCHANGED call
    <3> DEFINE r == [call[c] EXCEPT !.n = Head(net[c]).n, !.action = Head(net[c]).action]
    <3>1. Lookup(c, r) /\ net[c] # <<>> /\ net' = [net EXCEPT ![c] = Tail(@)]
      BY <1>2, <2>2 DEF Read
    <3>2. Head(net[c]) \in Frames
      BY <1>2, <3>1, HeadTailProperties DEF TypeOK
    <3>3. r \in CallState /\ r.op = call[c].op /\ r.n = Head(net[c]).n
      <4>1. Head(net[c]).n \in 0..MaxFrames /\ Head(net[c]).action \in Actions
        BY <3>2 DEF Frames
      <4> QED BY <1>0, <4>1 DEF CallState
    <3> HIDE DEF r
    <3>4. r.op = "touch"
      BY <1>0, <1>2, <3>3 DEF CallSound
    <3>5. PICK q \in CallState :
             /\ call' = [call EXCEPT ![c] = q] /\ CallSound(c, q)
             /\ \/ q.at = "locking" /\ q.n = r.n /\ q.down = r.down
                \/ c \in Conns /\ q.at = "idle"
                \/ c \in Requests /\ q.at = "done" /\ q.result = "error"
      BY <1>0, <1>2, <3>1, <3>3, <3>4, LookupSound
    <3>6. net'[c] = Tail(net[c])
      BY <1>2, <3>1 DEF TypeOK
    <3> QED BY <1>0, <1>2, <3>3, <3>5, <3>6
  <2> QED BY <2>1, <2>2
<1>3. CASE LiftsTap(c)
  <2>1. c \in Requests /\ call[c].at = "between" /\ Lookup(c, call[c])
    BY <1>0, <1>3 DEF LiftsTap, CallSound
  <2>2. PICK q \in CallState :
             /\ call' = [call EXCEPT ![c] = q] /\ CallSound(c, q)
             /\ \/ q.at = "locking" /\ q.n = call[c].n /\ q.down = call[c].down
                \/ c \in Conns /\ q.at = "idle"
                \/ c \in Requests /\ q.at = "done" /\ q.result = "error"
    BY <1>0, <2>1, LookupSound DEF CallSound
  <2> QED BY <1>0, <2>1, <2>2
<1>4. CASE Lock(c)
  <2> DEFINE i == call[c].inst
             q == [call[c] EXCEPT !.at = "holding", !.mu = MutexOf(i)]
  <2>1. MutexOf(i) \in Nat
    BY Types DEF MutexOf, TypeOK
  <2>2. call[c].at = "locking" /\ call' = [call EXCEPT ![c] = q]
    BY <1>4 DEF Lock
  <2>3. q \in CallState
    BY <1>0, <2>1 DEF CallState
  <2>4. /\ q.at = "holding" /\ q.mu = MutexOf(i) /\ q.inst = i /\ q.serial = call[c].serial
        /\ q.op = call[c].op /\ q.action = call[c].action /\ q.result = call[c].result
        /\ q.n = call[c].n /\ q.down = call[c].down
    BY <1>0 DEF CallState
  <2> HIDE DEF q
  <2>5. CallSound(c, q)
    BY <1>0, <2>2, <2>4 DEF CallSound
  <2> QED BY <1>0, <1>4, <2>2, <2>3, <2>4, <2>5
<1>5. CASE call[c].at = "holding" /\ \E result \in {"ok", "astray", "error"} :
             /\ call' = [call EXCEPT ![c] = Ended(call[c], result)]
             /\ result = "error" \/ c \in Conns \/ ActOther(c) \/ ActTap(c)
  <2>1. PICK result \in {"ok", "astray", "error"} :
          /\ call' = [call EXCEPT ![c] = Ended(call[c], result)]
          /\ result = "error" \/ c \in Conns \/ ActOther(c) \/ ActTap(c)
    BY <1>5
  <2>2. /\ c \in Conns => call[c].op = "touch"
        /\ c \in Requests => call[c].op # "touch"
    BY <1>0, <1>5 DEF CallSound
  <2> DEFINE q == Ended(call[c], result)
  <2>3. /\ q \in CallState /\ CallSound(c, q)
        /\ c \in Conns => q.at = "idle"
        /\ c \in Requests => q.at = "done" /\ q.result = result
    BY <1>0, <2>2, EndedSound
  <2> HIDE DEF q
  <2> QED BY <1>0, <2>1, <2>3 DEF q
<1>6. CASE ActFails(c) \/ ActOther(c) \/ ActTouch(c)
  <2>1. ActTouch(c) => c \in Conns
    BY <1>0 DEF ActTouch, Reached, CallSound
  <2> QED BY <1>5, <1>6, <2>1 DEF ActFails, Fails, ActOther, ActTouch, Reached
<1>7. CASE ActTap(c)
  <2>1. c \in Requests /\ call[c].at = "holding" /\ call[c].op = "tap"
    BY <1>0, <1>7 DEF ActTap, Reached, CallSound
  <2>2. CASE call[c].action = "down"
    <3> DEFINE q == [call[c] EXCEPT !.at = "between", !.action = "up", !.mu = 0,
                                    !.down = call[c].serial]
    <3>1. call' = [call EXCEPT ![c] = q]
      BY <1>7, <2>2 DEF ActTap
    <3>2. call[c].serial \in Serials /\ call[c].serial # None
      BY <1>0, <2>1, Types DEF CallSound
    <3>3. q \in CallState
      BY <1>0, <3>2 DEF CallState, Actions
    <3>4. /\ q.at = "between" /\ q.action = "up" /\ q.down = call[c].serial
          /\ q.op = "tap" /\ q.result = call[c].result
      BY <1>0, <2>1 DEF CallState
    <3> HIDE DEF q
    <3>5. CallSound(c, q)
      BY <1>0, <2>1, <3>2, <3>4 DEF CallSound
    <3> QED BY <1>0, <1>7, <2>1, <3>1, <3>3, <3>4, <3>5
  <2>3. CASE call[c].action # "down"
    <3>1. call' = [call EXCEPT ![c] = Ended(call[c], IF call[c].serial = call[c].down
                                                     THEN "ok" ELSE "astray")]
      BY <1>7, <2>3 DEF ActTap
    <3> QED BY <1>5, <1>7, <2>1, <3>1
  <2> QED BY <2>2, <2>3
<1> QED BY <1>1, <1>2, <1>3, <1>4, <1>6, <1>7 DEF Call
-----------------------------------------------------------------------------
(* Types.                                                                  *)

\* The steps, by who takes them.
ClientStep ==
    \/ PointerDown \/ PointerMove \/ FlushMove \/ PointerUp \/ Unmount
    \/ CanvasGoes \/ CanvasComes \/ SwitchMode \/ SocketBreaks \/ SocketOpens
DeviceStep ==
    \/ \E i \in Instances : Start(i) \/ Stop(i)
    \/ \E p \in Serials : DeviceGoes(p)
StepOf(c) == Call(c) \/ (c \in Requests /\ Request(c)) \/ (c \in Conns /\ Read(c))

LEMMA StepCases ==
    ASSUME [Next]_vars
    PROVE  ClientStep \/ DeviceStep \/ (\E c \in Calls : StepOf(c)) \/ UNCHANGED vars
<1>1. Requests \subseteq Calls /\ Conns \subseteq Calls
  BY DEF Calls
<1>2. CASE Next
  <2>1. CASE \E c \in Requests : Request(c)
    BY <1>1, <2>1 DEF StepOf
  <2>2. CASE \E k \in Conns : Read(k)
    BY <1>1, <2>2 DEF StepOf
  <2>3. CASE \E c \in Calls : Call(c)
    BY <2>3 DEF StepOf
  <2> QED BY <1>2, <2>1, <2>2, <2>3 DEF Next, ClientStep, DeviceStep
<1> QED BY <1>2

\* A frame sent, on the connection that is open or on none.
LEMMA SendTypes ==
    ASSUME TypeOK, NEW action \in Actions, NEW k \in Conns \cup {None}, Send(action, k)
    PROVE  sent' \in 0..MaxFrames /\ net' \in [Conns -> Seq(Frames)] /\ lost' \in BOOLEAN
<1>1. sent \in 0..MaxFrames /\ sent < MaxFrames /\ MaxFrames \in Nat /\ sent' = sent + 1
  BY DEF TypeOK, Send
<1>2. [action |-> action, n |-> sent + 1] \in Frames
  BY <1>1 DEF Frames
<1>3. net' \in [Conns -> Seq(Frames)]
  <2>1. CASE targeted /\ k # None
    <3>1. k \in Conns /\ net[k] \in Seq(Frames)
      BY <2>1 DEF TypeOK
    <3>2. Append(net[k], [action |-> action, n |-> sent + 1]) \in Seq(Frames)
      BY <1>2, <3>1, AppendProperties
    <3> QED BY <2>1, <3>1, <3>2 DEF Send, TypeOK
  <2>2. CASE ~(targeted /\ k # None)
    BY <2>2 DEF Send, TypeOK
  <2> QED BY <2>1, <2>2
<1> QED BY <1>1, <1>3 DEF Send, TypeOK

LEMMA ClientTypes ==
    ASSUME TypeOK, ClientStep
    PROVE  TypeOK' /\ UNCHANGED <<call, writeLocks, serial, finger, acted>>
<1>0. UNCHANGED <<call, writeLocks, serial, finger, acted>>
  BY DEF ClientStep, PointerDown, PointerMove, FlushMove, PointerUp, Unmount, CanvasGoes,
         CanvasComes, SwitchMode, SocketBreaks, SocketOpens, deviceVars
<1>1. cur \in Conns \cup {None} /\ g \in [active : BOOLEAN, raf : BOOLEAN]
  BY DEF TypeOK
<1>2. g' \in [active : BOOLEAN, raf : BOOLEAN]
  <2>1. EndGesture \in [active : BOOLEAN, raf : BOOLEAN]
    BY <1>1 DEF EndGesture
  <2>2. [active |-> TRUE, raf |-> FALSE] \in [active : BOOLEAN, raf : BOOLEAN]
    OBVIOUS
  <2>3. \A b \in BOOLEAN : [g EXCEPT !.raf = b] \in [active : BOOLEAN, raf : BOOLEAN]
    BY <1>1
  <2> QED BY <1>1, <2>1, <2>2, <2>3
          DEF ClientStep, PointerDown, PointerMove, FlushMove, PointerUp, Unmount,
         CanvasGoes, CanvasComes, SwitchMode, SocketBreaks, SocketOpens
<1>5. /\ screen' \in {"canvas", "bare", "unmounted"}
      /\ self' \in BOOLEAN /\ targeted' \in BOOLEAN
  <2>1. screen \in {"canvas", "bare", "unmounted"} /\ self \in BOOLEAN /\ targeted \in BOOLEAN
    BY DEF TypeOK
  <2>2. CASE SwitchMode
    BY <2>1, <2>2 DEF SwitchMode
  <2> QED BY <2>1, <2>2
          DEF ClientStep, PointerDown, PointerMove, FlushMove, PointerUp, Unmount,
         CanvasGoes, CanvasComes, SocketBreaks, SocketOpens
<1>3. cur' \in Conns \cup {None}
  <2>1. CASE SocketOpens
    BY <2>1 DEF SocketOpens
  <2> QED BY <1>1, <2>1 DEF ClientStep, PointerDown, PointerMove, FlushMove, PointerUp, Unmount,
         CanvasGoes, CanvasComes, SwitchMode, SocketBreaks
<1>4. sent' \in 0..MaxFrames /\ net' \in [Conns -> Seq(Frames)] /\ lost' \in BOOLEAN
  <2>1. CASE \E action \in Actions, k \in Conns \cup {None} : Send(action, k)
    BY <2>1, SendTypes
  <2>2. CASE UNCHANGED <<sent, net>> /\ lost' \in BOOLEAN
    BY <2>2 DEF TypeOK
  <2>3. CASE PointerDown \/ FlushMove \/ PointerUp \/ Unmount
    <3>1. "down" \in Actions /\ "move" \in Actions /\ "up" \in Actions
      BY DEF Actions
    <3> QED BY <1>1, <1>3, <2>1, <2>2, <2>3, <3>1
            DEF PointerDown, FlushMove, PointerUp, Unmount, TypeOK
  <2>4. CASE PointerMove \/ CanvasGoes \/ CanvasComes \/ SwitchMode \/ SocketBreaks \/ SocketOpens
    BY <2>2, <2>4 DEF PointerMove, CanvasGoes, CanvasComes, SwitchMode, SocketBreaks,
         SocketOpens, TypeOK
  <2> QED BY <2>3, <2>4 DEF ClientStep
<1> QED BY <1>0, <1>2, <1>3, <1>4, <1>5 DEF TypeOK

LEMMA DeviceTypes ==
    ASSUME TypeOK, DeviceStep
    PROVE  /\ TypeOK' /\ UNCHANGED <<clientVars, net, call, writeLocks, acted>>
           /\ \A p \in Serials : finger'[p] \in {finger[p], "gone", "up"}
           /\ lost => lost'
<1>1. CASE \E i \in Instances : Start(i)
  BY <1>1 DEF Start, TypeOK, clientVars
<1>2. CASE \E i \in Instances : Stop(i)
  BY <1>2 DEF Stop, TypeOK, clientVars
<1>3. CASE \E p \in Serials : DeviceGoes(p)
  BY <1>3 DEF DeviceGoes, TypeOK, clientVars
<1> QED BY <1>1, <1>2, <1>3 DEF DeviceStep

\* A step of a call outside its state: whose finger comes down is who acts.
LEMMA CallTypes ==
    ASSUME TypeOK, CallsSound, NEW c \in Calls, StepOf(c)
    PROVE  /\ TypeOK' /\ UNCHANGED <<clientVars, serial>>
           /\ lost => lost'
           /\ \A p \in Serials :
                finger'[p] = finger[p] \/ finger'[p] = "up"
                \/ (c \in Conns /\ finger'[p] = Gesture)
                \/ (c \in Requests /\ finger'[p] = c /\ ActTap(c) /\ call[c].action # "up"
                    /\ p = call[c].serial)
           /\ acted' = acted \/ (ActTouch(c) /\ c \in Conns /\ acted' = call[c].n)
           /\ \A k \in Conns : net'[k] = net[k] \/ (Read(c) /\ k = c)
<1>0. /\ UNCHANGED <<clientVars, serial>> /\ Requests \cup Conns = Calls
      /\ lost' \in BOOLEAN /\ (lost => lost')
  BY DEF StepOf, Call, Request, Read, LiftsTap, Lock, ActFails, ActOther, ActTouch, ActTap,
         Lookup, Fails, TypeOK, Calls
<1>1. call' \in [Calls -> CallState]
  BY CallSteps, Types DEF StepOf
<1>2. CallSound(c, call[c]) /\ call[c] \in CallState /\ call[c].n \in 0..MaxFrames
  BY Types DEF CallsSound
<1>3. writeLocks' \in [Instances -> Nat]
  <2>1. CASE Lock(c)
    <3>1. call[c].inst \in Instances /\ MutexOf(call[c].inst) \in Nat
      BY Types DEF MutexOf, TypeOK
    <3> QED BY <2>1, <3>1 DEF Lock, TypeOK
  <2> QED BY <2>1 DEF StepOf, Call, Request, Read, LiftsTap, ActFails, ActOther, ActTouch, ActTap,
         deviceVars, TypeOK
<1>4. /\ net' \in [Conns -> Seq(Frames)]
      /\ \A k \in Conns : net'[k] = net[k] \/ (Read(c) /\ k = c)
  <2>1. CASE c \in Conns /\ Read(c)
    <3>1. net[c] \in Seq(Frames) /\ net[c] # <<>>
      BY <2>1 DEF Read, TypeOK
    <3>2. Tail(net[c]) \in Seq(Frames) /\ <<>> \in Seq(Frames)
      BY <3>1
    <3>3. net' = [net EXCEPT ![c] = <<>>] \/ net' = [net EXCEPT ![c] = Tail(net[c])]
      BY <2>1 DEF Read
    <3>4. net \in [Conns -> Seq(Frames)]
      BY DEF TypeOK
    <3>5. PICK s \in Seq(Frames) : net' = [net EXCEPT ![c] = s]
      BY <3>2, <3>3
    <3> QED BY <2>1, <3>4, <3>5
  <2> QED BY <2>1 DEF StepOf, Call, Request, LiftsTap, Lock, ActFails, ActOther, ActTouch, ActTap,
         TypeOK
<1>5. /\ finger' \in [Serials -> {"gone", "up", Gesture} \cup Requests]
      /\ acted' \in 0..MaxFrames
      /\ \A p \in Serials :
                finger'[p] = finger[p] \/ finger'[p] = "up"
                \/ (c \in Conns /\ finger'[p] = Gesture)
                \/ (c \in Requests /\ finger'[p] = c /\ ActTap(c) /\ call[c].action # "up"
                    /\ p = call[c].serial)
      /\ acted' = acted \/ (ActTouch(c) /\ c \in Conns /\ acted' = call[c].n)
  <2>1. CASE ActTouch(c)
    <3>1. c \in Conns /\ c \notin Requests
      BY <1>0, <1>2, <2>1 DEF ActTouch, Reached, CallSound, Calls
    <3> QED BY <1>2, <2>1, <3>1 DEF ActTouch, Press, TypeOK
  <2>2. CASE ActTap(c)
    <3>1. c \in Requests
      BY <1>0, <1>2, <2>2 DEF ActTap, Reached, CallSound
    <3> QED BY <2>2, <3>1 DEF ActTap, Press, TypeOK
  <2> QED BY <2>1, <2>2 DEF StepOf, Call, Request, Read, LiftsTap, Lock, ActFails, ActOther,
         deviceVars, TypeOK
<1> QED BY <1>0, <1>1, <1>3, <1>4, <1>5 DEF TypeOK, clientVars

LEMMA CallsSoundStep ==
    ASSUME TypeOK, CallsSound, [Next]_vars
    PROVE  TypeOK' /\ CallsSound'
<1>1. CASE UNCHANGED call /\ TypeOK'
  BY <1>1 DEF CallsSound
<1>2. ASSUME NEW c \in Calls, StepOf(c)
      PROVE  TypeOK' /\ CallsSound'
  <2>1. PICK q \in CallState : call' = [call EXCEPT ![c] = q] /\ CallSound(c, q)
    BY <1>2, CallSteps DEF StepOf
  <2>2. \A d \in Calls : call'[d] = IF d = c THEN q ELSE call[d]
    BY <2>1, Types
  <2> QED BY <1>2, <2>1, <2>2, CallTypes DEF CallsSound
<1>3. CASE UNCHANGED vars
  BY <1>1, <1>3 DEF vars, clientVars, deviceVars, TypeOK
<1> QED BY <1>1, <1>2, <1>3, StepCases, ClientTypes, DeviceTypes

LEMMA InitSound ==
    ASSUME Init
    PROVE  TypeOK /\ CallsSound
<1> DEFINE r == [at |-> "idle", inst |-> Target, op |-> "touch", action |-> "down", n |-> 0,
                 serial |-> None, mu |-> 0, down |-> None, result |-> "none"]
<1>1. r \in CallState
  BY DEF CallState, Actions
<1>2. \A c \in Calls : CallSound(c, r)
  BY DEF CallSound
<1> HIDE DEF r
<1>3. call = [c \in Calls |-> r]
  BY DEF Init, r
<1>4. call \in [Calls -> CallState] /\ CallsSound
  BY <1>1, <1>2, <1>3 DEF CallsSound
<1>5. finger \in [Serials -> {"gone", "up", Gesture} \cup Requests]
      /\ serial \in [Instances -> Serials \cup {None}]
  BY DEF Init
<1>6. net \in [Conns -> Seq(Frames)]
  BY DEF Init
<1>7. writeLocks \in [Instances -> Nat] /\ sent \in 0..MaxFrames /\ acted \in 0..MaxFrames
  BY DEF Init
<1>8. g \in [active : BOOLEAN, raf : BOOLEAN] /\ cur \in Conns \cup {None} /\ targeted \in BOOLEAN
      /\ self \in BOOLEAN /\ screen \in {"canvas", "bare", "unmounted"} /\ lost \in BOOLEAN
  BY DEF Init
<1> QED BY <1>4, <1>5, <1>6, <1>7, <1>8 DEF TypeOK

\* The types hold: of the finger of every device, and of the call of every caller.
THEOREM TypeCorrect == Spec => []TypeOK
<1>1. TypeOK /\ CallsSound /\ [Next]_vars => TypeOK' /\ CallsSound'
  BY CallsSoundStep
<1> QED BY <1>1, InitSound, PTL DEF Spec
-----------------------------------------------------------------------------
(* One writer per instance.                                                *)

\* The map has one mutex per instance, and who holds an instance holds that one.
OneMutex ==
    /\ \A i \in Instances : writeLocks[i] \in {0, 1}
    /\ \A c \in Calls : call[c].at = "holding" =>
                            call[c].mu = 1 /\ writeLocks[call[c].inst] = 1

LEMMA MutexStep ==
    ASSUME TypeOK, CallsSound, OneMutex, OneWriterPerInstance, [Next]_vars
    PROVE  OneMutex' /\ OneWriterPerInstance'
<1>1. CASE UNCHANGED <<call, writeLocks>>
  BY <1>1 DEF OneMutex, OneWriterPerInstance
<1>2. ASSUME NEW c \in Calls, StepOf(c)
      PROVE  OneMutex' /\ OneWriterPerInstance'
  <2>1. PICK q \in CallState :
          /\ call' = [call EXCEPT ![c] = q]
          /\ q.at = "holding" => Lock(c) /\ q.mu = MutexOf(q.inst) /\ q.inst = call[c].inst
    BY <1>2, CallSteps DEF StepOf
  <2>2. \A d \in Calls : call'[d] = IF d = c THEN q ELSE call[d]
    BY <2>1, Types
  <2>3. CASE Lock(c)
    <3> DEFINE i == call[c].inst
    <3>1. /\ i \in Instances /\ MutexOf(i) = 1
          /\ writeLocks' = [writeLocks EXCEPT ![i] = 1]
      BY <2>3, Types DEF OneMutex, MutexOf, Lock
    <3>2. OneMutex'
      <4>1. \A j \in Instances : writeLocks'[j] = IF j = i THEN 1 ELSE writeLocks[j]
        BY <3>1 DEF TypeOK
      <4>2. \A d \in Calls : call[d].inst \in Instances
        BY Types
      <4>3. q.at = "holding" => q.mu = 1 /\ q.inst = i
        BY <2>1, <3>1
      <4> HIDE DEF i
      <4> QED BY <2>2, <3>1, <4>1, <4>2, <4>3 DEF OneMutex
    <3>3. \A d \in Calls : call[d].at = "holding" => call[d].inst # i
      BY <2>3, <3>1 DEF Lock, OneMutex
    <3> QED BY <2>1, <2>2, <3>2, <3>3 DEF OneWriterPerInstance
  <2>4. CASE ~Lock(c)
    <3>1. UNCHANGED writeLocks
      BY <1>2, <2>4 DEF StepOf, Call, Request, Read, LiftsTap, ActFails, ActOther, ActTouch,
         ActTap
    <3> QED BY <2>1, <2>2, <2>4, <3>1 DEF OneMutex, OneWriterPerInstance
  <2> QED BY <2>3, <2>4
<1>3. CASE UNCHANGED vars
  BY <1>1, <1>3 DEF vars
<1> QED BY <1>1, <1>2, <1>3, StepCases, ClientTypes, DeviceTypes

\* Writes to one instance are serial, for any number of requests and
\* connections.
THEOREM WritersTakeTurns == Spec => []OneWriterPerInstance
<1>1. Init => TypeOK /\ CallsSound /\ OneMutex /\ OneWriterPerInstance
  <2> SUFFICES ASSUME Init PROVE TypeOK /\ CallsSound /\ OneMutex /\ OneWriterPerInstance
    OBVIOUS
  <2>1. \A c \in Calls : call[c].at = "idle"
    BY DEF Init
  <2>2. \A i \in Instances : writeLocks[i] = 0
    BY DEF Init
  <2> QED BY <2>1, <2>2, InitSound DEF OneMutex, OneWriterPerInstance
<1>2. TypeOK /\ CallsSound /\ OneMutex /\ OneWriterPerInstance /\ [Next]_vars
      => (TypeOK /\ CallsSound /\ OneMutex /\ OneWriterPerInstance)'
  BY CallsSoundStep, MutexStep
<1> QED BY <1>1, <1>2, PTL DEF Spec

-----------------------------------------------------------------------------
(* Taps.                                                                   *)

\* What a step of a request makes of the finger it has down.
LEMMA TapStep ==
    ASSUME TypeOK, CallsSound, TapLifts, NEW c \in Requests, StepOf(c),
           NEW p \in Serials, finger'[p] = c
    PROVE  \/ call'[c].at # "done" /\ call'[c].down = p
           \/ call'[c].result \in {"error", "astray"}
<1>0. /\ c \in Calls /\ call[c] \in CallState /\ CallSound(c, call[c])
      /\ call \in [Calls -> CallState] /\ None \notin Serials /\ c \notin Conns
      /\ c # Gesture /\ c # "up" /\ finger \in [Serials -> {"gone", "up", Gesture} \cup Requests]
  BY Types DEF CallsSound
<1>1. PICK q \in CallState :
          /\ call' = [call EXCEPT ![c] = q] /\ CallSound(c, q)
          /\ \/ q.at # "done" /\ q.down = call[c].down
             \/ q.at = "done" /\ q.result = "error"
             \/ ActOther(c) \/ ActTap(c)
  BY <1>0, CallSteps DEF StepOf
<1>2. call'[c] = q
  BY <1>0, <1>1
<1>3. CASE ActTap(c)
  <2>1. CASE call[c].action = "down"
    <3>1. /\ call'[c].at = "between" /\ call'[c].down = call[c].serial
          /\ call[c].serial \in Serials
      BY <1>0, <1>3, <2>1, Types DEF ActTap, Reached, CallSound, CallState
    <3>2. call[c].down = None
      BY <1>0, <2>1 DEF CallSound
    <3>3. call[c].at # "done"
      BY <1>3 DEF ActTap, Reached
    <3>4. finger[p] # c
      BY <1>0, <3>2, <3>3 DEF TapLifts, CallSound
    <3>5. p = call[c].serial
      BY <1>0, <1>3, <2>1, <3>1, <3>4 DEF ActTap, Press
    <3> QED BY <3>1, <3>5
  <2>2. CASE call[c].action # "down"
    <3>1. call[c].action = "up"
      BY <1>0, <1>3, <2>2 DEF CallState, Actions, CallSound
    <3>2. p # call[c].serial /\ finger[p] = c
      BY <1>0, <1>3, <3>1 DEF ActTap, Press
    <3>3. call[c].down = p
      BY <1>0, <1>3, <3>2 DEF TapLifts, CallSound, ActTap, Reached
    <3>4. call'[c] = Ended(call[c], "astray")
      BY <1>0, <1>3, <2>2, <3>2, <3>3 DEF ActTap
    <3>5. call[c].op # "touch"
      BY <1>3 DEF ActTap
    <3> QED BY <1>0, <3>4, <3>5, EndedSound
  <2> QED BY <2>1, <2>2
<1>4. CASE ~ActTap(c)
  <2>1. finger[p] = c
    BY <1>0, <1>4, CallTypes
  <2>2. call[c].at # "done"
    BY <1>0, <1>4 DEF StepOf, Call, Request, LiftsTap, Lock, ActFails, ActOther, ActTouch, Reached
  <2>3. call[c].down = p
    BY <1>0, <2>1, <2>2 DEF TapLifts, CallSound
  <2>4. ~ActOther(c)
    BY <1>0, <2>3 DEF ActOther, Reached, CallSound, CallState, Actions
  <2> QED BY <1>1, <1>2, <1>4, <2>3, <2>4
<1> QED BY <1>3, <1>4

LEMMA TapsStep ==
    ASSUME TypeOK, CallsSound, TapLifts, [Next]_vars
    PROVE  TapLifts'
<1>1. SUFFICES ASSUME NEW c \in Requests, NEW p \in Serials, finger'[p] = c
               PROVE  \/ call'[c].at # "done" /\ call'[c].down = p
                      \/ call'[c].result \in {"error", "astray"}
  BY DEF TapLifts
<1>0. c # Gesture /\ c # "up" /\ c # "gone" /\ c \in Calls /\ c \notin Conns
  BY DEF Calls
<1>2. CASE finger[p] = c /\ call'[c] = call[c]
  BY <1>2 DEF TapLifts
<1>3. ASSUME NEW d \in Calls, StepOf(d), d # c
      PROVE  finger[p] = c /\ call'[c] = call[c]
  <2>1. finger[p] = c
    BY <1>0, <1>1, <1>3, CallTypes
  <2>2. PICK q \in CallState : call' = [call EXCEPT ![d] = q]
    BY <1>3, CallSteps DEF StepOf
  <2> QED BY <1>0, <1>3, <2>1, <2>2, Types
<1>4. CASE ClientStep
  BY <1>1, <1>2, <1>4, ClientTypes
<1>5. CASE DeviceStep
  BY <1>0, <1>1, <1>2, <1>5, DeviceTypes
<1>6. CASE UNCHANGED vars
  BY <1>1, <1>2, <1>6 DEF vars, deviceVars
<1> QED BY <1>1, <1>2, <1>3, <1>4, <1>5, <1>6, StepCases, TapStep

\* No tap leaves its finger on the pointer everybody shares, unless its second
\* half failed or went to another device: for any number of callers that touch
\* the device between its halves, and any stops and restarts.
THEOREM TapsLift == Spec => []TapLifts
<1>1. Init => TapLifts
  BY DEF Init, TapLifts
<1>2. TypeOK /\ CallsSound /\ TapLifts /\ [Next]_vars
      => (TypeOK /\ CallsSound /\ TapLifts)'
  BY CallsSoundStep, TapsStep
<1> QED BY <1>1, <1>2, InitSound, PTL DEF Spec
-----------------------------------------------------------------------------
(* The order of a gesture.                                                 *)

\* The frame n is under way on connection k: on its way to the reader, or in
\* the reader's hands.
UnderWay(k, n) ==
    \/ call[k].at # "idle" /\ n = call[k].n
    \/ \E i \in 1..Len(net[k]) : n = net[k][i].n

\* A connection keeps the order, and its reader takes the oldest.
InOrder(k) ==
    /\ \A i, j \in 1..Len(net[k]) : i < j => net[k][i].n < net[k][j].n
    /\ call[k].at # "idle" => \A i \in 1..Len(net[k]) : call[k].n < net[k][i].n

NetInOrder ==
    /\ acted <= sent
    /\ \A k \in Conns : InOrder(k) /\ \A n \in Nat : UnderWay(k, n) => n <= sent

\* What is under way on the current connection is newer than all else.
CurrentIsNewest ==
    cur # None =>
        \A n \in Nat : UnderWay(cur, n) =>
            acted < n /\ \A k \in Conns \ {cur}, m \in Nat : UnderWay(k, m) => m < n

\* Without a loss one connection has all that is under way.
NoneOvertaken ==
    ~lost => \A k \in Conns, n \in Nat : UnderWay(k, n) =>
                 /\ acted < n /\ cur \in {None, k}
                 /\ \A j \in Conns, m \in Nat : UnderWay(j, m) => j = k

Ordered == NetInOrder /\ CurrentIsNewest /\ NoneOvertaken

\* A step that puts nothing new under way.
LEMMA QuietOrdered ==
    ASSUME TypeOK, Ordered, UNCHANGED <<sent, acted>>, cur' \in {cur, None}, lost => lost',
           lost' \in BOOLEAN,
           \A k \in Conns : InOrder(k)' /\ \A n \in Nat : UnderWay(k, n)' => UnderWay(k, n)
    PROVE  Ordered'
<1>0. cur \in Conns \cup {None} /\ lost \in BOOLEAN
  BY DEF TypeOK
<1>1. NetInOrder'
  BY DEF Ordered, NetInOrder
<1>2. CurrentIsNewest'
  <2>1. CASE cur' = cur /\ cur # None
    <3>1. \A n \in Nat : UnderWay(cur, n)' => UnderWay(cur, n)
      BY <1>0, <2>1
    <3> QED BY <1>0, <2>1, <3>1 DEF Ordered, CurrentIsNewest
  <2> QED BY <2>1 DEF CurrentIsNewest
<1>3. NoneOvertaken'
  BY <1>0 DEF Ordered, NoneOvertaken
<1> QED BY <1>1, <1>2, <1>3 DEF Ordered

\* A frame sent is newer than all that are under way.
LEMMA SendOrdered ==
    ASSUME TypeOK, Ordered, NEW action \in Actions, NEW k \in {cur, None}, Send(action, k),
           cur' \in {cur, None}, UNCHANGED <<acted, call>>
    PROVE  Ordered'
<1>0. /\ cur \in Conns \cup {None} /\ lost \in BOOLEAN /\ sent \in Nat /\ acted \in Nat
      /\ net \in [Conns -> Seq(Frames)] /\ None \notin Conns
  BY DEF TypeOK
<1>1. CASE targeted /\ k # None
  <2> DEFINE f == [action |-> action, n |-> sent + 1]
  <2>1. /\ k \in Conns /\ k = cur /\ net' = [net EXCEPT ![k] = Append(net[k], f)]
        /\ sent' = sent + 1 /\ lost' = lost
    BY <1>0, <1>1 DEF Send
  <2>2. net[k] \in Seq(Frames) /\ Len(net[k]) \in Nat
    BY <1>0, <2>1
  <2>3. f \in Frames /\ f.n = sent + 1
    BY <1>0, <2>1 DEF Frames, Send, TypeOK
  <2> HIDE DEF f
  <2>4. /\ Len(Append(net[k], f)) = Len(net[k]) + 1
        /\ \A i \in 1..Len(net[k]) : Append(net[k], f)[i] = net[k][i]
        /\ Append(net[k], f)[Len(net[k]) + 1] = f
    BY <2>2, <2>3, AppendProperties
  <2>5. \A j \in Conns : net'[j] = IF j = k THEN Append(net[k], f) ELSE net[j]
    BY <1>0, <2>1
  <2>6. \A j \in Conns, n \in Nat : UnderWay(j, n)' => UnderWay(j, n) \/ (j = k /\ n = sent + 1)
    <3> SUFFICES ASSUME NEW j \in Conns, NEW n \in Nat, UnderWay(j, n)'
                 PROVE  UnderWay(j, n) \/ (j = k /\ n = sent + 1)
      OBVIOUS
    <3>1. CASE j # k
      BY <2>5, <3>1 DEF UnderWay
    <3>2. CASE j = k
      <4>1. CASE call[k].at # "idle" /\ n = call[k].n
        BY <3>2, <4>1 DEF UnderWay
      <4>2. CASE \E i \in 1..Len(Append(net[k], f)) : n = Append(net[k], f)[i].n
        <5>1. PICK i \in 1..(Len(net[k]) + 1) : n = Append(net[k], f)[i].n
          BY <2>4, <4>2
        <5>2. CASE i = Len(net[k]) + 1
          BY <2>3, <2>4, <3>2, <5>1, <5>2
        <5>3. CASE i # Len(net[k]) + 1
          <6>1. i \in 1..Len(net[k])
            BY <2>2, <5>3
          <6> QED BY <2>4, <3>2, <5>1, <6>1 DEF UnderWay
        <5> QED BY <5>2, <5>3
      <4> QED BY <2>5, <3>2, <4>1, <4>2 DEF UnderWay
    <3> QED BY <3>1, <3>2
  <2>7. \A j \in Conns : InOrder(j)'
    <3>1. \A j \in Conns : InOrder(j)
      BY DEF Ordered, NetInOrder
    <3>2. \A i \in 1..Len(net[k]) : net[k][i].n \in Nat
      <4>1. \A i \in 1..Len(net[k]) : net[k][i] \in Frames
        BY <2>2, ElementOfSeq
      <4>2. \A e \in Frames : e.n \in Nat
        BY DEF Frames
      <4> QED BY <4>1, <4>2
    <3>3. \A i \in 1..Len(net[k]) : net[k][i].n < sent + 1
      <4>1. \A i \in 1..Len(net[k]) : UnderWay(k, net[k][i].n)
        BY DEF UnderWay
      <4>2. \A i \in 1..Len(net[k]) : net[k][i].n <= sent
        BY <2>1, <3>2, <4>1 DEF Ordered, NetInOrder
      <4> QED BY <1>0, <3>2, <4>2
    <3>4. call[k].n \in Nat /\ (call[k].at # "idle" => call[k].n < sent + 1)
      <4>1. call[k].n \in Nat
        BY <2>1, Types
      <4> QED BY <1>0, <2>1, <4>1 DEF Ordered, NetInOrder, UnderWay
    <3>5. InOrder(k)'
      <4>1. \A i, j \in 1..(Len(net[k]) + 1) : i < j =>
              i \in 1..Len(net[k]) /\ (j \in 1..Len(net[k]) \/ j = Len(net[k]) + 1)
        BY <2>2
      <4>2. net'[k] = Append(net[k], f)
        BY <2>1, <2>5
      <4>3. \A i \in 1..(Len(net[k]) + 1) : i \in 1..Len(net[k]) \/ i = Len(net[k]) + 1
        BY <2>2
      <4>4. \A i, j \in 1..(Len(net[k]) + 1) : i < j =>
              Append(net[k], f)[i].n < Append(net[k], f)[j].n
        BY <2>1, <2>3, <2>4, <3>1, <3>3, <4>1 DEF InOrder
      <4>5. call[k].at # "idle" =>
              \A i \in 1..(Len(net[k]) + 1) : call[k].n < Append(net[k], f)[i].n
        BY <2>1, <2>3, <2>4, <3>1, <3>4, <4>3 DEF InOrder
      <4> QED BY <2>4, <4>2, <4>4, <4>5 DEF InOrder
    <3> QED BY <2>5, <3>1, <3>5 DEF InOrder
  <2>8. NetInOrder'
    BY <1>0, <2>1, <2>6, <2>7 DEF Ordered, NetInOrder
  <2>9. CurrentIsNewest'
    <3> SUFFICES ASSUME cur' # None, NEW n \in Nat, UnderWay(cur, n)'
                 PROVE  acted < n /\ \A j \in Conns \ {cur}, m \in Nat : UnderWay(j, m)' => m < n
      BY DEF CurrentIsNewest
    <3>1. cur' = k /\ (UnderWay(k, n)' => UnderWay(k, n) \/ n = sent + 1)
      BY <2>1, <2>6
    <3> QED BY <1>0, <2>1, <2>6, <3>1 DEF Ordered, NetInOrder, CurrentIsNewest
  <2>10. NoneOvertaken'
    BY <1>0, <2>1, <2>6 DEF Ordered, NetInOrder, NoneOvertaken
  <2> QED BY <2>8, <2>9, <2>10 DEF Ordered
<1>2. CASE ~(targeted /\ k # None)
  <2>1. net' = net /\ sent' = sent + 1 /\ (lost => lost') /\ lost' \in BOOLEAN
    BY <1>0, <1>2 DEF Send, TypeOK
  <2>2. \A j \in Conns, n \in Nat : UnderWay(j, n)' <=> UnderWay(j, n)
    BY <2>1 DEF UnderWay
  <2>3. \A j \in Conns : InOrder(j)' <=> InOrder(j)
    BY <2>1 DEF InOrder
  <2>4. NetInOrder'
    BY <1>0, <2>1, <2>2, <2>3 DEF Ordered, NetInOrder
  <2>5. CurrentIsNewest' /\ NoneOvertaken'
    BY <1>0, <2>1, <2>2 DEF Ordered, CurrentIsNewest, NoneOvertaken
  <2> QED BY <2>4, <2>5 DEF Ordered
<1> QED BY <1>1, <1>2
LEMMA ClientOrdered ==
    ASSUME TypeOK, Ordered, ClientStep
    PROVE  Ordered'
<1>0. /\ cur \in Conns \cup {None} /\ UNCHANGED <<call, acted>> /\ lost' \in BOOLEAN
      /\ "down" \in Actions /\ "move" \in Actions /\ "up" \in Actions
  BY ClientTypes DEF TypeOK, Actions
<1>1. CASE UNCHANGED <<net, sent>> /\ (lost => lost') /\ cur' \in {cur, None}
  <2>1. \A k \in Conns : InOrder(k)' /\ \A n \in Nat : UnderWay(k, n)' => UnderWay(k, n)
    BY <1>0, <1>1 DEF Ordered, NetInOrder, InOrder, UnderWay
  <2> QED BY <1>0, <1>1, <2>1, QuietOrdered
<1>2. CASE \E action \in Actions, k \in {cur, None} : Send(action, k) /\ cur' \in {cur, None}
  BY <1>0, <1>2, SendOrdered
<1>3. CASE SocketOpens
  <2>1. PICK k \in Conns : ~Busy(k) /\ cur' = k
    BY <1>3 DEF SocketOpens
  <2>2. /\ UNCHANGED <<net, sent>> /\ k # None
        /\ lost' = (lost \/ \E j \in Conns : Busy(j))
    BY <1>3, <2>1 DEF SocketOpens
  <2>3. \A j \in Conns, n \in Nat : UnderWay(j, n)' <=> UnderWay(j, n)
    BY <1>0, <2>2 DEF UnderWay
  <2>4. \A j \in Conns, n \in Nat : UnderWay(j, n) => Busy(j)
    <3>1. \A j \in Conns : net[j] = <<>> => Len(net[j]) = 0
      OBVIOUS
    <3> QED BY <3>1 DEF UnderWay, Busy
  <2>5. NetInOrder'
    BY <1>0, <2>2, <2>3 DEF Ordered, NetInOrder, InOrder
  <2>6. CurrentIsNewest'
    <3>1. \A n \in Nat : ~UnderWay(k, n)'
      BY <2>1, <2>3, <2>4
    <3> QED BY <2>1, <3>1 DEF CurrentIsNewest
  <2>7. NoneOvertaken'
    BY <2>2, <2>3, <2>4 DEF NoneOvertaken
  <2> QED BY <2>5, <2>6, <2>7 DEF Ordered
<1>4. CASE PointerDown \/ FlushMove \/ PointerUp \/ Unmount
  BY <1>0, <1>1, <1>2, <1>4 DEF PointerDown, FlushMove, PointerUp, Unmount
<1>5. CASE PointerMove \/ CanvasGoes \/ CanvasComes \/ SwitchMode \/ SocketBreaks
  BY <1>0, <1>1, <1>5 DEF PointerMove, CanvasGoes, CanvasComes, SwitchMode, SocketBreaks
<1> QED BY <1>3, <1>4, <1>5 DEF ClientStep

\* A connection read from keeps its order.
LEMMA ReadOrdered ==
    ASSUME TypeOK, Ordered, CallsSound, NEW c \in Conns, Read(c)
    PROVE  Ordered'
<1>0. /\ c \in Calls /\ net \in [Conns -> Seq(Frames)] /\ call \in [Calls -> CallState]
      /\ net[c] \in Seq(Frames) /\ net[c] # <<>> /\ call[c].at = "idle"
      /\ UNCHANGED <<sent, acted, cur>>
  BY Types DEF TypeOK, Read, clientVars, deviceVars
<1>1. PICK q \in CallState :
          /\ call' = [call EXCEPT ![c] = q]
          /\ \/ q.at = "idle"
             \/ net'[c] = Tail(net[c]) /\ q.n = Head(net[c]).n
  BY <1>0, CallSteps
<1>2. /\ \A k \in Conns : call'[k] = IF k = c THEN q ELSE call[k]
      /\ \A k \in Conns \ {c} : net'[k] = net[k]
  BY <1>0, <1>1, CallTypes DEF Calls, StepOf
<1>3. /\ Len(Tail(net[c])) \in Nat /\ Len(net[c]) \in Nat /\ Len(net[c]) = Len(Tail(net[c])) + 1
      /\ \A i \in 1..Len(Tail(net[c])) : Tail(net[c])[i] = net[c][i + 1]
      /\ Head(net[c]) = net[c][1]
  BY <1>0, HeadTailProperties
<1>4. net'[c] = <<>> \/ net'[c] = Tail(net[c])
  BY <1>0 DEF Read
<1>5. InOrder(c)
  BY DEF Ordered, NetInOrder
<1>6. \A i \in 1..Len(Tail(net[c])) : i + 1 \in 1..Len(net[c]) /\ 1 < i + 1
  BY <1>3
<1>7. \A i, j \in 1..Len(Tail(net[c])) : i < j => i + 1 < j + 1
  BY <1>3
<1>8. InOrder(c)' /\ \A n \in Nat : UnderWay(c, n)' => UnderWay(c, n)
  <2>1. CASE net'[c] = <<>>
    <3>1. Len(net'[c]) = 0 /\ call'[c] = q
      BY <1>2, <2>1
    <3>2. 1..Len(net'[c]) = {}
      BY <3>1
    <3>3. q.at # "idle" => q.n = net[c][1].n /\ 1 \in 1..Len(net[c])
      BY <1>1, <1>3, <2>1
    <3> QED BY <3>1, <3>2, <3>3 DEF InOrder, UnderWay
  <2>2. CASE net'[c] = Tail(net[c])
    <3>1. call'[c] = q /\ 1 \in 1..Len(net[c]) /\ (q.at # "idle" => q.n = net[c][1].n)
      BY <1>1, <1>2, <1>3
    <3>2. InOrder(c)'
      <4>1. \A i, j \in 1..Len(Tail(net[c])) : i < j => Tail(net[c])[i].n < Tail(net[c])[j].n
        BY <1>3, <1>5, <1>6, <1>7 DEF InOrder
      <4>2. \A i \in 1..Len(Tail(net[c])) : net[c][1].n < Tail(net[c])[i].n
        BY <1>3, <1>5, <1>6, <3>1 DEF InOrder
      <4> QED BY <2>2, <3>1, <4>1, <4>2 DEF InOrder
    <3>3. \A n \in Nat : UnderWay(c, n)' => UnderWay(c, n)
      BY <1>3, <1>6, <2>2, <3>1 DEF UnderWay
    <3> QED BY <3>2, <3>3
  <2> QED BY <1>4, <2>1, <2>2
<1>9. ASSUME NEW k \in Conns, k # c
      PROVE  InOrder(k)' /\ \A n \in Nat : UnderWay(k, n)' => UnderWay(k, n)
  <2>1. call'[k] = call[k] /\ net'[k] = net[k] /\ InOrder(k)
    BY <1>2, <1>9 DEF Ordered, NetInOrder
  <2> QED BY <2>1 DEF InOrder, UnderWay
<1>10. (lost => lost') /\ lost' \in BOOLEAN
  BY <1>0, CallTypes DEF StepOf, TypeOK
<1> QED BY <1>0, <1>8, <1>9, <1>10, QuietOrdered

\* A touch takes the oldest frame of its connection, which without a loss is
\* the oldest there is.
LEMMA TouchOrdered ==
    ASSUME TypeOK, Ordered, CallsSound, NEW c \in Conns, ActTouch(c)
    PROVE  Ordered' /\ (acted' > acted \/ (lost /\ c # cur))
<1>0. /\ c \in Calls /\ call \in [Calls -> CallState] /\ call[c].at = "holding"
      /\ call[c].n \in Nat /\ acted \in Nat /\ sent \in Nat
      /\ UNCHANGED <<sent, cur, net, lost>> /\ acted' = call[c].n /\ c # None
      /\ net \in [Conns -> Seq(Frames)] /\ cur \in Conns \cup {None}
  BY Types DEF TypeOK, ActTouch, Reached, clientVars
<1>1. UnderWay(c, call[c].n)
  BY <1>0 DEF UnderWay
<1>2. call'[c].at = "idle" /\ \A k \in Conns \ {c} : call'[k] = call[k]
  <2>1. call' = [call EXCEPT ![c] = Ended(call[c], "ok")] /\ call[c].op = "touch"
    BY DEF ActTouch
  <2>2. Ended(call[c], "ok").at = "idle"
    BY <1>0, <2>1 DEF Ended, CallState
  <2> QED BY <1>0, <2>1, <2>2 DEF Calls
<1>3. \A k \in Conns, n \in Nat : UnderWay(k, n)' =>
          UnderWay(k, n) /\ (k = c => call[c].n < n)
  <2> SUFFICES ASSUME NEW k \in Conns, NEW n \in Nat, UnderWay(k, n)'
               PROVE  UnderWay(k, n) /\ (k = c => call[c].n < n)
    OBVIOUS
  <2>1. CASE k # c
    BY <1>0, <1>2, <2>1 DEF UnderWay
  <2>2. CASE k = c
    BY <1>0, <1>2, <2>2 DEF UnderWay, Ordered, NetInOrder, InOrder
  <2> QED BY <2>1, <2>2
<1>4. \A k \in Conns : InOrder(k)'
  BY <1>0, <1>2 DEF Ordered, NetInOrder, InOrder
<1>5. call[c].n <= sent
  BY <1>0, <1>1 DEF Ordered, NetInOrder
<1>6. NetInOrder'
  BY <1>0, <1>3, <1>4, <1>5 DEF Ordered, NetInOrder
<1>7. CurrentIsNewest'
  <2> SUFFICES ASSUME cur # None, NEW n \in Nat, UnderWay(cur, n)'
               PROVE  call[c].n < n /\ \A k \in Conns \ {cur}, m \in Nat : UnderWay(k, m)' => m < n
    BY <1>0 DEF CurrentIsNewest
  <2>1. UnderWay(cur, n) /\ (cur = c => call[c].n < n)
    BY <1>0, <1>3
  <2>2. \A k \in Conns \ {cur}, m \in Nat : UnderWay(k, m) => m < n
    BY <2>1 DEF Ordered, CurrentIsNewest
  <2> QED BY <1>0, <1>1, <1>3, <2>1, <2>2
<1>8. NoneOvertaken'
  BY <1>0, <1>1, <1>3 DEF Ordered, NoneOvertaken
<1>9. acted' > acted \/ (lost /\ c # cur)
  BY <1>0, <1>1 DEF Ordered, CurrentIsNewest, NoneOvertaken, TypeOK
<1> QED BY <1>6, <1>7, <1>8, <1>9 DEF Ordered

LEMMA CallOrdered ==
    ASSUME TypeOK, Ordered, CallsSound, NEW c \in Calls, StepOf(c)
    PROVE  Ordered'
<1>1. CASE ActTouch(c)
  BY <1>1, TouchOrdered, Types DEF ActTouch, Reached, CallsSound, CallSound
<1>2. CASE c \in Conns /\ Read(c)
  BY <1>2, ReadOrdered
<1>3. CASE ~ActTouch(c) /\ ~(c \in Conns /\ Read(c))
  <2>1. PICK q \in CallState :
             /\ call' = [call EXCEPT ![c] = q]
             /\ c \in Conns => \/ q.at = "idle"
                               \/ call[c].at # "idle" /\ q.n = call[c].n
    BY <1>3, CallSteps DEF StepOf
  <2>2. \A k \in Conns : call'[k] = IF k = c THEN q ELSE call[k]
    BY <2>1, Types
  <2>3. UNCHANGED <<sent, acted, cur, net>> /\ (lost => lost') /\ lost' \in BOOLEAN
    <3>1. UNCHANGED net
      BY <1>3 DEF StepOf, Call, Request, LiftsTap, Lock, ActFails, ActOther, ActTap
    <3> QED BY <1>3, <3>1, CallTypes DEF clientVars, TypeOK
  <2>4. \A k \in Conns : InOrder(k)' /\ \A n \in Nat : UnderWay(k, n)' => UnderWay(k, n)
    BY <2>1, <2>2, <2>3 DEF Ordered, NetInOrder, InOrder, UnderWay
  <2> QED BY <2>3, <2>4, QuietOrdered
<1> QED BY <1>1, <1>2, <1>3

LEMMA OrderedStep ==
    ASSUME TypeOK, Ordered, CallsSound, [Next]_vars
    PROVE  Ordered'
<1>1. CASE UNCHANGED <<sent, acted, cur, net, call>> /\ (lost => lost') /\ lost' \in BOOLEAN
  <2>1. \A k \in Conns : InOrder(k)' /\ \A n \in Nat : UnderWay(k, n)' => UnderWay(k, n)
    BY <1>1 DEF Ordered, NetInOrder, InOrder, UnderWay
  <2> QED BY <1>1, <2>1, QuietOrdered
<1>2. CASE DeviceStep
  BY <1>1, <1>2, DeviceTypes DEF clientVars, TypeOK
<1>3. CASE UNCHANGED vars
  BY <1>1, <1>3 DEF vars, clientVars, deviceVars, TypeOK
<1> QED BY <1>2, <1>3, StepCases, ClientOrdered, CallOrdered

\* The frames of a gesture take effect in order, whatever breaks, stops or
\* comes up again meanwhile and for any number of connections, each with a
\* reader of its own: an older frame follows a newer one only by the reader of
\* a connection that has ended, and only if it was busy when the next opened.
THEOREM GesturesInOrder == Spec => InGestureOrder
<1>1. Init => Ordered
  <2> SUFFICES ASSUME Init PROVE Ordered
    OBVIOUS
  <2>1. /\ \A k \in Conns : net[k] = <<>> /\ call[k].at = "idle"
        /\ acted = 0 /\ sent = 0 /\ cur = None
    BY DEF Init, Calls
  <2>2. \A k \in Conns : 1..Len(net[k]) = {}
    BY <2>1
  <2> QED BY <2>1, <2>2 DEF Ordered, NetInOrder, CurrentIsNewest, NoneOvertaken, InOrder, UnderWay
<1>2. TypeOK /\ CallsSound /\ Ordered /\ [Next]_vars => (TypeOK /\ CallsSound /\ Ordered)'
  BY CallsSoundStep, OrderedStep
<1>3. TypeOK /\ CallsSound /\ Ordered /\ [Next]_vars
      => [acted' # acted =>
            \/ acted' > acted
            \/ lost /\ \E k \in Conns \ {cur} : call[k].at = "holding" /\ call'[k].at = "idle"]_vars
  <2> SUFFICES ASSUME TypeOK, CallsSound, Ordered, [Next]_vars, acted' # acted
               PROVE  \/ acted' > acted
                      \/ lost /\ \E k \in Conns \ {cur} : call[k].at = "holding" /\ call'[k].at = "idle"
    OBVIOUS
  <2>1. PICK c \in Calls : StepOf(c)
    BY StepCases, ClientTypes, DeviceTypes DEF vars, deviceVars
  <2>2. ActTouch(c) /\ c \in Conns
    BY <2>1, CallTypes
  <2>3. call[c].at = "holding" /\ call'[c].at = "idle"
    <3>1. call' = [call EXCEPT ![c] = Ended(call[c], "ok")] /\ call[c].op = "touch"
          /\ call[c].at = "holding"
      BY <2>2 DEF ActTouch, Reached
    <3>2. Ended(call[c], "ok").at = "idle"
      BY <3>1, Types DEF Ended, CallState
    <3> QED BY <3>1, <3>2, Types
  <2> QED BY <2>2, <2>3, TouchOrdered
<1> QED BY <1>1, <1>2, <1>3, InitSound, PTL DEF Spec, InGestureOrder

=============================================================================
