-------------------------- MODULE SupervisorProofs --------------------------
(***************************************************************************)
(* Safety of the session supervisor for every number of callers, sessions, *)
(* attempts and queue slots.  IInv ties the control point of run() to its  *)
(* state word, its session, its timer and its waiters; the four safety     *)
(* properties and the refinement of Circuit follow from it.                *)
(***************************************************************************)
EXTENDS Supervisor, SequenceTheorems, TLAPS

\* In the select, the state word says exactly which of cur, the timer and the
\* parked callers exist.
AtSelect ==
    pc = "select" =>
        /\ supState \in {"idle", "running", "backoff", "failed"}
        /\ (supState = "running") <=> (cur # None)
        /\ (supState = "backoff") <=> (timer # "off")
        /\ supState # "backoff" => pending = {}

\* While OpenFunc runs there is no session and no timer.
AtOpening ==
    pc = "opening" => supState = "starting" /\ cur = None /\ timer = "off"

AtEnd ==
    /\ pc = "closing" => timer = "off" /\ supState # "closed"
    /\ pc = "stopped" =>
          supState = "closed" /\ timer = "off" /\ pending = {} /\ alive = {}

\* Every open since the last reset but the first was paid for by an attempt,
\* and an idle supervisor has opened nothing.
OpensPaid ==
    /\ opens <= attempts + 1
    /\ pc = "select" /\ supState = "idle" => opens = 0
    /\ pc = "select" /\ supState = "backoff" => opens <= attempts

IInv == TypeOK /\ NoOrphanSession /\ AtSelect /\ AtOpening /\ AtEnd /\ OpensPaid

-----------------------------------------------------------------------------
\* Answer writes legal replies and nothing else.
LEMMA AnswerType ==
    ASSUME NEW C, NEW v \in Values, reply \in [Callers -> Values], Answer(C, v)
    PROVE  reply' \in [Callers -> Values]
BY DEF Answer

\* Taking the head of the command channel leaves a channel of commands.
LEMMA RecvType ==
    ASSUME NEW op, cmds \in Seq([op : Ops, by : Callers]), Recv(op)
    PROVE  /\ cmds' \in Seq([op : Ops, by : Callers])
           /\ Head(cmds).by \in Callers
<1> DEFINE Cmd == [op : Ops, by : Callers]
<1>1. cmds # <<>> /\ cmds' = Tail(cmds)
  BY DEF Recv
<1>2. Head(cmds) \in Cmd /\ Tail(cmds) \in Seq(Cmd)
  BY <1>1, HeadTailProperties
<1> QED BY <1>1, <1>2

\* The types of the caller's steps: they touch the call, its reply, the channel
\* and stop, and nothing that belongs to run().
LEMMA CallerType ==
    ASSUME TypeOK, NEW c \in Callers, CallerStep(c)
    PROVE  TypeOK'
<1> USE DEF TypeOK, callerOnly, Leave, Ops
<1>1. ASSUME NEW op \in Ops, Enter(c, op) PROVE TypeOK'
  BY <1>1 DEF Enter
<1>2. CASE SendCmd(c)
  <2>1. [op |-> call[c].op, by |-> c] \in [op : Ops, by : Callers]
    OBVIOUS
  <2>2. cmds' \in Seq([op : Ops, by : Callers])
    BY <1>2, <2>1 DEF SendCmd
  <2> QED BY <1>2, <2>2 DEF SendCmd
<1>3. CASE SendAborted(c)
  BY <1>3 DEF SendAborted, Values
<1>4. CASE Receive(c)
  BY <1>4 DEF Receive, Values
<1>5. CASE WaitAborted(c)
  BY <1>5 DEF WaitAborted, Values
<1>6. CASE Cancelled(c)
  BY <1>6 DEF Cancelled, Values
<1>7. CASE CloseStop(c)
  BY <1>7 DEF CloseStop
<1>8. CASE CloseReturns(c)
  BY <1>8 DEF CloseReturns, Values
<1> QED BY <1>1, <1>2, <1>3, <1>4, <1>5, <1>6, <1>7, <1>8 DEF CallerStep

\* The two outcomes of NextDelay, which an open that failed and a session that
\* died share.
LEMMA BackOffOrFailType ==
    ASSUME TypeOK, BackOffOrFail
    PROVE  /\ supState' \in {"failed", "backoff"}
           /\ attempts' \in 0..MaxAttempts
           /\ timer' \in {"off", "armed", "fired"}
           /\ pending' \subseteq Callers
           /\ reply' \in [Callers -> Values]
<1> USE SupervisorAssumption DEF TypeOK, BackOffOrFail, NextDelay, CircuitOpen
<1>1. CASE CircuitOpen
  <2>1. Answer(pending, "failed") /\ "failed" \in Values
    BY <1>1 DEF Values
  <2>2. reply' \in [Callers -> Values]
    BY <2>1, AnswerType
  <2> QED BY <1>1, <2>2
<1>2. CASE ~CircuitOpen
  BY <1>2
<1> QED BY <1>1, <1>2

LEMMA RunType ==
    ASSUME TypeOK, Run
    PROVE  TypeOK'
<1> USE SupervisorAssumption
<1>1. CASE RecvAcquire
  <2>1. /\ cmds' \in Seq([op : Ops, by : Callers])
        /\ Head(cmds).by \in Callers
    BY <1>1, RecvType DEF RecvAcquire, TypeOK
  <2>2. reply' \in [Callers -> Values]
    <3>1. cur \in Values /\ "failed" \in Values
      BY DEF TypeOK, Values
    <3>2. CASE UNCHANGED reply
      BY <3>2 DEF TypeOK
    <3>3. CASE Answer({Head(cmds).by}, cur)
      BY <3>1, <3>3, AnswerType DEF TypeOK
    <3>4. CASE Answer({Head(cmds).by}, "failed")
      BY <3>1, <3>4, AnswerType DEF TypeOK
    <3> QED BY <1>1, <3>2, <3>3, <3>4 DEF RecvAcquire
  <2> QED BY <1>1, <2>1, <2>2 DEF RecvAcquire, BeginStart, TypeOK, States
<1>2. CASE RecvReset
  <2>1. cmds' \in Seq([op : Ops, by : Callers])
    BY <1>2, RecvType DEF RecvReset, TypeOK
  <2>2. reply' \in [Callers -> Values]
    BY <1>2, AnswerType DEF RecvReset, TypeOK, Values
  <2> QED BY <1>2, <2>1, <2>2 DEF RecvReset, ResetPolicy, TypeOK, States
<1>3. CASE RecvRead
  <2>1. cmds' \in Seq([op : Ops, by : Callers])
    BY <1>3, RecvType DEF RecvRead, TypeOK
  <2>2. (IF supState = "running" THEN cur ELSE None) \in Values
    BY DEF TypeOK, Values
  <2>3. reply' \in [Callers -> Values]
    BY <1>3, <2>2, AnswerType DEF RecvRead, TypeOK
  <2> QED BY <1>3, <2>1, <2>3 DEF RecvRead, TypeOK
<1>4. CASE OpenSucceeds
  <2>1. PICK s \in Sessions : /\ cur' = s
                              /\ alive' = alive \cup {s}
                              /\ Answer(pending, s)
    BY <1>4 DEF OpenSucceeds
  <2>2. reply' \in [Callers -> Values]
    BY <2>1, AnswerType DEF TypeOK, Values
  <2> QED BY <1>4, <2>1, <2>2 DEF OpenSucceeds, TypeOK, States
<1>5. CASE OpenFails
  <2>1. streak' \in 0..MaxAttempts + 1
    BY <1>5 DEF OpenFails, TypeOK
  <2> QED BY <1>5, <2>1, BackOffOrFailType DEF OpenFails, TypeOK, States
<1>6. CASE BackoffOver
  BY <1>6 DEF BackoffOver, BeginStart, TypeOK, States
<1>7. CASE SessionDone
  BY <1>7, BackOffOrFailType DEF SessionDone, TypeOK, States
<1>8. CASE StopSeen
  BY <1>8 DEF StopSeen, TypeOK
<1>9. CASE Stopped
  <2>1. reply' \in [Callers -> Values]
    BY <1>9, AnswerType DEF Stopped, TypeOK, Values
  <2> QED BY <1>9, <2>1 DEF Stopped, TypeOK, States
<1> QED BY <1>1, <1>2, <1>3, <1>4, <1>5, <1>6, <1>7, <1>8, <1>9 DEF Run

LEMMA TypeStep == TypeOK /\ [Next]_vars => TypeOK'
<1> SUFFICES ASSUME TypeOK, [Next]_vars PROVE TypeOK'
  OBVIOUS
<1>1. ASSUME NEW s \in Sessions, SessionDies(s) PROVE TypeOK'
  BY <1>1 DEF SessionDies, TypeOK
<1>2. CASE TimerExpires
  BY <1>2 DEF TimerExpires, TypeOK
<1>3. CASE UNCHANGED vars
  BY <1>3 DEF vars, TypeOK
<1> QED BY <1>1, <1>2, <1>3, CallerType, RunType DEF Next

LEMMA TypeInit == Init => TypeOK
<1> SUFFICES ASSUME Init PROVE TypeOK
  OBVIOUS
<1> USE SupervisorAssumption DEF Init
<1>1. call \in [Callers -> [op : Ops, at : {"out", "sending", "waiting"}]]
  BY DEF Ops
<1>2. reply \in [Callers -> Values]
  BY DEF Values
<1>3. cmds \in Seq([op : Ops, by : Callers])
  OBVIOUS
<1>4. opens \in Nat /\ streak \in 0..MaxAttempts + 1 /\ attempts \in 0..MaxAttempts
  OBVIOUS
<1> QED BY <1>1, <1>2, <1>3, <1>4 DEF TypeOK, States

\* Every variable of the supervisor keeps its type: in particular the policy
\* never charges more than MaxAttempts (RestartPolicy.NextDelay).
THEOREM TypeCorrect == Spec => []TypeOK
BY TypeInit, TypeStep, PTL DEF Spec

-----------------------------------------------------------------------------
(* The inductive invariant.                                                *)

LEMMA InitIInv == Init => IInv
<1> SUFFICES ASSUME Init PROVE IInv
  OBVIOUS
<1>1. TypeOK
  BY TypeInit
<1> QED BY <1>1 DEF Init, IInv, NoOrphanSession, AtSelect, AtOpening, AtEnd, OpensPaid

\* No step of a caller touches what the invariant speaks of.
LEMMA CallerKeepsIInv ==
    ASSUME IInv, NEW c \in Callers, CallerStep(c)
    PROVE  NoOrphanSession' /\ AtSelect' /\ AtOpening' /\ AtEnd' /\ OpensPaid'
<1>1. UNCHANGED callerOnly
  BY DEF CallerStep, Enter, SendCmd, SendAborted, Receive, WaitAborted, Cancelled,
         CloseStop, CloseReturns
<1> QED
  BY <1>1 DEF callerOnly, IInv, NoOrphanSession, AtSelect, AtOpening, AtEnd, OpensPaid

LEMMA RunKeepsIInv ==
    ASSUME IInv, Run
    PROVE  NoOrphanSession' /\ AtSelect' /\ AtOpening' /\ AtEnd' /\ OpensPaid'
<1> USE SupervisorAssumption
        DEF IInv, NoOrphanSession, AtSelect, AtOpening, AtEnd, OpensPaid
<1>1. CASE RecvAcquire
  BY <1>1 DEF RecvAcquire, Recv, BeginStart, TypeOK
<1>2. CASE RecvReset
  BY <1>2 DEF RecvReset, Recv, ResetPolicy, TypeOK
<1>3. CASE RecvRead
  BY <1>3 DEF RecvRead, Recv
<1>4. CASE OpenSucceeds
  <2>1. PICK s \in Sessions : cur' = s /\ alive' = alive \cup {s}
    BY <1>4 DEF OpenSucceeds
  <2>2. alive = {}
    BY <1>4 DEF OpenSucceeds, TypeOK
  <2> QED BY <1>4, <2>1, <2>2 DEF OpenSucceeds, TypeOK
<1>5. CASE OpenFails
  <2>1. alive = {}
    BY <1>5 DEF OpenFails, TypeOK
  <2> QED BY <1>5, <2>1 DEF OpenFails, BackOffOrFail, NextDelay, CircuitOpen, TypeOK
<1>6. CASE BackoffOver
  BY <1>6 DEF BackoffOver, BeginStart, TypeOK
<1>7. CASE SessionDone
  <2>1. alive = {}
    BY <1>7 DEF SessionDone, TypeOK
  <2> QED BY <1>7, <2>1 DEF SessionDone, BackOffOrFail, NextDelay, CircuitOpen, TypeOK
<1>8. CASE StopSeen
  BY <1>8 DEF StopSeen, TypeOK
<1>9. CASE Stopped
  <2>1. alive' = {}
    BY <1>9 DEF Stopped, TypeOK
  <2> QED BY <1>9, <2>1 DEF Stopped, TypeOK
<1> QED BY <1>1, <1>2, <1>3, <1>4, <1>5, <1>6, <1>7, <1>8, <1>9 DEF Run

LEMMA StepIInv == IInv /\ [Next]_vars => IInv'
<1> SUFFICES ASSUME IInv, [Next]_vars PROVE IInv'
  OBVIOUS
<1>1. TypeOK'
  BY TypeStep DEF IInv
<1>2. ASSUME NEW s \in Sessions, SessionDies(s) PROVE IInv'
  BY <1>1, <1>2 DEF SessionDies, IInv, NoOrphanSession, AtSelect, AtOpening, AtEnd,
                    OpensPaid
<1>3. CASE TimerExpires
  BY <1>1, <1>3 DEF TimerExpires, IInv, NoOrphanSession, AtSelect, AtOpening, AtEnd,
                    OpensPaid
<1>4. CASE UNCHANGED vars
  BY <1>1, <1>4 DEF vars, IInv, NoOrphanSession, AtSelect, AtOpening, AtEnd, OpensPaid
<1>5. ASSUME NEW c \in Callers, CallerStep(c) PROVE IInv'
  BY <1>1, <1>5, CallerKeepsIInv DEF IInv
<1>6. CASE Run
  BY <1>1, <1>6, RunKeepsIInv DEF IInv
<1> QED BY <1>2, <1>3, <1>4, <1>5, <1>6 DEF Next

LEMMA Inductive == Spec => []IInv
BY InitIInv, StepIInv, PTL DEF Spec

-----------------------------------------------------------------------------
(* The safety properties of Supervisor.                                    *)

\* A running session is always the one run() holds and will close: no restart,
\* reset or shutdown forgets one (supervisor.go, tryStart and the doneC case).
THEOREM SessionsOwned == Spec => []NoOrphanSession
<1>1. IInv => NoOrphanSession
  BY DEF IInv
<1> QED BY <1>1, Inductive, PTL

\* Nobody is parked in pending without an open, a timer or a shutdown under way
\* that will answer it.
THEOREM WaitersServed == Spec => []NoStrandedWaiter
<1>1. IInv => NoStrandedWaiter
  BY DEF IInv, NoStrandedWaiter, AtSelect, AtEnd, TypeOK
<1> QED BY <1>1, Inductive, PTL

\* Between two resets at most MaxAttempts + 1 scrcpy servers are started.
THEOREM RestartStormBounded == Spec => []RestartsBounded
<1>1. IInv => RestartsBounded
  BY SupervisorAssumption DEF IInv, RestartsBounded, OpensPaid, TypeOK
<1> QED BY <1>1, Inductive, PTL

\* After run() has returned it left no session, timer or waiter behind.
THEOREM StopIsClean == Spec => []QuietWhenStopped
<1>1. IInv => QuietWhenStopped
  BY DEF IInv, QuietWhenStopped, AtEnd
<1> QED BY <1>1, Inductive, PTL

-----------------------------------------------------------------------------
(* The supervisor implements the circuit breaker.                          *)

\* The refinement mapping, state word by state word.
LEMMA PhaseIs ==
    /\ supState = "idle"     => Phase = "idle"
    /\ supState = "starting" => Phase = "trying"
    /\ supState = "backoff"  => Phase = "trying"
    /\ supState = "running"  => Phase = "up"
    /\ supState = "failed"   => Phase = "tripped"
    /\ supState = "closed"   => Phase = "shut"
BY DEF Phase

LEMMA PhaseIsNext ==
    /\ supState' = "idle"     => Phase' = "idle"
    /\ supState' = "starting" => Phase' = "trying"
    /\ supState' = "backoff"  => Phase' = "trying"
    /\ supState' = "running"  => Phase' = "up"
    /\ supState' = "failed"   => Phase' = "tripped"
    /\ supState' = "closed"   => Phase' = "shut"
BY DEF Phase

\* A failed open and a died session are a Retry while attempts are left, and a
\* Trip when they are used up.
LEMMA BackOffOrFailRefines ==
    ASSUME TypeOK, BackOffOrFail, supState \in {"starting", "running"}
    PROVE  Breaker!Retry \/ Breaker!Trip
<1> USE PhaseIs, PhaseIsNext, SupervisorAssumption
        DEF TypeOK, BackOffOrFail, NextDelay, CircuitOpen
<1>1. CASE CircuitOpen
  <2>1. Breaker!Trip
    BY <1>1 DEF Breaker!Trip, Phase
  <2> QED BY <2>1
<1>2. CASE ~CircuitOpen
  <2>1. Breaker!Retry
    BY <1>2 DEF Breaker!Retry, Phase
  <2> QED BY <2>1
<1> QED BY <1>1, <1>2

LEMMA RunRefines ==
    ASSUME IInv, Run
    PROVE  [Breaker!Next]_(Breaker!vars)
<1> USE PhaseIs, PhaseIsNext, SupervisorAssumption
<1> DEFINE Still == UNCHANGED <<Phase, attempts>>
<1>0. Still => [Breaker!Next]_(Breaker!vars)
  BY DEF Breaker!vars
<1> HIDE DEF Still
<1>1. CASE RecvAcquire
  <2>1. CASE supState = "idle" /\ BeginStart
    <3>1. Breaker!Start
      BY <1>1, <2>1 DEF Breaker!Start, RecvAcquire, BeginStart
    <3> QED BY <3>1 DEF Breaker!Next
  <2>2. CASE UNCHANGED supState
    <3>1. Still
      BY <1>1, <2>2 DEF RecvAcquire, Phase, Still
    <3> QED BY <3>1, <1>0
  <2> QED BY <1>1, <2>1, <2>2 DEF RecvAcquire
<1>2. CASE RecvReset
  <2>1. supState # "closed" /\ supState \in {"idle", "running", "backoff", "failed"}
    BY <1>2 DEF RecvReset, Recv, IInv, AtSelect
  <2>2. Breaker!ResetPolicy
    BY <1>2, <2>1 DEF Breaker!ResetPolicy, RecvReset, ResetPolicy
  <2> QED BY <2>2 DEF Breaker!Next
<1>3. CASE RecvRead
  <2>1. Still
    BY <1>3 DEF RecvRead, Phase, Still
  <2> QED BY <2>1, <1>0
<1>4. CASE OpenSucceeds
  <2>1. Breaker!ComeUp
    BY <1>4 DEF Breaker!ComeUp, OpenSucceeds, IInv, AtOpening
  <2> QED BY <2>1 DEF Breaker!Next
<1>5. CASE OpenFails
  <2>1. Breaker!Retry \/ Breaker!Trip
    BY <1>5, BackOffOrFailRefines DEF OpenFails, IInv, AtOpening
  <2> QED BY <2>1 DEF Breaker!Next
<1>6. CASE BackoffOver
  <2>1. supState = "backoff"
    BY <1>6 DEF BackoffOver, IInv, AtSelect
  <2>2. Still
    BY <1>6, <2>1 DEF BackoffOver, BeginStart, Still
  <2> QED BY <2>2, <1>0
<1>7. CASE SessionDone
  <2>1. supState = "running"
    BY <1>7 DEF SessionDone, IInv, AtSelect
  <2>2. Breaker!Retry \/ Breaker!Trip
    BY <1>7, <2>1, BackOffOrFailRefines DEF SessionDone, IInv
  <2> QED BY <2>2 DEF Breaker!Next
<1>8. CASE StopSeen
  <2>1. Still
    BY <1>8 DEF StopSeen, Phase, Still
  <2> QED BY <2>1, <1>0
<1>9. CASE Stopped
  <2>1. supState # "closed"
    BY <1>9 DEF Stopped, IInv, AtEnd
  <2>2. Phase # "shut"
    BY <2>1 DEF IInv, TypeOK, States
  <2>3. Breaker!Shut
    BY <1>9, <2>2 DEF Breaker!Shut, Stopped
  <2> QED BY <2>3 DEF Breaker!Next
<1> QED BY <1>1, <1>2, <1>3, <1>4, <1>5, <1>6, <1>7, <1>8, <1>9 DEF Run

\* Every behaviour of the supervisor is one of the circuit breaker: the circuit
\* trips when the retries are used up and not before, retries are charged, and
\* only a reset leads from failed back to service.
THEOREM SupervisorImplementsBreaker == Spec => ImplementsBreaker
<1>1. Init => Breaker!Init
  BY PhaseIs DEF Init, Breaker!Init
<1>2. IInv /\ [Next]_vars => [Breaker!Next]_(Breaker!vars)
  <2> SUFFICES ASSUME IInv, [Next]_vars PROVE [Breaker!Next]_(Breaker!vars)
    OBVIOUS
  <2>1. CASE Run
    BY <2>1, RunRefines
  <2>2. CASE UNCHANGED <<supState, attempts>>
    BY <2>2 DEF Phase, Breaker!vars
  <2>3. ASSUME NEW c \in Callers, CallerStep(c) PROVE UNCHANGED <<supState, attempts>>
    BY <2>3 DEF CallerStep, Enter, SendCmd, SendAborted, Receive, WaitAborted,
                Cancelled, CloseStop, CloseReturns, callerOnly
  <2>4. ASSUME NEW s \in Sessions, SessionDies(s) PROVE UNCHANGED <<supState, attempts>>
    BY <2>4 DEF SessionDies
  <2>5. TimerExpires => UNCHANGED <<supState, attempts>>
    BY DEF TimerExpires
  <2>6. UNCHANGED vars => UNCHANGED <<supState, attempts>>
    BY DEF vars
  <2> QED BY <2>1, <2>2, <2>3, <2>4, <2>5, <2>6 DEF Next
<1> QED BY <1>1, <1>2, Inductive, PTL DEF Spec, ImplementsBreaker, Breaker!Spec

-----------------------------------------------------------------------------
(* The supervisor is what its manager takes it for.                        *)

LEMMA RunLives ==
    ASSUME Run
    PROVE  [Life!Next]_(Life!vars)
<1>1. UNCHANGED stop
  BY DEF Run, RecvAcquire, RecvReset, RecvRead, OpenSucceeds, OpenFails, BackoffOver,
         SessionDone, StopSeen, Stopped
<1>2. CASE pc = "select" /\ pc' = "opening"
  <2>1. Life!Open
    BY <1>1, <1>2 DEF Life!Open, LifeNow
  <2> QED BY <2>1 DEF Life!Next, Life!Own
<1>3. CASE pc = "opening" /\ pc' = "select"
  <2>1. Life!OpenReturns
    BY <1>1, <1>3 DEF Life!OpenReturns, LifeNow
  <2> QED BY <2>1 DEF Life!Next, Life!Own
<1>4. CASE pc = "select" /\ pc' = "closing"
  <2>1. stop
    BY <1>4 DEF Run, RecvAcquire, RecvReset, RecvRead, Recv, BeginStart, OpenSucceeds,
                OpenFails, BackoffOver, SessionDone, StopSeen, Stopped
  <2>2. Life!StopSeen
    BY <1>1, <1>4, <2>1 DEF Life!StopSeen, LifeNow
  <2> QED BY <2>2 DEF Life!Next, Life!Own
<1>5. CASE pc = "closing" /\ pc' = "stopped"
  <2>1. Life!End
    BY <1>1, <1>5 DEF Life!End, LifeNow
  <2> QED BY <2>1 DEF Life!Next, Life!Own
<1>6. CASE pc' = pc
  <2>1. LifeNow' = LifeNow /\ (pc' = "opening" <=> pc = "opening")
    BY <1>1, <1>6 DEF LifeNow
  <2>2. UNCHANGED Life!vars
    BY <2>1 DEF Life!vars
  <2> QED BY <2>2
<1> QED BY <1>2, <1>3, <1>4, <1>5, <1>6 DEF Run, RecvAcquire, RecvReset, RecvRead, Recv, BeginStart,
        OpenSucceeds, OpenFails, BackoffOver, SessionDone, StopSeen, Stopped

\* For its manager a supervisor is up until somebody calls Close, may open again
\* even then, and ends once, after a Close and never inside an open; it never
\* ends of its own (SessionManager's Life is the other side).
THEOREM SupervisorImplementsLife == Spec => ImplementsLife
<1>1. Init => Life!Init
  BY DEF Init, Life!Init, LifeNow
<1>2. ASSUME [Next]_vars PROVE [Life!Next]_(Life!vars)
  <2>1. CASE Run
    BY <1>2, <2>1, RunLives
  <2>2. CASE pc' = pc /\ stop' = stop
    BY <2>2 DEF Life!vars, LifeNow
  <2>3. ASSUME NEW c \in Callers, CloseStop(c) PROVE [Life!Next]_(Life!vars)
    <3>1. pc' = pc /\ stop' = TRUE
      BY <2>3 DEF CloseStop, callerOnly
    <3>2. CASE LifeNow = "up"
      <4>1. Life!Close
        BY <3>1, <3>2 DEF Life!Close, LifeNow
      <4> QED BY <4>1 DEF Life!Next
    <3>3. CASE LifeNow # "up"
      BY <3>1, <3>3 DEF LifeNow, Life!vars
    <3> QED BY <3>2, <3>3
  <2>4. ASSUME NEW c \in Callers, CallerStep(c), ~CloseStop(c)
        PROVE  pc' = pc /\ stop' = stop
    BY <2>4 DEF CallerStep, Enter, SendCmd, SendAborted, Receive, WaitAborted, Cancelled,
                CloseReturns, callerOnly
  <2>5. ASSUME NEW s \in Sessions, SessionDies(s) PROVE pc' = pc /\ stop' = stop
    BY <2>5 DEF SessionDies
  <2>6. TimerExpires => pc' = pc /\ stop' = stop
    BY DEF TimerExpires
  <2>7. UNCHANGED vars => pc' = pc /\ stop' = stop
    BY DEF vars
  <2> QED BY <1>2, <2>1, <2>2, <2>3, <2>4, <2>5, <2>6, <2>7 DEF Next
<1> QED BY <1>1, <1>2, PTL DEF Spec, ImplementsLife, Life!Spec
=============================================================================
