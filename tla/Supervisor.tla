----------------------------- MODULE Supervisor -----------------------------
(***************************************************************************)
(* SessionSupervisor (internal/infrastructure/scrcpy/supervisor.go) and    *)
(* its RestartPolicy (restart_policy.go): the goroutine that keeps one     *)
(* scrcpy session of one device alive, its bounded command channel, the    *)
(* backoff timer, the circuit breaker, and the goroutines that call        *)
(* Acquire, CurrentSession, Snapshot, Reset and Close.                     *)
(*                                                                         *)
(* A session is abstracted to alive or gone (its Done channel is closed).  *)
(* The length of a backoff is not represented: the timer may expire at any *)
(* moment after it is armed.                                               *)
(***************************************************************************)
EXTENDS Naturals, Sequences, FiniteSets

CONSTANTS Callers,       \* goroutines that call the supervisor's methods
          Sessions,      \* identities of sessions, used again once forgotten
          MaxAttempts,   \* RestartPolicyOpts.MaxAttempts (5 in the server)
          CmdCap,        \* capacity of the cmds channel (8 in the server)
          None           \* the nil session

ASSUME SupervisorAssumption ==
    /\ MaxAttempts \in Nat \ {0}
    /\ CmdCap \in Nat \ {0}
    /\ None \notin Sessions
    /\ "failed" \notin Sessions /\ "closed" \notin Sessions
    /\ "done" \notin Sessions   /\ "empty" \notin Sessions

VARIABLES
    supState,   \* the atomic state word
    pc,         \* where run() is: in its select, in OpenFunc, in cur.Close(), gone
    cur,        \* the running session; doneC is its Done channel
    timer,      \* backoffTimer: "off", "armed" or "fired" (a tick is in backoffC)
    attempts,   \* RestartPolicy.attempts
    pending,    \* callers whose Acquire is parked in the pending slice
    cmds,       \* the cmds channel
    stop,       \* the stop channel is closed (and closed.CompareAndSwap won)
    alive,      \* the sessions whose pump still runs
    call,       \* per caller, the method it is in and how far it is
    reply,      \* per caller, the buffered reply channel of its call
    opens,      \* history: OpenFunc calls since the policy was last reset
    streak      \* history: failed opens since the last successful one

vars == <<supState, pc, cur, timer, attempts, pending, cmds, stop, alive,
          call, reply, opens, streak>>

\* "read" is CurrentSession and Snapshot, which wait and are served alike; its
\* answer is that of CurrentSession.
Ops    == {"acquire", "read", "reset", "close"}
States == {"idle", "starting", "running", "backoff", "failed", "closed"}
Values == Sessions \cup {None, "failed", "closed", "done", "empty"}

TypeOK ==
    /\ supState \in States
    /\ pc \in {"select", "opening", "closing", "stopped"}
    /\ cur \in Sessions \cup {None}
    /\ timer \in {"off", "armed", "fired"}
    /\ attempts \in 0..MaxAttempts
    /\ pending \subseteq Callers
    /\ cmds \in Seq([op : Ops, by : Callers])
    /\ stop \in BOOLEAN
    /\ alive \subseteq Sessions
    /\ call \in [Callers -> [op : Ops, at : {"out", "sending", "waiting"}]]
    /\ reply \in [Callers -> Values]
    /\ opens \in Nat
    /\ streak \in 0..MaxAttempts + 1

Init ==
    /\ supState = "idle" /\ pc = "select" /\ cur = None /\ timer = "off"
    /\ attempts = 0 /\ pending = {} /\ cmds = <<>> /\ stop = FALSE
    /\ alive = {}
    /\ call = [c \in Callers |-> [op |-> "acquire", at |-> "out"]]
    /\ reply = [c \in Callers |-> "empty"]
    /\ opens = 0 /\ streak = 0

-----------------------------------------------------------------------------
(* The callers.                                                            *)

\* A caller enters one method at a time.  A request it abandoned stays in the
\* supervisor; the caller does not issue another one before that one is gone
\* (another member of Callers plays the goroutine that does).
Outstanding(c) == c \in pending \/ \E i \in DOMAIN cmds : cmds[i].by = c

callerOnly == <<supState, pc, cur, timer, attempts, pending, alive, opens, streak>>

Enter(c, op) ==
    /\ call[c].at = "out" /\ ~Outstanding(c)
    /\ call' = [call EXCEPT ![c] = [op |-> op, at |-> "sending"]]
    /\ UNCHANGED <<callerOnly, cmds, stop, reply>>

\* The method returns; its reply channel is garbage from here on.
Leave(c) == /\ call' = [call EXCEPT ![c].at = "out"]
            /\ reply' = [reply EXCEPT ![c] = "empty"]

\* s.cmds <- request: blocks while the channel is full.
SendCmd(c) ==
    /\ call[c].at = "sending" /\ call[c].op # "close"
    /\ Len(cmds) < CmdCap
    /\ cmds' = Append(cmds, [op |-> call[c].op, by |-> c])
    /\ call' = [call EXCEPT ![c].at = "waiting"]
    /\ UNCHANGED <<callerOnly, stop, reply>>

\* case <-s.stop in front of the send: every method but Close gives up.
SendAborted(c) ==
    /\ call[c].at = "sending" /\ call[c].op # "close" /\ stop
    /\ Leave(c)
    /\ UNCHANGED <<callerOnly, cmds, stop>>

\* The reply arrived.
Receive(c) ==
    /\ call[c].at = "waiting" /\ reply[c] # "empty"
    /\ Leave(c)
    /\ UNCHANGED <<callerOnly, cmds, stop>>

\* Slip: the second select of the readers without its stop case.
WaitAbortedAcquireOnly(c) ==
    /\ call[c].at = "waiting" /\ call[c].op = "acquire"
    /\ stop
    /\ Leave(c)
    /\ UNCHANGED <<callerOnly, cmds, stop>>

\* case <-s.stop behind the send.  Reset has no such case: it waits for its
\* done channel alone.
WaitAborted(c) ==
    /\ call[c].at = "waiting" /\ call[c].op \in {"acquire", "read"}
    /\ stop
    /\ Leave(c)
    /\ UNCHANGED <<callerOnly, cmds, stop>>

\* The context of an Acquire is cancelled, before or after the send.
Cancelled(c) ==
    /\ call[c].op = "acquire" /\ call[c].at \in {"sending", "waiting"}
    /\ Leave(c)
    /\ UNCHANGED <<callerOnly, cmds, stop>>

\* Close: the winner of the CompareAndSwap closes stop, and every caller of
\* Close then waits for stopped.
CloseStop(c) ==
    /\ call[c].op = "close" /\ call[c].at = "sending"
    /\ stop' = TRUE
    /\ call' = [call EXCEPT ![c].at = "waiting"]
    /\ UNCHANGED <<callerOnly, cmds, reply>>

CloseReturns(c) ==
    /\ call[c].op = "close" /\ call[c].at = "waiting"
    /\ pc = "stopped"
    /\ Leave(c)
    /\ UNCHANGED <<callerOnly, cmds, stop>>

-----------------------------------------------------------------------------
(* RestartPolicy.                                                          *)

CircuitOpen == attempts >= MaxAttempts

\* NextDelay charges one attempt and grants a delay, or reports the circuit
\* open and charges nothing.
NextDelay == attempts' = IF CircuitOpen THEN attempts ELSE attempts + 1

ResetPolicy == attempts' = 0

-----------------------------------------------------------------------------
(* The goroutine run().                                                    *)

\* Answer every caller of C.  The reply channel holds one value, so the send
\* never blocks; nobody reads the channel of an abandoned call.
Answer(C, v) ==
    reply' = [c \in Callers |-> IF c \in C /\ call[c].at = "waiting" THEN v
                                                                     ELSE reply[c]]

\* Slip: the circuit opens and the waiting callers are not told.
BackOffOrFailSilently ==
    /\ NextDelay
    /\ IF CircuitOpen
         THEN supState' = "failed" /\ UNCHANGED <<pending, timer, reply>>
         ELSE supState' = "backoff" /\ timer' = "armed" /\ UNCHANGED <<pending, reply>>

\* Slip: the state says backoff and no timer runs.
BackOffUntimed ==
    /\ NextDelay
    /\ IF CircuitOpen
         THEN /\ supState' = "failed" /\ pending' = {} /\ timer' = timer
              /\ Answer(pending, "failed")
         ELSE supState' = "backoff" /\ UNCHANGED <<pending, timer, reply>>

\* The two outcomes of NextDelay: a timer, or Failed and pending drained.
BackOffOrFail ==
    /\ NextDelay
    /\ IF CircuitOpen
         THEN /\ supState' = "failed" /\ pending' = {} /\ timer' = timer
              /\ Answer(pending, "failed")
         ELSE /\ supState' = "backoff" /\ timer' = "armed"
              /\ UNCHANGED <<pending, reply>>

\* tryStart up to the call of OpenFunc, in which run() is deaf to everything.
BeginStart ==
    /\ supState' = "starting"
    /\ pc' = "opening"
    /\ opens' = opens + 1

Recv(op) == /\ pc = "select" /\ cmds # <<>> /\ Head(cmds).op = op
            /\ cmds' = Tail(cmds)

\* Slip: a tripped circuit is tried again by the next caller.
RecvAcquireRetries ==
    /\ Recv("acquire")
    /\ LET c == Head(cmds).by IN
       \/ /\ supState = "running"
          /\ Answer({c}, cur)
          /\ UNCHANGED <<supState, pc, pending, opens>>
       \/ /\ supState \in {"idle", "failed"}
          /\ pending' = pending \cup {c}
          /\ BeginStart
          /\ UNCHANGED reply
       \/ /\ supState = "backoff"
          /\ pending' = pending \cup {c}
          /\ UNCHANGED <<supState, pc, reply, opens>>
    /\ UNCHANGED <<cur, timer, attempts, stop, alive, call, streak>>

RecvAcquire ==
    /\ Recv("acquire")
    /\ LET c == Head(cmds).by IN
       \/ /\ supState = "running"
          /\ Answer({c}, cur)
          /\ UNCHANGED <<supState, pc, pending, opens>>
       \/ /\ supState = "failed"
          /\ Answer({c}, "failed")
          /\ UNCHANGED <<supState, pc, pending, opens>>
       \/ /\ supState = "idle"
          /\ pending' = pending \cup {c}
          /\ BeginStart
          /\ UNCHANGED reply
       \/ /\ supState = "backoff"
          /\ pending' = pending \cup {c}
          /\ UNCHANGED <<supState, pc, reply, opens>>
    /\ UNCHANGED <<cur, timer, attempts, stop, alive, call, streak>>

\* Slip: a reset goes to idle from every state.
RecvResetAlways ==
    /\ Recv("reset")
    /\ ResetPolicy
    /\ supState' = "idle"
    /\ Answer({Head(cmds).by}, "done")
    /\ opens' = 0
    /\ UNCHANGED <<pc, cur, timer, pending, stop, alive, call, streak>>

RecvReset ==
    /\ Recv("reset")
    /\ ResetPolicy
    /\ supState' = IF supState = "failed" THEN "idle" ELSE supState
    /\ Answer({Head(cmds).by}, "done")
    /\ opens' = 0
    /\ UNCHANGED <<pc, cur, timer, pending, stop, alive, call, streak>>

RecvRead ==
    /\ Recv("read")
    /\ Answer({Head(cmds).by}, IF supState = "running" THEN cur ELSE None)
    /\ UNCHANGED <<supState, pc, cur, timer, attempts, pending, stop, alive,
                   call, opens, streak>>

\* OpenFunc returned a session: run() keeps it and drains pending.
OpenSucceeds ==
    /\ pc = "opening"
    /\ \E s \in Sessions :
         /\ s \notin alive /\ \A c \in Callers : reply[c] # s
         /\ cur' = s
         /\ alive' = alive \cup {s}
         /\ Answer(pending, s)
    /\ supState' = "running" /\ pending' = {} /\ pc' = "select"
    /\ streak' = 0
    /\ UNCHANGED <<timer, attempts, cmds, stop, call, opens>>

\* OpenFunc returned an error.
OpenFails ==
    /\ pc = "opening"
    /\ BackOffOrFail
    /\ cur' = None /\ pc' = "select"
    /\ streak' = IF streak > MaxAttempts THEN streak ELSE streak + 1
    /\ UNCHANGED <<cmds, stop, alive, call, opens>>

\* case <-backoffC.  The restart needs no demand: pending may be empty.
BackoffOver ==
    /\ pc = "select" /\ timer = "fired"
    /\ timer' = "off"
    /\ BeginStart
    /\ UNCHANGED <<cur, attempts, pending, cmds, stop, alive, call, reply, streak>>

\* Slip: run() returns where it goes on, when the circuit opens.
SessionDoneReturns ==
    /\ pc = "select" /\ cur # None /\ cur \notin alive
    /\ cur' = None
    /\ BackOffOrFail
    /\ pc' = IF CircuitOpen THEN "stopped" ELSE pc
    /\ UNCHANGED <<cmds, stop, alive, call, opens, streak>>

\* case <-doneC.  The dead session is dropped without a Close.
SessionDone ==
    /\ pc = "select" /\ cur # None /\ cur \notin alive
    /\ cur' = None
    /\ BackOffOrFail
    /\ UNCHANGED <<pc, cmds, stop, alive, call, opens, streak>>

\* case <-s.stop: the timer is stopped and the session closed...
StopSeen ==
    /\ pc = "select" /\ stop
    /\ timer' = "off"
    /\ pc' = "closing"
    /\ UNCHANGED <<supState, cur, attempts, pending, cmds, stop, alive, call,
                   reply, opens, streak>>

\* ...and when cur.Close() is through, which may take for ever (module Session),
\* pending is drained and run() ends.
Stopped ==
    /\ pc = "closing"
    /\ alive' = alive \ {cur}
    /\ Answer(pending, "closed")
    /\ pending' = {} /\ supState' = "closed" /\ pc' = "stopped"
    /\ UNCHANGED <<cur, timer, attempts, cmds, stop, call, opens, streak>>

-----------------------------------------------------------------------------
(* The environment.                                                        *)

\* The pump of a session ends: the device went away, or the muxer failed.
SessionDies(s) ==
    /\ s \in alive
    /\ alive' = alive \ {s}
    /\ UNCHANGED <<supState, pc, cur, timer, attempts, pending, cmds, stop,
                   call, reply, opens, streak>>

TimerExpires ==
    /\ timer = "armed"
    /\ timer' = "fired"
    /\ UNCHANGED <<supState, pc, cur, attempts, pending, cmds, stop, alive,
                   call, reply, opens, streak>>

-----------------------------------------------------------------------------
CallerStep(c) ==
    \/ \E op \in Ops : Enter(c, op)
    \/ SendCmd(c)   \/ SendAborted(c) \/ Receive(c) \/ WaitAborted(c)
    \/ Cancelled(c) \/ CloseStop(c)   \/ CloseReturns(c)

Run == \/ RecvAcquire  \/ RecvReset \/ RecvRead
       \/ OpenSucceeds \/ OpenFails \/ BackoffOver \/ SessionDone
       \/ StopSeen     \/ Stopped

Next == \/ \E c \in Callers : CallerStep(c)
        \/ Run
        \/ \E s \in Sessions : SessionDies(s)
        \/ TimerExpires

Spec == Init /\ [][Next]_vars

(***************************************************************************)
(* Fairness.  A Go select picks uniformly among its ready cases, so a case *)
(* that is ready again and again is taken: strong fairness for each case   *)
(* of run()'s select and for each blocked send.  The runtime's timer and a *)
(* goroutine that can run do: weak fairness.  Nothing is assumed of        *)
(* OpenFunc, which may block for ever in Accept, of sessions, whose Close  *)
(* may block behind a control write or in adb, or of contexts.             *)
(***************************************************************************)
Fairness ==
    /\ SF_vars(RecvAcquire) /\ SF_vars(RecvReset) /\ SF_vars(RecvRead)
    /\ SF_vars(BackoffOver) /\ SF_vars(SessionDone) /\ SF_vars(StopSeen)
    /\ WF_vars(TimerExpires)
    /\ \A c \in Callers : /\ SF_vars(SendCmd(c))
                          /\ WF_vars(Receive(c))   /\ WF_vars(CloseStop(c))
                          /\ WF_vars(CloseReturns(c))
                          /\ WF_vars(SendAborted(c) \/ WaitAborted(c))

FairSpec == Spec /\ Fairness

-----------------------------------------------------------------------------
(* Properties.                                                             *)

\* No session is ever forgotten while it runs: a live session is the one that
\* run() holds in cur and will close.  A restart that overwrote a live cur
\* would leave a scrcpy server, its sockets and its pump behind.
NoOrphanSession == \A s \in alive : s = cur

\* A caller parked in pending has somebody who will answer it: an open in
\* flight, a timer that will start one, or the shutdown that drains.
NoStrandedWaiter ==
    pending # {} => pc \in {"opening", "closing"} \/ timer # "off"

\* Between two resets the device is asked to start at most MaxAttempts + 1
\* scrcpy servers, however opens fail and sessions die.
RestartsBounded == opens <= MaxAttempts + 1

\* When run() is gone nothing of it is left: no session, no timer, no waiter
\* in its slice.
QuietWhenStopped ==
    pc = "stopped" => alive = {} /\ timer = "off" /\ pending = {}

\* The state word as the circuit breaker sees it.
Phase == CASE supState = "idle"    -> "idle"
           [] supState \in {"starting", "backoff"} -> "trying"
           [] supState = "running" -> "up"
           [] supState = "failed"  -> "tripped"
           [] OTHER                -> "shut"

\* The promise of the component: every step of the supervisor is a step of the
\* circuit breaker or leaves it alone.  In particular no path but a reset leads
\* from failed back to service, and every retry is charged.
Breaker == INSTANCE Circuit WITH Budget <- MaxAttempts, spent <- attempts, phase <- Phase

ImplementsBreaker == Breaker!Spec

\* The manager's view of it: whoever calls Close, and whatever is ready beside
\* the stop channel, it ends once, behind a Close, and never inside an open.
LifeNow == CASE pc = "stopped" -> "closed"
             [] pc = "closing" -> "ending"
             [] OTHER          -> IF stop THEN "closing" ELSE "up"
Life == INSTANCE SupervisorLife WITH life <- LifeNow, opening <- (pc = "opening")

ImplementsLife == Life!Spec

\* Liveness, on the condition that every open returns and that the policy is
\* not reset for ever: an Acquire returns even if nobody cancels it.
OpensReturn  == []<>(pc # "opening")
ResetsStop   == <>[][~RecvReset]_vars
In(c, op)    == call[c].op = op /\ call[c].at # "out"

AcquireReturns ==
    OpensReturn /\ ResetsStop =>
        \A c \in Callers : In(c, "acquire") ~> ~In(c, "acquire")

\* On the condition that every open returns, and the Close of the session that
\* run() makes on its way out, Close returns, and with it every reader: nobody
\* waits for a goroutine that is gone.
ClosesReturn == []<>(pc # "closing")
CloseCompletes ==
    OpensReturn /\ ClosesReturn =>
        \A c \in Callers, op \in {"close", "read"} :
            In(c, op) ~> ~In(c, op)

-----------------------------------------------------------------------------
(* What comments and tests say of the code, and the code does not do.      *)

\* supervisor_test.go:59 says that consecutive failures beyond MaxAttempts lead
\* to Failed, and restart_policy_test.go:55 names the reset of the policy
\* "ResetOnSuccess": a circuit that opened saw MaxAttempts + 1 opens in a row
\* fail.
OpenMeansConsecutiveFailures == supState = "failed" => streak = MaxAttempts + 1
=============================================================================
