--------------------------- MODULE SessionManager ---------------------------
(***************************************************************************)
(* SessionManager (internal/infrastructure/scrcpy/session_manager.go): the *)
(* actor that keeps one supervisor per device serial, counts who is        *)
(* attached to it, collects it after it was idle, and closes everything on *)
(* Shutdown; its bounded command channel and idle timers; and the          *)
(* goroutines that attach, send control bytes, ask, close a serial.        *)
(*                                                                         *)
(* A supervisor is what this module sees of module Supervisor: it is up,   *)
(* being closed or closed; while it is busy in OpenFunc it answers nobody; *)
(* an Acquire yields a session or an error.  Each client makes one call.   *)
(***************************************************************************)
EXTENDS Naturals, Sequences, FiniteSets

CONSTANTS Serials,      \* device serials
          Sups,         \* identities of supervisors
          Attachers,    \* calls of AttachVideo and AttachVideoRaw
          Senders,      \* calls of SendControl
          Readers,      \* calls of Dimensions, Snapshots and Reset
          Closers,      \* calls of Close(serial)
          CmdCap,       \* capacity of the cmds channel (16 in the server)
          MayAbandon,   \* may a context end between the send and the reply?
          None

Clients == Attachers \cup Senders \cup Readers \cup Closers

ASSUME ManagerAssumption ==
    /\ CmdCap \in Nat \ {0} /\ MayAbandon \in BOOLEAN
    /\ None \notin Sups /\ None \notin Clients
    /\ IsFiniteSet(Attachers)
    /\ Attachers \cap Senders = {} /\ Attachers \cap Readers = {}
    /\ Attachers \cap Closers = {} /\ Senders \cap Readers = {}
    /\ Senders \cap Closers = {}   /\ Readers \cap Closers = {}

VARIABLES
    sessions,   \* the map from serial to managedSession, None where absent
    attached,   \* managedSession.attached
    idleGen,    \* managedSession.idleGen
    sup,        \* life of each supervisor (module SupervisorLife)
    busy,       \* supervisors whose goroutine is inside OpenFunc
    cmds,       \* the cmds channel
    timers,     \* idle timers that have not delivered their tick
    actor,      \* what the actor does: its select, a synchronous call, shutdown
    asking,     \* supervisors the actor still has to wait for
    askFor,     \* the client whose command the actor is executing
    stop,       \* the stop channel is closed
    client      \* per client: where it is, its serial, the supervisor it got

mapVars == <<sessions, attached, idleGen, timers>>
supVars == <<sup, busy>>
actVars == <<actor, asking, askFor>>
vars    == <<mapVars, supVars, cmds, actVars, stop, client>>

Ops == {"attach", "ensure", "detach", "tick", "close", "dimensions", "snapshots", "reset"}
Cmd == [op : Ops, serial : Serials, who : Clients \cup {None}, gen : Nat]
Places == {"out", "sending", "waiting", "acquiring", "streaming", "detaching", "left"}

TypeOK ==
    /\ sessions \in [Serials -> Sups \cup {None}]
    /\ attached \in [Sups -> Nat] /\ idleGen \in [Sups -> Nat]
    /\ sup \in [Sups -> {"none", "up", "closing", "ending", "closed"}]
    /\ busy \subseteq Sups
    /\ cmds \in Seq(Cmd)
    /\ timers \subseteq [serial : Serials, gen : Nat, of : Sups]
    /\ actor \in {"select", "asking", "stopping", "stopped"}
    /\ asking \subseteq Sups /\ askFor \in Clients \cup {None}
    /\ stop \in BOOLEAN
    /\ client \in [Clients -> [at : Places, op : Ops, serial : Serials,
                               sup : Sups \cup {None}]]

Init ==
    /\ sessions = [s \in Serials |-> None]
    /\ attached = [i \in Sups |-> 0] /\ idleGen = [i \in Sups |-> 0]
    /\ sup = [i \in Sups |-> "none"] /\ busy = {}
    /\ cmds = <<>> /\ timers = {}
    /\ actor = "select" /\ asking = {} /\ askFor = None /\ stop = FALSE
    /\ client \in [Clients -> [at : {"out"}, op : {"attach"}, serial : Serials,
                               sup : {None}]]

-----------------------------------------------------------------------------
(* The clients.                                                            *)

OpOf(c) == CASE c \in Attachers -> {"attach"}
             [] c \in Senders   -> {"ensure"}
             [] c \in Readers   -> {"dimensions", "snapshots", "reset"}
             [] OTHER           -> {"close"}

Goto(c, l) == client' = [client EXCEPT ![c].at = l]

Enter(c) ==
    /\ client[c].at = "out"
    /\ \E op \in OpOf(c) :
         client' = [client EXCEPT ![c].at = "sending", ![c].op = op]
    /\ UNCHANGED <<mapVars, supVars, cmds, actVars, stop>>

SendCmd(c) ==
    /\ client[c].at = "sending" /\ Len(cmds) < CmdCap
    /\ cmds' = Append(cmds, [op |-> client[c].op, serial |-> client[c].serial,
                             who |-> c, gen |-> 0])
    /\ Goto(c, "waiting")
    /\ UNCHANGED <<mapVars, supVars, actVars, stop>>

\* The send loses against the stop channel or, where there is a context, its
\* end.
SendAborted(c) ==
    /\ client[c].at = "sending"
    /\ stop \/ c \in Attachers \cup Senders
    /\ Goto(c, "left")
    /\ UNCHANGED <<mapVars, supVars, cmds, actVars, stop>>

\* The wait for the reply is given up: by the end of a context in AttachVideo
\* and SendControl, by stop in Snapshots and Reset.  Dimensions and Close wait
\* for the reply alone.
WaitAborted(c) ==
    /\ client[c].at = "waiting"
    /\ \/ c \in Attachers \cup Senders /\ MayAbandon
       \/ client[c].op \in {"snapshots", "reset"} /\ stop
    /\ Goto(c, "left")
    /\ UNCHANGED <<mapVars, supVars, cmds, actVars, stop>>

\* sup.Acquire returned a session: an attacher subscribes and streams, a
\* sender writes its bytes and is done.  The answer may have lain in its channel
\* while the supervisor opened again or was closed.
Acquired(c) ==
    /\ client[c].at = "acquiring"
    /\ Goto(c, IF c \in Attachers THEN "streaming" ELSE "left")
    /\ UNCHANGED <<mapVars, supVars, cmds, actVars, stop>>

\* It returned an error, or the context ended first: the deferred detach runs.
NotAcquired(c) ==
    /\ client[c].at = "acquiring"
    /\ Goto(c, IF c \in Attachers THEN "detaching" ELSE "left")
    /\ UNCHANGED <<mapVars, supVars, cmds, actVars, stop>>

\* The session died, the context ended or the writer failed.
StreamEnds(c) ==
    /\ client[c].at = "streaming"
    /\ Goto(c, "detaching")
    /\ UNCHANGED <<mapVars, supVars, cmds, actVars, stop>>

\* The deferred function names the serial, not the supervisor.
SendDetach(c) ==
    /\ client[c].at = "detaching"
    /\ \/ /\ Len(cmds) < CmdCap
          /\ cmds' = Append(cmds, [op |-> "detach", serial |-> client[c].serial,
                                   who |-> None, gen |-> 0])
       \/ stop /\ UNCHANGED cmds
    /\ Goto(c, "left")
    /\ UNCHANGED <<mapVars, supVars, actVars, stop>>

Shutdown ==
    /\ ~stop
    /\ stop' = TRUE
    /\ UNCHANGED <<mapVars, supVars, cmds, actVars, client>>

-----------------------------------------------------------------------------
(* The actor.                                                              *)

Mapped == {i \in Sups : \E s \in Serials : sessions[s] = i}

Recv(op) == /\ actor = "select" /\ cmds # <<>> /\ Head(cmds).op = op
            /\ cmds' = Tail(cmds)

\* The reply to c, lost if c does not wait for it any more.
Reply(c, l, i) ==
    client' = IF client[c].at = "waiting"
                THEN [client EXCEPT ![c].at = l, ![c].sup = i] ELSE client

\* ensureSupervisor: i is the supervisor of s afterwards.
EnsureSupervisor(s, i) ==
    IF sessions[s] # None
      THEN i = sessions[s] /\ UNCHANGED <<sessions, sup>>
      ELSE /\ sup[i] = "none"
           /\ sup' = [sup EXCEPT ![i] = "up"]
           /\ sessions' = [sessions EXCEPT ![s] = i]

\* armIdle: a new generation and a timer that carries it.
ArmIdle(s, i) ==
    /\ idleGen' = [idleGen EXCEPT ![i] = @ + 1]
    /\ timers' = timers \cup {[serial |-> s, gen |-> idleGen[i] + 1, of |-> i]}

\* Slip: the attacher is not counted.
RecvAttachUncounted ==
    /\ Recv("attach")
    /\ LET s == Head(cmds).serial IN \E i \in Sups :
         /\ EnsureSupervisor(s, i)
         /\ idleGen' = [idleGen EXCEPT ![i] = @ + 1]
         /\ Reply(Head(cmds).who, "acquiring", i)
    /\ UNCHANGED <<attached, timers, busy, actVars, stop>>

RecvAttach ==
    /\ Recv("attach")
    /\ LET s == Head(cmds).serial IN \E i \in Sups :
         /\ EnsureSupervisor(s, i)
         /\ attached' = [attached EXCEPT ![i] = @ + 1]
         /\ idleGen' = [idleGen EXCEPT ![i] = @ + 1]
         /\ Reply(Head(cmds).who, "acquiring", i)
    /\ UNCHANGED <<timers, busy, actVars, stop>>

RecvEnsure ==
    /\ Recv("ensure")
    /\ LET s == Head(cmds).serial IN \E i \in Sups :
         /\ EnsureSupervisor(s, i)
         /\ IF attached[i] = 0 THEN ArmIdle(s, i) ELSE UNCHANGED <<idleGen, timers>>
         /\ Reply(Head(cmds).who, "acquiring", i)
    /\ UNCHANGED <<attached, busy, actVars, stop>>

\* Slip: the last detach arms no timer.
RecvDetachUntimed ==
    /\ Recv("detach")
    /\ LET i == sessions[Head(cmds).serial]
       IN IF i = None
            THEN UNCHANGED attached
            ELSE attached' = [attached EXCEPT ![i] = IF @ > 0 THEN @ - 1 ELSE 0]
    /\ UNCHANGED <<idleGen, timers, sessions, supVars, actVars, stop, client>>

RecvDetach ==
    /\ Recv("detach")
    /\ LET s == Head(cmds).serial
           i == sessions[s]
       IN IF i = None
            THEN UNCHANGED <<attached, idleGen, timers>>
            ELSE /\ attached' = [attached EXCEPT ![i] = IF @ > 0 THEN @ - 1 ELSE 0]
                 /\ IF attached[i] <= 1 THEN ArmIdle(s, i)
                                        ELSE UNCHANGED <<idleGen, timers>>
    /\ UNCHANGED <<sessions, supVars, actVars, stop, client>>

\* Slip: the supervisor leaves the map and is not closed.
DropOpen(s) ==
    /\ sessions' = [sessions EXCEPT ![s] = None]
    /\ UNCHANGED sup

\* delete(m.sessions, serial); go ms.sup.Close().
Drop(s) ==
    /\ sessions' = [sessions EXCEPT ![s] = None]
    /\ sup' = [sup EXCEPT ![sessions[s]] = "closing"]

RecvTick ==
    /\ Recv("tick")
    /\ LET s == Head(cmds).serial
           i == sessions[s]
       IN IF i # None /\ attached[i] = 0 /\ idleGen[i] = Head(cmds).gen
            THEN Drop(s)
            ELSE UNCHANGED <<sessions, sup>>
    /\ UNCHANGED <<attached, idleGen, timers, busy, actVars, stop, client>>

RecvClose ==
    /\ Recv("close")
    /\ LET s == Head(cmds).serial
       IN IF sessions[s] # None THEN Drop(s) ELSE UNCHANGED <<sessions, sup>>
    /\ Reply(Head(cmds).who, "left", None)
    /\ UNCHANGED <<attached, idleGen, timers, busy, actVars, stop>>

\* Dimensions, Snapshots and Reset call the supervisors synchronously: one of
\* them, or each of them in turn.
RecvAsk ==
    /\ \E op \in {"dimensions", "snapshots", "reset"} :
         /\ Recv(op)
         /\ asking' = IF op = "snapshots" THEN Mapped
                                          ELSE Mapped \cap {sessions[Head(cmds).serial]}
    /\ actor' = "asking" /\ askFor' = Head(cmds).who
    /\ UNCHANGED <<mapVars, supVars, stop, client>>

\* A supervisor answers when it is not inside OpenFunc.
Answered(i) ==
    /\ actor = "asking" /\ i \in asking /\ i \notin busy
    /\ asking' = asking \ {i}
    /\ UNCHANGED <<mapVars, supVars, cmds, actor, askFor, stop, client>>

\* Slip: a command that had nobody to ask is not answered.
AskDoneSilently ==
    /\ actor = "asking" /\ asking = {}
    /\ actor' = "select" /\ askFor' = None
    /\ IF Mapped # {} THEN Reply(askFor, "left", None) ELSE UNCHANGED client
    /\ UNCHANGED <<mapVars, supVars, cmds, asking, stop>>

AskDone ==
    /\ actor = "asking" /\ asking = {}
    /\ actor' = "select" /\ askFor' = None
    /\ Reply(askFor, "left", None)
    /\ UNCHANGED <<mapVars, supVars, cmds, asking, stop>>

\* shutdownAll: the map is taken and its supervisors are closed one by one.
StopSeen ==
    /\ actor = "select" /\ stop
    /\ actor' = "stopping" /\ asking' = Mapped
    /\ sessions' = [s \in Serials |-> None]
    /\ UNCHANGED <<attached, idleGen, timers, supVars, cmds, askFor, stop, client>>

\* Slip: supervisors in use are passed over, and waited for.
CloseNextUnused(i) ==
    /\ actor = "stopping" /\ i \in asking /\ sup[i] = "up" /\ attached[i] = 0
    /\ \A j \in asking : sup[j] = "up"
    /\ sup' = [sup EXCEPT ![i] = "closing"]
    /\ UNCHANGED <<mapVars, busy, cmds, actVars, stop, client>>

CloseNext(i) ==
    /\ actor = "stopping" /\ i \in asking /\ sup[i] = "up"
    /\ \A j \in asking : sup[j] = "up"
    /\ sup' = [sup EXCEPT ![i] = "closing"]
    /\ UNCHANGED <<mapVars, busy, cmds, actVars, stop, client>>

ClosedNext(i) ==
    /\ actor = "stopping" /\ i \in asking /\ sup[i] = "closed"
    /\ asking' = asking \ {i}
    /\ UNCHANGED <<mapVars, supVars, cmds, actor, askFor, stop, client>>

Stopped ==
    /\ actor = "stopping" /\ asking = {}
    /\ actor' = "stopped"
    /\ UNCHANGED <<mapVars, supVars, cmds, asking, askFor, stop, client>>

-----------------------------------------------------------------------------
(* Timers and supervisors.                                                 *)

TimerFires(t) ==
    /\ t \in timers
    /\ timers' = timers \ {t}
    /\ \/ /\ Len(cmds) < CmdCap
          /\ cmds' = Append(cmds, [op |-> "tick", serial |-> t.serial, who |-> None,
                                   gen |-> t.gen])
       \/ stop /\ UNCHANGED cmds
    /\ UNCHANGED <<sessions, attached, idleGen, supVars, actVars, stop, client>>

\* The supervisor enters OpenFunc, for an Acquire or after a backoff; the select
\* may take these cases although the stop channel is ready, too.
OpenBegins(i) ==
    /\ sup[i] \in {"up", "closing"} /\ i \notin busy
    /\ busy' = busy \cup {i}
    /\ UNCHANGED <<mapVars, sup, cmds, actVars, stop, client>>

OpenEnds(i) ==
    /\ i \in busy
    /\ busy' = busy \ {i}
    /\ UNCHANGED <<mapVars, sup, cmds, actVars, stop, client>>

\* SessionSupervisor.Close takes effect when run() is back in its select...
SupStops(i) ==
    /\ sup[i] = "closing" /\ i \notin busy
    /\ sup' = [sup EXCEPT ![i] = "ending"]
    /\ UNCHANGED <<mapVars, busy, cmds, actVars, stop, client>>

\* ...and returns behind the Close of its session, which may take for ever.
SupCloses(i) ==
    /\ sup[i] = "ending"
    /\ sup' = [sup EXCEPT ![i] = "closed"]
    /\ UNCHANGED <<mapVars, busy, cmds, actVars, stop, client>>

-----------------------------------------------------------------------------
Client(c) == \/ Enter(c)    \/ SendCmd(c)     \/ SendAborted(c) \/ WaitAborted(c)
             \/ Acquired(c) \/ NotAcquired(c) \/ StreamEnds(c)  \/ SendDetach(c)

Receive == \/ RecvAttach \/ RecvEnsure \/ RecvDetach \/ RecvTick
           \/ RecvClose  \/ RecvAsk

Actor == \/ Receive \/ AskDone \/ StopSeen \/ Stopped
         \/ \E i \in Sups : Answered(i) \/ CloseNext(i) \/ ClosedNext(i)

Supervisors ==
    \E i \in Sups : OpenBegins(i) \/ OpenEnds(i) \/ SupStops(i) \/ SupCloses(i)

Next == \/ \E c \in Clients : Client(c)
        \/ Actor
        \/ Supervisors
        \/ \E t \in timers : TimerFires(t)
        \/ Shutdown

Spec == Init /\ [][Next]_vars

(***************************************************************************)
(* Fairness: the actor and its select, the goroutines blocked on a full    *)
(* channel (Go serves them in order), the runtime's timers, the stop case  *)
(* of a supervisor's select.  Nothing of OpenFunc, of the Close of a       *)
(* session, of contexts or streams, and nobody has to call anything.       *)
(***************************************************************************)
Fairness ==
    /\ SF_vars(Receive) /\ SF_vars(StopSeen)
    /\ WF_vars(AskDone) /\ WF_vars(Stopped)
    /\ \A i \in Sups : /\ SF_vars(Answered(i)) /\ WF_vars(CloseNext(i))
                       /\ WF_vars(ClosedNext(i)) /\ SF_vars(SupStops(i))
    /\ \A c \in Clients : SF_vars(SendCmd(c)) /\ SF_vars(SendDetach(c))
    /\ \A s \in Serials : SF_vars(\E t \in timers : t.serial = s /\ TimerFires(t))

FairSpec == Spec /\ Fairness

-----------------------------------------------------------------------------
(* Properties.                                                             *)

Using(c) == client[c].at \in {"acquiring", "streaming"}

\* The map and the supervisors agree: a supervisor in the map is up and belongs
\* to one serial, and one that is up is in the map or on the list of the
\* shutdown.  A supervisor that left the map without a Close would keep its
\* scrcpy server for ever.
SupervisorsAccounted ==
    /\ \A i \in Mapped : sup[i] = "up"
    /\ \A s, t \in Serials : sessions[s] = sessions[t] /\ sessions[s] # None => s = t
    /\ \A i \in Sups : sup[i] = "up" => i \in Mapped \/ (actor = "stopping" /\ i \in asking)

\* session_manager.go:25 "collected after the idle timeout": an idle tick never
\* takes a supervisor away from somebody who streams or waits for a session.
\* It holds as long as nobody calls Close(serial), and no server code does.
CollectsOnlyIdle ==
    [][\A i \in Sups :
          Recv("tick") /\ sup[i] = "up" /\ sup'[i] = "closing" =>
              \A c \in Attachers : ~(Using(c) /\ client[c].sup = i)]_vars

\* session_manager.go:25 "collected after the idle timeout": a supervisor that
\* nobody uses does not stay in the map for ever.
Unused(i) == \A c \in Clients : ~(Using(c) /\ client[c].sup = i)
IdleCollected == \A i \in Sups : ~<>[](i \in Mapped /\ Unused(i) /\ ~stop /\ i \notin busy)

\* As long as opens return and nobody shuts down, every caller that is queued
\* is served: the actor is never lost in a synchronous call.
OpensReturn == \A i \in Sups : []<>(i \notin busy)
CallsServed ==
    OpensReturn /\ []~stop =>
        \A c \in Clients : client[c].at \in {"sending", "waiting", "detaching"}
                             ~> client[c].at \notin {"sending", "waiting", "detaching"}

\* As long as opens and the Close of the sessions return, Shutdown does, which
\* closes one supervisor behind the other.
ClosesReturn == \A i \in Sups : []<>(sup[i] # "ending")
ShutdownCompletes == OpensReturn /\ ClosesReturn => (stop ~> actor = "stopped")

\* What the manager takes a supervisor for is what module Supervisor implements.
Life(i) == INSTANCE SupervisorLife WITH life <- sup[i], opening <- (i \in busy)
KeepsLives ==
    /\ \A i \in Sups : Life(i)!Init
    /\ [][\A i \in Sups : [Life(i)!Next]_(Life(i)!vars)]_vars

=============================================================================
