------------------------ MODULE SessionManagerProofs ------------------------
(***************************************************************************)
(* The safety of SessionManager, for any number of serials, supervisors,   *)
(* clients and any capacity of the channel: the map and the supervisors    *)
(* agree, and the idle timer takes no supervisor from anybody.             *)
(***************************************************************************)
EXTENDS SessionManager, SequenceTheorems, FiniteSetTheorems, TLAPS

USE ManagerAssumption

-----------------------------------------------------------------------------
(* Types, with what the replies rely on: a command that is answered has a  *)
(* caller, whose operation and serial it carries.                          *)

CallsOK ==
    \A c \in Clients :
        /\ client[c].at # "out" => client[c].op \in OpOf(c)
        /\ client[c].at = "acquiring" => client[c].sup \in Sups
        /\ client[c].at \in {"streaming", "detaching"} =>
               c \in Attachers /\ client[c].sup \in Sups

Answers(m) == m.op \notin {"detach", "tick"}

QueueOK ==
    \A k \in 1..Len(cmds) :
        Answers(cmds[k]) =>
            /\ cmds[k].who \in Clients /\ cmds[k].op \in OpOf(cmds[k].who)
            /\ client[cmds[k].who].serial = cmds[k].serial

AskOK == actor = "asking" => askFor \in Clients

TypeInv == TypeOK /\ CallsOK /\ QueueOK /\ AskOK

Calling == [at : Places, op : Ops, serial : Serials, sup : Sups \cup {None}]

\* No supervisor is in the map once the actor has begun to stop.
StoppedIsEmpty == actor \in {"stopping", "stopped"} => Mapped = {}

MapInv == TypeInv /\ SupervisorsAccounted /\ StoppedIsEmpty

\* An attacher from the reply to its attach to its detach, and its detach in
\* the queue.
Holds(c) == client[c].at \in {"acquiring", "streaming", "detaching"}
Holders(s) == {c \in Attachers : Holds(c) /\ client[c].serial = s}
Detaches(q, s) == {k \in 1..Len(q) : q[k].op = "detach" /\ q[k].serial = s}
Owed(s) == Cardinality(Holders(s)) + Cardinality(Detaches(cmds, s))

\* Nobody being able to close a serial, an attacher keeps the supervisor it was
\* given, and attached counts at least who holds it and who has just left it.
CountInv ==
    actor \in {"select", "asking"} =>
        /\ \A c \in Attachers : Holds(c) => sessions[client[c].serial] = client[c].sup
        /\ \A s \in Serials :
             Owed(s) <= IF sessions[s] = None THEN 0 ELSE attached[sessions[s]]

\* Nobody abandoning a wait either, the count is exact until the shutdown.
CountIsExact ==
    \A s \in Serials : ~stop /\ sessions[s] # None => attached[sessions[s]] = Owed(s)

\* What that rests on: an attach in the queue has its caller waiting for it, and
\* a supervisor begins with no attacher.
AttachWaits ==
    /\ \A k \in 1..Len(cmds) : cmds[k].op = "attach" => client[cmds[k].who].at = "waiting"
    /\ \A j, k \in 1..Len(cmds) :
         cmds[j].op = "attach" /\ cmds[k].op = "attach" /\ cmds[j].who = cmds[k].who => j = k
    /\ actor = "asking" => askFor \notin Attachers
FreshIsZero == \A i \in Sups : sup[i] = "none" => attached[i] = 0

-----------------------------------------------------------------------------
LEMMA InitTypes == Init => TypeInv
<1> SUFFICES ASSUME Init PROVE TypeInv
  OBVIOUS
<1>1. client \in [Clients -> Calling]
  BY DEF Init, Calling, Places, Ops
<1>2. /\ sessions \in [Serials -> Sups \cup {None}] /\ cmds \in Seq(Cmd)
      /\ attached \in [Sups -> Nat] /\ idleGen \in [Sups -> Nat]
      /\ sup \in [Sups -> {"none", "up", "closing", "ending", "closed"}]
  BY DEF Init
<1>3. TypeOK
  BY <1>1, <1>2 DEF Init, TypeOK, Calling
<1>4. CallsOK /\ QueueOK /\ AskOK
  BY DEF Init, CallsOK, QueueOK, AskOK
<1> QED BY <1>3, <1>4 DEF TypeInv

\* The actor takes the first command.
LEMMA FirstCommand ==
    ASSUME TypeInv, cmds # <<>>, cmds' = Tail(cmds)
    PROVE  /\ Head(cmds) \in Cmd /\ Head(cmds) = cmds[1] /\ cmds' \in Seq(Cmd)
           /\ 1 \in 1..Len(cmds) /\ Len(cmds') = Len(cmds) - 1
           /\ \A k \in 1..Len(cmds') : cmds'[k] = cmds[k + 1] /\ k + 1 \in 1..Len(cmds)
           /\ Answers(Head(cmds)) =>
                /\ Head(cmds).who \in Clients /\ Head(cmds).op \in OpOf(Head(cmds).who)
                /\ client[Head(cmds).who].serial = Head(cmds).serial
<1>1. cmds \in Seq(Cmd)
  BY DEF TypeInv, TypeOK
<1>2. /\ Head(cmds) \in Cmd /\ Head(cmds) = cmds[1] /\ cmds' \in Seq(Cmd)
      /\ Len(cmds') = Len(cmds) - 1 /\ Len(cmds) \in Nat /\ Len(cmds) > 0
      /\ \A k \in 1..Len(cmds') : cmds'[k] = cmds[k + 1]
  BY <1>1, HeadTailProperties, LenProperties, EmptySeq
<1> QED BY <1>2 DEF TypeInv, QueueOK

\* A command goes to the end of the queue.
LEMMA LastCommand ==
    ASSUME TypeInv, NEW m \in Cmd, cmds' = Append(cmds, m)
    PROVE  /\ cmds' \in Seq(Cmd) /\ Len(cmds') = Len(cmds) + 1 /\ Len(cmds) \in Nat
           /\ \A k \in 1..Len(cmds) : cmds'[k] = cmds[k]
           /\ cmds'[Len(cmds) + 1] = m
BY AppendProperties, LenProperties DEF TypeInv, TypeOK

\* A client that goes somewhere else keeps its serial and its operation.
LEMMA GotoTypes ==
    ASSUME TypeInv, NEW c \in Clients, NEW l \in Places, Goto(c, l),
           client[c].at # "out", l # "acquiring",
           l \in {"streaming", "detaching"} => c \in Attachers /\ client[c].sup \in Sups
    PROVE  /\ client' \in [Clients -> Calling] /\ CallsOK'
           /\ \A d \in Clients : client'[d].serial = client[d].serial
           /\ \A d \in Clients \ {c} : client'[d] = client[d]
           /\ client'[c].at = l /\ client'[c].sup = client[c].sup
<1>1. /\ client' = [client EXCEPT ![c] = [client[c] EXCEPT !.at = l]]
      /\ client \in [Clients -> Calling] /\ client[c] \in Calling
  BY DEF Goto, TypeInv, TypeOK, Calling
<1>2. /\ client' \in [Clients -> Calling] /\ client'[c] = [client[c] EXCEPT !.at = l]
      /\ \A d \in Clients \ {c} : client'[d] = client[d]
  BY <1>1 DEF Calling
<1>3. /\ client'[c].at = l /\ client'[c].op = client[c].op
      /\ client'[c].serial = client[c].serial /\ client'[c].sup = client[c].sup
  BY <1>1, <1>2 DEF Calling
<1>4. CallsOK'
  BY <1>2, <1>3 DEF TypeInv, CallsOK
<1> QED BY <1>2, <1>3, <1>4

\* So does one that is answered.
LEMMA ReplyTypes ==
    ASSUME TypeInv, NEW c \in Clients, NEW l \in {"acquiring", "left"},
           NEW i \in Sups \cup {None}, l = "acquiring" => i \in Sups, Reply(c, l, i)
    PROVE  /\ client' \in [Clients -> Calling] /\ CallsOK'
           /\ \A d \in Clients : client'[d].serial = client[d].serial
           /\ \A d \in Clients \ {c} : client'[d] = client[d]
           /\ IF client[c].at = "waiting" THEN client'[c].at = l /\ client'[c].sup = i
                                          ELSE client'[c] = client[c]
<1>1. client \in [Clients -> Calling] /\ client[c] \in Calling /\ l \in Places
  BY DEF TypeInv, TypeOK, Calling, Places
<1>2. CASE client[c].at # "waiting"
  BY <1>1, <1>2 DEF Reply, TypeInv, CallsOK
<1>3. CASE client[c].at = "waiting"
  <2> DEFINE r == [client[c] EXCEPT !.at = l, !.sup = i]
  <2>1. client' = [client EXCEPT ![c] = r] /\ r \in Calling
    BY <1>1, <1>3 DEF Reply, Calling
  <2>2. r.at = l /\ r.op = client[c].op /\ r.serial = client[c].serial /\ r.sup = i
    BY <1>1 DEF Calling
  <2> HIDE DEF r
  <2>3. /\ client' \in [Clients -> Calling] /\ client'[c] = r
        /\ \A d \in Clients \ {c} : client'[d] = client[d]
    BY <1>1, <2>1
  <2>4. CallsOK'
    BY <1>3, <2>2, <2>3 DEF TypeInv, CallsOK
  <2> QED BY <1>3, <2>2, <2>3, <2>4
<1> QED BY <1>2, <1>3

\* The queue keeps its meaning while the serials of the clients stay.
LEMMA QueueKept ==
    ASSUME TypeInv, \A d \in Clients : client'[d].serial = client[d].serial,
           UNCHANGED cmds \/ (cmds # <<>> /\ cmds' = Tail(cmds))
    PROVE  QueueOK' /\ cmds' \in Seq(Cmd)
<1>1. CASE UNCHANGED cmds
  BY <1>1 DEF TypeInv, QueueOK, TypeOK
<1>2. CASE cmds # <<>> /\ cmds' = Tail(cmds)
  BY <1>2, FirstCommand DEF TypeInv, QueueOK
<1> QED BY <1>1, <1>2

LEMMA QueueGrows ==
    ASSUME TypeInv, \A d \in Clients : client'[d].serial = client[d].serial,
           NEW m \in Cmd, cmds' = Append(cmds, m),
           Answers(m) => m.who \in Clients /\ m.op \in OpOf(m.who)
                         /\ client[m.who].serial = m.serial
    PROVE  QueueOK' /\ cmds' \in Seq(Cmd)
<1>1. \A k \in 1..Len(cmds') : k \in 1..Len(cmds) \/ k = Len(cmds) + 1
  BY LastCommand
<1>2. ASSUME NEW k \in 1..Len(cmds), Answers(cmds[k])
      PROVE  /\ cmds[k].who \in Clients /\ cmds[k].op \in OpOf(cmds[k].who)
             /\ client'[cmds[k].who].serial = cmds[k].serial
  BY <1>2 DEF TypeInv, QueueOK
<1> QED BY <1>1, <1>2, LastCommand DEF QueueOK

-----------------------------------------------------------------------------
\* A step that leaves the queue and the actor alone keeps TypeInv if it keeps
\* the types of what it changes.
LEMMA EnterTypes == ASSUME TypeInv, NEW c \in Clients, Enter(c) PROVE TypeInv'
<1>1. PICK op \in OpOf(c) :
        client' = [client EXCEPT ![c] = [client[c] EXCEPT !.at = "sending", !.op = op]]
  BY DEF Enter
<1> DEFINE r == [client[c] EXCEPT !.at = "sending", !.op = op]
<1>2. op \in Ops
  BY DEF OpOf, Ops
<1>3. client \in [Clients -> Calling] /\ client[c] \in Calling
  BY DEF TypeInv, TypeOK, Calling
<1>4. r \in Calling /\ r.at = "sending" /\ r.op = op /\ r.serial = client[c].serial
  BY <1>2, <1>3 DEF Calling, Places
<1> HIDE DEF r
<1>5. /\ client' \in [Clients -> Calling] /\ client'[c] = r
      /\ \A d \in Clients \ {c} : client'[d] = client[d]
  BY <1>1, <1>3, <1>4 DEF r
<1>6. CallsOK'
  BY <1>4, <1>5 DEF TypeInv, CallsOK
<1>7. QueueOK'
  BY <1>4, <1>5, QueueKept DEF Enter
<1>8. TypeOK'
  BY <1>5 DEF Enter, TypeInv, TypeOK, Calling, mapVars, supVars, actVars
<1> QED BY <1>6, <1>7, <1>8 DEF Enter, TypeInv, AskOK, actVars

LEMMA SendTypes ==
    ASSUME TypeInv, NEW c \in Clients, SendCmd(c) \/ SendDetach(c)
    PROVE  TypeInv'
<1> DEFINE m == [op |-> client[c].op, serial |-> client[c].serial, who |-> c, gen |-> 0]
           d == [op |-> "detach", serial |-> client[c].serial, who |-> None, gen |-> 0]
<1>1. client[c] \in Calling
  BY DEF TypeInv, TypeOK, Calling
<1>2. m \in Cmd /\ d \in Cmd /\ ~Answers(d)
  BY <1>1 DEF Calling, Cmd, Ops, Answers
<1>3. client[c].at # "out" => client[c].op \in OpOf(c)
  BY DEF TypeInv, CallsOK
<1>4. /\ client' \in [Clients -> Calling] /\ CallsOK'
      /\ \A e \in Clients : client'[e].serial = client[e].serial
  <2>1. CASE SendCmd(c)
    BY <2>1, GotoTypes DEF SendCmd, Places
  <2>2. CASE SendDetach(c)
    BY <2>2, GotoTypes DEF SendDetach, Places
  <2> QED BY <2>1, <2>2
<1>5. QueueOK' /\ cmds' \in Seq(Cmd)
  <2>1. CASE cmds' = Append(cmds, m)
    <3>1. SendCmd(c) => client[c].at # "out"
      BY DEF SendCmd
    <3>2. m.who = c /\ m.op = client[c].op /\ m.serial = client[c].serial
      OBVIOUS
    <3>3. SendDetach(c) => UNCHANGED cmds \/ cmds' = Append(cmds, d)
      BY DEF SendDetach
    <3>4. CASE SendCmd(c)
      BY <1>2, <1>3, <1>4, <2>1, <3>1, <3>2, <3>4, QueueGrows
    <3>5. CASE UNCHANGED cmds \/ cmds' = Append(cmds, d)
      BY <1>2, <1>4, <3>5, QueueGrows, QueueKept
    <3> QED BY <3>3, <3>4, <3>5
  <2>2. CASE cmds' = Append(cmds, d)
    BY <1>2, <1>4, <2>2, QueueGrows
  <2>3. CASE UNCHANGED cmds
    BY <1>4, <2>3, QueueKept
  <2> QED BY <2>1, <2>2, <2>3 DEF SendCmd, SendDetach
<1>6. UNCHANGED <<mapVars, supVars, actVars, stop>>
  BY DEF SendCmd, SendDetach
<1> HIDE DEF m, d
<1>7. TypeOK'
  BY <1>4, <1>5, <1>6 DEF TypeInv, TypeOK, Calling, mapVars, supVars, actVars
<1> QED BY <1>4, <1>5, <1>6, <1>7 DEF TypeInv, AskOK, actVars

LEMMA WaitTypes ==
    ASSUME TypeInv, NEW c \in Clients,
           \/ SendAborted(c) \/ WaitAborted(c) \/ Acquired(c) \/ NotAcquired(c) \/ StreamEnds(c)
    PROVE  TypeInv'
<1>1. /\ client[c].at \in {"sending", "waiting", "acquiring", "streaming"}
      /\ UNCHANGED <<mapVars, supVars, cmds, actVars, stop>>
      /\ \/ Goto(c, "left")
         \/ /\ Goto(c, "streaming") \/ Goto(c, "detaching")
            /\ c \in Attachers \/ client[c].at = "streaming"
            /\ client[c].at \in {"acquiring", "streaming"}
  BY DEF SendAborted, WaitAborted, Acquired, NotAcquired, StreamEnds
<1>2. /\ client[c].at \in {"acquiring", "streaming"} => client[c].sup \in Sups
      /\ client[c].at = "streaming" => c \in Attachers
  BY DEF TypeInv, CallsOK
<1>3. /\ client' \in [Clients -> Calling] /\ CallsOK'
      /\ \A e \in Clients : client'[e].serial = client[e].serial
  BY <1>1, <1>2, GotoTypes DEF Places
<1>4. QueueOK'
  BY <1>1, <1>3, QueueKept
<1>5. TypeOK'
  BY <1>1, <1>3 DEF TypeInv, TypeOK, Calling, mapVars, supVars, actVars
<1> QED BY <1>1, <1>3, <1>4, <1>5 DEF TypeInv, AskOK, actVars

LEMMA ReceiveTypes == ASSUME TypeInv, Receive PROVE TypeInv'
<1> DEFINE m == Head(cmds)
<1>1. actor = "select" /\ cmds # <<>> /\ cmds' = Tail(cmds)
  BY DEF Receive, RecvAttach, RecvEnsure, RecvDetach, RecvTick, RecvClose, RecvAsk, Recv
<1>2. m \in Cmd /\ m.serial \in Serials /\ m.gen \in Nat
  BY <1>1, FirstCommand DEF Cmd
<1>3. /\ sessions \in [Serials -> Sups \cup {None}] /\ attached \in [Sups -> Nat]
      /\ idleGen \in [Sups -> Nat] /\ sup \in [Sups -> {"none", "up", "closing", "ending", "closed"}]
      /\ timers \subseteq [serial : Serials, gen : Nat, of : Sups]
  BY DEF TypeInv, TypeOK
<1>4. ASSUME NEW i \in Sups, EnsureSupervisor(m.serial, i)
      PROVE  /\ sessions' \in [Serials -> Sups \cup {None}]
             /\ sup' \in [Sups -> {"none", "up", "closing", "ending", "closed"}]
  BY <1>2, <1>3, <1>4 DEF EnsureSupervisor
<1>5. ASSUME NEW i \in Sups, ArmIdle(m.serial, i)
      PROVE  idleGen' \in [Sups -> Nat] /\ timers' \subseteq [serial : Serials, gen : Nat, of : Sups]
  <2>1. [serial |-> m.serial, gen |-> idleGen[i] + 1, of |-> i]
          \in [serial : Serials, gen : Nat, of : Sups]
    BY <1>2, <1>3
  <2> QED BY <1>3, <1>5, <2>1 DEF ArmIdle
<1>6. ASSUME sessions[m.serial] # None, Drop(m.serial)
      PROVE  /\ sessions' \in [Serials -> Sups \cup {None}]
             /\ sup' \in [Sups -> {"none", "up", "closing", "ending", "closed"}]
  BY <1>2, <1>3, <1>6 DEF Drop
<1>7. ASSUME CallsOK', client' \in [Clients -> Calling],
             \A e \in Clients : client'[e].serial = client[e].serial,
             sessions' \in [Serials -> Sups \cup {None}], attached' \in [Sups -> Nat],
             idleGen' \in [Sups -> Nat], sup' \in [Sups -> {"none", "up", "closing", "ending", "closed"}],
             timers' \subseteq [serial : Serials, gen : Nat, of : Sups],
             UNCHANGED <<busy, stop>>,
             \/ UNCHANGED actVars
             \/ actor' = "asking" /\ askFor' \in Clients /\ asking' \subseteq Sups
      PROVE  TypeInv'
  <2>1. QueueOK' /\ cmds' \in Seq(Cmd)
    BY <1>1, <1>7, QueueKept
  <2>2. AskOK' /\ actor' \in {"select", "asking", "stopping", "stopped"}
        /\ asking' \subseteq Sups /\ askFor' \in Clients \cup {None}
    BY <1>1, <1>7 DEF AskOK, actVars, TypeInv, TypeOK
  <2>3. TypeOK'
    BY <1>7, <2>1, <2>2 DEF TypeInv, TypeOK, Calling
  <2> QED BY <1>7, <2>1, <2>2, <2>3 DEF TypeInv
<1>8. Answers(m) => m.who \in Clients
  BY <1>1, FirstCommand
<1>9. UNCHANGED client => /\ CallsOK' /\ client' \in [Clients -> Calling]
                           /\ \A e \in Clients : client'[e].serial = client[e].serial
  BY DEF TypeInv, TypeOK, CallsOK, Calling
<1> HIDE DEF m
<1>10. CASE RecvAttach
  <2>1. PICK i \in Sups :
          /\ EnsureSupervisor(m.serial, i) /\ attached' = [attached EXCEPT ![i] = @ + 1]
          /\ idleGen' = [idleGen EXCEPT ![i] = @ + 1] /\ Reply(m.who, "acquiring", i)
    BY <1>10 DEF RecvAttach, m
  <2>2. m.who \in Clients
    BY <1>8, <1>10 DEF RecvAttach, Recv, Answers, m
  <2>3. attached' \in [Sups -> Nat] /\ idleGen' \in [Sups -> Nat]
    BY <1>3, <2>1
  <2>4. /\ client' \in [Clients -> Calling] /\ CallsOK'
        /\ \A e \in Clients : client'[e].serial = client[e].serial
    BY <2>1, <2>2, ReplyTypes
  <2> QED BY <1>3, <1>4, <1>7, <1>10, <2>1, <2>3, <2>4 DEF RecvAttach
<1>11. CASE RecvEnsure
  <2>1. PICK i \in Sups :
          /\ EnsureSupervisor(m.serial, i)
          /\ IF attached[i] = 0 THEN ArmIdle(m.serial, i) ELSE UNCHANGED <<idleGen, timers>>
          /\ Reply(m.who, "acquiring", i)
    BY <1>11 DEF RecvEnsure, m
  <2>2. m.who \in Clients
    BY <1>8, <1>11 DEF RecvEnsure, Recv, Answers, m
  <2>3. /\ idleGen' \in [Sups -> Nat]
        /\ timers' \subseteq [serial : Serials, gen : Nat, of : Sups]
    BY <1>3, <1>5, <2>1
  <2>4. /\ client' \in [Clients -> Calling] /\ CallsOK'
        /\ \A e \in Clients : client'[e].serial = client[e].serial
    BY <2>1, <2>2, ReplyTypes
  <2> QED BY <1>3, <1>4, <1>7, <1>11, <2>1, <2>3, <2>4 DEF RecvEnsure
<1>12. CASE RecvDetach
  <2> DEFINE i == sessions[m.serial]
  <2>1. i \in Sups \cup {None}
    BY <1>2, <1>3
  <2>2. \/ i = None /\ UNCHANGED <<attached, idleGen, timers>>
        \/ /\ i \in Sups /\ attached' = [attached EXCEPT ![i] = IF @ > 0 THEN @ - 1 ELSE 0]
           /\ ArmIdle(m.serial, i) \/ UNCHANGED <<idleGen, timers>>
    BY <1>12, <2>1 DEF RecvDetach, m
  <2>3. /\ attached' \in [Sups -> Nat] /\ idleGen' \in [Sups -> Nat]
        /\ timers' \subseteq [serial : Serials, gen : Nat, of : Sups]
    BY <1>3, <1>5, <2>2
  <2>4. UNCHANGED <<sessions, sup, busy, actVars, stop, client>>
    BY <1>12 DEF RecvDetach, supVars
  <2> QED BY <1>3, <1>7, <1>9, <2>3, <2>4
<1>13. CASE RecvTick
  <2>1. /\ \/ sessions[m.serial] # None /\ Drop(m.serial)
           \/ UNCHANGED <<sessions, sup>>
        /\ UNCHANGED <<attached, idleGen, timers, busy, actVars, stop, client>>
    BY <1>13 DEF RecvTick, m
  <2>2. /\ sessions' \in [Serials -> Sups \cup {None}]
        /\ sup' \in [Sups -> {"none", "up", "closing", "ending", "closed"}]
    BY <1>3, <1>6, <2>1
  <2> QED BY <1>3, <1>7, <1>9, <2>1, <2>2
<1>14. CASE RecvClose
  <2>1. m.who \in Clients
    BY <1>8, <1>14 DEF RecvClose, Recv, Answers, m
  <2>2. /\ client' \in [Clients -> Calling] /\ CallsOK'
        /\ \A e \in Clients : client'[e].serial = client[e].serial
    BY <1>14, <2>1, ReplyTypes DEF RecvClose, m
  <2> QED BY <1>3, <1>6, <1>7, <1>14, <2>2 DEF RecvClose, m
<1>15. CASE RecvAsk
  <2>1. m.who \in Clients
    BY <1>8, <1>15 DEF RecvAsk, Recv, Answers, m
  <2>2. /\ actor' = "asking" /\ askFor' \in Clients /\ asking' \subseteq Sups
        /\ UNCHANGED <<sessions, attached, idleGen, timers, sup, busy, stop, client>>
    BY <1>15, <2>1 DEF RecvAsk, Mapped, mapVars, supVars, m
  <2> QED BY <1>3, <1>7, <1>9, <2>2
<1> QED BY <1>10, <1>11, <1>12, <1>13, <1>14, <1>15 DEF Receive

LEMMA ActorTypes ==
    ASSUME TypeInv,
           \/ AskDone \/ StopSeen \/ Stopped
           \/ \E i \in Sups : Answered(i) \/ CloseNext(i) \/ ClosedNext(i)
    PROVE  TypeInv'
<1>1. CASE AskDone
  <2>1. askFor \in Clients
    BY <1>1 DEF AskDone, TypeInv, AskOK
  <2>2. /\ client' \in [Clients -> Calling] /\ CallsOK'
        /\ \A e \in Clients : client'[e].serial = client[e].serial
    BY <1>1, <2>1, ReplyTypes DEF AskDone
  <2>3. QueueOK'
    BY <1>1, <2>2, QueueKept DEF AskDone
  <2>4. TypeOK'
    BY <1>1, <2>2 DEF AskDone, TypeInv, TypeOK, Calling, mapVars, supVars
  <2> QED BY <1>1, <2>2, <2>3, <2>4 DEF AskDone, TypeInv, AskOK
<1>2. CASE ~AskDone
  <2>1. UNCHANGED <<cmds, client, askFor>> /\ (actor' = "asking" => actor = "asking")
    BY <1>2 DEF StopSeen, Stopped, Answered, CloseNext, ClosedNext, actVars, mapVars
  <2>2. QueueOK' /\ CallsOK' /\ AskOK'
    BY <2>1, QueueKept DEF TypeInv, CallsOK, AskOK
  <2>3. TypeOK'
    BY <1>2 DEF StopSeen, Stopped, Answered, CloseNext, ClosedNext, Mapped, TypeInv, TypeOK,
                actVars, mapVars, supVars
  <2> QED BY <2>2, <2>3 DEF TypeInv
<1> QED BY <1>1, <1>2

LEMMA OtherTypes ==
    ASSUME TypeInv, Supervisors \/ (\E t \in timers : TimerFires(t)) \/ Shutdown
    PROVE  TypeInv'
<1>1. UNCHANGED <<client, actVars, sessions, attached, idleGen>>
  BY DEF Supervisors, OpenBegins, OpenEnds, SupStops, SupCloses, TimerFires, Shutdown, mapVars
<1>2. QueueOK' /\ cmds' \in Seq(Cmd)
  <2>1. CASE UNCHANGED cmds
    BY <1>1, <2>1, QueueKept
  <2>2. CASE \E t \in timers : TimerFires(t) /\ ~UNCHANGED cmds
    <3>1. PICK t \in timers :
            cmds' = Append(cmds, [op |-> "tick", serial |-> t.serial, who |-> None, gen |-> t.gen])
      BY <2>2 DEF TimerFires
    <3> DEFINE m == [op |-> "tick", serial |-> t.serial, who |-> None, gen |-> t.gen]
    <3>2. t.serial \in Serials /\ t.gen \in Nat
      BY DEF TypeInv, TypeOK
    <3>3. m \in Cmd /\ ~Answers(m)
      BY <3>2 DEF Cmd, Ops, Answers
    <3> HIDE DEF m
    <3> QED BY <1>1, <3>1, <3>3, QueueGrows DEF m
  <2> QED BY <2>1, <2>2 DEF Supervisors, OpenBegins, OpenEnds, SupStops, SupCloses, Shutdown
<1>3. /\ sup' \in [Sups -> {"none", "up", "closing", "ending", "closed"}] /\ busy' \subseteq Sups
      /\ timers' \subseteq timers
  BY DEF Supervisors, OpenBegins, OpenEnds, SupStops, SupCloses, TimerFires, Shutdown, mapVars, supVars,
         TypeInv, TypeOK
<1>4. stop' \in BOOLEAN
  BY DEF Supervisors, OpenBegins, OpenEnds, SupStops, SupCloses, TimerFires, Shutdown, TypeInv, TypeOK
<1>5. TypeOK'
  BY <1>1, <1>2, <1>3, <1>4 DEF TypeInv, TypeOK, actVars
<1> QED BY <1>1, <1>2, <1>5 DEF TypeInv, CallsOK, AskOK, actVars

LEMMA StepTypes == ASSUME TypeInv, [Next]_vars PROVE TypeInv'
<1>1. ASSUME NEW c \in Clients, Client(c) PROVE TypeInv'
  BY <1>1, EnterTypes, SendTypes, WaitTypes DEF Client
<1>2. CASE Actor
  BY <1>2, ReceiveTypes, ActorTypes DEF Actor
<1>3. CASE UNCHANGED vars
  <2>1. QueueOK'
    BY <1>3, QueueKept DEF vars
  <2> QED BY <1>3, <2>1 DEF vars, mapVars, supVars, actVars, TypeInv, TypeOK, CallsOK, AskOK
<1> QED BY <1>1, <1>2, <1>3, OtherTypes DEF Next

LEMMA Typed == Spec => []TypeInv
BY InitTypes, StepTypes, PTL DEF Spec

\* Every variable of the manager, its clients and its queue stays in its type.
THEOREM TypeCorrect == Spec => []TypeOK
<1>1. TypeInv => TypeOK
  BY DEF TypeInv
<1> QED BY <1>1, Typed, PTL

-----------------------------------------------------------------------------
(* The map and the supervisors.                                            *)

LEMMA InitMap == Init => MapInv
<1>1. Init => SupervisorsAccounted /\ StoppedIsEmpty
  BY DEF Init, SupervisorsAccounted, StoppedIsEmpty, Mapped
<1> QED BY <1>1, InitTypes DEF MapInv

\* In the select every supervisor that is up is in the map.
LEMMA SelectMap ==
    ASSUME MapInv, actor \in {"select", "asking"}, actor' \in {"select", "asking"},
           \A i \in Sups : sup'[i] = "up" <=> i \in Mapped',
           \A s, t \in Serials : sessions'[s] = sessions'[t] /\ sessions'[s] # None => s = t
    PROVE  SupervisorsAccounted' /\ StoppedIsEmpty'
BY DEF SupervisorsAccounted, StoppedIsEmpty, Mapped

\* What the commands do to the map: nothing, one serial gets a new supervisor,
\* or it loses its own, which begins to close.
Gains(s, i) == /\ sessions[s] = None /\ sup[i] = "none"
               /\ sup' = [sup EXCEPT ![i] = "up"]
               /\ sessions' = [sessions EXCEPT ![s] = i]
Loses(s) == sessions[s] # None /\ Drop(s)

LEMMA ReceiveMaps ==
    ASSUME TypeInv, Receive
    PROVE  /\ actor = "select" /\ actor' \in {"select", "asking"} /\ UNCHANGED <<busy, stop>>
           /\ \/ UNCHANGED <<sessions, sup>>
              \/ \E s \in Serials, i \in Sups : Gains(s, i)
              \/ \E s \in Serials : Loses(s)
<1>1. cmds # <<>> /\ cmds' = Tail(cmds)
  BY DEF Receive, RecvAttach, RecvEnsure, RecvDetach, RecvTick, RecvClose, RecvAsk, Recv
<1>2. Head(cmds).serial \in Serials
  BY <1>1, FirstCommand DEF Cmd
<1>3. /\ actor = "select" /\ actor' \in {"select", "asking"} /\ UNCHANGED <<busy, stop>>
  BY DEF Receive, RecvAttach, RecvEnsure, RecvDetach, RecvTick, RecvClose, RecvAsk, Recv,
         actVars, supVars
<1>4. ASSUME NEW i \in Sups, EnsureSupervisor(Head(cmds).serial, i)
      PROVE  UNCHANGED <<sessions, sup>> \/ Gains(Head(cmds).serial, i)
  BY <1>4 DEF EnsureSupervisor, Gains
<1>5. CASE RecvAttach \/ RecvEnsure
  BY <1>2, <1>3, <1>4, <1>5 DEF RecvAttach, RecvEnsure
<1>6. CASE RecvTick \/ RecvClose
  <2>1. UNCHANGED <<sessions, sup>> \/ Loses(Head(cmds).serial)
    BY <1>6 DEF RecvTick, RecvClose, Loses
  <2> QED BY <1>2, <1>3, <2>1
<1>7. CASE RecvDetach \/ RecvAsk
  BY <1>3, <1>7 DEF RecvDetach, RecvAsk, supVars, mapVars
<1> QED BY <1>5, <1>6, <1>7 DEF Receive

LEMMA ReceiveKeepsMap == ASSUME MapInv, Receive PROVE SupervisorsAccounted' /\ StoppedIsEmpty'
<1>1. /\ actor = "select" /\ actor' \in {"select", "asking"}
      /\ \/ UNCHANGED <<sessions, sup>>
         \/ \E s \in Serials, i \in Sups : Gains(s, i)
         \/ \E s \in Serials : Loses(s)
  BY ReceiveMaps DEF MapInv
<1>2. /\ \A i \in Sups : sup[i] = "up" <=> i \in Mapped
      /\ \A s, t \in Serials : sessions[s] = sessions[t] /\ sessions[s] # None => s = t
  BY <1>1 DEF MapInv, SupervisorsAccounted
<1>3. /\ sessions \in [Serials -> Sups \cup {None}]
      /\ sup \in [Sups -> {"none", "up", "closing", "ending", "closed"}]
  BY DEF MapInv, TypeInv, TypeOK
<1>4. CASE UNCHANGED <<sessions, sup>>
  BY <1>1, <1>2, <1>4, SelectMap DEF Mapped
<1>5. ASSUME NEW s \in Serials, NEW i \in Sups, Gains(s, i)
      PROVE  SupervisorsAccounted' /\ StoppedIsEmpty'
  <2>1. i \notin Mapped /\ \A t \in Serials : sessions[t] # i
    BY <1>2, <1>5 DEF Gains, Mapped
  <2>2. \A j \in Sups : sup'[j] = "up" <=> j \in Mapped'
    BY <1>2, <1>3, <1>5, <2>1 DEF Gains, Mapped
  <2>3. \A t, u \in Serials : sessions'[t] = sessions'[u] /\ sessions'[t] # None => t = u
    BY <1>2, <1>3, <1>5, <2>1 DEF Gains
  <2> QED BY <1>1, <2>2, <2>3, SelectMap
<1>6. ASSUME NEW s \in Serials, Loses(s)
      PROVE  SupervisorsAccounted' /\ StoppedIsEmpty'
  <2>1. sessions[s] \in Sups /\ sup'[sessions[s]] = "closing"
    BY <1>3, <1>6 DEF Loses, Drop
  <2>2. \A j \in Sups : sup'[j] = "up" <=> j \in Mapped'
    BY <1>2, <1>3, <1>6, <2>1 DEF Loses, Drop, Mapped
  <2>3. \A t, u \in Serials : sessions'[t] = sessions'[u] /\ sessions'[t] # None => t = u
    BY <1>2, <1>3, <1>6 DEF Loses, Drop
  <2> QED BY <1>1, <2>2, <2>3, SelectMap
<1> QED BY <1>1, <1>4, <1>5, <1>6

\* No step but the actor's and a supervisor's own end touches the map or a life.
LEMMA QuietKeepsMap ==
    ASSUME MapInv, UNCHANGED <<sessions, sup, actor, asking>>
    PROVE  SupervisorsAccounted' /\ StoppedIsEmpty'
BY DEF MapInv, SupervisorsAccounted, StoppedIsEmpty, Mapped

LEMMA StopKeepsMap ==
    ASSUME MapInv,
           \/ StopSeen \/ Stopped \/ AskDone
           \/ \E i \in Sups : Answered(i) \/ CloseNext(i) \/ ClosedNext(i) \/ SupStops(i) \/ SupCloses(i)
    PROVE  SupervisorsAccounted' /\ StoppedIsEmpty'
<1> USE DEF MapInv, Mapped, SupervisorsAccounted, StoppedIsEmpty
<1>0. /\ sessions \in [Serials -> Sups \cup {None}]
      /\ sup \in [Sups -> {"none", "up", "closing", "ending", "closed"}]
  BY DEF TypeInv, TypeOK
<1>1. CASE StopSeen
  BY <1>0, <1>1 DEF StopSeen, supVars
<1>2. CASE Stopped
  BY <1>2 DEF Stopped, supVars, mapVars
<1>3. CASE AskDone
  BY <1>3 DEF AskDone, supVars, mapVars
<1>4. ASSUME NEW i \in Sups, Answered(i) \/ ClosedNext(i)
      PROVE  SupervisorsAccounted' /\ StoppedIsEmpty'
  BY <1>4 DEF Answered, ClosedNext, supVars, mapVars
<1>5. ASSUME NEW i \in Sups, CloseNext(i)
      PROVE  SupervisorsAccounted' /\ StoppedIsEmpty'
  BY <1>0, <1>5 DEF CloseNext, actVars, mapVars
<1>6. ASSUME NEW i \in Sups, SupStops(i) \/ SupCloses(i)
      PROVE  SupervisorsAccounted' /\ StoppedIsEmpty'
  BY <1>0, <1>6 DEF SupStops, SupCloses, actVars, mapVars
<1> QED BY <1>1, <1>2, <1>3, <1>4, <1>5, <1>6

LEMMA StepMap == ASSUME MapInv, [Next]_vars PROVE MapInv'
<1>1. TypeInv'
  BY StepTypes DEF MapInv
<1>2. SupervisorsAccounted' /\ StoppedIsEmpty'
  <2>1. ASSUME NEW c \in Clients, Client(c) PROVE UNCHANGED <<sessions, sup, actor, asking>>
    BY <2>1 DEF Client, Enter, SendCmd, SendAborted, WaitAborted, Acquired, NotAcquired,
                StreamEnds, SendDetach, mapVars, supVars, actVars
  <2>2. CASE \E i \in Sups : OpenBegins(i) \/ OpenEnds(i)
    BY <2>2, QuietKeepsMap DEF OpenBegins, OpenEnds, mapVars, actVars
  <2>3. CASE (\E t \in timers : TimerFires(t)) \/ Shutdown
    BY <2>3, QuietKeepsMap DEF TimerFires, Shutdown, mapVars, supVars, actVars
  <2>4. CASE UNCHANGED vars
    BY <2>4, QuietKeepsMap DEF vars, mapVars, supVars, actVars
  <2>5. CASE Actor
    BY <2>5, ReceiveKeepsMap, StopKeepsMap DEF Actor
  <2> QED BY <2>1, <2>2, <2>3, <2>4, <2>5, QuietKeepsMap, StopKeepsMap DEF Next, Supervisors
<1> QED BY <1>1, <1>2 DEF MapInv

\* session_manager.go: a supervisor in the map is up and belongs to one serial,
\* and none is up that the map or the shutdown has lost, whatever commands,
\* ticks, closes and a shutdown meet in the queue.
THEOREM NoSupervisorLost == Spec => []SupervisorsAccounted
<1>1. MapInv => SupervisorsAccounted
  BY DEF MapInv
<1> QED BY <1>1, InitMap, StepMap, PTL DEF Spec

-----------------------------------------------------------------------------
(* Who holds a supervisor, and the count of them.                          *)

IsDetach(m, s) == m.op = "detach" /\ m.serial = s

LEMMA DetachesCountable ==
    ASSUME NEW q \in Seq(Cmd), NEW s \in Serials
    PROVE  IsFiniteSet(Detaches(q, s)) /\ Cardinality(Detaches(q, s)) \in Nat
<1>1. Len(q) \in Nat /\ IsFiniteSet(1..Len(q))
  BY LenProperties, FS_Interval
<1>2. Detaches(q, s) \subseteq 1..Len(q)
  BY DEF Detaches
<1> QED BY <1>1, <1>2, FS_Subset, FS_CardinalityType

LEMMA HoldersCountable ==
    ASSUME NEW H \in SUBSET Attachers
    PROVE  IsFiniteSet(H) /\ Cardinality(H) \in Nat
BY FS_Subset, FS_CardinalityType

LEMMA Countable ==
    ASSUME TypeInv, NEW s \in Serials
    PROVE  /\ IsFiniteSet(Holders(s)) /\ Cardinality(Holders(s)) \in Nat
           /\ IsFiniteSet(Detaches(cmds, s)) /\ Cardinality(Detaches(cmds, s)) \in Nat
<1>1. Holders(s) \subseteq Attachers /\ cmds \in Seq(Cmd)
  BY DEF Holders, TypeInv, TypeOK
<1> QED BY <1>1, HoldersCountable, DetachesCountable

LEMMA CountableNext ==
    ASSUME TypeInv', NEW s \in Serials
    PROVE  /\ IsFiniteSet(Holders(s)') /\ Cardinality(Holders(s)') \in Nat
           /\ IsFiniteSet(Detaches(cmds', s)) /\ Cardinality(Detaches(cmds', s)) \in Nat
<1>1. Holders(s)' \subseteq Attachers /\ cmds' \in Seq(Cmd)
  BY DEF Holders, TypeInv, TypeOK
<1> QED BY <1>1, HoldersCountable, DetachesCountable

\* With the first command the queue loses a detach, if it is one.
LEMMA DetachesOfTail ==
    ASSUME TypeInv, TypeInv', cmds # <<>>, cmds' = Tail(cmds), NEW s \in Serials
    PROVE  Cardinality(Detaches(cmds', s))
             = Cardinality(Detaches(cmds, s)) - IF IsDetach(Head(cmds), s) THEN 1 ELSE 0
<1> DEFINE D == Detaches(cmds, s)
           E == Detaches(cmds', s)
           f == [k \in D \ {1} |-> k - 1]
<1>0. Len(cmds) \in Nat
  BY LenProperties DEF TypeInv, TypeOK
<1>1. \A k \in D \ {1} : k - 1 \in E
  BY <1>0, FirstCommand DEF Detaches
<1>2. \A k \in E : k + 1 \in D \ {1} /\ (k + 1) - 1 = k
  BY <1>0, FirstCommand DEF Detaches
<1>3. \A j, k \in D \ {1} : j - 1 = k - 1 => j = k
  BY <1>0 DEF Detaches
<1>4. f \in Bijection(D \ {1}, E)
  <2>1. f \in [D \ {1} -> E] /\ \A k \in D \ {1} : f[k] = k - 1
    BY <1>1
  <2>2. \A k \in E : \E j \in D \ {1} : f[j] = k
    BY <1>2
  <2> HIDE DEF f, D, E
  <2>3. \A j, k \in D \ {1} : f[j] = f[k] => j = k
    BY <1>3, <2>1
  <2>4. f \in Injection(D \ {1}, E)
    BY <2>1, <2>3 DEF Injection, IsInjective
  <2>5. f \in Surjection(D \ {1}, E)
    BY <2>1, <2>2 DEF Surjection
  <2> QED BY <2>4, <2>5 DEF Bijection
<1>5. ExistsBijection(D \ {1}, E)
  BY <1>4 DEF ExistsBijection
<1>6. 1 \in D <=> IsDetach(Head(cmds), s)
  BY FirstCommand DEF Detaches, IsDetach
<1> HIDE DEF D, E
<1>7. IsFiniteSet(D) /\ Cardinality(D) \in Nat
  BY Countable DEF D
<1>8. /\ IsFiniteSet(D \ {1})
      /\ Cardinality(D \ {1}) = IF 1 \in D THEN Cardinality(D) - 1 ELSE Cardinality(D)
  BY <1>7, FS_RemoveElement, Zenon
<1>9. Cardinality(E) = Cardinality(D \ {1})
  BY <1>5, <1>8, FS_Bijection
<1>10. Cardinality(E) = Cardinality(D) - IF 1 \in D THEN 1 ELSE 0
  BY <1>7, <1>8, <1>9
<1> QED BY <1>6, <1>10 DEF D, E

\* With a command at the end it gains one, if that is one.
LEMMA DetachesOfAppend ==
    ASSUME TypeInv, NEW m \in Cmd, cmds' = Append(cmds, m), NEW s \in Serials
    PROVE  Cardinality(Detaches(cmds', s))
             = Cardinality(Detaches(cmds, s)) + IF IsDetach(m, s) THEN 1 ELSE 0
<1> DEFINE D == Detaches(cmds, s)
           n == Len(cmds) + 1
<1>1. D \subseteq 1..Len(cmds) /\ n \notin D
  BY LastCommand DEF Detaches
<1>2. Detaches(cmds', s) = IF IsDetach(m, s) THEN D \cup {n} ELSE D
  BY LastCommand DEF Detaches, IsDetach
<1> HIDE DEF D, n
<1>3. IsFiniteSet(D) /\ Cardinality(D) \in Nat
  BY Countable DEF D
<1>4. Cardinality(D \cup {n}) = IF n \in D THEN Cardinality(D) ELSE Cardinality(D) + 1
  BY <1>3, FS_AddElement, Zenon
<1>5. Cardinality(Detaches(cmds', s)) = Cardinality(D) + IF IsDetach(m, s) THEN 1 ELSE 0
  BY <1>1, <1>2, <1>3, <1>4
<1> QED BY <1>5 DEF D

LEMMA InitCount == Init => CountInv
<1> SUFFICES ASSUME Init PROVE CountInv
  OBVIOUS
<1>1. ASSUME NEW s \in Serials
      PROVE  Holders(s) = {} /\ Detaches(cmds, s) = {} /\ sessions[s] = None
  <2>1. cmds = <<>> /\ Len(cmds) = 0 /\ \A c \in Attachers : client[c].at = "out"
    BY DEF Init, Clients
  <2> QED BY <2>1 DEF Init, Holders, Holds, Detaches
<1>2. \A c \in Attachers : ~Holds(c)
  BY DEF Init, Holds, Clients
<1> QED BY <1>1, <1>2, FS_EmptySet DEF CountInv, Owed

\* A step that changes no holder, no detach and neither map nor count.
LEMMA CountKept ==
    ASSUME TypeInv, CountInv,
           \A c \in Clients : client'[c].serial = client[c].serial,
           \A c \in Attachers : /\ Holds(c)' <=> Holds(c)
                                /\ Holds(c) => client'[c].sup = client[c].sup,
           \A s \in Serials :
               Cardinality(Detaches(cmds', s)) = Cardinality(Detaches(cmds, s)),
           UNCHANGED <<sessions, attached>>,
           actor' \in {"select", "asking"} => actor \in {"select", "asking"}
    PROVE  CountInv' /\ \A s \in Serials : Owed(s)' = Owed(s)
<1>1. \A s \in Serials : Holders(s)' = Holders(s)
  BY DEF Holders, Clients
<1>2. \A s \in Serials : Owed(s)' = Owed(s)
  BY <1>1 DEF Owed
<1> QED BY <1>2 DEF CountInv, Clients

LEMMA ClientKeepsCount ==
    ASSUME MapInv, CountInv, TypeInv', NEW c \in Clients, Client(c)
    PROVE  CountInv' /\ \A s \in Serials : ~stop => Owed(s)' = Owed(s)
<1>0. TypeInv /\ CallsOK /\ client[c] \in Calling
  BY DEF MapInv, TypeInv, TypeOK, Calling
<1>1. CASE Enter(c)
  <2>1. /\ \A d \in Clients : client'[d].serial = client[d].serial
        /\ client'[c].at = "sending" /\ client[c].at = "out"
        /\ \A d \in Clients \ {c} : client'[d] = client[d]
    BY <1>0, <1>1 DEF Enter, TypeInv, TypeOK, Calling
  <2>2. \A d \in Attachers : d \in Clients
    BY DEF Clients
  <2> QED BY <1>0, <1>1, <2>1, <2>2, CountKept DEF Enter, Holds, mapVars, actVars
<1>2. CASE SendCmd(c)
  <2> DEFINE m == [op |-> client[c].op, serial |-> client[c].serial, who |-> c, gen |-> 0]
  <2>1. client[c].op \in OpOf(c)
    BY <1>0, <1>2 DEF SendCmd, CallsOK
  <2>2. m \in Cmd /\ \A s \in Serials : ~IsDetach(m, s)
    BY <1>0, <2>1 DEF Calling, Cmd, Ops, IsDetach, OpOf
  <2>3. cmds' = Append(cmds, m)
    BY <1>2 DEF SendCmd
  <2> HIDE DEF m
  <2>4. \A s \in Serials : Cardinality(Detaches(cmds', s)) = Cardinality(Detaches(cmds, s))
    BY <1>0, <2>2, <2>3, DetachesOfAppend, Countable
  <2>5. /\ \A d \in Clients : client'[d].serial = client[d].serial
        /\ client'[c].at = "waiting" /\ client[c].at = "sending"
        /\ \A d \in Clients \ {c} : client'[d] = client[d]
    BY <1>0, <1>2, GotoTypes DEF SendCmd, Places
  <2>6. \A d \in Attachers : d \in Clients
    BY DEF Clients
  <2> QED BY <1>0, <1>2, <2>4, <2>5, <2>6, CountKept DEF SendCmd, Holds, mapVars, actVars
<1>3. CASE \/ SendAborted(c) \/ WaitAborted(c) \/ Acquired(c) \/ NotAcquired(c)
           \/ StreamEnds(c)
  <2>1. /\ client[c].at \in {"sending", "waiting", "acquiring", "streaming"}
        /\ UNCHANGED <<mapVars, supVars, cmds, actVars, stop>>
        /\ \/ Goto(c, "left") /\ (Holds(c) => c \notin Attachers)
           \/ /\ Goto(c, "streaming") \/ Goto(c, "detaching")
              /\ client[c].at \in {"acquiring", "streaming"}
              /\ c \in Attachers
    BY <1>0, <1>3 DEF SendAborted, WaitAborted, Acquired, NotAcquired, StreamEnds, Holds, CallsOK
  <2>2. Holds(c) => client[c].sup \in Sups
    BY <1>0 DEF CallsOK, Holds
  <2>3. /\ \A d \in Clients : client'[d].serial = client[d].serial
        /\ \A d \in Clients \ {c} : client'[d] = client[d]
        /\ client'[c].sup = client[c].sup
        /\ client'[c].at \in {"left", "streaming", "detaching"}
        /\ client'[c].at = "left" => (Holds(c) => c \notin Attachers)
        /\ client'[c].at # "left" => client[c].at \in {"acquiring", "streaming"}
    BY <1>0, <2>1, <2>2, GotoTypes DEF Places, Holds
  <2>4. \A d \in Attachers : d \in Clients
    BY DEF Clients
  <2>5. \A d \in Attachers : (Holds(d)' <=> Holds(d)) /\ (Holds(d) => client'[d].sup = client[d].sup)
    BY <2>3, <2>4 DEF Holds
  <2> QED BY <1>0, <2>1, <2>3, <2>5, CountKept DEF mapVars, actVars
<1>4. CASE SendDetach(c)
  <2> DEFINE m == [op |-> "detach", serial |-> client[c].serial, who |-> None, gen |-> 0]
             s0 == client[c].serial
  <2>1. /\ \A d \in Clients : client'[d].serial = client[d].serial
        /\ \A d \in Clients \ {c} : client'[d] = client[d]
        /\ client'[c].at = "left" /\ client[c].at = "detaching" /\ c \in Attachers
    BY <1>0, <1>4, GotoTypes DEF SendDetach, Places, CallsOK
  <2>2. s0 \in Serials /\ m \in Cmd /\ \A s \in Serials : IsDetach(m, s) <=> s = s0
    BY <1>0 DEF Calling, Cmd, Ops, IsDetach
  <2>3. cmds' = Append(cmds, m) \/ UNCHANGED cmds
    BY <1>4 DEF SendDetach
  <2> HIDE DEF m
  <2>4. ASSUME NEW s \in Serials
        PROVE  /\ Cardinality(Detaches(cmds', s))
                    <= Cardinality(Detaches(cmds, s)) + IF s = s0 THEN 1 ELSE 0
               /\ ~stop => Cardinality(Detaches(cmds', s))
                    = Cardinality(Detaches(cmds, s)) + IF s = s0 THEN 1 ELSE 0
    BY <1>0, <1>4, <2>2, <2>3, DetachesOfAppend, Countable DEF SendDetach, m
  <2>5. \A d \in Attachers : d \in Clients
    BY DEF Clients
  <2>6. ASSUME NEW s \in Serials
        PROVE  Holders(s)' = Holders(s) \ {c} /\ (c \in Holders(s) <=> s = s0)
    BY <2>1, <2>5 DEF Holders, Holds
  <2>7. ASSUME NEW s \in Serials
        PROVE  Cardinality(Holders(s)') = Cardinality(Holders(s)) - IF s = s0 THEN 1 ELSE 0
    BY <1>0, <2>6, Countable, FS_RemoveElement
  <2>8. UNCHANGED <<sessions, attached, actor>>
    BY <1>4 DEF SendDetach, mapVars, actVars
  <2> HIDE DEF s0
  <2>9. ASSUME NEW s \in Serials
        PROVE  Owed(s)' <= Owed(s) /\ (~stop => Owed(s)' = Owed(s))
    <3>1. Cardinality(Holders(s)) \in Nat /\ Cardinality(Detaches(cmds, s)) \in Nat
      BY <1>0, Countable
    <3>2. Cardinality(Detaches(cmds', s)) \in Nat
      BY CountableNext
    <3> QED BY <2>4, <2>7, <3>1, <3>2 DEF Owed
  <2>10. \A d \in Attachers : Holds(d)' => Holds(d) /\ client'[d] = client[d]
    BY <2>1, <2>5 DEF Holds
  <2> QED
    <3> SUFFICES ASSUME actor \in {"select", "asking"} PROVE CountInv'
      BY <2>8, <2>9 DEF CountInv
    <3>1. \A d \in Attachers : Holds(d)' => sessions'[client'[d].serial] = client'[d].sup
      BY <2>8, <2>10 DEF CountInv
    <3>2. ASSUME NEW s \in Serials
          PROVE  Owed(s)' <= IF sessions'[s] = None THEN 0 ELSE attached'[sessions'[s]]
      <4> DEFINE B == IF sessions[s] = None THEN 0 ELSE attached[sessions[s]]
      <4>1. B \in Nat
        BY <1>0 DEF TypeInv, TypeOK
      <4>2. Owed(s) <= B
        BY DEF CountInv
      <4>3. /\ Cardinality(Holders(s)') \in Nat /\ Cardinality(Detaches(cmds', s)) \in Nat
            /\ Cardinality(Holders(s)) \in Nat /\ Cardinality(Detaches(cmds, s)) \in Nat
        BY <1>0, Countable, CountableNext
      <4> QED BY <2>8, <2>9, <4>1, <4>2, <4>3 DEF Owed
    <3> QED BY <3>1, <3>2 DEF CountInv
<1> QED BY <1>1, <1>2, <1>3, <1>4 DEF Client

\* Who may have sent a command.
LEMMA Callers ==
    ASSUME NEW c \in Clients, NEW op \in OpOf(c)
    PROVE  /\ op = "attach" <=> c \in Attachers
           /\ op = "close" => c \in Closers
BY DEF OpOf, Clients

\* A command that is no detach leaves the detaches of the queue alone.
LEMMA DetachesKept ==
    ASSUME TypeInv, TypeInv', cmds # <<>>, cmds' = Tail(cmds), Head(cmds).op # "detach",
           NEW s \in Serials
    PROVE  Cardinality(Detaches(cmds', s)) = Cardinality(Detaches(cmds, s))
BY DetachesOfTail, Countable DEF IsDetach

\* An attacher that waits is counted and holds the supervisor it gets.
LEMMA AttachKeepsCount ==
    ASSUME MapInv, CountInv, TypeInv', RecvAttach
    PROVE  /\ CountInv'
           /\ client[Head(cmds).who].at = "waiting" =>
                \A s \in Serials : Owed(s)' = Owed(s) + IF s = Head(cmds).serial THEN 1 ELSE 0
<1> DEFINE s0 == Head(cmds).serial
           c == Head(cmds).who
<1>0. TypeInv /\ SupervisorsAccounted
  BY DEF MapInv
<1>1. actor = "select" /\ cmds # <<>> /\ cmds' = Tail(cmds) /\ Head(cmds).op = "attach"
  BY DEF RecvAttach, Recv
<1>2. Head(cmds) \in Cmd /\ s0 \in Serials /\ c \in Clients /\ c \in Attachers
      /\ client[c].serial = s0
  BY <1>0, <1>1, FirstCommand, Callers DEF Answers, Cmd
<1>3. PICK i \in Sups :
        /\ EnsureSupervisor(s0, i) /\ attached' = [attached EXCEPT ![i] = @ + 1]
        /\ Reply(c, "acquiring", i)
  BY DEF RecvAttach
<1>4. \A s \in Serials : Cardinality(Detaches(cmds', s)) = Cardinality(Detaches(cmds, s))
  BY <1>0, <1>1, DetachesKept
<1>5. /\ \A d \in Clients : client'[d].serial = client[d].serial
      /\ \A d \in Clients \ {c} : client'[d] = client[d]
      /\ IF client[c].at = "waiting" THEN client'[c].at = "acquiring" /\ client'[c].sup = i
                                     ELSE client'[c] = client[c]
  BY <1>0, <1>2, <1>3, ReplyTypes
<1>6. /\ sessions \in [Serials -> Sups \cup {None}] /\ attached \in [Sups -> Nat]
      /\ sup \in [Sups -> {"none", "up", "closing", "ending", "closed"}]
      /\ \A d \in Attachers : d \in Clients /\ client[d].serial \in Serials
  BY <1>0 DEF TypeInv, TypeOK, Clients
<1> HIDE DEF s0, c
<1>7. /\ sessions'[s0] = i /\ attached'[i] = attached[i] + 1
      /\ \A s \in Serials \ {s0} : sessions'[s] = sessions[s]
                                   /\ (sessions[s] # None => sessions[s] # i)
      /\ \A j \in Sups \ {i} : attached'[j] = attached[j]
      /\ sessions[s0] # None => sessions[s0] = i
  <2>1. CASE sessions[s0] # None
    BY <1>0, <1>2, <1>3, <1>6, <2>1 DEF EnsureSupervisor, SupervisorsAccounted
  <2>2. CASE sessions[s0] = None
    <3>1. \A s \in Serials : sessions[s] # i
      BY <1>0, <1>3, <2>2 DEF EnsureSupervisor, SupervisorsAccounted, Mapped
    <3> QED BY <1>2, <1>3, <1>6, <2>2, <3>1 DEF EnsureSupervisor
  <2> QED BY <2>1, <2>2
<1>8. ASSUME NEW d \in Attachers, Holds(d)'
      PROVE  sessions'[client'[d].serial] = client'[d].sup
  <2>1. CASE d = c /\ client[c].at = "waiting"
    BY <1>2, <1>5, <1>7, <2>1
  <2>2. CASE ~(d = c /\ client[c].at = "waiting")
    <3>1. client'[d] = client[d] /\ Holds(d)
      BY <1>5, <1>6, <1>8, <2>2 DEF Holds
    <3>2. sessions[client[d].serial] = client[d].sup /\ client[d].sup \in Sups
      BY <1>0, <1>1, <1>6, <3>1 DEF CountInv, TypeInv, CallsOK, Holds
    <3>3. sessions[client[d].serial] # None
      BY <3>2
    <3> QED BY <1>6, <1>7, <3>1, <3>2, <3>3
  <2> QED BY <2>1, <2>2
<1>9. ASSUME NEW s \in Serials
      PROVE  Holders(s)' = IF s = s0 /\ client[c].at = "waiting" THEN Holders(s) \cup {c}
                                                                 ELSE Holders(s)
  BY <1>2, <1>5, <1>6 DEF Holders, Holds
<1>10. ASSUME NEW s \in Serials
       PROVE  /\ Cardinality(Holders(s)') <= Cardinality(Holders(s)) + IF s = s0 THEN 1 ELSE 0
              /\ client[c].at = "waiting" =>
                   Cardinality(Holders(s)') = Cardinality(Holders(s)) + IF s = s0 THEN 1 ELSE 0
  <2>1. Cardinality(Holders(s)) \in Nat /\ IsFiniteSet(Holders(s))
    BY <1>0, Countable
  <2>2. Cardinality(Holders(s) \cup {c})
          = IF c \in Holders(s) THEN Cardinality(Holders(s)) ELSE Cardinality(Holders(s)) + 1
    BY <2>1, FS_AddElement, Zenon
  <2>5. client[c].at = "waiting" => c \notin Holders(s)
    BY DEF Holders, Holds
  <2>3. CASE Holders(s)' = Holders(s) /\ ~(s = s0 /\ client[c].at = "waiting")
    BY <2>1, <2>3
  <2>4. CASE s = s0 /\ Holders(s)' = Holders(s) \cup {c}
    <3>1. Cardinality(Holders(s)') = Cardinality(Holders(s) \cup {c})
      BY <2>4
    <3> QED BY <2>1, <2>2, <2>4, <2>5, <3>1
  <2> QED BY <1>9, <2>3, <2>4
<1>11. ASSUME NEW s \in Serials
       PROVE  /\ Owed(s)' <= IF sessions'[s] = None THEN 0 ELSE attached'[sessions'[s]]
              /\ client[c].at = "waiting" => Owed(s)' = Owed(s) + IF s = s0 THEN 1 ELSE 0
  <2>1. /\ Cardinality(Holders(s)) \in Nat /\ Cardinality(Detaches(cmds, s)) \in Nat
        /\ Cardinality(Holders(s)') \in Nat
    BY <1>0, Countable, CountableNext
  <2>2. Owed(s) <= IF sessions[s] = None THEN 0 ELSE attached[sessions[s]]
    BY <1>1 DEF CountInv
  <2>3. CASE s = s0
    BY <1>4, <1>6, <1>7, <1>10, <2>1, <2>2, <2>3 DEF Owed
  <2>4. CASE s # s0
    BY <1>4, <1>6, <1>7, <1>10, <2>1, <2>2, <2>4 DEF Owed
  <2> QED BY <2>3, <2>4
<1> QED BY <1>8, <1>11 DEF CountInv, s0, c

\* A command that changes no count and no attacher, whatever it does to the
\* map: a supervisor that leaves it has no holder.
LEMMA MapKeepsCount ==
    ASSUME MapInv, CountInv, TypeInv', actor = "select",
           UNCHANGED attached,
           \A c \in Clients : client'[c].serial = client[c].serial,
           \A c \in Attachers : client'[c] = client[c],
           \A s \in Serials :
               Cardinality(Detaches(cmds', s)) = Cardinality(Detaches(cmds, s)),
           \/ UNCHANGED sessions
           \/ \E s \in Serials, i \in Sups : Gains(s, i)
           \/ \E s \in Serials : Loses(s) /\ attached[sessions[s]] = 0
    PROVE  CountInv' /\ \A s \in Serials : Owed(s)' = Owed(s)
<1>0. TypeInv /\ SupervisorsAccounted
  BY DEF MapInv
<1>1. \A s \in Serials : Owed(s)' = Owed(s)
  BY DEF Holders, Holds, Owed
<1>2. sessions \in [Serials -> Sups \cup {None}] /\ attached \in [Sups -> Nat]
      /\ \A d \in Attachers : d \in Clients /\ client[d].serial \in Serials
  BY <1>0 DEF TypeInv, TypeOK, Clients
<1>3. ASSUME NEW s \in Serials
      PROVE  /\ Cardinality(Holders(s)) \in Nat /\ Cardinality(Detaches(cmds, s)) \in Nat
             /\ Owed(s) \in Nat
             /\ Owed(s) <= IF sessions[s] = None THEN 0 ELSE attached[sessions[s]]
  BY <1>0, Countable DEF CountInv, Owed
<1>4. ASSUME NEW d \in Attachers, Holds(d)
      PROVE  sessions[client[d].serial] = client[d].sup /\ client[d].sup # None
  BY <1>0, <1>2, <1>4 DEF CountInv, TypeInv, CallsOK, Holds
<1>5. CASE UNCHANGED sessions
  BY <1>1, <1>3, <1>4, <1>5 DEF CountInv, Holds
<1>6. ASSUME NEW s0 \in Serials, NEW i \in Sups, Gains(s0, i) PROVE CountInv'
  <2>1. /\ sessions'[s0] = i /\ sessions[s0] = None
        /\ \A s \in Serials \ {s0} : sessions'[s] = sessions[s]
    BY <1>2, <1>6 DEF Gains
  <2>2. \A d \in Attachers : Holds(d)' => sessions'[client'[d].serial] = client'[d].sup
    BY <1>2, <1>4, <2>1 DEF Holds
  <2>3. ASSUME NEW s \in Serials
        PROVE  Owed(s) <= IF sessions'[s] = None THEN 0 ELSE attached[sessions'[s]]
    BY <1>2, <1>3, <2>1
  <2> QED BY <1>1, <2>2, <2>3 DEF CountInv
<1>7. ASSUME NEW s0 \in Serials, Loses(s0), attached[sessions[s0]] = 0 PROVE CountInv'
  <2>1. /\ sessions'[s0] = None /\ sessions[s0] # None
        /\ \A s \in Serials \ {s0} : sessions'[s] = sessions[s]
    BY <1>2, <1>7 DEF Loses, Drop
  <2>2. Cardinality(Holders(s0)) = 0 /\ Owed(s0) = 0
    BY <1>3, <1>7, <2>1 DEF Owed
  <2>3. Holders(s0) = {}
    BY <1>0, <2>2, Countable, FS_EmptySet
  <2>4. \A d \in Attachers : Holds(d)' => sessions'[client'[d].serial] = client'[d].sup
    BY <1>2, <1>4, <2>1, <2>3 DEF Holds, Holders
  <2>5. ASSUME NEW s \in Serials
        PROVE  Owed(s) <= IF sessions'[s] = None THEN 0 ELSE attached[sessions'[s]]
    BY <1>2, <1>3, <2>1, <2>2
  <2> QED BY <1>1, <2>4, <2>5 DEF CountInv
<1> QED BY <1>1, <1>5, <1>6, <1>7

LEMMA DetachKeepsCount ==
    ASSUME MapInv, CountInv, TypeInv', RecvDetach
    PROVE  /\ CountInv'
           /\ \A s \in Serials : Owed(s)' = Owed(s) - IF s = Head(cmds).serial THEN 1 ELSE 0
<1> DEFINE s0 == Head(cmds).serial
           i == sessions[s0]
<1>0. TypeInv /\ SupervisorsAccounted
  BY DEF MapInv
<1>1. /\ actor = "select" /\ cmds # <<>> /\ cmds' = Tail(cmds) /\ Head(cmds).op = "detach"
      /\ UNCHANGED <<sessions, client>>
  BY DEF RecvDetach, Recv
<1>2. s0 \in Serials
  BY <1>0, <1>1, FirstCommand DEF Cmd
<1>3. sessions \in [Serials -> Sups \cup {None}] /\ attached \in [Sups -> Nat]
  BY <1>0 DEF TypeInv, TypeOK
<1>4. IF i = None THEN UNCHANGED attached
                  ELSE attached' = [attached EXCEPT ![i] = IF @ > 0 THEN @ - 1 ELSE 0]
  BY DEF RecvDetach
<1>5. ASSUME NEW s \in Serials
      PROVE  Cardinality(Detaches(cmds', s))
               = Cardinality(Detaches(cmds, s)) - IF s = s0 THEN 1 ELSE 0
  BY <1>0, <1>1, DetachesOfTail DEF IsDetach
<1> HIDE DEF s0
<1>6. \A s \in Serials : Holders(s)' = Holders(s)
  BY <1>1 DEF Holders, Holds
<1>7. ASSUME NEW s \in Serials
      PROVE  /\ Owed(s)' <= IF sessions[s] = None THEN 0 ELSE attached'[sessions[s]]
             /\ Owed(s)' = Owed(s) - IF s = s0 THEN 1 ELSE 0
  <2>1. /\ Cardinality(Holders(s)) \in Nat /\ Cardinality(Detaches(cmds, s)) \in Nat
        /\ Cardinality(Detaches(cmds', s)) \in Nat
    BY <1>0, Countable, CountableNext
  <2>2. Owed(s) <= IF sessions[s] = None THEN 0 ELSE attached[sessions[s]]
    BY <1>1 DEF CountInv
  <2>5. Owed(s)' = Owed(s) - IF s = s0 THEN 1 ELSE 0
    BY <1>5, <1>6, <2>1 DEF Owed
  <2>6. Owed(s) \in Nat /\ Owed(s)' \in Nat
    BY <1>6, <2>1 DEF Owed
  <2>3. CASE s = s0
    BY <1>2, <1>3, <1>4, <2>2, <2>3, <2>5, <2>6
  <2>4. CASE s # s0
    <3>1. sessions[s] # None => sessions[s] # i
      BY <1>0, <1>2, <2>4 DEF SupervisorsAccounted
    <3> QED BY <1>2, <1>3, <1>4, <2>2, <2>4, <2>5, <2>6, <3>1
  <2> QED BY <2>3, <2>4, <2>5
<1> QED BY <1>1, <1>7 DEF CountInv, Holds, s0

LEMMA ReceiveKeepsCount ==
    ASSUME Closers = {}, MapInv, CountInv, TypeInv', Receive
    PROVE  CountInv'
<1>0. TypeInv
  BY DEF MapInv
<1>1. actor = "select" /\ cmds # <<>> /\ cmds' = Tail(cmds)
  BY DEF Receive, RecvAttach, RecvEnsure, RecvDetach, RecvTick, RecvClose, RecvAsk, Recv
<1>2. /\ Head(cmds) \in Cmd /\ Head(cmds).serial \in Serials
      /\ Answers(Head(cmds)) => Head(cmds).who \in Clients
                                /\ Head(cmds).op \in OpOf(Head(cmds).who)
  BY <1>0, <1>1, FirstCommand DEF Cmd
<1>3. Head(cmds).op # "detach" =>
        \A s \in Serials : Cardinality(Detaches(cmds', s)) = Cardinality(Detaches(cmds, s))
  BY <1>0, <1>1, DetachesKept
<1>4. \A d \in Attachers : d \in Clients
  BY DEF Clients
<1>5. CASE RecvEnsure
  <2>1. /\ Head(cmds).op = "ensure" /\ Head(cmds).who \in Clients
        /\ Head(cmds).who \notin Attachers
    BY <1>2, <1>5, Callers DEF RecvEnsure, Recv, Answers
  <2>2. PICK i \in Sups : EnsureSupervisor(Head(cmds).serial, i)
                          /\ Reply(Head(cmds).who, "acquiring", i)
    BY <1>5 DEF RecvEnsure
  <2>3. /\ \A d \in Clients : client'[d].serial = client[d].serial
        /\ \A d \in Attachers : client'[d] = client[d]
    BY <1>0, <1>4, <2>1, <2>2, ReplyTypes
  <2>4. UNCHANGED sessions \/ Gains(Head(cmds).serial, i)
    BY <2>2 DEF EnsureSupervisor, Gains
  <2>5. UNCHANGED attached
    BY <1>5 DEF RecvEnsure
  <2> QED BY <1>1, <1>2, <1>3, <2>1, <2>3, <2>4, <2>5, MapKeepsCount
<1>6. CASE RecvTick
  <2>1. UNCHANGED sessions
        \/ (Loses(Head(cmds).serial) /\ attached[sessions[Head(cmds).serial]] = 0)
    BY <1>6 DEF RecvTick, Loses
  <2>2. Head(cmds).op = "tick" /\ UNCHANGED <<attached, client>>
    BY <1>6 DEF RecvTick, Recv
  <2> QED BY <1>1, <1>2, <1>3, <2>1, <2>2, MapKeepsCount
<1>7. CASE RecvClose
  BY <1>2, <1>7, Callers DEF RecvClose, Recv, Answers
<1>8. CASE RecvAsk
  <2>1. Head(cmds).op # "detach" /\ UNCHANGED <<sessions, attached, client>>
    BY <1>8 DEF RecvAsk, Recv, mapVars
  <2> QED BY <1>1, <1>3, <2>1, MapKeepsCount
<1> QED BY <1>5, <1>6, <1>7, <1>8, AttachKeepsCount, DetachKeepsCount DEF Receive

LEMMA OtherKeepsCount ==
    ASSUME MapInv, CountInv, TypeInv',
           \/ AskDone \/ StopSeen \/ Stopped \/ Supervisors \/ Shutdown \/ UNCHANGED vars
           \/ \E i \in Sups : Answered(i) \/ CloseNext(i) \/ ClosedNext(i)
           \/ \E t \in timers : TimerFires(t)
    PROVE  CountInv' /\ \A s \in Serials : Owed(s)' = Owed(s)
<1>0. TypeInv /\ \A d \in Attachers : d \in Clients
  BY DEF MapInv, Clients
<1>1. CASE StopSeen
  BY <1>1 DEF StopSeen, CountInv, Owed, Holders, Holds
<1>2. CASE AskDone
  <2>1. askFor \in Clients
    BY <1>0, <1>2 DEF AskDone, TypeInv, AskOK
  <2>2. /\ \A d \in Clients : client'[d].serial = client[d].serial
        /\ \A d \in Clients : client'[d] = client[d]
              \/ (client[d].at = "waiting" /\ client'[d].at = "left")
    BY <1>0, <1>2, <2>1, ReplyTypes DEF AskDone
  <2> QED BY <1>0, <1>2, <2>2, CountKept DEF AskDone, Holds, mapVars
<1>3. CASE \E t \in timers : TimerFires(t) /\ ~UNCHANGED cmds
  <2>1. PICK t \in timers :
          cmds' = Append(cmds, [op |-> "tick", serial |-> t.serial, who |-> None, gen |-> t.gen])
    BY <1>3 DEF TimerFires
  <2> DEFINE m == [op |-> "tick", serial |-> t.serial, who |-> None, gen |-> t.gen]
  <2>2. m \in Cmd /\ \A s \in Serials : ~IsDetach(m, s)
    BY <1>0 DEF TypeInv, TypeOK, Cmd, Ops, IsDetach
  <2>3. cmds' = Append(cmds, m)
    BY <2>1
  <2> HIDE DEF m
  <2>4. \A s \in Serials : Cardinality(Detaches(cmds', s)) = Cardinality(Detaches(cmds, s))
    BY <1>0, <2>2, <2>3, DetachesOfAppend, Countable
  <2>5. UNCHANGED <<sessions, attached, client, actor>>
    BY <1>3 DEF TimerFires, actVars
  <2> QED BY <1>0, <2>4, <2>5, CountKept DEF Holds
<1>4. CASE /\ ~StopSeen /\ ~AskDone
           /\ ~\E t \in timers : TimerFires(t) /\ ~UNCHANGED cmds
  <2>1. UNCHANGED <<sessions, attached, client, cmds>>
        /\ (actor' \in {"select", "asking"} => actor \in {"select", "asking"})
    BY <1>4 DEF Stopped, Supervisors, Shutdown, vars, Answered, CloseNext, ClosedNext,
                TimerFires, OpenBegins, OpenEnds, SupStops, SupCloses, mapVars, supVars, actVars
  <2> QED BY <1>0, <2>1, CountKept DEF Holds
<1> QED BY <1>1, <1>2, <1>3, <1>4

LEMMA StepCount ==
    ASSUME Closers = {}, MapInv, CountInv, [Next]_vars
    PROVE  CountInv'
<1>1. TypeInv'
  BY StepTypes DEF MapInv
<1> QED BY <1>1, ClientKeepsCount, ReceiveKeepsCount, OtherKeepsCount DEF Next, Actor

\* session_manager.go:25: an idle tick takes no supervisor away from an
\* attacher that streams or waits for its session, however late it comes, as
\* long as no serial is closed.
THEOREM OnlyIdleIsCollected == ASSUME Closers = {} PROVE Spec => CollectsOnlyIdle
<1> DEFINE A == \A i \in Sups :
                  Recv("tick") /\ sup[i] = "up" /\ sup'[i] = "closing" =>
                      \A c \in Attachers : ~(Using(c) /\ client[c].sup = i)
<1>1. ASSUME MapInv, CountInv, [Next]_vars PROVE A
  <2> SUFFICES ASSUME NEW i \in Sups, Recv("tick"), sup[i] = "up", sup'[i] = "closing",
                      NEW c \in Attachers, Using(c), client[c].sup = i
               PROVE  FALSE
    OBVIOUS
  <2>0. TypeInv /\ SupervisorsAccounted /\ c \in Clients
    BY <1>1 DEF MapInv, Clients
  <2>1. /\ actor = "select" /\ cmds # <<>> /\ cmds' = Tail(cmds) /\ Head(cmds).op = "tick"
    BY DEF Recv
  <2>2. RecvTick
    <3>1. cmds' # cmds
      BY <2>0, <2>1, HeadTailProperties, LenProperties DEF TypeInv, TypeOK
    <3>2. CASE \E d \in Clients : Client(d)
      <4>1. PICK d \in Clients : Client(d)
        BY <3>2
      <4> QED BY <4>1 DEF Client, Enter, SendCmd, SendAborted, WaitAborted, Acquired, NotAcquired,
                  StreamEnds, SendDetach, supVars
    <3>3. CASE Receive
      BY <2>1, <3>3 DEF Receive, RecvAttach, RecvEnsure, RecvDetach, RecvClose, RecvAsk, Recv
    <3> QED BY <1>1, <2>1, <3>1, <3>2, <3>3 DEF Next, Actor, Supervisors, AskDone, StopSeen,
            Stopped, Answered, CloseNext, ClosedNext, OpenBegins, OpenEnds, SupStops, SupCloses, TimerFires,
            Shutdown, vars, supVars
  <2>3. Head(cmds).serial \in Serials
    BY <2>0, <2>1, FirstCommand DEF Cmd
  <2> DEFINE s == Head(cmds).serial
  <2>4. sessions[s] = i /\ attached[i] = 0
    BY <2>0, <2>2, <2>3 DEF RecvTick, Drop, TypeInv, TypeOK
  <2>5. sessions[client[c].serial] = i /\ client[c].serial \in Serials /\ Holds(c)
    BY <1>1, <2>0, <2>1 DEF CountInv, Using, Holds, TypeInv, TypeOK
  <2>6. client[c].serial = s
    BY <2>0, <2>3, <2>4, <2>5 DEF SupervisorsAccounted
  <2>7. Owed(s) <= 0
    BY <1>1, <2>1, <2>3, <2>4 DEF CountInv
  <2>8. Holders(s) = {}
    BY <2>0, <2>3, <2>7, Countable, FS_EmptySet DEF Owed
  <2> QED BY <2>5, <2>6, <2>8 DEF Holders
<1>2. Init => MapInv /\ CountInv
  BY InitMap, InitCount
<1>3. MapInv /\ CountInv /\ [Next]_vars => MapInv' /\ CountInv'
  BY StepMap, StepCount
<1>4. MapInv /\ CountInv /\ [Next]_vars => [A]_vars
  BY <1>1
<1> HIDE DEF A
<1>5. Spec => [][A]_vars
  BY <1>2, <1>3, <1>4, PTL DEF Spec
<1> QED BY <1>5 DEF A, CollectsOnlyIdle

-----------------------------------------------------------------------------
(* Where nobody abandons the wait for a reply, the count is exact.         *)

LEMMA StepFresh == ASSUME MapInv, FreshIsZero, [Next]_vars PROVE FreshIsZero'
<1>0. /\ TypeInv /\ SupervisorsAccounted
      /\ sup \in [Sups -> {"none", "up", "closing", "ending", "closed"}]
      /\ sessions \in [Serials -> Sups \cup {None}] /\ attached \in [Sups -> Nat]
  BY DEF MapInv, TypeInv, TypeOK
<1>1. CASE RecvAttach
  <2>1. actor = "select" /\ cmds # <<>> /\ cmds' = Tail(cmds)
    BY <1>1 DEF RecvAttach, Recv
  <2>2. PICK i \in Sups : /\ EnsureSupervisor(Head(cmds).serial, i)
                          /\ attached' = [attached EXCEPT ![i] = @ + 1]
    BY <1>1 DEF RecvAttach
  <2>3. Head(cmds).serial \in Serials
    BY <1>0, <2>1, FirstCommand DEF Cmd
  <2>4. sup'[i] = "up" /\ \A j \in Sups \ {i} : sup'[j] = sup[j]
    BY <1>0, <2>2, <2>3 DEF EnsureSupervisor, SupervisorsAccounted, Mapped
  <2> QED BY <1>0, <2>2, <2>4 DEF FreshIsZero
<1>2. CASE RecvDetach
  <2>1. actor = "select" /\ cmds # <<>> /\ cmds' = Tail(cmds) /\ UNCHANGED sup
    BY <1>2 DEF RecvDetach, Recv, supVars
  <2>2. Head(cmds).serial \in Serials
    BY <1>0, <2>1, FirstCommand DEF Cmd
  <2> DEFINE i == sessions[Head(cmds).serial]
  <2>3. /\ i # None => i \in Sups /\ sup[i] = "up"
        /\ \A j \in Sups : j # i => attached'[j] = attached[j]
    BY <1>0, <1>2, <2>2 DEF RecvDetach, SupervisorsAccounted, Mapped
  <2>4. i = None => attached' = attached
    BY <1>2 DEF RecvDetach
  <2> HIDE DEF i
  <2> QED BY <1>0, <2>1, <2>3, <2>4 DEF FreshIsZero
<1>3. CASE ~RecvAttach /\ ~RecvDetach
  <2>1. UNCHANGED attached
    BY <1>3 DEF Next, Client, Enter, SendCmd, SendAborted, WaitAborted, Acquired, NotAcquired,
           StreamEnds, SendDetach, Actor, Receive, RecvEnsure, RecvTick, RecvClose, RecvAsk,
           AskDone, StopSeen, Stopped, Answered, CloseNext, ClosedNext, Supervisors, OpenBegins,
           OpenEnds, SupStops, SupCloses, TimerFires, Shutdown, vars, mapVars
  <2>2. \A i \in Sups : sup'[i] = "none" => sup[i] = "none"
    <3>1. CASE RecvEnsure \/ RecvTick \/ RecvClose
      <4>1. \/ UNCHANGED sup
            \/ \E i \in Sups : sup' = [sup EXCEPT ![i] = "up"]
            \/ \E i : sup' = [sup EXCEPT ![i] = "closing"]
        BY <3>1 DEF RecvEnsure, RecvTick, RecvClose, EnsureSupervisor, Drop
      <4> QED BY <1>0, <4>1
    <3>2. CASE \E i \in Sups : CloseNext(i) \/ SupStops(i) \/ SupCloses(i)
      BY <1>0, <3>2 DEF CloseNext, SupStops, SupCloses
    <3>3. CASE /\ ~(RecvEnsure \/ RecvTick \/ RecvClose)
               /\ ~\E i \in Sups : CloseNext(i) \/ SupStops(i) \/ SupCloses(i)
      BY <1>3, <3>3 DEF Next, Client, Enter, SendCmd, SendAborted, WaitAborted, Acquired,
           NotAcquired, StreamEnds, SendDetach, Actor, Receive, RecvAsk, AskDone, StopSeen,
           Stopped, Answered, ClosedNext, Supervisors, OpenBegins, OpenEnds, TimerFires,
           Shutdown, vars, supVars
    <3> QED BY <3>1, <3>2, <3>3
  <2> QED BY <2>1, <2>2 DEF FreshIsZero
<1> QED BY <1>1, <1>2, <1>3

\* The queue gets a command that is no attach, or one of c, who waits now and
\* had none in it.
LEMMA AppendKeepsWaits ==
    ASSUME TypeInv, AttachWaits, NEW m \in Cmd, cmds' = Append(cmds, m),
           UNCHANGED <<actor, askFor>>,
           \A c \in Clients : client[c].at = "waiting" => client'[c].at = "waiting",
           m.op = "attach" => /\ m.who \in Clients /\ client'[m.who].at = "waiting"
                              /\ client[m.who].at # "waiting"
    PROVE  AttachWaits'
<1> DEFINE n == Len(cmds) + 1
<1>1. /\ Len(cmds) \in Nat /\ Len(cmds') = n /\ cmds'[n] = m
      /\ \A k \in 1..Len(cmds) : cmds'[k] = cmds[k]
  BY LastCommand
<1>2. \A k \in 1..n : k \in 1..Len(cmds) \/ k = n
  BY <1>1
<1>3. \A k \in 1..Len(cmds) : cmds[k].op = "attach" =>
          /\ client[cmds[k].who].at = "waiting" /\ cmds[k].who \in Clients
          /\ client'[cmds[k].who].at = "waiting"
  BY DEF AttachWaits, TypeInv, QueueOK, Answers
<1>4. \A k \in 1..Len(cmds) : cmds[k].op = "attach" /\ m.op = "attach" => cmds[k].who # m.who
  BY <1>3
<1> HIDE DEF n
<1>5. \A k \in 1..n : cmds'[k].op = "attach" => client'[cmds'[k].who].at = "waiting"
  BY <1>1, <1>2, <1>3
<1>6. ASSUME NEW j \in 1..n, NEW k \in 1..n, cmds'[j].op = "attach", cmds'[k].op = "attach",
             cmds'[j].who = cmds'[k].who
      PROVE  j = k
  BY <1>1, <1>2, <1>4, <1>6 DEF AttachWaits
<1> QED BY <1>1, <1>5, <1>6 DEF AttachWaits

\* The queue loses its first command, and only the caller of that is answered.
LEMMA TailKeepsWaits ==
    ASSUME TypeInv, AttachWaits, cmds # <<>>, cmds' = Tail(cmds),
           \A c \in Attachers :
               \/ client'[c].at = client[c].at
               \/ Head(cmds).op = "attach" /\ Head(cmds).who = c,
           actor' = "asking" => askFor' \notin Attachers
    PROVE  AttachWaits'
<1>1. /\ Head(cmds) = cmds[1] /\ 1 \in 1..Len(cmds)
      /\ \A k \in 1..Len(cmds') : cmds'[k] = cmds[k + 1] /\ k + 1 \in 1..Len(cmds)
  BY FirstCommand
<1>0. Len(cmds') \in Nat
  BY FirstCommand, LenProperties
<1>2. ASSUME NEW k \in 1..Len(cmds'), cmds'[k].op = "attach"
      PROVE  client'[cmds'[k].who].at = "waiting"
  <2>1. /\ cmds[k + 1].op = "attach" /\ k + 1 # 1 /\ cmds[k + 1].who \in Clients
        /\ cmds[k + 1].op \in OpOf(cmds[k + 1].who)
    BY <1>0, <1>1, <1>2 DEF TypeInv, QueueOK, Answers
  <2>2. cmds[k + 1].who \in Attachers
    BY <2>1, Callers
  <2>3. Head(cmds).op = "attach" => Head(cmds).who # cmds[k + 1].who
    BY <1>1, <2>1 DEF AttachWaits
  <2>4. client[cmds[k + 1].who].at = "waiting"
    BY <1>1, <2>1 DEF AttachWaits
  <2> QED BY <1>1, <2>2, <2>3, <2>4
<1>3. ASSUME NEW j \in 1..Len(cmds'), NEW k \in 1..Len(cmds'),
             cmds'[j].op = "attach", cmds'[k].op = "attach", cmds'[j].who = cmds'[k].who
      PROVE  j = k
  <2>1. j + 1 = k + 1
    BY <1>1, <1>3 DEF AttachWaits
  <2> QED BY <1>0, <2>1
<1> QED BY <1>2, <1>3 DEF AttachWaits

\* Nobody moves who waits in the queue.
LEMMA WaitsKept ==
    ASSUME TypeInv, AttachWaits, UNCHANGED cmds,
           \A c \in Attachers : client[c].at = "waiting" => client'[c].at = "waiting",
           actor' = "asking" => actor = "asking" /\ askFor' = askFor
    PROVE  AttachWaits'
<1>1. ASSUME NEW k \in 1..Len(cmds), cmds[k].op = "attach"
      PROVE  cmds[k].who \in Attachers
  BY <1>1, Callers DEF TypeInv, QueueOK, Answers
<1> QED BY <1>1 DEF AttachWaits

LEMMA ClientKeepsWaits ==
    ASSUME ~MayAbandon, TypeInv, AttachWaits, NEW c \in Clients, Client(c)
    PROVE  AttachWaits'
<1>0. CallsOK /\ client[c] \in Calling /\ \A d \in Attachers : d \in Clients
  BY DEF TypeInv, TypeOK, Calling, Clients
<1>1. CASE SendCmd(c)
  <2> DEFINE m == [op |-> client[c].op, serial |-> client[c].serial, who |-> c, gen |-> 0]
  <2>1. client[c].op \in OpOf(c)
    BY <1>0, <1>1 DEF SendCmd, CallsOK
  <2>2. m \in Cmd /\ m.who = c
    BY <1>0 DEF Calling, Cmd
  <2>3. cmds' = Append(cmds, m) /\ UNCHANGED <<actor, askFor>>
    BY <1>1 DEF SendCmd, actVars
  <2> HIDE DEF m
  <2>4. /\ client'[c].at = "waiting" /\ client[c].at = "sending"
        /\ \A d \in Clients \ {c} : client'[d] = client[d]
    BY <1>0, <1>1, GotoTypes DEF SendCmd, Places
  <2> QED BY <2>2, <2>3, <2>4, AppendKeepsWaits
<1>2. CASE SendDetach(c)
  <2> DEFINE m == [op |-> "detach", serial |-> client[c].serial, who |-> None, gen |-> 0]
  <2>1. m \in Cmd /\ m.op # "attach"
    BY <1>0 DEF Calling, Cmd, Ops
  <2>2. /\ client[c].at = "detaching"
        /\ \A d \in Clients \ {c} : client'[d] = client[d]
    BY <1>0, <1>2, GotoTypes DEF SendDetach, Places, CallsOK
  <2>3. UNCHANGED <<actor, askFor>> /\ (cmds' = Append(cmds, m) \/ UNCHANGED cmds)
    BY <1>2 DEF SendDetach, actVars
  <2> HIDE DEF m
  <2>4. CASE cmds' = Append(cmds, m)
    BY <2>1, <2>2, <2>3, <2>4, AppendKeepsWaits
  <2>5. CASE UNCHANGED cmds
    BY <1>0, <2>2, <2>3, <2>5, WaitsKept
  <2> QED BY <2>3, <2>4, <2>5
<1>3. CASE Enter(c)
  <2>1. client[c].at = "out" /\ \A d \in Clients \ {c} : client'[d] = client[d]
    BY <1>3 DEF Enter, TypeInv, TypeOK
  <2>2. UNCHANGED <<cmds, actor, askFor>>
    BY <1>3 DEF Enter, actVars
  <2> QED BY <1>0, <2>1, <2>2, WaitsKept
<1>4. CASE \/ SendAborted(c) \/ WaitAborted(c) \/ Acquired(c) \/ NotAcquired(c)
           \/ StreamEnds(c)
  <2>1. c \in Attachers => client[c].at # "waiting"
    <3>1. c \in Attachers /\ client[c].at # "out" => client[c].op = "attach"
      BY <1>0, Callers DEF CallsOK, OpOf
    <3> QED BY <1>4, <3>1 DEF SendAborted, WaitAborted, Acquired, NotAcquired, StreamEnds
  <2>2. \E l : Goto(c, l)
    BY <1>4 DEF SendAborted, WaitAborted, Acquired, NotAcquired, StreamEnds
  <2>3. \A d \in Clients \ {c} : client'[d] = client[d]
    BY <2>2 DEF Goto, TypeInv, TypeOK
  <2>4. UNCHANGED <<cmds, actor, askFor>>
    BY <1>4 DEF SendAborted, WaitAborted, Acquired, NotAcquired, StreamEnds, actVars
  <2> QED BY <1>0, <2>1, <2>3, <2>4, WaitsKept
<1> QED BY <1>1, <1>2, <1>3, <1>4 DEF Client

LEMMA StepWaits ==
    ASSUME ~MayAbandon, MapInv, AttachWaits, [Next]_vars
    PROVE  AttachWaits'
<1>0. TypeInv /\ \A d \in Attachers : d \in Clients
  BY DEF MapInv, Clients
<1>1. CASE \E c \in Clients : Client(c)
  BY <1>0, <1>1, ClientKeepsWaits
<1>2. CASE Receive
  <2>1. actor = "select" /\ cmds # <<>> /\ cmds' = Tail(cmds)
    BY <1>2 DEF Receive, RecvAttach, RecvEnsure, RecvDetach, RecvTick, RecvClose, RecvAsk, Recv
  <2> DEFINE c == Head(cmds).who
  <2>2. Answers(Head(cmds)) => /\ c \in Clients /\ Head(cmds).op \in OpOf(c)
                               /\ (Head(cmds).op = "attach" <=> c \in Attachers)
    BY <1>0, <2>1, FirstCommand, Callers
  <2> HIDE DEF c
  <2>3. CASE RecvAttach \/ RecvEnsure \/ RecvClose
    <3>1. Answers(Head(cmds)) /\ UNCHANGED actor
      BY <2>3 DEF RecvAttach, RecvEnsure, RecvClose, Recv, Answers, actVars
    <3>2. \E l, i : Reply(c, l, i)
      BY <2>3 DEF RecvAttach, RecvEnsure, RecvClose, c
    <3>3. \A d \in Clients \ {c} : client'[d] = client[d]
      BY <1>0, <3>2 DEF Reply, TypeInv, TypeOK
    <3> QED BY <1>0, <2>1, <2>2, <3>1, <3>3, TailKeepsWaits DEF c
  <2>4. CASE RecvDetach \/ RecvTick
    <3>1. UNCHANGED <<client, actor>>
      BY <2>4 DEF RecvDetach, RecvTick, actVars
    <3> QED BY <1>0, <2>1, <3>1, TailKeepsWaits
  <2>5. CASE RecvAsk
    <3>1. /\ UNCHANGED client /\ askFor' = c
          /\ Head(cmds).op \in {"dimensions", "snapshots", "reset"}
      BY <2>5 DEF RecvAsk, Recv, c
    <3>2. c \notin Attachers
      BY <2>2, <3>1 DEF Answers
    <3> QED BY <1>0, <2>1, <3>1, <3>2, TailKeepsWaits
  <2> QED BY <1>2, <2>3, <2>4, <2>5 DEF Receive
<1>3. CASE AskDone
  <2>1. actor = "asking" /\ actor' = "select" /\ askFor \notin Attachers /\ UNCHANGED cmds
    BY <1>3 DEF AskDone, AttachWaits
  <2>2. \A d \in Clients \ {askFor} : client'[d] = client[d]
    BY <1>0, <1>3 DEF AskDone, Reply, TypeInv, TypeOK
  <2> QED BY <1>0, <2>1, <2>2, WaitsKept
<1>4. CASE \E t \in timers : TimerFires(t)
  <2>1. PICK t \in timers : TimerFires(t)
    BY <1>4
  <2> DEFINE m == [op |-> "tick", serial |-> t.serial, who |-> None, gen |-> t.gen]
  <2>2. m \in Cmd /\ m.op # "attach"
    BY <1>0 DEF TypeInv, TypeOK, Cmd, Ops
  <2>3. /\ UNCHANGED <<actor, askFor, client>>
        /\ cmds' = Append(cmds, m) \/ UNCHANGED cmds
    BY <2>1 DEF TimerFires, actVars
  <2> HIDE DEF m
  <2>4. CASE cmds' = Append(cmds, m)
    BY <1>0, <2>2, <2>3, <2>4, AppendKeepsWaits
  <2>5. CASE UNCHANGED cmds
    BY <1>0, <2>3, <2>5, WaitsKept
  <2> QED BY <2>3, <2>4, <2>5
<1>5. CASE /\ ~\E c \in Clients : Client(c)
           /\ ~Receive /\ ~AskDone
           /\ ~\E t \in timers : TimerFires(t)
  <2>1. UNCHANGED <<client, cmds, askFor>> /\ (actor' = "asking" => actor = "asking")
    BY <1>5 DEF Next, Actor, StopSeen, Stopped, Supervisors, Shutdown, vars, Answered, CloseNext,
                ClosedNext, OpenBegins, OpenEnds, SupStops, SupCloses, mapVars, supVars, actVars
  <2> QED BY <1>0, <2>1, WaitsKept
<1> QED BY <1>1, <1>2, <1>3, <1>4, <1>5

\* Commands and everything else, with what they do to the number of attachers.
LEMMA StepExact ==
    ASSUME Closers = {}, MapInv, CountInv, AttachWaits, FreshIsZero, CountIsExact, [Next]_vars
    PROVE  CountIsExact'
<1>0. /\ TypeInv /\ TypeInv' /\ SupervisorsAccounted /\ (stop => stop')
      /\ sessions \in [Serials -> Sups \cup {None}] /\ attached \in [Sups -> Nat]
  BY StepTypes DEF MapInv, TypeInv, TypeOK, Next, Client, Enter, SendCmd, SendAborted,
     WaitAborted, Acquired, NotAcquired, StreamEnds, SendDetach, Actor, Receive, RecvAttach,
     RecvEnsure, RecvDetach, RecvTick, RecvClose, RecvAsk, AskDone, StopSeen, Stopped, Answered,
     CloseNext, ClosedNext, Supervisors, OpenBegins, OpenEnds, SupStops, SupCloses, TimerFires, Shutdown, vars
<1>1. ASSUME NEW s \in Serials
      PROVE  /\ Owed(s) \in Nat
             /\ actor = "select" /\ sessions[s] = None => Owed(s) = 0
  BY <1>0, Countable DEF Owed, CountInv
<1>2. CASE \E c \in Clients : Client(c)
  <2>1. \A s \in Serials : ~stop => Owed(s)' = Owed(s)
    BY <1>0, <1>2, ClientKeepsCount
  <2>2. UNCHANGED <<sessions, attached, stop>>
    BY <1>2 DEF Client, Enter, SendCmd, SendAborted, WaitAborted, Acquired, NotAcquired,
                StreamEnds, SendDetach, mapVars
  <2> QED BY <2>1, <2>2 DEF CountIsExact
<1>3. CASE RecvAttach
  <2> DEFINE s0 == Head(cmds).serial
             c == Head(cmds).who
  <2>1. /\ actor = "select" /\ cmds # <<>> /\ cmds' = Tail(cmds) /\ Head(cmds).op = "attach"
        /\ UNCHANGED stop
    BY <1>3 DEF RecvAttach, Recv
  <2>2. s0 \in Serials /\ client[c].at = "waiting"
    BY <1>0, <2>1, FirstCommand DEF Cmd, AttachWaits
  <2>3. \A s \in Serials : Owed(s)' = Owed(s) + IF s = s0 THEN 1 ELSE 0
    BY <1>0, <1>3, <2>2, AttachKeepsCount
  <2>4. PICK i \in Sups : /\ EnsureSupervisor(s0, i)
                          /\ attached' = [attached EXCEPT ![i] = @ + 1]
    BY <1>3 DEF RecvAttach
  <2> HIDE DEF s0, c
  <2>5. /\ sessions'[s0] = i /\ attached[i] \in Nat /\ attached'[i] = attached[i] + 1
        /\ \A s \in Serials \ {s0} : sessions'[s] = sessions[s]
        /\ sessions[s0] = None => attached[i] = 0 /\ \A s \in Serials : sessions[s] # i
        /\ sessions[s0] # None => sessions[s0] = i
    BY <1>0, <2>2, <2>4 DEF EnsureSupervisor, FreshIsZero, SupervisorsAccounted, Mapped
  <2>6. \A s \in Serials \ {s0} : sessions[s] # None =>
            sessions[s] # i /\ attached'[sessions[s]] = attached[sessions[s]]
    BY <1>0, <2>2, <2>4, <2>5 DEF SupervisorsAccounted
  <2>7. ~stop => attached[i] = Owed(s0)
    BY <1>1, <2>1, <2>2, <2>5 DEF CountIsExact
  <2>8. ASSUME NEW s \in Serials, ~stop', sessions'[s] # None
        PROVE  attached'[sessions'[s]] = Owed(s)'
    <3>1. CASE s = s0
      BY <2>1, <2>3, <2>5, <2>7, <2>8, <3>1
    <3>2. CASE s # s0
      <4>1. Owed(s)' = Owed(s) /\ attached[sessions[s]] = Owed(s)
        BY <1>1, <2>1, <2>3, <2>5, <2>8, <3>2 DEF CountIsExact
      <4> QED BY <2>5, <2>6, <2>8, <3>2, <4>1
    <3> QED BY <3>1, <3>2
  <2> QED BY <2>8 DEF CountIsExact
<1>4. CASE RecvEnsure
  <2> DEFINE s0 == Head(cmds).serial
             c == Head(cmds).who
  <2>1. /\ actor = "select" /\ cmds # <<>> /\ cmds' = Tail(cmds) /\ Head(cmds).op = "ensure"
        /\ UNCHANGED <<attached, stop>>
    BY <1>4 DEF RecvEnsure, Recv
  <2>2. s0 \in Serials /\ c \in Clients \ Attachers
    BY <1>0, <2>1, FirstCommand, Callers DEF Cmd, Answers
  <2>3. PICK i \in Sups : EnsureSupervisor(s0, i) /\ Reply(c, "acquiring", i)
    BY <1>4 DEF RecvEnsure
  <2>4. \A d \in Attachers : client'[d] = client[d]
    BY <1>0, <2>2, <2>3 DEF Reply, TypeInv, TypeOK, Clients
  <2>5. \A s \in Serials : Owed(s)' = Owed(s)
    BY <1>0, <2>1, <2>4, DetachesKept DEF Owed, Holders, Holds
  <2> HIDE DEF s0, c
  <2>6. /\ \A s \in Serials \ {s0} : sessions'[s] = sessions[s]
        /\ sessions[s0] # None => sessions'[s0] = sessions[s0]
        /\ sessions[s0] = None => sessions'[s0] = i /\ attached[i] = 0
    BY <1>0, <2>2, <2>3 DEF EnsureSupervisor, FreshIsZero
  <2> QED BY <1>1, <2>1, <2>2, <2>5, <2>6 DEF CountIsExact
<1>5. CASE RecvDetach
  <2> DEFINE s0 == Head(cmds).serial
             i == sessions[s0]
  <2>1. /\ actor = "select" /\ cmds # <<>> /\ cmds' = Tail(cmds) /\ UNCHANGED <<sessions, stop>>
    BY <1>5 DEF RecvDetach, Recv
  <2>2. s0 \in Serials
    BY <1>0, <2>1, FirstCommand DEF Cmd
  <2>3. \A s \in Serials : Owed(s)' = Owed(s) - IF s = s0 THEN 1 ELSE 0
    BY <1>0, <1>5, DetachKeepsCount
  <2>4. \A s \in Serials : Owed(s)' \in Nat
    BY <1>0, CountableNext DEF Owed
  <2>5. IF i = None THEN UNCHANGED attached
                    ELSE attached' = [attached EXCEPT ![i] = IF @ > 0 THEN @ - 1 ELSE 0]
    BY <1>5 DEF RecvDetach
  <2> HIDE DEF s0
  <2>6. Owed(s0) > 0
    BY <1>1, <2>2, <2>3, <2>4
  <2>7. i # None /\ ~stop => attached'[i] = attached[i] - 1
    BY <1>0, <2>2, <2>5, <2>6 DEF CountIsExact
  <2>8. \A s \in Serials \ {s0} : sessions[s] # None =>
            attached'[sessions[s]] = attached[sessions[s]]
    BY <1>0, <2>2, <2>5 DEF SupervisorsAccounted
  <2>9. ASSUME NEW s \in Serials, ~stop', sessions'[s] # None
        PROVE  attached'[sessions'[s]] = Owed(s)'
    <3>1. attached[sessions[s]] = Owed(s) /\ Owed(s) \in Nat
      BY <1>1, <2>1, <2>9 DEF CountIsExact
    <3>2. CASE s = s0
      BY <2>1, <2>3, <2>7, <2>9, <3>1, <3>2
    <3>3. CASE s # s0
      BY <2>1, <2>3, <2>8, <2>9, <3>1, <3>3
    <3> QED BY <3>2, <3>3
  <2> QED BY <2>9 DEF CountIsExact
<1>6. CASE RecvTick \/ RecvAsk
  <2>1. /\ actor = "select" /\ cmds # <<>> /\ cmds' = Tail(cmds) /\ Head(cmds).op # "detach"
        /\ UNCHANGED <<attached, client, stop>>
    BY <1>6 DEF RecvTick, RecvAsk, Recv, mapVars
  <2>2. \A s \in Serials : Owed(s)' = Owed(s)
    BY <1>0, <2>1, DetachesKept DEF Owed, Holders, Holds
  <2>3. Head(cmds).serial \in Serials
    BY <1>0, <2>1, FirstCommand DEF Cmd
  <2>4. \A s \in Serials : sessions'[s] \in {sessions[s], None}
    BY <1>0, <1>6, <2>3 DEF RecvTick, RecvAsk, Drop, mapVars
  <2> QED BY <2>1, <2>2, <2>4 DEF CountIsExact
<1>7. CASE RecvClose
  <2>1. cmds # <<>> /\ cmds' = Tail(cmds) /\ Head(cmds).op = "close"
    BY <1>7 DEF RecvClose, Recv
  <2> QED BY <1>0, <2>1, FirstCommand, Callers DEF Answers
<1>8. CASE \/ AskDone \/ StopSeen \/ Stopped \/ Supervisors \/ Shutdown \/ UNCHANGED vars
           \/ \E i \in Sups : Answered(i) \/ CloseNext(i) \/ ClosedNext(i)
           \/ \E t \in timers : TimerFires(t)
  <2>1. \A s \in Serials : Owed(s)' = Owed(s)
    BY <1>0, <1>8, OtherKeepsCount
  <2>2. UNCHANGED attached /\ \A s \in Serials : sessions'[s] \in {sessions[s], None}
    BY <1>0, <1>8 DEF AskDone, StopSeen, Stopped, Supervisors, Shutdown, vars, Answered, CloseNext,
       ClosedNext, OpenBegins, OpenEnds, SupStops, SupCloses, TimerFires, mapVars
  <2> QED BY <1>0, <2>1, <2>2 DEF CountIsExact
<1> QED BY <1>2, <1>3, <1>4, <1>5, <1>6, <1>7, <1>8 DEF Next, Actor, Receive

\* session_manager.go: until the shutdown, attached is the number of those who
\* hold the supervisor and of the detaches still in the queue, neither more (it
\* would never be collected) nor less (it would be taken away), however attaches,
\* ticks and detaches interleave; the abandoned wait for a reply is the one leak
\* there is, and Close(serial), which no server code calls, the one theft.
THEOREM AttachCountIsExact ==
    ASSUME Closers = {}, ~MayAbandon PROVE Spec => []CountIsExact
<1>1. Init => AttachWaits /\ FreshIsZero /\ CountIsExact
  BY DEF Init, AttachWaits, FreshIsZero, CountIsExact
<1>2. Init => MapInv /\ CountInv
  BY InitMap, InitCount
<1>3. MapInv /\ CountInv /\ AttachWaits /\ FreshIsZero /\ CountIsExact /\ [Next]_vars
        => MapInv' /\ CountInv' /\ AttachWaits' /\ FreshIsZero' /\ CountIsExact'
  BY StepMap, StepCount, StepFresh, StepWaits, StepExact
<1> QED BY <1>1, <1>2, <1>3, PTL DEF Spec

-----------------------------------------------------------------------------
(* The tick of an idle supervisor.                                         *)

IsTick(m, s, g) == m.op = "tick" /\ m.serial = s /\ m.gen = g

Due(s, g) == \/ \E t \in timers : t.serial = s /\ t.gen = g
             \/ \E k \in 1..Len(cmds) : IsTick(cmds[k], s, g)

\* Until the shutdown a supervisor in the map that counts nobody has a timer or
\* a tick in the queue, and one of its present generation, which collects it.
IdleHasTick ==
    ~stop => \A s \in Serials :
        sessions[s] # None /\ attached[sessions[s]] = 0 => Due(s, idleGen[sessions[s]])

\* A tick is due as long as its timer runs and it stays in the queue.
LEMMA DueKept ==
    ASSUME TypeInv, NEW s \in Serials, NEW n \in Nat, Due(s, n),
           timers \subseteq timers',
           \/ UNCHANGED cmds
           \/ \E m \in Cmd : cmds' = Append(cmds, m)
           \/ cmds # <<>> /\ cmds' = Tail(cmds) /\ ~IsTick(Head(cmds), s, n)
    PROVE  Due(s, n)'
<1>1. CASE \E t \in timers : t.serial = s /\ t.gen = n
  BY <1>1 DEF Due
<1>2. ASSUME NEW k \in 1..Len(cmds), IsTick(cmds[k], s, n) PROVE Due(s, n)'
  <2>1. CASE UNCHANGED cmds
    BY <1>2, <2>1 DEF Due
  <2>2. CASE \E m \in Cmd : cmds' = Append(cmds, m)
    BY <1>2, <2>2, LastCommand DEF Due
  <2>3. CASE cmds # <<>> /\ cmds' = Tail(cmds) /\ ~IsTick(Head(cmds), s, n)
    <3>1. k # 1 /\ k \in Nat /\ Len(cmds) \in Nat /\ Len(cmds') = Len(cmds) - 1
      BY <1>2, <2>3, FirstCommand, LenProperties DEF TypeInv, TypeOK
    <3>2. k - 1 \in 1..Len(cmds') /\ (k - 1) + 1 = k
      BY <3>1
    <3>3. cmds'[k - 1] = cmds[k]
      BY <2>3, <3>2, FirstCommand
    <3> QED BY <1>2, <3>2, <3>3 DEF Due
  <2> QED BY <2>1, <2>2, <2>3
<1> QED BY <1>1, <1>2 DEF Due

\* A step that arms nothing, counts nobody off and takes no tick.
LEMMA IdleKept ==
    ASSUME MapInv, IdleHasTick, stop' = stop, timers \subseteq timers',
           UNCHANGED <<sessions, attached, idleGen>>,
           \/ UNCHANGED cmds
           \/ \E m \in Cmd : cmds' = Append(cmds, m)
           \/ cmds # <<>> /\ cmds' = Tail(cmds) /\ Head(cmds).op # "tick"
    PROVE  IdleHasTick'
<1> SUFFICES ASSUME ~stop, NEW s \in Serials, sessions[s] # None, attached[sessions[s]] = 0
             PROVE  Due(s, idleGen[sessions[s]])'
  BY DEF IdleHasTick
<1>1. TypeInv /\ idleGen[sessions[s]] \in Nat
  BY DEF MapInv, TypeInv, TypeOK
<1>2. Due(s, idleGen[sessions[s]])
  BY DEF IdleHasTick
<1> DEFINE n == idleGen[sessions[s]]
<1>3. Due(s, n)'
  <2>1. n' = n /\ n \in Nat /\ Due(s, n)
    BY <1>1, <1>2
  <2> HIDE DEF n
  <2> QED BY <1>1, <2>1, DueKept DEF IsTick, Due
<1> QED BY <1>3

\* A supervisor that counts nobody behind a command was armed by it, or was
\* there and idle already, and the command is not its tick.
LEMMA ReceiveTicks ==
    ASSUME MapInv, Receive, NEW s \in Serials,
           sessions'[s] # None, attached'[sessions'[s]] = 0
    PROVE  \/ ArmIdle(s, sessions'[s]) /\ sessions'[s] \in Sups
           \/ /\ sessions'[s] = sessions[s] /\ attached[sessions[s]] = 0
              /\ idleGen'[sessions[s]] = idleGen[sessions[s]] /\ timers \subseteq timers'
              /\ ~IsTick(Head(cmds), s, idleGen[sessions[s]])
<1> DEFINE s0 == Head(cmds).serial
<1>0. TypeInv /\ SupervisorsAccounted
  BY DEF MapInv
<1>1. cmds # <<>> /\ cmds' = Tail(cmds)
  BY DEF Receive, RecvAttach, RecvEnsure, RecvDetach, RecvTick, RecvClose, RecvAsk, Recv
<1>2. s0 \in Serials
  BY <1>0, <1>1, FirstCommand DEF Cmd
<1>3. /\ sessions \in [Serials -> Sups \cup {None}] /\ attached \in [Sups -> Nat]
      /\ idleGen \in [Sups -> Nat]
  BY <1>0 DEF TypeInv, TypeOK
<1>4. ASSUME NEW i \in Sups, EnsureSupervisor(s0, i)
      PROVE  /\ sessions'[s0] = i
             /\ \A t \in Serials \ {s0} : sessions'[t] = sessions[t] /\ sessions[t] # i
  <2>1. CASE sessions[s0] # None
    BY <1>0, <1>2, <1>4, <2>1 DEF EnsureSupervisor, SupervisorsAccounted
  <2>2. CASE sessions[s0] = None
    <3>1. \A t \in Serials : sessions[t] # i
      BY <1>0, <1>4, <2>2 DEF EnsureSupervisor, SupervisorsAccounted, Mapped
    <3> QED BY <1>2, <1>3, <1>4, <2>2, <3>1 DEF EnsureSupervisor
  <2> QED BY <2>1, <2>2
<1>5. ASSUME NEW i \in Sups, ArmIdle(s0, i)
      PROVE  timers \subseteq timers' /\ \A j \in Sups \ {i} : idleGen'[j] = idleGen[j]
  BY <1>3, <1>5 DEF ArmIdle
<1>6. ASSUME Loses(s0)
      PROVE  sessions'[s0] = None /\ \A t \in Serials \ {s0} : sessions'[t] = sessions[t]
  BY <1>2, <1>3, <1>6 DEF Loses, Drop
<1> USE DEF IsTick
<1>7. CASE RecvAttach
  <2>1. PICK i \in Sups :
          /\ EnsureSupervisor(s0, i) /\ attached' = [attached EXCEPT ![i] = @ + 1]
          /\ idleGen' = [idleGen EXCEPT ![i] = @ + 1]
    BY <1>7 DEF RecvAttach
  <2>2. attached'[i] # 0
    BY <1>3, <2>1
  <2>3. s # s0 /\ sessions'[s] = sessions[s] /\ sessions[s] # i /\ sessions[s] \in Sups
    BY <1>2, <1>3, <1>4, <2>1, <2>2
  <2>4. Head(cmds).op # "tick" /\ timers \subseteq timers'
    BY <1>7 DEF RecvAttach, Recv
  <2> QED BY <1>3, <2>1, <2>3, <2>4
<1>8. CASE RecvEnsure
  <2>1. PICK i \in Sups :
          /\ EnsureSupervisor(s0, i)
          /\ IF attached[i] = 0 THEN ArmIdle(s0, i) ELSE UNCHANGED <<idleGen, timers>>
    BY <1>8 DEF RecvEnsure
  <2>2. Head(cmds).op # "tick" /\ UNCHANGED attached
    BY <1>8 DEF RecvEnsure, Recv
  <2>3. CASE s = s0
    BY <1>4, <2>1, <2>2, <2>3
  <2>4. CASE s # s0
    BY <1>3, <1>4, <1>5, <2>1, <2>2, <2>4
  <2> QED BY <2>3, <2>4
<1>9. CASE RecvDetach
  <2> DEFINE i == sessions[s0]
  <2>1. Head(cmds).op # "tick" /\ UNCHANGED sessions
    BY <1>9 DEF RecvDetach, Recv
  <2>2. IF i = None
        THEN UNCHANGED <<attached, idleGen, timers>>
        ELSE /\ attached' = [attached EXCEPT ![i] = IF @ > 0 THEN @ - 1 ELSE 0]
             /\ IF attached[i] <= 1 THEN ArmIdle(s0, i) ELSE UNCHANGED <<idleGen, timers>>
    BY <1>9 DEF RecvDetach
  <2>3. CASE s = s0
    BY <1>3, <2>1, <2>2, <2>3
  <2>4. CASE s # s0
    <3>1. sessions[s] \in Sups /\ i # sessions[s] /\ (i # None => i \in Sups)
      BY <1>0, <1>2, <1>3, <2>1, <2>4 DEF SupervisorsAccounted
    <3> QED BY <1>3, <1>5, <2>1, <2>2, <2>4, <3>1
  <2> QED BY <2>3, <2>4
<1>10. CASE RecvTick
  <2>1. UNCHANGED <<attached, idleGen, timers>>
    BY <1>10 DEF RecvTick
  <2>2. \/ Loses(s0)
        \/ /\ UNCHANGED sessions
           /\ ~(sessions[s0] # None /\ attached[sessions[s0]] = 0
                /\ idleGen[sessions[s0]] = Head(cmds).gen)
    BY <1>10 DEF RecvTick, Loses
  <2> QED BY <1>2, <1>6, <2>1, <2>2
<1>11. CASE RecvClose
  <2>1. Head(cmds).op # "tick" /\ UNCHANGED <<attached, idleGen, timers>>
    BY <1>11 DEF RecvClose, Recv
  <2>2. Loses(s0) \/ UNCHANGED sessions
    BY <1>11 DEF RecvClose, Loses
  <2> QED BY <1>2, <1>6, <2>1, <2>2
<1>12. CASE RecvAsk
  BY <1>12 DEF RecvAsk, Recv, mapVars
<1> QED BY <1>7, <1>8, <1>9, <1>10, <1>11, <1>12 DEF Receive

LEMMA ReceiveKeepsIdle == ASSUME MapInv, IdleHasTick, Receive PROVE IdleHasTick'
<1>0. TypeInv /\ cmds # <<>> /\ cmds' = Tail(cmds) /\ UNCHANGED stop
  BY DEF MapInv, Receive, RecvAttach, RecvEnsure, RecvDetach, RecvTick, RecvClose, RecvAsk, Recv
<1> SUFFICES ASSUME ~stop, NEW s \in Serials, sessions'[s] # None, attached'[sessions'[s]] = 0
             PROVE  Due(s, idleGen[sessions[s]])'
  BY <1>0 DEF IdleHasTick
<1>1. CASE ArmIdle(s, sessions'[s]) /\ sessions'[s] \in Sups
  <2> DEFINE t == [serial |-> s, gen |-> idleGen[sessions'[s]] + 1, of |-> sessions'[s]]
  <2>1. t \in timers' /\ t.serial = s /\ t.gen = idleGen'[sessions'[s]]
    BY <1>0, <1>1 DEF ArmIdle, TypeInv, TypeOK
  <2> QED BY <2>1 DEF Due
<1>2. CASE /\ sessions'[s] = sessions[s] /\ attached[sessions[s]] = 0
           /\ idleGen'[sessions[s]] = idleGen[sessions[s]] /\ timers \subseteq timers'
           /\ ~IsTick(Head(cmds), s, idleGen[sessions[s]])
  <2> DEFINE n == idleGen[sessions[s]]
  <2>1. Due(s, n) /\ n \in Nat /\ n' = n
    BY <1>0, <1>2 DEF IdleHasTick, TypeInv, TypeOK
  <2>2. ~IsTick(Head(cmds), s, n)
    BY <1>2
  <2> HIDE DEF n
  <2>3. Due(s, n)'
    BY <1>0, <1>2, <2>1, <2>2, DueKept DEF Due
  <2> QED BY <2>3 DEF n
<1> QED BY <1>1, <1>2, ReceiveTicks

\* The tick of a timer takes its place in the queue.
LEMMA TimerKeepsIdle ==
    ASSUME MapInv, IdleHasTick, NEW t \in timers, TimerFires(t)
    PROVE  IdleHasTick'
<1> SUFFICES ASSUME ~stop, NEW s \in Serials, sessions[s] # None, attached[sessions[s]] = 0
             PROVE  Due(s, idleGen[sessions[s]])'
  BY DEF IdleHasTick, TimerFires
<1> DEFINE m == [op |-> "tick", serial |-> t.serial, who |-> None, gen |-> t.gen]
           n == idleGen[sessions[s]]
<1>1. TypeInv /\ t.serial \in Serials /\ t.gen \in Nat
  BY DEF MapInv, TypeInv, TypeOK
<1>2. m \in Cmd /\ m.op = "tick" /\ m.serial = t.serial /\ m.gen = t.gen
  BY <1>1 DEF Cmd, Ops
<1>3. cmds' = Append(cmds, m) /\ timers' = timers \ {t} /\ n' = n
  BY DEF TimerFires
<1>4. Due(s, n)
  BY DEF IdleHasTick
<1> HIDE DEF m, n
<1>5. CASE t.serial = s /\ t.gen = n
  <2>1. Len(cmds) + 1 \in 1..Len(cmds') /\ cmds'[Len(cmds) + 1] = m
    BY <1>1, <1>2, <1>3, LastCommand
  <2> QED BY <1>2, <1>3, <1>5, <2>1 DEF Due, IsTick, n
<1>6. ASSUME NEW u \in timers, u # t, u.serial = s, u.gen = n PROVE Due(s, n)'
  BY <1>3, <1>6 DEF Due
<1>7. ASSUME NEW k \in 1..Len(cmds), IsTick(cmds[k], s, n) PROVE Due(s, n)'
  BY <1>1, <1>2, <1>3, <1>7, LastCommand DEF Due
<1>8. Due(s, n)'
  BY <1>3, <1>4, <1>5, <1>6, <1>7 DEF Due, n
<1> QED BY <1>8 DEF n

\* session_manager.go:25: until the shutdown every supervisor that counts nobody
\* has the tick on its way that collects it, whatever attaches, late ticks and
\* closes come in between.
THEOREM IdleIsTimed == Spec => []IdleHasTick
<1>1. Init => IdleHasTick
  BY DEF Init, IdleHasTick
<1>2. ASSUME MapInv, IdleHasTick, [Next]_vars PROVE IdleHasTick'
  <2>0. TypeInv
    BY <1>2 DEF MapInv
  <2>1. ASSUME NEW c \in Clients, Client(c) PROVE IdleHasTick'
    <3>1. UNCHANGED <<sessions, attached, idleGen, timers, stop>>
      BY <2>1 DEF Client, Enter, SendCmd, SendAborted, WaitAborted, Acquired, NotAcquired,
                  StreamEnds, SendDetach, mapVars
    <3>2. UNCHANGED cmds \/ \E m \in Cmd : cmds' = Append(cmds, m)
      <4>1. client[c] \in Calling
        BY <2>0 DEF TypeInv, TypeOK, Calling
      <4>2. /\ [op |-> client[c].op, serial |-> client[c].serial, who |-> c, gen |-> 0] \in Cmd
            /\ [op |-> "detach", serial |-> client[c].serial, who |-> None, gen |-> 0] \in Cmd
        BY <4>1 DEF Calling, Cmd, Ops
      <4> QED BY <2>1, <4>2 DEF Client, Enter, SendCmd, SendAborted, WaitAborted, Acquired,
                                NotAcquired, StreamEnds, SendDetach
    <3> QED BY <1>2, <3>1, <3>2, IdleKept
  <2>2. CASE StopSeen
    BY <1>2, <2>2 DEF StopSeen, IdleHasTick
  <2>3. CASE Shutdown
    BY <2>3 DEF Shutdown, IdleHasTick
  <2>4. CASE \/ AskDone \/ Stopped \/ Supervisors \/ UNCHANGED vars
             \/ \E i \in Sups : Answered(i) \/ CloseNext(i) \/ ClosedNext(i)
    <3>1. UNCHANGED <<sessions, attached, idleGen, timers, stop, cmds>>
      BY <2>4 DEF AskDone, Stopped, Supervisors, vars, Answered, CloseNext, ClosedNext,
                  OpenBegins, OpenEnds, SupStops, SupCloses, mapVars
    <3> QED BY <1>2, <3>1, IdleKept
  <2> QED BY <1>2, <2>1, <2>2, <2>3, <2>4, ReceiveKeepsIdle, TimerKeepsIdle DEF Next, Actor
<1> QED BY <1>1, <1>2, InitMap, StepMap, PTL DEF Spec

-----------------------------------------------------------------------------
(* The manager and the lives of its supervisors.                           *)

\* A step that leaves sup[j] and whether j is busy as they are.
LEMMA LifeStays ==
    ASSUME NEW j \in Sups, sup'[j] = sup[j], j \in busy' <=> j \in busy
    PROVE  [Life(j)!Next]_(Life(j)!vars)
BY DEF Life!vars

LEMMA StepLives ==
    ASSUME MapInv, [Next]_vars, NEW j \in Sups
    PROVE  [Life(j)!Next]_(Life(j)!vars)
<1>0. /\ TypeInv /\ \A i \in Mapped : sup[i] = "up"
      /\ sup \in [Sups -> {"none", "up", "closing", "ending", "closed"}]
      /\ sessions \in [Serials -> Sups \cup {None}]
  BY DEF MapInv, TypeInv, TypeOK, SupervisorsAccounted
<1>1. CASE UNCHANGED supVars
  BY <1>1, LifeStays DEF supVars
<1>2. CASE Receive
  <2>1. UNCHANGED busy /\ (\/ UNCHANGED <<sessions, sup>>
                           \/ \E s \in Serials, i \in Sups : Gains(s, i)
                           \/ \E s \in Serials : Loses(s))
    BY <1>0, <1>2, ReceiveMaps
  <2>2. CASE UNCHANGED <<sessions, sup>>
    BY <2>1, <2>2, LifeStays
  <2>3. ASSUME NEW s \in Serials, NEW i \in Sups, Gains(s, i)
        PROVE  [Life(j)!Next]_(Life(j)!vars)
    <3>1. CASE i = j
      <4>1. Life(j)!Made
        BY <1>0, <2>1, <2>3, <3>1 DEF Gains, Life!Made
      <4> QED BY <4>1 DEF Life!Next
    <3>2. CASE i # j
      BY <1>0, <2>1, <2>3, <3>2, LifeStays DEF Gains
    <3> QED BY <3>1, <3>2
  <2>4. ASSUME NEW s \in Serials, Loses(s)
        PROVE  [Life(j)!Next]_(Life(j)!vars)
    <3>1. CASE sessions[s] = j
      <4>1. sup[j] = "up" /\ sup'[j] = "closing"
        BY <1>0, <2>4, <3>1 DEF Loses, Drop, Mapped
      <4>2. Life(j)!Close
        BY <2>1, <4>1 DEF Life!Close
      <4> QED BY <4>2 DEF Life!Next
    <3>2. CASE sessions[s] # j
      BY <1>0, <2>1, <2>4, <3>2, LifeStays DEF Loses, Drop
    <3> QED BY <3>1, <3>2
  <2> QED BY <2>1, <2>2, <2>3, <2>4
<1>3. ASSUME NEW i \in Sups, CloseNext(i)
      PROVE  [Life(j)!Next]_(Life(j)!vars)
  <2>1. CASE i = j
    <3>1. Life(j)!Close
      BY <1>0, <1>3, <2>1 DEF CloseNext, Life!Close
    <3> QED BY <3>1 DEF Life!Next
  <2>2. CASE i # j
    BY <1>0, <1>3, <2>2, LifeStays DEF CloseNext
  <2> QED BY <2>1, <2>2
<1>4. ASSUME NEW i \in Sups, OpenBegins(i) \/ OpenEnds(i) \/ SupStops(i) \/ SupCloses(i)
      PROVE  [Life(j)!Next]_(Life(j)!vars)
  <2>1. CASE i = j
    <3>1. OpenBegins(i) => Life(j)!Open
      BY <1>0, <2>1 DEF OpenBegins, Life!Open
    <3>2. OpenEnds(i) => Life(j)!OpenReturns
      BY <1>0, <2>1 DEF OpenEnds, Life!OpenReturns
    <3>3. SupStops(i) => Life(j)!StopSeen
      BY <1>0, <2>1 DEF SupStops, Life!StopSeen
    <3>4. SupCloses(i) => Life(j)!End
      BY <1>0, <2>1 DEF SupCloses, Life!End
    <3> QED BY <1>4, <3>1, <3>2, <3>3, <3>4 DEF Life!Next, Life!Own
  <2>2. CASE i # j
    BY <1>0, <1>4, <2>2, LifeStays DEF OpenBegins, OpenEnds, SupStops, SupCloses
  <2> QED BY <2>1, <2>2
<1>5. CASE \/ \E c \in Clients : Client(c)
           \/ \E t \in timers : TimerFires(t)
           \/ Shutdown \/ AskDone \/ StopSeen \/ Stopped \/ UNCHANGED vars
           \/ \E i \in Sups : Answered(i) \/ ClosedNext(i)
  <2>1. UNCHANGED supVars
    BY <1>5 DEF Client, Enter, SendCmd, SendAborted, WaitAborted, Acquired, NotAcquired,
                StreamEnds, SendDetach, TimerFires, Shutdown, AskDone, StopSeen, Stopped,
                Answered, ClosedNext, vars
  <2> QED BY <1>1, <2>1
<1> QED BY <1>2, <1>3, <1>4, <1>5 DEF Next, Actor, Supervisors

\* The manager makes each supervisor once and asks it once to close, and what it
\* sees of it in between is what SupervisorImplementsLife proves of run().
THEOREM ManagerKeepsLives == Spec => KeepsLives
<1>1. Init => \A i \in Sups : Life(i)!Init
  BY DEF Init, Life!Init
<1> DEFINE A == \A i \in Sups : [Life(i)!Next]_(Life(i)!vars)
<1>2. MapInv /\ [Next]_vars => A
  BY StepLives
<1>3. MapInv /\ [Next]_vars => [A]_vars
  BY <1>2
<1> HIDE DEF A
<1>4. Spec => [][A]_vars
  BY <1>3, InitMap, StepMap, PTL DEF Spec
<1>5. Spec => Init
  BY DEF Spec
<1> QED BY <1>1, <1>4, <1>5 DEF A, KeepsLives

\* Nothing that a supervisor may do of its own is missing from the manager's
\* environment: whenever it may open, return from an open, see that it is closed or
\* end, that is a step of SessionManager.
THEOREM EveryLifeIsAllowed ==
    ASSUME TypeOK, TypeOK', NEW i \in Sups, Life(i)!Own,
           \A j \in Sups \ {i} : sup'[j] = sup[j] /\ (j \in busy' <=> j \in busy),
           UNCHANGED <<mapVars, cmds, actVars, stop, client>>
    PROVE  Supervisors
<1>1. /\ sup \in [Sups -> {"none", "up", "closing", "ending", "closed"}] /\ busy \subseteq Sups
      /\ sup' \in [Sups -> {"none", "up", "closing", "ending", "closed"}] /\ busy' \subseteq Sups
  BY DEF TypeOK
<1>2. CASE Life(i)!Open
  <2>1. sup[i] \in {"up", "closing"} /\ i \notin busy /\ sup'[i] = sup[i] /\ i \in busy'
    BY <1>2 DEF Life!Open
  <2>2. sup' = sup /\ busy' = busy \cup {i}
    BY <1>1, <2>1
  <2> QED BY <2>1, <2>2 DEF Supervisors, OpenBegins
<1>3. CASE Life(i)!OpenReturns
  <2>1. i \in busy /\ sup'[i] = sup[i] /\ i \notin busy'
    BY <1>3 DEF Life!OpenReturns
  <2>2. sup' = sup /\ busy' = busy \ {i}
    BY <1>1, <2>1
  <2> QED BY <2>1, <2>2 DEF Supervisors, OpenEnds
<1>4. CASE Life(i)!StopSeen
  <2>1. sup[i] = "closing" /\ i \notin busy /\ sup'[i] = "ending" /\ i \notin busy'
    BY <1>4 DEF Life!StopSeen
  <2>2. sup' = [sup EXCEPT ![i] = "ending"] /\ busy' = busy
    BY <1>1, <2>1
  <2> QED BY <2>1, <2>2 DEF Supervisors, SupStops
<1>5. CASE Life(i)!End
  <2>1. sup[i] = "ending" /\ sup'[i] = "closed" /\ (i \in busy' <=> i \in busy)
    BY <1>5 DEF Life!End
  <2>2. sup' = [sup EXCEPT ![i] = "closed"] /\ busy' = busy
    BY <1>1, <2>1
  <2> QED BY <2>1, <2>2 DEF Supervisors, SupCloses
<1> QED BY <1>2, <1>3, <1>4, <1>5 DEF Life!Own

=============================================================================
