--------------------------- MODULE SessionProofs ---------------------------
(***************************************************************************)
(* Safety of one session for any number of Close, SendControl and          *)
(* Subscribe calls.                                                        *)
(***************************************************************************)
EXTENDS Session, FiniteSetTheorems, TLAPS

\* What OpenSession holds when it is at each of its steps.
HeldAt == [jar     |-> {},
           push    |-> {"jar"},
           listen  |-> {"jar"},
           reverse |-> {"jar", "listener"},
           server  |-> {"jar", "listener", "reverse"},
           video   |-> {"jar", "listener", "reverse", "process"},
           control |-> {"jar", "listener", "reverse", "process", "video"},
           meta    |-> {"jar", "listener", "reverse", "process", "video", "control"}]

OpenInv ==
    /\ phase \in Steps => held = HeldAt[phase]
    /\ phase = "error" => held = {}
    /\ phase # "up" => pump = "none" /\ state = "starting"
    /\ phase = "up" => pump # "none" /\ state # "starting"

\* The lifecycle word, the done channel and the pump.
LifeInv ==
    /\ state = "dead" <=> pump \in {"marked", "exited"}
    /\ done => pump = "exited"
    /\ mapsLive <=> pump \in {"none", "reading", "ended"}
    /\ owner # None => state \in {"closing", "dead"}
    /\ state = "closing" => owner # None

\* closeMu is held by exactly the call that is between its lock and its unlock.
MutexInv ==
    /\ \A c \in Closers : closer[c] \in {"check", "cas", "sockets", "rest"} <=> closeMu = c
    /\ \A d \in Senders : sender[d] \in {"check", "write"} <=> closeMu = d

\* How far the teardown is decides what is left of an opened session, and a
\* control write excludes a teardown.
TeardownInv ==
    /\ phase = "up" /\ owner = None => held = Resources
    /\ \A c \in Closers :
         /\ closer[c] # "out" => phase = "up"
         /\ closer[c] \in {"sockets", "rest"} => owner = c
         /\ owner = c => closer[c] \in {"sockets", "rest", "wait", "returned"}
         /\ owner = c /\ closer[c] = "sockets" => held = Resources
         /\ owner = c /\ closer[c] = "rest"    => held = Resources \ {"video"}
         /\ owner = c /\ closer[c] \in {"wait", "returned"} => held = {}
    /\ \A d \in Senders :
         /\ sender[d] # "out" => phase = "up"
         /\ sender[d] = "write" => owner = None

\* A subscriber is in a map with an open channel, or was and saw it closed
\* once, or never got one.
SubInv ==
    /\ ~mapsLive => subs = {} /\ rawSubs = {}
    /\ \A x \in Subscribers :
         /\ x \in subs \cup rawSubs => sub[x] = "on" /\ closes[x] = 0
         /\ sub[x] = "on" /\ x \notin subs \cup rawSubs => closes[x] = 1
         /\ sub[x] # "on" => closes[x] = 0

IInv == TypeOK /\ OpenInv /\ LifeInv /\ MutexInv /\ TeardownInv /\ SubInv /\ GaugeExact

-----------------------------------------------------------------------------
LEMMA InitIInv == Init => IInv
<1> SUFFICES ASSUME Init PROVE IInv
  OBVIOUS
<1> USE SessionAssumption DEF Init
<1>1. TypeOK
  <2>1. closes \in [Subscribers -> Nat] /\ gauge \in Int
    OBVIOUS
  <2>2. /\ closer \in [Closers -> {"out", "lock", "check", "cas", "sockets", "rest",
                                   "wait", "returned"}]
        /\ sender \in [Senders -> {"out", "lock", "check", "write"}]
        /\ sub \in [Subscribers -> {"out", "checked", "on", "refused"}]
    OBVIOUS
  <2> QED BY <2>1, <2>2 DEF TypeOK, Steps
<1>2. OpenInv
  BY DEF OpenInv, HeldAt
<1>3. LifeInv /\ MutexInv
  BY DEF LifeInv, MutexInv
<1>4. TeardownInv
  BY DEF TeardownInv
<1>5. SubInv
  BY DEF SubInv
<1>6. GaugeExact
  BY FS_EmptySet DEF GaugeExact
<1> QED BY <1>1, <1>2, <1>3, <1>4, <1>5, <1>6 DEF IInv

\* Each step of OpenSession that succeeds leaves exactly what the next one
\* expects, and the rollback of each gives back exactly what exists there.
LEMMA OpenKeepsIInv ==
    ASSUME IInv, Open
    PROVE  IInv'
<1> USE SessionAssumption
<1>0. /\ UNCHANGED <<done, callVars, subVars>>
      /\ phase \in Steps
  BY DEF Open, StepSucceeds, StepFails, lifeVars
<1>1. CASE StepSucceeds
  <2>0. held = HeldAt[phase] /\ held' = held \cup Gains[phase] /\ phase' = After[phase]
    BY <1>0, <1>1 DEF StepSucceeds, IInv, OpenInv
  <2>1. held' \subseteq Resources /\ phase' \in Steps \cup {"up", "error"}
    BY <1>0, <2>0 DEF Steps, Gains, After, Resources, HeldAt
  <2>a. phase = "meta" => phase' = "up" /\ held' = Resources
    BY <2>0 DEF Gains, After, Resources, HeldAt
  <2>b. phase # "meta" => phase' \in Steps
    BY <1>0, <2>0 DEF Steps, After
  <2>c. phase # "meta" => held' = HeldAt[phase']
    BY <1>0, <2>0 DEF Steps, Gains, After, HeldAt
  <2>d. "up" \notin Steps /\ "error" \notin Steps
    BY DEF Steps
  <2>2. /\ phase' \in Steps => held' = HeldAt[phase'] /\ pump' = pump /\ state' = state
        /\ phase' = "up" => held' = Resources /\ pump' = "reading" /\ state' = "running"
        /\ phase' # "error"
    BY <1>1, <2>a, <2>b, <2>c, <2>d DEF StepSucceeds
  <2>3. pump = "none" /\ state = "starting" /\ phase # "up"
    BY <1>0 DEF IInv, OpenInv, Steps
  <2>4. TypeOK'
    BY <1>0, <2>1, <2>2, <2>3 DEF IInv, TypeOK, callVars, subVars, Steps
  <2>5. OpenInv'
    BY <2>1, <2>2, <2>3 DEF OpenInv, Steps
  <2>6. LifeInv'
    BY <1>0, <2>1, <2>2, <2>3 DEF IInv, LifeInv, callVars, subVars
  <2>7. MutexInv' /\ SubInv' /\ GaugeExact'
    BY <1>0 DEF IInv, MutexInv, SubInv, GaugeExact, callVars, subVars
  <2>8. TeardownInv'
    BY <1>0, <2>2, <2>3 DEF IInv, TypeOK, TeardownInv, callVars
  <2> QED BY <2>4, <2>5, <2>6, <2>7, <2>8 DEF IInv
<1>2. CASE StepFails
  <2>1. held' = {} /\ phase' = "error" /\ UNCHANGED lifeVars
    BY <1>2, <1>0 DEF StepFails, Steps, Rollback, Resources, HeldAt, IInv, OpenInv
  <2>2. phase # "up" /\ pump = "none" /\ state = "starting"
    BY <1>0 DEF IInv, OpenInv, Steps
  <2>3. TypeOK'
    BY <1>0, <2>1 DEF IInv, TypeOK, callVars, subVars, lifeVars
  <2>4. OpenInv' /\ LifeInv'
    BY <1>0, <2>1, <2>2 DEF IInv, OpenInv, LifeInv, callVars, subVars, lifeVars, Steps
  <2>5. MutexInv' /\ SubInv' /\ GaugeExact'
    BY <1>0 DEF IInv, MutexInv, SubInv, GaugeExact, callVars, subVars
  <2>6. TeardownInv'
    BY <1>0, <2>1, <2>2 DEF IInv, TypeOK, TeardownInv, callVars
  <2> QED BY <2>3, <2>4, <2>5, <2>6 DEF IInv
<1> QED BY <1>1, <1>2 DEF Open

\* The pump's exit.
LEMMA PumpKeepsIInv ==
    ASSUME IInv, Pump
    PROVE  IInv'
<1> USE SessionAssumption
<1>0. UNCHANGED <<openVars, callVars>>
  BY DEF Pump, PumpSeesClose, PumpFails, PumpDrains, PumpMarksDead, PumpSignals
<1>1. CASE PumpSeesClose \/ PumpFails
  <2> QED BY <1>0, <1>1 DEF PumpSeesClose, PumpFails, IInv, TypeOK, OpenInv, LifeInv, MutexInv,
                TeardownInv, SubInv, GaugeExact, openVars, callVars, subVars
<1>2. CASE PumpDrains
  <2>1. /\ subs' = {} /\ rawSubs' = {} /\ mapsLive' = FALSE
        /\ pump = "ended" /\ pump' = "drained"
        /\ UNCHANGED <<state, done, sub>>
    BY <1>2 DEF PumpDrains
  <2>2. gauge' = 0
    BY <1>2, FS_Subset, FS_CardinalityType DEF PumpDrains, IInv, GaugeExact, TypeOK
  <2>3. \A x \in Subscribers :
            closes'[x] = IF x \in subs \cup rawSubs THEN closes[x] + 1 ELSE closes[x]
    BY <1>2 DEF PumpDrains
  <2>4. closes' \in [Subscribers -> Nat]
    BY <1>2 DEF PumpDrains, IInv, TypeOK
  <2>5. SubInv'
    BY <2>1, <2>3 DEF IInv, SubInv, TypeOK
  <2>6. GaugeExact'
    BY <2>1, <2>2, FS_EmptySet DEF GaugeExact
  <2>7. TypeOK'
    <3>1. mapsLive' \in BOOLEAN /\ done' \in BOOLEAN
      BY <2>1 DEF IInv, TypeOK
    <3>2. UNCHANGED <<phase, held, closeMu, closer, owner, sender, state, sub>>
      BY <1>0, <2>1 DEF openVars, callVars
    <3>3. pump' \in {"none", "reading", "ended", "drained", "marked", "exited"}
          /\ subs' \subseteq VideoSubs /\ rawSubs' \subseteq RawSubs /\ gauge' \in Int
      BY <2>1, <2>2
    <3> QED BY <2>4, <3>1, <3>2, <3>3 DEF IInv, TypeOK
  <2>8. OpenInv' /\ LifeInv' /\ MutexInv' /\ TeardownInv'
    BY <1>0, <2>1 DEF IInv, OpenInv, LifeInv, MutexInv, TeardownInv, openVars, callVars
  <2> QED BY <2>5, <2>6, <2>7, <2>8 DEF IInv
<1>3. CASE PumpMarksDead
  <2>1. state \in {"running", "closing"}
    BY <1>3 DEF PumpMarksDead, IInv, OpenInv, LifeInv, TypeOK
  <2>2. state' = "dead" /\ pump = "drained" /\ pump' = "marked" /\ UNCHANGED <<done, subVars>>
    BY <1>3, <2>1 DEF PumpMarksDead, TransitionTo, CanTransition
  <2> QED BY <1>0, <2>1, <2>2 DEF IInv, TypeOK, OpenInv, LifeInv, MutexInv, TeardownInv,
                 SubInv, GaugeExact, openVars, callVars, subVars
<1>4. CASE PumpSignals
  <2> QED BY <1>0, <1>4 DEF PumpSignals, IInv, TypeOK, OpenInv, LifeInv, MutexInv,
                TeardownInv, SubInv, GaugeExact, openVars, callVars, subVars
<1> QED BY <1>1, <1>2, <1>3, <1>4 DEF Pump

\* Close.
LEMMA CloseKeepsIInv ==
    ASSUME IInv, NEW c \in Closers, Close(c)
    PROVE  IInv'
<1> USE SessionAssumption
<1>0. UNCHANGED <<phase, done, pump, sender, subVars>>
  BY DEF Close, CloseEnter, CloseLock, CloseCheck, CloseCas, CloseVideo, CloseRest,
         CloseReturns, openVars, lifeVars
<1>1. SubInv' /\ GaugeExact'
  BY <1>0 DEF IInv, SubInv, GaugeExact, subVars
<1>2. CASE CloseEnter(c)
  BY <1>0, <1>1, <1>2 DEF CloseEnter, Goto, IInv, TypeOK, OpenInv, LifeInv, MutexInv,
                          TeardownInv, openVars, lifeVars, subVars
<1>3. CASE CloseLock(c)
  BY <1>0, <1>1, <1>3 DEF CloseLock, Goto, IInv, TypeOK, OpenInv, LifeInv, MutexInv,
                          TeardownInv, openVars, lifeVars, subVars
<1>4. CASE CloseCheck(c)
  BY <1>0, <1>1, <1>4 DEF CloseCheck, Goto, IInv, TypeOK, OpenInv, LifeInv, MutexInv,
                          TeardownInv, openVars, lifeVars, subVars
<1>5. CASE CloseCas(c)
  <2>1. UNCHANGED held
    BY <1>5 DEF CloseCas, openVars
  <2>2. CASE CanTransition(state, "closing")
    <3>1. /\ state = "running" /\ state' = "closing" /\ owner' = c
          /\ closer' = [closer EXCEPT ![c] = "sockets"] /\ UNCHANGED closeMu
          /\ closer[c] = "cas"
      BY <1>5, <2>2 DEF CloseCas, Goto, TransitionTo, CanTransition
    <3>2. owner = None /\ held = Resources /\ phase = "up"
      BY <3>1 DEF IInv, LifeInv, TeardownInv, TypeOK
    <3>3. \A d \in Senders : sender[d] # "write"
      BY <3>1 DEF IInv, MutexInv
    <3> QED BY <1>0, <1>1, <2>1, <3>1, <3>2, <3>3 DEF IInv, TypeOK, OpenInv, LifeInv, MutexInv,
                   TeardownInv, subVars
  <2>3. CASE ~CanTransition(state, "closing")
    BY <1>0, <1>1, <1>5, <2>1, <2>3 DEF CloseCas, Goto, TransitionTo, IInv, TypeOK,
          OpenInv, LifeInv, MutexInv, TeardownInv, subVars
  <2> QED BY <2>2, <2>3
<1>6. CASE CloseVideo(c)
  <2>1. owner = c /\ held = Resources /\ held' = Resources \ {"video"} /\ phase = "up"
    BY <1>6 DEF CloseVideo, IInv, TeardownInv
  <2> QED BY <1>0, <1>1, <1>6, <2>1 DEF CloseVideo, Goto, IInv, TypeOK, OpenInv, LifeInv,
          MutexInv, TeardownInv, lifeVars, subVars, Steps
<1>7. CASE CloseRest(c)
  <2>1. owner = c /\ held' = {} /\ phase = "up"
    BY <1>7 DEF CloseRest, IInv, TeardownInv, Resources
  <2> QED BY <1>0, <1>1, <1>7, <2>1 DEF CloseRest, Goto, IInv, TypeOK, OpenInv, LifeInv,
          MutexInv, TeardownInv, lifeVars, subVars, Steps
<1>8. CASE CloseReturns(c)
  BY <1>0, <1>1, <1>8 DEF CloseReturns, Goto, IInv, TypeOK, OpenInv, LifeInv, MutexInv,
                          TeardownInv, openVars, lifeVars, subVars
<1> QED BY <1>2, <1>3, <1>4, <1>5, <1>6, <1>7, <1>8 DEF Close

\* SendControl.
LEMMA SendKeepsIInv ==
    ASSUME IInv, NEW d \in Senders, Send(d)
    PROVE  IInv'
<1> USE SessionAssumption
        DEF IInv, TypeOK, OpenInv, LifeInv, MutexInv, TeardownInv, SubInv, GaugeExact,
            SendGoto, openVars, lifeVars, subVars
<1>1. CASE SendEnter(d)
  BY <1>1 DEF SendEnter
<1>2. CASE SendLock(d)
  BY <1>2 DEF SendLock
<1>3. CASE SendCheck(d)
  BY <1>3 DEF SendCheck
<1>4. CASE SendWritten(d)
  BY <1>4 DEF SendWritten
<1> QED BY <1>1, <1>2, <1>3, <1>4 DEF Send

\* Subscribe, SubscribeRaw and cancel.
LEMMA SubscribeKeepsIInv ==
    ASSUME IInv, NEW x \in Subscribers, Subscribe(x)
    PROVE  IInv'
<1> USE SessionAssumption
<1>0. UNCHANGED <<openVars, lifeVars, callVars, mapsLive>>
  BY DEF Subscribe, SubCheck, SubRegister, Cancel
<1>1. OpenInv' /\ LifeInv' /\ MutexInv' /\ TeardownInv'
  BY <1>0 DEF IInv, OpenInv, LifeInv, MutexInv, TeardownInv, openVars, lifeVars, callVars
<1>2. IsFiniteSet(subs) /\ IsFiniteSet(rawSubs)
  BY FS_Subset DEF IInv, TypeOK
<1>3. CASE SubCheck(x)
  BY <1>0, <1>1, <1>3 DEF SubCheck, IInv, TypeOK, SubInv, GaugeExact, openVars, lifeVars,
                          callVars
<1>4. CASE SubRegister(x) /\ ~mapsLive
  BY <1>0, <1>1, <1>4 DEF SubRegister, IInv, TypeOK, SubInv, GaugeExact, openVars,
                          lifeVars, callVars
<1>5. CASE SubRegister(x) /\ mapsLive
  <2>1. x \notin subs /\ x \notin rawSubs
    BY <1>5 DEF SubRegister, IInv, SubInv
  <2>2. /\ sub' = [sub EXCEPT ![x] = "on"] /\ gauge' = gauge + 1 /\ closes' = closes
        /\ \/ x \in VideoSubs /\ subs' = subs \cup {x} /\ rawSubs' = rawSubs
           \/ x \in RawSubs /\ rawSubs' = rawSubs \cup {x} /\ subs' = subs
    BY <1>5 DEF SubRegister, Subscribers
  <2>3. GaugeExact'
    <3>1. /\ Cardinality(subs \cup {x}) = Cardinality(subs) + 1
          /\ Cardinality(rawSubs \cup {x}) = Cardinality(rawSubs) + 1
      BY <1>2, <2>1, FS_AddElement
    <3>2. gauge = Cardinality(subs) + Cardinality(rawSubs)
      BY DEF IInv, GaugeExact
    <3>3. Cardinality(subs) \in Nat /\ Cardinality(rawSubs) \in Nat
      BY <1>2, FS_CardinalityType
    <3>4. gauge' = Cardinality(subs') + Cardinality(rawSubs')
      <4>1. CASE subs' = subs \cup {x} /\ rawSubs' = rawSubs
        BY <2>2, <3>1, <3>2, <3>3, <4>1
      <4>2. CASE rawSubs' = rawSubs \cup {x} /\ subs' = subs
        BY <2>2, <3>1, <3>2, <3>3, <4>2
      <4> QED BY <2>2, <4>1, <4>2
    <3> QED BY <3>4 DEF GaugeExact
  <2>4. SubInv'
    BY <1>0, <1>5, <2>1, <2>2 DEF SubRegister, IInv, TypeOK, SubInv
  <2>5. TypeOK'
    BY <1>0, <2>2 DEF IInv, TypeOK, openVars, lifeVars, callVars
  <2> QED BY <1>1, <2>3, <2>4, <2>5 DEF IInv
<1>6. CASE Cancel(x)
  <2>1. /\ subs' = subs \ {x} /\ rawSubs' = rawSubs \ {x} /\ gauge' = gauge - 1
        /\ closes' = [closes EXCEPT ![x] = @ + 1] /\ sub' = sub /\ sub[x] = "on"
        /\ x \in subs \cup rawSubs
    BY <1>6 DEF Cancel
  <2>2. /\ gauge = Cardinality(subs) + Cardinality(rawSubs)
        /\ Cardinality(subs) \in Nat /\ Cardinality(rawSubs) \in Nat
    BY <1>2, FS_CardinalityType DEF IInv, GaugeExact
  <2>3. /\ Cardinality(subs \ {x}) = IF x \in subs THEN Cardinality(subs) - 1
                                                  ELSE Cardinality(subs)
        /\ Cardinality(rawSubs \ {x}) = IF x \in rawSubs THEN Cardinality(rawSubs) - 1
                                                        ELSE Cardinality(rawSubs)
    BY <1>2, FS_RemoveElement
  <2>4. GaugeExact'
    <3>1. ~(x \in subs /\ x \in rawSubs)
      BY DEF IInv, TypeOK
    <3>2. gauge' = Cardinality(subs') + Cardinality(rawSubs')
      BY <2>1, <2>2, <2>3, <3>1
    <3> QED BY <3>2 DEF GaugeExact
  <2>5. SubInv'
    BY <1>0, <2>1 DEF IInv, TypeOK, SubInv
  <2>6. TypeOK'
    BY <1>0, <2>1 DEF IInv, TypeOK, openVars, lifeVars, callVars
  <2> QED BY <1>1, <2>4, <2>5, <2>6 DEF IInv
<1> QED BY <1>3, <1>4, <1>5, <1>6 DEF Subscribe

LEMMA StepIInv == IInv /\ [Next]_vars => IInv'
<1> SUFFICES ASSUME IInv, [Next]_vars PROVE IInv'
  OBVIOUS
<1>1. CASE UNCHANGED vars
  BY <1>1 DEF vars, IInv, TypeOK, OpenInv, LifeInv, MutexInv, TeardownInv, SubInv,
              GaugeExact, openVars, lifeVars, callVars, subVars
<1> QED BY <1>1, OpenKeepsIInv, PumpKeepsIInv, CloseKeepsIInv, SendKeepsIInv,
           SubscribeKeepsIInv DEF Next

LEMMA Inductive == Spec => []IInv
BY InitIInv, StepIInv, PTL DEF Spec

-----------------------------------------------------------------------------
(* The safety properties of Session.                                       *)

\* An OpenSession that failed at any of its steps left nothing behind.
THEOREM RollbackComplete == Spec => []FailedOpenHoldsNothing
<1>1. IInv => FailedOpenHoldsNothing
  BY DEF IInv, OpenInv, FailedOpenHoldsNothing
<1> QED BY <1>1, Inductive, PTL

\* However pump, subscribers and context watchers race, no channel is closed
\* twice and no closed channel is broadcast to.
THEOREM ChannelsNeverPanic == Spec => []ChannelsSound
<1>1. IInv => ChannelsSound
  <2> SUFFICES ASSUME IInv PROVE ChannelsSound
    OBVIOUS
  <2>1. \A x \in Subscribers : closes[x] \in {0, 1}
    BY DEF IInv, SubInv
  <2>2. \A x \in subs \cup rawSubs : x \in Subscribers
    BY DEF IInv, TypeOK, Subscribers
  <2> QED BY <2>1, <2>2 DEF IInv, SubInv, ChannelsSound
<1> QED BY <1>1, Inductive, PTL

\* SubscribersGauge is the number of subscribers in the two maps.
THEOREM GaugeIsExact == Spec => []GaugeExact
<1>1. IInv => GaugeExact
  BY DEF IInv
<1> QED BY <1>1, Inductive, PTL

\* When Done is closed the session is dead and every subscriber has been let go.
THEOREM DoneIsDrained == Spec => []DoneMeansDrained
<1>1. IInv => DoneMeansDrained
  BY DEF IInv, LifeInv, SubInv, DoneMeansDrained
<1> QED BY <1>1, Inductive, PTL

\* A control write never loses its socket to a Close.
THEOREM WritesKeepSocket == Spec => []WriteHasSocket
<1>1. IInv => WriteHasSocket
  BY DEF IInv, TeardownInv, WriteHasSocket, Resources
<1> QED BY <1>1, Inductive, PTL

\* The state of a session and of its calls keeps its types.
THEOREM TypeCorrect == Spec => []TypeOK
<1>1. IInv => TypeOK
  BY DEF IInv
<1> QED BY <1>1, Inductive, PTL

\* The Close call that owns the teardown releases everything.
THEOREM TeardownComplete == Spec => []OwnerReleasedEverything
<1>1. IInv => OwnerReleasedEverything
  BY DEF IInv, TeardownInv, OwnerReleasedEverything
<1> QED BY <1>1, Inductive, PTL

\* The lifecycle word only moves along SessionState.CanTransition.
THEOREM LifecycleOneWay == Spec => LifecycleForward
<1>1. IInv /\ [Next]_vars => [state' # state => CanTransition(state, state')]_vars
  <2> SUFFICES ASSUME IInv, [Next]_vars, state' # state PROVE CanTransition(state, state')
    OBVIOUS
  <2>1. CASE Open
    BY <2>1 DEF Open, StepSucceeds, StepFails, lifeVars, CanTransition, IInv, OpenInv, Steps
  <2>2. CASE Pump
    BY <2>2 DEF Pump, PumpSeesClose, PumpFails, PumpDrains, PumpMarksDead, PumpSignals,
                TransitionTo
  <2>3. ASSUME NEW c \in Closers, Close(c) PROVE CanTransition(state, state')
    BY <2>3 DEF Close, CloseEnter, CloseLock, CloseCheck, CloseCas, CloseVideo, CloseRest,
                CloseReturns, TransitionTo, lifeVars
  <2>4. ASSUME NEW d \in Senders, Send(d) PROVE FALSE
    BY <2>4 DEF Send, SendEnter, SendLock, SendCheck, SendWritten, lifeVars
  <2>5. ASSUME NEW x \in Subscribers, Subscribe(x) PROVE FALSE
    BY <2>5 DEF Subscribe, SubCheck, SubRegister, Cancel, lifeVars
  <2>6. CASE UNCHANGED vars
    BY <2>6 DEF vars, lifeVars
  <2> QED BY <2>1, <2>2, <2>3, <2>4, <2>5, <2>6 DEF Next
<1> QED BY <1>1, Inductive, PTL DEF Spec, LifecycleForward
=============================================================================
