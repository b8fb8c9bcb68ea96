--------------------------- MODULE InstancesProofs ---------------------------
(***************************************************************************)
(* Two specifications, one above the other.  First the runner alone: its   *)
(* ports and processes, for any number of callers, instances and ports.    *)
(* Then the instance service, which drives the runner through Start and    *)
(* Stop alone, so what is proved of the runner holds whatever the rows     *)
(* say, for any number of requests and fan-out goroutines.                 *)
(***************************************************************************)
EXTENDS Instances, TLAPS

(***************************************************************************)
(* The emulator runner, under RunnerSpec.                                  *)
(***************************************************************************)
Starting(g) == run[g].at \in {"check", "list", "reserve"} \/ InFlight(g)
Stopping(g) == run[g].at \in {"emukill", "collect"}

\* The locals that a place of Start or Stop relies on.
LocalsInv ==
    \A g \in Tasks :
        /\ Starting(g) => run[g].name \in Names
        /\ InFlight(g) \/ Stopping(g) => run[g].port \in Ports

\* A reserved port has one user: a start, an entry or an overwritten entry.
UserInv ==
    /\ \A g \in Tasks : InFlight(g) => run[g].port \in reserved \ doubled
    /\ \A n \in Names : procs[n] # NoProc => procs[n].port \in reserved \ doubled
    /\ doubled \subseteq reserved
    /\ \A g, h \in Tasks : InFlight(g) /\ InFlight(h) /\ run[g].port = run[h].port => g = h
    /\ \A m, n \in Names : procs[n] # NoProc /\ procs[m].port = procs[n].port => m = n
    /\ \A g \in Tasks, n \in Names : InFlight(g) => run[g].port # procs[n].port

IInv == RunnerTypeOK /\ LocalsInv /\ UserInv /\ EmulatorsTracked /\ PortsExclusive /\ NoPortLost

Locals == [at : Places, name : Names \cup {None}, port : Ports \cup {None}, seen : SUBSET Ports]
Entries == [port : Ports, by : Tasks]

-----------------------------------------------------------------------------
\* An entry is one of a started emulator or it is none.
LEMMA EntryOrNone ==
    ASSUME RunnerTypeOK, NEW n \in Names
    PROVE  /\ procs[n] # NoProc => procs[n] \in Entries /\ procs[n].port \in Ports
           /\ procs[n] = NoProc => procs[n].port = None
BY RunnerAssumption DEF RunnerTypeOK, NoProc, Entries

LEMMA InitIInv == RunnerInit => IInv
<1> SUFFICES ASSUME RunnerInit PROVE IInv
  OBVIOUS
<1> USE DEF RunnerInit, Out
<1>1. RunnerTypeOK
  BY DEF RunnerTypeOK, Places, NoProc
<1>2. LocalsInv /\ UserInv
  BY DEF LocalsInv, UserInv, Starting, Stopping, InFlight
<1>3. EmulatorsTracked /\ PortsExclusive /\ NoPortLost
  BY DEF EmulatorsTracked, PortsExclusive, NoPortLost
<1> QED
  BY <1>1, <1>2, <1>3 DEF IInv

\* A task that holds no port goes somewhere else where it holds none.
LEMMA Bystander ==
    ASSUME IInv, NEW g \in Tasks, NEW r \in Locals,
           ~InFlight(g), r.at \notin {"spawn", "boot", "release", "register"},
           r.at \in {"check", "list", "reserve"} => r.name \in Names,
           r.at \in {"emukill", "collect"} => r.port \in Ports,
           run' = [run EXCEPT ![g] = r], UNCHANGED <<procs, reserved, emus, doubled>>
    PROVE  IInv'
<1> USE DEF IInv
<1>1. /\ run' \in [Tasks -> Locals] /\ run'[g] = r
      /\ \A h \in Tasks : h # g => run'[h] = run[h]
  BY DEF RunnerTypeOK, Locals
<1>2. RunnerTypeOK'
  BY <1>1 DEF RunnerTypeOK, Locals
<1>3. \A h \in Tasks : InFlight(h)' <=> InFlight(h)
  BY <1>1 DEF InFlight
<1>4. LocalsInv'
  BY <1>1, <1>3 DEF LocalsInv, Starting, Stopping, InFlight
<1>5. UserInv'
  BY <1>1, <1>3 DEF UserInv, InFlight
<1>6. EmulatorsTracked'
  BY <1>1, <1>3 DEF EmulatorsTracked, InFlight, Process, RunnerTypeOK, Processes
<1>7. PortsExclusive' /\ NoPortLost'
  BY <1>1, <1>3 DEF PortsExclusive, NoPortLost, InFlight
<1> QED
  BY <1>2, <1>4, <1>5, <1>6, <1>7

\* A step that changes nothing of the locals but the place of one task.
Moved(g, l) ==
    /\ run' \in [Tasks -> Locals] /\ run'[g].at = l
    /\ \A h \in Tasks : h # g => run'[h] = run[h]
    /\ \A h \in Tasks : run'[h].port = run[h].port /\ run'[h].name = run[h].name
    /\ \A h \in Tasks : Process(h)' = Process(h)

LEMMA GotoMoves ==
    ASSUME RunnerTypeOK, NEW g \in Tasks, NEW l \in Places, Goto(g, l)
    PROVE  Moved(g, l)
BY DEF RunnerTypeOK, Goto, Locals, Process, Moved

LEMMA StepIInv == IInv /\ [RunnerNext]_runnerVars => IInv'
<1> SUFFICES ASSUME IInv, [RunnerNext]_runnerVars PROVE IInv'
  OBVIOUS
<1> USE DEF IInv
<1>1. CASE UNCHANGED runnerVars
  BY <1>1 DEF runnerVars, RunnerTypeOK, LocalsInv, UserInv, EmulatorsTracked, PortsExclusive,
              NoPortLost, Starting, Stopping, InFlight, Process
<1>2. CASE EmulatorDies
  BY <1>2 DEF EmulatorDies, RunnerTypeOK, LocalsInv, UserInv, EmulatorsTracked, PortsExclusive,
              NoPortLost, Starting, Stopping, InFlight, Process
<1>3. ASSUME NEW g \in Tasks, NEW n \in Names, CallStart(g, n)
      PROVE  IInv'
  <2> DEFINE r == [Out EXCEPT !.at = "check", !.name = n]
  <2>1. r \in Locals /\ r.at = "check" /\ r.name = n
    BY DEF Locals, Out, Places
  <2> QED
    BY <1>3, <2>1, Bystander DEF CallStart, At, InFlight
<1>4. ASSUME NEW g \in Tasks, NEW p \in Ports \cup {None}, CallStop(g, p)
      PROVE  IInv'
  <2> DEFINE r == [Out EXCEPT !.at = IF p = None THEN "ok" ELSE "emukill", !.port = p]
  <2>1. r \in Locals /\ r.at \in {"ok", "emukill"} /\ (r.at = "emukill" => r.port \in Ports)
    BY DEF Locals, Out, Places
  <2> QED
    BY <1>4, <2>1, Bystander DEF CallStop, At, InFlight
<1>5. ASSUME NEW g \in Tasks, Return(g)
      PROVE  IInv'
  <2>1. Out \in Locals /\ Out.at = "out"
    BY DEF Locals, Out, Places
  <2> QED
    BY <1>5, <2>1, Bystander DEF Return, InFlight
<1>6. ASSUME NEW g \in Tasks, CheckProcs(g)
      PROVE  IInv'
  <2> DEFINE r == IF procs[run[g].name] # NoProc
                    THEN [run[g] EXCEPT !.at = "ok", !.port = procs[run[g].name].port]
                    ELSE [run[g] EXCEPT !.at = "list"]
  <2>1. run[g] \in Locals /\ run[g].name \in Names
    BY <1>6 DEF CheckProcs, At, LocalsInv, Starting, RunnerTypeOK, Locals
  <2>2. r \in Locals /\ r.at \in {"ok", "list"} /\ r.name \in Names
    BY <2>1, EntryOrNone DEF Locals, Places
  <2>3. run' = [run EXCEPT ![g] = r]
    BY <1>6 DEF CheckProcs
  <2> HIDE DEF r
  <2> QED
    BY <1>6, <2>2, <2>3, Bystander DEF CheckProcs, At, InFlight
<1>7. ASSUME NEW g \in Tasks, ListPorts(g)
      PROVE  IInv'
  <2>1. PICK S \in SUBSET {e.port : e \in emus} :
           run' = [run EXCEPT ![g].at = "reserve", ![g].seen = S]
    BY <1>7 DEF ListPorts
  <2> DEFINE r == [run[g] EXCEPT !.at = "reserve", !.seen = S]
  <2>2. S \in SUBSET Ports
    BY DEF RunnerTypeOK, Processes
  <2>3. run[g] \in Locals /\ run[g].name \in Names
    BY <1>7 DEF ListPorts, At, LocalsInv, Starting, RunnerTypeOK, Locals
  <2>4. r \in Locals /\ r.at = "reserve" /\ r.name \in Names /\ run' = [run EXCEPT ![g] = r]
    BY <2>1, <2>2, <2>3 DEF Locals, Places
  <2> HIDE DEF r
  <2> QED
    BY <1>7, <2>4, Bystander DEF ListPorts, At, InFlight
<1>8. ASSUME NEW g \in Tasks, ~InFlight(g), Goto(g, "failed"),
             UNCHANGED <<procs, reserved, emus, doubled>>
      PROVE  IInv'
  <2> DEFINE r == [run[g] EXCEPT !.at = "failed"]
  <2>1. r \in Locals /\ r.at = "failed"
    BY DEF RunnerTypeOK, Locals, Places
  <2>2. run' = [run EXCEPT ![g] = r]
    BY <1>8 DEF Goto
  <2> HIDE DEF r
  <2> QED
    BY <1>8, <2>1, <2>2, Bystander
<1>9. ASSUME NEW g \in Tasks, ReservePort(g)
      PROVE  IInv'
  <2>1. CASE UNCHANGED reserved /\ Goto(g, "failed")
    BY <1>8, <1>9, <2>1 DEF ReservePort, At, InFlight
  <2>2. ASSUME NEW p \in FreePorts(g), reserved' = reserved \cup {p},
               run' = [run EXCEPT ![g].at = "spawn", ![g].port = p, ![g].seen = {}]
        PROVE  IInv'
    <3> DEFINE r == [run[g] EXCEPT !.at = "spawn", !.port = p, !.seen = {}]
    <3>1. p \in Ports /\ p \notin reserved /\ UNCHANGED <<procs, emus, doubled>>
      BY <1>9 DEF FreePorts, ReservePort
    <3>2. run[g] \in Locals /\ run[g].name \in Names /\ ~InFlight(g) /\ run[g].at = "reserve"
      BY <1>9 DEF ReservePort, At, LocalsInv, Starting, InFlight, RunnerTypeOK, Locals
    <3>3. r \in Locals /\ r.at = "spawn" /\ r.name \in Names /\ r.port = p
      BY <3>1, <3>2 DEF Locals, Places
    <3>4. run' = [run EXCEPT ![g] = r]
      BY <2>2
    <3> HIDE DEF r
    <3>5. /\ run' \in [Tasks -> Locals] /\ run'[g] = r
          /\ \A h \in Tasks : h # g => run'[h] = run[h]
      BY <3>3, <3>4 DEF RunnerTypeOK, Locals
    <3>6. InFlight(g)' /\ \A h \in Tasks : h # g => (InFlight(h)' <=> InFlight(h))
      BY <3>3, <3>5 DEF InFlight
    <3>7. RunnerTypeOK'
      BY <2>2, <3>1, <3>5 DEF RunnerTypeOK, Locals
    <3>8. LocalsInv'
      BY <3>1, <3>3, <3>5 DEF LocalsInv, Starting, Stopping, InFlight
    <3>9. \A n \in Names : procs[n].port # p
      BY <3>1, EntryOrNone, RunnerAssumption DEF UserInv
    <3>10. UserInv'
      BY <2>2, <3>1, <3>3, <3>5, <3>6, <3>9 DEF UserInv
    <3>11. EmulatorsTracked'
      BY <3>1, <3>2, <3>5 DEF EmulatorsTracked, Process, RunnerTypeOK, Processes
    <3>12. PortsExclusive' /\ NoPortLost'
      BY <2>2, <3>1, <3>2, <3>3, <3>5, <3>6 DEF PortsExclusive, NoPortLost
    <3> QED
      BY <3>7, <3>8, <3>10, <3>11, <3>12
  <2> QED
    BY <1>9, <2>1, <2>2 DEF ReservePort
<1>10. ASSUME NEW g \in Tasks, Spawn(g)
      PROVE  IInv'
  <2>1. "boot" \in Places /\ Goto(g, "boot")
    BY <1>10 DEF Places, Spawn
  <2>2. Moved(g, "boot")
    BY <2>1, GotoMoves
  <2>3. run[g].at = "spawn" /\ InFlight(g) /\ InFlight(g)'
    BY <1>10, <2>2 DEF Moved, Spawn, At, InFlight
  <2>4. \A h \in Tasks : InFlight(h)' <=> InFlight(h)
    BY <2>2, <2>3 DEF Moved, InFlight
  <2>5. Process(g) \in Processes
    BY <2>3 DEF Process, Processes, LocalsInv, Starting
  <2>6. emus' = emus \cup {Process(g)} /\ UNCHANGED <<procs, reserved, doubled>>
    BY <1>10 DEF Spawn
  <2>7. RunnerTypeOK'
    BY <2>2, <2>5, <2>6 DEF Moved, RunnerTypeOK, Locals
  <2>8. LocalsInv'
    BY <2>2, <2>3 DEF Moved, LocalsInv, Starting, Stopping, InFlight
  <2>9. UserInv'
    BY <2>2, <2>4, <2>6 DEF Moved, UserInv
  <2>10. EmulatorsTracked'
    <3> SUFFICES ASSUME NEW e \in emus'
                 PROVE  \/ run'[e.by].at \in {"boot", "register"} /\ Process(e.by)' = e
                        \/ procs[e.name] = [port |-> e.port, by |-> e.by]
                        \/ e.port \in doubled
      BY <2>6 DEF EmulatorsTracked
    <3>1. CASE e = Process(g)
      BY <2>2, <3>1 DEF Moved, Process
    <3>2. CASE e \in emus
      BY <2>2, <2>3, <3>2 DEF Moved, EmulatorsTracked, RunnerTypeOK, Processes
    <3> QED
      BY <2>6, <3>1, <3>2
  <2>11. \A e \in emus : e.port # run[g].port
    <3> SUFFICES ASSUME NEW e \in emus, e.port = run[g].port PROVE FALSE
      OBVIOUS
    <3>1. e.by \in Tasks /\ e.name \in Names
      BY DEF RunnerTypeOK, Processes
    <3>2. CASE run[e.by].at \in {"boot", "register"} /\ Process(e.by) = e
      BY <2>3, <3>1, <3>2 DEF UserInv, InFlight, Process
    <3>3. CASE procs[e.name] = [port |-> e.port, by |-> e.by]
      BY <2>3, <3>1, <3>3 DEF UserInv
    <3>4. CASE e.port \in doubled
      BY <2>3, <3>4 DEF UserInv
    <3> QED
      BY <3>2, <3>3, <3>4 DEF EmulatorsTracked
  <2>12. PortsExclusive'
    BY <2>6, <2>11 DEF PortsExclusive, Process
  <2>13. NoPortLost'
    BY <2>2, <2>4, <2>6 DEF Moved, NoPortLost
  <2> QED
    BY <2>7, <2>8, <2>9, <2>10, <2>12, <2>13
<1>11. ASSUME NEW g \in Tasks, SpawnFails(g)
      PROVE  IInv'
  <2>1. "failed" \in Places /\ Goto(g, "failed")
    BY <1>11 DEF Places, SpawnFails
  <2>2. Moved(g, "failed")
    BY <2>1, GotoMoves
  <2>3. run[g].at = "spawn" /\ InFlight(g) /\ ~InFlight(g)'
    BY <1>11, <2>2 DEF Moved, SpawnFails, At, InFlight
  <2>4. \A h \in Tasks : h # g => (InFlight(h)' <=> InFlight(h))
    BY <2>2 DEF Moved, InFlight
  <2>5. reserved' = reserved \ {run[g].port} /\ UNCHANGED <<procs, emus, doubled>>
    BY <1>11 DEF SpawnFails
  <2>6. RunnerTypeOK'
    BY <2>2, <2>5 DEF Moved, RunnerTypeOK, Locals
  <2>7. LocalsInv'
    BY <2>2 DEF Moved, LocalsInv, Starting, Stopping, InFlight
  <2>8. UserInv'
    BY <2>2, <2>3, <2>4, <2>5 DEF Moved, UserInv
  <2>9. EmulatorsTracked'
    BY <2>2, <2>3, <2>5 DEF Moved, EmulatorsTracked, RunnerTypeOK, Processes
  <2>10. PortsExclusive' /\ NoPortLost'
    BY <2>2, <2>3, <2>4, <2>5 DEF Moved, PortsExclusive, NoPortLost
  <2> QED
    BY <2>6, <2>7, <2>8, <2>9, <2>10
<1>12. ASSUME NEW g \in Tasks, ReleasePort(g)
      PROVE  IInv'
  <2>1. "failed" \in Places /\ Goto(g, "failed")
    BY <1>12 DEF Places, ReleasePort
  <2>2. Moved(g, "failed")
    BY <2>1, GotoMoves
  <2>3. run[g].at = "release" /\ InFlight(g) /\ ~InFlight(g)'
    BY <1>12, <2>2 DEF Moved, ReleasePort, At, InFlight
  <2>4. \A h \in Tasks : h # g => (InFlight(h)' <=> InFlight(h))
    BY <2>2 DEF Moved, InFlight
  <2>5. reserved' = reserved \ {run[g].port} /\ UNCHANGED <<procs, emus, doubled>>
    BY <1>12 DEF ReleasePort
  <2>6. RunnerTypeOK'
    BY <2>2, <2>5 DEF Moved, RunnerTypeOK, Locals
  <2>7. LocalsInv'
    BY <2>2 DEF Moved, LocalsInv, Starting, Stopping, InFlight
  <2>8. UserInv'
    BY <2>2, <2>3, <2>4, <2>5 DEF Moved, UserInv
  <2>9. EmulatorsTracked'
    BY <2>2, <2>3, <2>5 DEF Moved, EmulatorsTracked, RunnerTypeOK, Processes
  <2>10. PortsExclusive' /\ NoPortLost'
    BY <2>2, <2>3, <2>4, <2>5 DEF Moved, PortsExclusive, NoPortLost
  <2> QED
    BY <2>6, <2>7, <2>8, <2>9, <2>10
<1>13. ASSUME NEW g \in Tasks, BootOk(g)
      PROVE  IInv'
  <2>1. "register" \in Places /\ Goto(g, "register")
    BY <1>13 DEF Places, BootOk
  <2>2. Moved(g, "register")
    BY <2>1, GotoMoves
  <2>3. UNCHANGED <<procs, reserved, emus, doubled>> /\ run[g].at = "boot"
    BY <1>13 DEF BootOk, At
  <2>4. \A h \in Tasks : InFlight(h)' <=> InFlight(h)
    BY <2>2, <2>3 DEF Moved, InFlight
  <2>5. RunnerTypeOK' /\ LocalsInv'
    BY <2>2, <2>3 DEF Moved, RunnerTypeOK, Locals, LocalsInv, Starting, Stopping, InFlight
  <2>6. UserInv'
    BY <2>2, <2>3, <2>4 DEF Moved, UserInv
  <2>7. EmulatorsTracked'
    BY <2>2, <2>3 DEF Moved, EmulatorsTracked, RunnerTypeOK, Processes
  <2>8. PortsExclusive' /\ NoPortLost'
    BY <2>2, <2>3, <2>4 DEF Moved, PortsExclusive, NoPortLost
  <2> QED
    BY <2>5, <2>6, <2>7, <2>8
<1>14. ASSUME NEW g \in Tasks, BootFails(g)
      PROVE  IInv'
  <2>1. "release" \in Places /\ Goto(g, "release")
    BY <1>14 DEF Places, BootFails
  <2>2. Moved(g, "release")
    BY <2>1, GotoMoves
  <2>3. UNCHANGED <<procs, reserved, doubled>> /\ run[g].at = "boot"
    BY <1>14 DEF BootFails, At
  <2>4. \A h \in Tasks : InFlight(h)' <=> InFlight(h)
    BY <2>2, <2>3 DEF Moved, InFlight
  <2>5. emus' = emus \ {Process(g)}
    BY <1>14 DEF BootFails
  <2>6. RunnerTypeOK' /\ LocalsInv'
    BY <2>2, <2>3, <2>5 DEF Moved, RunnerTypeOK, Locals, LocalsInv, Starting, Stopping, InFlight
  <2>7. UserInv'
    BY <2>2, <2>3, <2>4 DEF Moved, UserInv
  <2>8. EmulatorsTracked'
    BY <2>2, <2>3, <2>5 DEF Moved, EmulatorsTracked, RunnerTypeOK, Processes
  <2>9. PortsExclusive' /\ NoPortLost'
    BY <2>2, <2>3, <2>4, <2>5 DEF Moved, PortsExclusive, NoPortLost
  <2> QED
    BY <2>6, <2>7, <2>8, <2>9
<1>15. ASSUME NEW g \in Tasks, Register(g)
      PROVE  IInv'
  <2>1. "ok" \in Places /\ Goto(g, "ok")
    BY <1>15 DEF Places, Register
  <2>2. Moved(g, "ok")
    BY <2>1, GotoMoves
  <2> DEFINE n == run[g].name
             p == run[g].port
  <2>3. n \in Names /\ p \in Ports /\ InFlight(g) /\ run[g].at = "register"
    BY <1>15 DEF Register, At, LocalsInv, Starting, InFlight
  <2>4. /\ procs' = [procs EXCEPT ![n] = [port |-> p, by |-> g]]
        /\ doubled' = IF procs[n] = NoProc THEN doubled ELSE doubled \cup {procs[n].port}
        /\ UNCHANGED <<reserved, emus>>
    BY <1>15 DEF Register
  <2> HIDE DEF n, p
  <2>5. /\ procs'[n] = [port |-> p, by |-> g]
        /\ \A m \in Names : m # n => procs'[m] = procs[m]
    BY <2>3, <2>4 DEF RunnerTypeOK
  <2>6. /\ ~InFlight(g)'
        /\ \A h \in Tasks : h # g => (InFlight(h)' <=> InFlight(h))
    BY <2>2 DEF Moved, InFlight
  <2>7. RunnerTypeOK'
    BY <2>2, <2>3, <2>4, EntryOrNone DEF Moved, RunnerTypeOK, Locals
  <2>8. LocalsInv'
    BY <2>2 DEF Moved, LocalsInv, Starting, Stopping, InFlight
  <2>9. procs'[n] # NoProc /\ procs'[n].port = p
    BY <2>3, <2>5, RunnerAssumption DEF NoProc
  <2>10. /\ \A h \in Tasks : InFlight(h)' => run'[h].port \in reserved \ doubled'
         /\ \A m \in Names : procs'[m] # NoProc => procs'[m].port \in reserved \ doubled'
         /\ doubled' \subseteq reserved
    BY <2>2, <2>3, <2>4, <2>5, <2>6, <2>9 DEF Moved, UserInv, n, p
  <2>11. UserInv'
    BY <2>2, <2>3, <2>4, <2>5, <2>6, <2>9, <2>10 DEF Moved, UserInv, n, p
  <2>12. EmulatorsTracked'
    <3> SUFFICES ASSUME NEW e \in emus
                 PROVE  \/ run'[e.by].at \in {"boot", "register"} /\ Process(e.by)' = e
                        \/ procs'[e.name] = [port |-> e.port, by |-> e.by]
                        \/ e.port \in doubled'
      BY <2>4 DEF EmulatorsTracked
    <3>1. e.by \in Tasks /\ e.name \in Names /\ e.port \in Ports
      BY DEF RunnerTypeOK, Processes
    <3>2. CASE run[e.by].at \in {"boot", "register"} /\ Process(e.by) = e
      <4>1. CASE e.by = g
        BY <2>5, <3>2, <4>1 DEF Process, n, p
      <4>2. CASE e.by # g
        BY <2>2, <3>1, <3>2, <4>2 DEF Moved
      <4> QED
        BY <4>1, <4>2
    <3>3. CASE procs[e.name] = [port |-> e.port, by |-> e.by]
      <4>1. CASE e.name = n
        BY <2>4, <3>1, <3>3, <4>1, RunnerAssumption DEF NoProc
      <4>2. CASE e.name # n
        BY <2>5, <3>1, <3>3, <4>2
      <4> QED
        BY <4>1, <4>2
    <3>4. CASE e.port \in doubled
      BY <2>4, <3>4
    <3> QED
      BY <3>2, <3>3, <3>4 DEF EmulatorsTracked
  <2>13. PortsExclusive'
    BY <2>4 DEF PortsExclusive
  <2>14. NoPortLost'
    <3> SUFFICES ASSUME NEW q \in reserved
                 PROVE  \/ \E h \in Tasks : InFlight(h)' /\ run'[h].port = q
                        \/ \E m \in Names : procs'[m].port = q
                        \/ q \in doubled'
      BY <2>4 DEF NoPortLost
    <3>1. ASSUME NEW h \in Tasks, InFlight(h), run[h].port = q
          PROVE  \/ InFlight(h)' /\ run'[h].port = q
                 \/ procs'[n].port = q
      BY <2>2, <2>5, <2>6, <3>1 DEF Moved, p
    <3>2. ASSUME NEW m \in Names, procs[m].port = q
          PROVE  procs'[m].port = q \/ q \in doubled'
      BY <2>4, <2>5, <3>2, EntryOrNone, RunnerAssumption DEF RunnerTypeOK
    <3> QED
      BY <2>3, <2>4, <3>1, <3>2 DEF NoPortLost
  <2> QED
    BY <2>7, <2>8, <2>11, <2>12, <2>13, <2>14
<1>16. ASSUME NEW g \in Tasks, EmuKill(g)
      PROVE  IInv'
  <2>1. "collect" \in Places /\ Goto(g, "collect")
    BY <1>16 DEF Places, EmuKill
  <2>2. Moved(g, "collect")
    BY <2>1, GotoMoves
  <2>3. run[g].at = "emukill" /\ emus' \subseteq emus /\ UNCHANGED <<procs, reserved, doubled>>
    BY <1>16 DEF EmuKill, At
  <2>4. \A h \in Tasks : InFlight(h)' <=> InFlight(h)
    BY <2>2, <2>3 DEF Moved, InFlight
  <2>5. RunnerTypeOK' /\ LocalsInv'
    BY <2>2, <2>3 DEF Moved, RunnerTypeOK, Locals, LocalsInv, Starting, Stopping, InFlight
  <2>6. UserInv'
    BY <2>2, <2>3, <2>4 DEF Moved, UserInv
  <2>7. EmulatorsTracked'
    BY <2>2, <2>3 DEF Moved, EmulatorsTracked, RunnerTypeOK, Processes
  <2>8. PortsExclusive' /\ NoPortLost'
    BY <2>2, <2>3, <2>4 DEF Moved, PortsExclusive, NoPortLost
  <2> QED
    BY <2>5, <2>6, <2>7, <2>8
<1>17. ASSUME NEW g \in Tasks, Collect(g)
      PROVE  IInv'
  <2>1. "ok" \in Places /\ Goto(g, "ok")
    BY <1>17 DEF Places, Collect
  <2>2. Moved(g, "ok")
    BY <2>1, GotoMoves
  <2>3. run[g].at = "collect" /\ run[g].port \in Ports /\ UNCHANGED doubled
    BY <1>17 DEF Collect, At, LocalsInv, Stopping
  <2>4. \A h \in Tasks : InFlight(h)' <=> InFlight(h)
    BY <2>2, <2>3 DEF Moved, InFlight
  <2>5. LocalsInv'
    BY <2>2 DEF Moved, LocalsInv, Starting, Stopping, InFlight
  <2>6. CASE UNCHANGED <<procs, emus, reserved>>
    <3>1. RunnerTypeOK' /\ UserInv'
      BY <2>2, <2>3, <2>4, <2>6 DEF Moved, RunnerTypeOK, Locals, UserInv
    <3>2. EmulatorsTracked'
      BY <2>2, <2>3, <2>6 DEF Moved, EmulatorsTracked, RunnerTypeOK, Processes
    <3>3. PortsExclusive' /\ NoPortLost'
      BY <2>2, <2>3, <2>4, <2>6 DEF Moved, PortsExclusive, NoPortLost
    <3> QED
      BY <2>5, <3>1, <3>2, <3>3
  <2>7. ASSUME NEW n \in Names, procs[n].port = run[g].port,
               procs' = [procs EXCEPT ![n] = NoProc],
               emus' = emus \ {[name |-> n, port |-> procs[n].port, by |-> procs[n].by]},
               reserved' = reserved \ {run[g].port}
        PROVE  IInv'
    <3>1. procs[n] # NoProc /\ procs'[n] = NoProc /\ procs'[n].port = None
      BY <2>3, <2>7, RunnerAssumption DEF NoProc, RunnerTypeOK
    <3>2. \A m \in Names : m # n => procs'[m] = procs[m]
      BY <2>7 DEF RunnerTypeOK
    <3>3. RunnerTypeOK'
      BY <2>2, <2>3, <2>7 DEF Moved, RunnerTypeOK, Locals
    <3>4. \A m \in Names : procs'[m] # NoProc => m # n /\ procs'[m] = procs[m]
      BY <3>1, <3>2
    <3>5. \A h \in Tasks : InFlight(h) => run[h].port \in Ports
      BY DEF LocalsInv
    <3>6. UserInv'
      <4>1. /\ \A h \in Tasks : InFlight(h)' => run'[h].port \in reserved' \ doubled'
            /\ \A m \in Names : procs'[m] # NoProc => procs'[m].port \in reserved' \ doubled'
            /\ doubled' \subseteq reserved'
        BY <2>2, <2>3, <2>4, <2>7, <3>1, <3>2, <3>4 DEF Moved, UserInv
      <4>2. \A h, k \in Tasks : InFlight(h)' /\ InFlight(k)' /\ run'[h].port = run'[k].port => h = k
        BY <2>2, <2>4 DEF Moved, UserInv
      <4>3. \A m, k \in Names : procs'[k] # NoProc /\ procs'[m].port = procs'[k].port => m = k
        BY <3>1, <3>2, <3>4, EntryOrNone, RunnerAssumption DEF UserInv
      <4>4. \A h \in Tasks, m \in Names : InFlight(h)' => run'[h].port # procs'[m].port
        BY <2>2, <2>4, <3>1, <3>2, <3>5, RunnerAssumption DEF Moved, UserInv
      <4> QED
        BY <4>1, <4>2, <4>3, <4>4 DEF UserInv
    <3>7. EmulatorsTracked'
      <4> SUFFICES ASSUME NEW e \in emus'
                   PROVE  \/ run'[e.by].at \in {"boot", "register"} /\ Process(e.by)' = e
                          \/ procs'[e.name] = [port |-> e.port, by |-> e.by]
                          \/ e.port \in doubled
        BY <2>3 DEF EmulatorsTracked
      <4>1. /\ e \in emus /\ e # [name |-> n, port |-> procs[n].port, by |-> procs[n].by]
            /\ e = [name |-> e.name, port |-> e.port, by |-> e.by]
            /\ e.by \in Tasks /\ e.name \in Names
        BY <2>7 DEF RunnerTypeOK, Processes
      <4>2. CASE run[e.by].at \in {"boot", "register"} /\ Process(e.by) = e
        BY <2>2, <2>3, <4>1, <4>2 DEF Moved
      <4>3. CASE procs[e.name] = [port |-> e.port, by |-> e.by]
        <5>1. e.name # n
          BY <4>1, <4>3
        <5> QED
          BY <3>2, <4>1, <4>3, <5>1
      <4> QED
        BY <4>1, <4>2, <4>3 DEF EmulatorsTracked
    <3>8. PortsExclusive' /\ NoPortLost'
      BY <2>2, <2>3, <2>4, <2>7, <3>1, <3>2 DEF Moved, PortsExclusive, NoPortLost
    <3> QED
      BY <2>5, <3>3, <3>6, <3>7, <3>8
  <2> QED
    BY <1>17, <2>6, <2>7 DEF Collect
<1>18. ASSUME NEW g \in Tasks, ListFails(g)
       PROVE  IInv'
  BY <1>8, <1>18 DEF ListFails, At, InFlight
<1> QED
  BY <1>1, <1>2, <1>3, <1>4, <1>5, <1>6, <1>7, <1>9, <1>10, <1>11, <1>12, <1>13, <1>14,
     <1>15, <1>16, <1>17, <1>18
  DEF RunnerNext, Run, Start, Stop

LEMMA Invariance == RunnerSpec => []IInv
BY InitIInv, StepIInv, PTL DEF RunnerSpec

-----------------------------------------------------------------------------
(* The theorems.                                                           *)

\* The table, the reservations and the callers' locals keep their types.
THEOREM RunnerTypeCorrect == RunnerSpec => []RunnerTypeOK
BY Invariance, PTL DEF IInv

\* No two emulators of the server run on one port, whatever starts, stops with
\* old serials and dying emulators do (reservePort, releasePort, Stop).
THEOREM OnePortOneEmulator == RunnerSpec => []PortsExclusive
BY Invariance, PTL DEF IInv

\* An emulator that runs is in its start, in the table, or was overwritten there
\* by a second start of its name.
THEOREM NoStrayEmulator == RunnerSpec => []EmulatorsTracked
BY Invariance, PTL DEF IInv

\* A reserved port has a start, an entry or an overwritten entry to give it back.
THEOREM PortsAccounted == RunnerSpec => []NoPortLost
BY Invariance, PTL DEF IInv
-----------------------------------------------------------------------------
(***************************************************************************)
(* The instance service, under Spec.                                       *)
(***************************************************************************)
RowsOK ==
    /\ rows \in [Ids -> [id : Ids, name : Names \cup {None},
                         status : Statuses \cup Absent, serial : Serials]]
    /\ \A i \in Ids : rows[i].id = i /\ (rows[i].name = None => rows[i].status \in Absent)

\* A job has the row that its place works with, and only requests dispatch.
JobsOK ==
    /\ job \in [Tasks -> Jobs]
    /\ \A g \in Tasks :
         /\ job[g].at \in {"avd", "insert", "rollback", "runner", "save", "mark"}
              => job[g].row \in Row
         /\ job[g].at = "dispatch" => g \in Requests /\ job[g].op \in {"start", "stop"}

InstInv == IInv /\ TypeOK /\ JobsOK

-----------------------------------------------------------------------------
LEMMA ExistingAreRows ==
    ASSUME RowsOK
    PROVE  /\ \A i \in Ids : rows[i].status \notin Absent => rows[i] \in Row
           /\ Rows \subseteq Row
<1>1. ASSUME NEW i \in Ids, rows[i].status \notin Absent
      PROVE  rows[i] \in Row
  BY <1>1 DEF RowsOK, Row
<1> QED
  BY <1>1 DEF Rows, Exists

LEMMA UpdateKeepsRows ==
    ASSUME RowsOK, NEW r \in Row, Update(r)
    PROVE  RowsOK'
<1>1. r.id \in Ids /\ r.name # None
      /\ r \in [id : Ids, name : Names \cup {None},
                status : Statuses \cup Absent, serial : Serials]
  BY RunnerAssumption DEF Row
<1>2. CASE UNCHANGED rows
  BY <1>2 DEF RowsOK
<1>3. CASE rows' = [rows EXCEPT ![r.id] = r]
  BY <1>1, <1>3 DEF RowsOK
<1> QED
  BY <1>2, <1>3 DEF Update

LEMMA BecomeKeepsJobs ==
    ASSUME JobsOK, NEW g \in Tasks, NEW j \in Jobs, Become(g, j),
           j.at \in {"avd", "insert", "rollback", "runner", "save", "mark"} => j.row \in Row,
           j.at = "dispatch" => g \in Requests /\ j.op \in {"start", "stop"}
    PROVE  JobsOK'
<1>1. /\ job' \in [Tasks -> Jobs] /\ job'[g] = j
      /\ \A h \in Tasks : h # g => job'[h] = job[h]
  BY DEF JobsOK, Become
<1> QED
  BY <1>1 DEF JobsOK

LEMMA FinishKeepsJobs ==
    ASSUME JobsOK, NEW g \in Tasks, Finish(g)
    PROVE  JobsOK'
<1> DEFINE j == IF g \in Workers THEN NoJob ELSE [NoJob EXCEPT !.at = "left"]
<1>1. j \in Jobs /\ j.at \in {"out", "left"}
  BY DEF NoJob, Jobs, Kinds
<1>2. Become(g, j)
  BY DEF Finish
<1> HIDE DEF j
<1> QED
  BY <1>1, <1>2, BecomeKeepsJobs

-----------------------------------------------------------------------------
(* Every step is one of the runner or leaves it alone.                     *)

LEMMA CallsAreCalls ==
    ASSUME NEW g \in Tasks, NEW op, NEW r \in Row, CallRunner(g, op, r)
    PROVE  RunnerNext
<1>1. r.name \in Names /\ r.serial \in Ports \cup {None}
  BY DEF Row, Serials
<1> QED
  BY <1>1 DEF CallRunner, RunnerNext

LEMMA StepsOfRunner == TypeOK /\ [Next]_vars => [RunnerNext]_runnerVars
<1> SUFFICES ASSUME TypeOK, [Next]_vars PROVE [RunnerNext]_runnerVars
  OBVIOUS
<1>1. RowsOK
  BY DEF TypeOK, RowsOK
<1>2. Requests \subseteq Tasks /\ Workers \subseteq Tasks
  BY InstancesAssumption
<1>3. CASE UNCHANGED vars
  BY <1>3 DEF vars
<1>4. ASSUME NEW g \in Tasks, Job(g)
      PROVE  [RunnerNext]_runnerVars
  <2>1. CASE RunnerReturned(g)
    BY <2>1 DEF RunnerReturned, RunnerNext
  <2>2. CASE Run(g)
    BY <2>2 DEF RunnerNext
  <2>3. CASE UNCHANGED runnerVars
    BY <2>3
  <2> QED
    BY <1>4, <2>1, <2>2, <2>3
    DEF Job, CreateAvd, CreateAvdFails, InsertRow, RollBackAvd, Save, MarkError, DeleteAvd,
        EraseRows, Dispatch, Dispatched, Cleaned
<1>5. ASSUME NEW g \in Requests, Request(g)
      PROVE  [RunnerNext]_runnerVars
  <2>1. CASE BeginCreate(g)
    BY <2>1 DEF BeginCreate
  <2>2. ASSUME NEW op \in Kinds, Begin(g, op)
        PROVE  RunnerNext
    BY <1>1, <1>2, <2>2, ExistingAreRows, CallsAreCalls DEF Begin
  <2>3. ASSUME NEW op \in Kinds, BeginGroup(g, op)
        PROVE  UNCHANGED runnerVars
    BY <2>3 DEF BeginGroup
  <2> QED
    BY <1>5, <2>1, <2>2, <2>3 DEF Request
<1>6. ASSUME NEW w \in Workers, NEW f \in fan, Work(w, f)
      PROVE  [RunnerNext]_runnerVars
  <2> DEFINE r == IF f.kind = "delete" THEN f.row ELSE rows[f.row.id]
  <2>1. f.row \in Row /\ f.row.id \in Ids
    BY DEF TypeOK, Fan, Row
  <2>2. r.status \notin Absent => r \in Row
    BY <1>1, <2>1, ExistingAreRows
  <2>3. UNCHANGED runnerVars \/ (r.status \notin Absent /\ CallRunner(w, f.kind, r))
    BY <1>6 DEF Work
  <2> HIDE DEF r
  <2> QED
    BY <1>2, <2>2, <2>3, CallsAreCalls
<1>7. CASE EmulatorDies
  BY <1>7 DEF RunnerNext
<1> QED
  BY <1>3, <1>4, <1>5, <1>6, <1>7 DEF Next

-----------------------------------------------------------------------------
LEMMA InitInstInv == Init => InstInv
<1> SUFFICES ASSUME Init PROVE InstInv
  OBVIOUS
<1>1. IInv
  BY InitIInv DEF Init
<1>2. PICK name \in [Ids -> Names \cup {None}] :
         /\ rows = [i \in Ids |-> [id |-> i, name |-> name[i], serial |-> None,
                        status |-> IF name[i] = None THEN "unborn" ELSE "stopped"]]
         /\ avds = {name[i] : i \in Ids} \ {None}
  BY DEF Init
<1>3. RowsOK
  BY <1>2 DEF RowsOK, Statuses, Absent, Serials
<1>4. JobsOK
  BY DEF Init, JobsOK, NoJob, Jobs, Kinds
<1>5. avds \subseteq Names /\ fan \subseteq Fan /\ dbFailed \in BOOLEAN /\ abandoned \subseteq Ids
  <2>1. ASSUME NEW n \in avds PROVE n \in Names
    BY <1>2, <2>1
  <2> QED
    BY <2>1 DEF Init
<1> QED
  BY <1>1, <1>3, <1>4, <1>5 DEF InstInv, TypeOK, IInv, RowsOK, JobsOK

LEMMA StepInstInv == InstInv /\ [Next]_vars => InstInv'
<1> SUFFICES ASSUME InstInv, [Next]_vars PROVE InstInv'
  OBVIOUS
<1> DEFINE Rest == /\ avds \subseteq Names /\ fan \subseteq Fan
                   /\ dbFailed \in BOOLEAN /\ abandoned \subseteq Ids
<1>1. IInv'
  BY StepsOfRunner, StepIInv DEF InstInv
<1>2. RowsOK /\ JobsOK /\ Rest /\ RunnerTypeOK
  BY DEF InstInv, TypeOK, RowsOK
<1>3. Requests \subseteq Tasks /\ Workers \subseteq Tasks /\ Requests \cap Workers = {}
  BY InstancesAssumption
<1>4. SUFFICES RowsOK' /\ JobsOK' /\ Rest'
  BY <1>1 DEF InstInv, TypeOK, RowsOK, JobsOK, IInv
<1>5. CASE UNCHANGED instVars
  BY <1>2, <1>5 DEF instVars, RowsOK, JobsOK
<1>6. ASSUME NEW g \in Tasks, CreateAvd(g)
      PROVE  RowsOK' /\ JobsOK' /\ Rest'
  <2> DEFINE j == [job[g] EXCEPT !.at = "insert"]
  <2>1. job[g].row \in Row /\ job[g].row.name \in Names
    BY <1>2, <1>6 DEF CreateAvd, In, JobsOK, Row
  <2>2. j \in Jobs /\ j.at = "insert" /\ j.row \in Row /\ Become(g, j)
    BY <1>2, <1>6, <2>1 DEF CreateAvd, JobsOK, Jobs
  <2> HIDE DEF j
  <2>3. JobsOK'
    BY <1>2, <2>2, BecomeKeepsJobs
  <2>4. RowsOK' /\ Rest'
    BY <1>2, <1>6, <2>1 DEF CreateAvd, RowsOK
  <2> QED
    BY <2>3, <2>4
<1>7. ASSUME NEW g \in Tasks, CreateAvdFails(g) \/ RollBackAvd(g)
      PROVE  RowsOK' /\ JobsOK' /\ Rest'
  <2>1. job[g].row.name \in Names
    BY <1>2, <1>7 DEF CreateAvdFails, RollBackAvd, In, JobsOK, Row
  <2>2. JobsOK'
    BY <1>2, <1>7, FinishKeepsJobs DEF CreateAvdFails, RollBackAvd
  <2>3. RowsOK' /\ Rest'
    BY <1>2, <1>7, <2>1 DEF CreateAvdFails, RollBackAvd, RowsOK
  <2> QED
    BY <2>2, <2>3
<1>8. ASSUME NEW g \in Tasks, InsertRow(g)
      PROVE  RowsOK' /\ JobsOK' /\ Rest'
  <2>1. job[g].row \in Row
    BY <1>2, <1>8 DEF InsertRow, In, JobsOK
  <2>2. CASE rows' = [rows EXCEPT ![job[g].row.id] = job[g].row] /\ Finish(g) /\ UNCHANGED dbFailed
    <3>1. job[g].row.id \in Ids /\ job[g].row.name # None
          /\ job[g].row \in [id : Ids, name : Names \cup {None},
                              status : Statuses \cup Absent, serial : Serials]
      BY <2>1, RunnerAssumption DEF Row
    <3>2. RowsOK'
      BY <1>2, <2>2, <3>1 DEF RowsOK
    <3> QED
      BY <1>2, <1>8, <2>2, <3>2, FinishKeepsJobs DEF InsertRow
  <2>3. CASE Refused(g) /\ Become(g, [job[g] EXCEPT !.at = "rollback"])
    <3> DEFINE j == [job[g] EXCEPT !.at = "rollback"]
    <3>1. j \in Jobs /\ j.at = "rollback" /\ j.row \in Row
      BY <1>2, <2>1 DEF JobsOK, Jobs
    <3> HIDE DEF j
    <3>2. Become(g, j)
      BY <2>3 DEF j
    <3>3. JobsOK'
      BY <1>2, <3>1, <3>2, BecomeKeepsJobs
    <3> QED
      BY <1>2, <1>8, <2>3, <3>3 DEF InsertRow, Refused, DbFails, RowsOK
  <2> QED
    BY <1>8, <2>2, <2>3 DEF InsertRow
<1>9. ASSUME NEW g \in Tasks, RunnerReturned(g)
      PROVE  RowsOK' /\ JobsOK' /\ Rest'
  <2>1. job[g].row \in Row /\ job[g] \in Jobs /\ run[g].port \in Serials
    BY <1>2, <1>9 DEF RunnerReturned, JobsOK, RunnerTypeOK, Serials
  <2> DEFINE r  == job[g].row
             j1 == [job[g] EXCEPT !.at = "save", !.row = Running(r, run[g].port)]
             j2 == [job[g] EXCEPT !.at = "mark"]
             j3 == [job[g] EXCEPT !.at = "save", !.row = Stopped(r)]
             j4 == [job[g] EXCEPT !.at = "avd"]
  <2>2. Running(r, run[g].port) \in Row /\ Stopped(r) \in Row
    BY <2>1 DEF Running, Stopped, Row, Statuses, Serials
  <2>3. \A j \in {j1, j2, j3, j4} :
           j \in Jobs /\ j.row \in Row /\ j.at \in {"save", "mark", "avd"}
    BY <2>1, <2>2 DEF Jobs
  <2>4. Finish(g) \/ \E j \in {j1, j2, j3, j4} : Become(g, j)
    BY <1>9 DEF RunnerReturned
  <2> HIDE DEF j1, j2, j3, j4
  <2>5. JobsOK'
    BY <1>2, <2>3, <2>4, BecomeKeepsJobs, FinishKeepsJobs
  <2> QED
    BY <1>2, <1>9, <2>5 DEF RunnerReturned, RowsOK
<1>10. ASSUME NEW g \in Tasks, Save(g)
       PROVE  RowsOK' /\ JobsOK' /\ Rest'
  <2>1. job[g].row \in Row
    BY <1>2, <1>10 DEF Save, JobsOK
  <2>2. RowsOK'
    BY <1>2, <1>10, <2>1, UpdateKeepsRows DEF Save, Refused, DbFails, RowsOK
  <2>3. JobsOK' /\ Rest'
    BY <1>2, <1>10, FinishKeepsJobs DEF Save, Refused, DbFails
  <2> QED
    BY <2>2, <2>3
<1>11. ASSUME NEW g \in Tasks, MarkError(g)
       PROVE  RowsOK' /\ JobsOK' /\ Rest'
  <2>1. job[g].row.id \in Ids
    BY <1>2, <1>11 DEF MarkError, JobsOK, Row
  <2>2. Exists(job[g].row.id) => Failed(rows[job[g].row.id]) \in Row
    BY <1>2, <2>1, ExistingAreRows DEF Exists, Failed, Row, Statuses, Serials
  <2>3. RowsOK'
    BY <1>2, <1>11, <2>2, UpdateKeepsRows DEF MarkError, Refused, DbFails, RowsOK
  <2>4. JobsOK' /\ Rest'
    BY <1>2, <1>11, FinishKeepsJobs DEF MarkError, Refused, DbFails
  <2> QED
    BY <2>3, <2>4
<1>12. ASSUME NEW g \in Tasks, DeleteAvd(g)
       PROVE  RowsOK' /\ JobsOK' /\ Rest'
  <2> DEFINE j == [job[g] EXCEPT !.at = "erase"]
  <2>1. j \in Jobs /\ j.at = "erase" /\ job[g].row.name \in Names
    BY <1>2, <1>12 DEF DeleteAvd, In, JobsOK, Jobs, Row
  <2>2. Finish(g) \/ Become(g, j)
    BY <1>12 DEF DeleteAvd
  <2> HIDE DEF j
  <2>3. JobsOK'
    BY <1>2, <2>1, <2>2, BecomeKeepsJobs, FinishKeepsJobs
  <2> QED
    BY <1>2, <1>12, <2>1, <2>3 DEF DeleteAvd, RowsOK
<1>13. ASSUME NEW g \in Tasks, EraseRows(g)
       PROVE  RowsOK' /\ JobsOK' /\ Rest'
  <2>1. \A i \in Ids : Exists(i) => Deleted(rows[i]) \in
           [id : {i}, name : Names, status : Absent, serial : Serials]
    <3> SUFFICES ASSUME NEW i \in Ids, Exists(i)
                 PROVE  Deleted(rows[i]) \in
                           [id : {i}, name : Names, status : Absent, serial : Serials]
      OBVIOUS
    <3>1. rows[i] \in Row /\ rows[i].id = i
      BY <1>2, ExistingAreRows DEF Exists, RowsOK
    <3> QED
      BY <3>1 DEF Deleted, Row, Absent, Serials
  <2>2. RowsOK'
    BY <1>2, <1>13, <2>1, RunnerAssumption DEF EraseRows, Refused, DbFails, RowsOK
  <2>3. JobsOK' /\ Rest'
    BY <1>2, <1>13, FinishKeepsJobs DEF EraseRows, Refused, DbFails
  <2> QED
    BY <2>2, <2>3
<1>14. ASSUME NEW g \in Tasks, Dispatch(g)
       PROVE  RowsOK' /\ JobsOK' /\ Rest'
  <2>1. PICK r \in job[g].list :
          \/ /\ Become(g, [job[g] EXCEPT !.list = @ \ {r}])
             /\ UNCHANGED <<rows, dbFailed, abandoned>>
          \/ /\ Update(Marked(job[g].op, r))
             /\ Become(g, [job[g] EXCEPT !.list = @ \ {r}, !.todo = @ \cup {r}])
             /\ UNCHANGED <<dbFailed, abandoned>>
          \/ /\ Refused(g) /\ Finish(g)
             /\ abandoned' = abandoned \cup {m.id : m \in job[g].todo}
    BY <1>14 DEF Dispatch
  <2>2. job[g] \in Jobs /\ r \in Row /\ job[g].at = "dispatch"
        /\ g \in Requests /\ job[g].op \in {"start", "stop"}
    BY <1>2, <1>14 DEF Dispatch, JobsOK, Jobs
  <2>3. Marked(job[g].op, r) \in Row
    BY <2>2 DEF Marked, Row, Statuses, Serials
  <2>4. RowsOK' /\ avds' \subseteq Names /\ fan' \subseteq Fan /\ dbFailed' \in BOOLEAN
    BY <1>2, <1>14, <2>1, <2>3, UpdateKeepsRows DEF Dispatch, Refused, DbFails, RowsOK
  <2>8. abandoned' \subseteq Ids
    <3>1. \A m \in job[g].todo : m.id \in Ids
      BY <2>2 DEF Jobs, Row
    <3> QED
      BY <1>2, <2>1, <3>1
  <2> DEFINE j1 == [job[g] EXCEPT !.list = @ \ {r}]
             j2 == [job[g] EXCEPT !.list = @ \ {r}, !.todo = @ \cup {r}]
  <2>5. \A j \in {j1, j2} : j \in Jobs /\ j.at = "dispatch" /\ j.op \in {"start", "stop"}
    <3>1. job[g].list \ {r} \in SUBSET Row /\ job[g].todo \cup {r} \in SUBSET Row
      BY <2>2 DEF Jobs
    <3>2. j1 \in Jobs /\ j1.at = "dispatch" /\ j1.op \in {"start", "stop"}
      BY <2>2, <3>1 DEF Jobs
    <3>3. j2 \in Jobs /\ j2.at = "dispatch" /\ j2.op \in {"start", "stop"}
      BY <2>2, <3>1 DEF Jobs
    <3> QED
      BY <3>2, <3>3
  <2>6. Finish(g) \/ \E j \in {j1, j2} : Become(g, j)
    BY <2>1
  <2> HIDE DEF j1, j2
  <2>7. JobsOK'
    BY <1>2, <2>2, <2>5, <2>6, BecomeKeepsJobs, FinishKeepsJobs
  <2> QED
    BY <2>4, <2>7, <2>8
<1>15. ASSUME NEW g \in Tasks, Dispatched(g)
       PROVE  RowsOK' /\ JobsOK' /\ Rest'
  <2>1. [kind : {job[g].op}, by : {g}, row : job[g].todo] \subseteq Fan
    BY <1>2, <1>15 DEF Dispatched, JobsOK, Jobs, Fan, Kinds
  <2> QED
    BY <1>2, <1>15, <2>1, FinishKeepsJobs DEF Dispatched, RowsOK
<1>16. ASSUME NEW g \in Tasks, Cleaned(g)
       PROVE  RowsOK' /\ JobsOK' /\ Rest'
  <2> DEFINE j == [job[g] EXCEPT !.at = "erase"]
  <2>1. j \in Jobs /\ j.at = "erase" /\ Become(g, j)
    BY <1>2, <1>16 DEF Cleaned, JobsOK, Jobs
  <2> HIDE DEF j
  <2> QED
    BY <1>2, <1>16, <2>1, BecomeKeepsJobs DEF Cleaned, RowsOK
<1>17. ASSUME NEW g \in Requests, BeginCreate(g)
       PROVE  RowsOK' /\ JobsOK' /\ Rest'
  <2>1. PICK n \in Names, i \in Ids :
           Become(g, [NoJob EXCEPT !.op = "create", !.at = "avd", !.row = NewRow(i, n)])
    BY <1>17 DEF BeginCreate
  <2> DEFINE j == [NoJob EXCEPT !.op = "create", !.at = "avd", !.row = NewRow(i, n)]
  <2>2. NewRow(i, n) \in Row
    BY DEF NewRow, Row, Statuses, Serials
  <2>3. j \in Jobs /\ j.at = "avd" /\ j.row \in Row
    BY <2>2 DEF NoJob, Jobs
  <2> HIDE DEF j
  <2>4. Become(g, j)
    BY <2>1 DEF j
  <2> QED
    BY <1>2, <1>3, <1>17, <2>3, <2>4, BecomeKeepsJobs DEF BeginCreate, RowsOK
<1>18. ASSUME NEW g \in Requests, NEW op \in Kinds, Begin(g, op)
       PROVE  RowsOK' /\ JobsOK' /\ Rest'
  <2>1. PICK r \in Rows : Become(g, [NoJob EXCEPT !.op = op, !.at = "runner", !.row = r])
    BY <1>18 DEF Begin
  <2> DEFINE j == [NoJob EXCEPT !.op = op, !.at = "runner", !.row = r]
  <2>2. r \in Row
    BY <1>2, ExistingAreRows
  <2>3. j \in Jobs /\ j.at = "runner" /\ j.row \in Row
    BY <2>2 DEF NoJob, Jobs
  <2> HIDE DEF j
  <2>4. Become(g, j)
    BY <2>1 DEF j
  <2> QED
    BY <1>2, <1>3, <1>18, <2>3, <2>4, BecomeKeepsJobs DEF Begin, RowsOK
<1>19. ASSUME NEW g \in Requests, NEW op \in Kinds, BeginGroup(g, op)
       PROVE  RowsOK' /\ JobsOK' /\ Rest'
  <2>1. Rows \subseteq Row
    BY <1>2, ExistingAreRows
  <2>2. [kind : {"delete"}, by : {g}, row : Rows] \subseteq Fan
    BY <2>1 DEF Fan, Kinds
  <2> DEFINE j1 == [NoJob EXCEPT !.op = op, !.at = "cleaning"]
             j2 == [NoJob EXCEPT !.op = op, !.at = "dispatch", !.list = Rows]
  <2>3. CASE op = "delete"
    <3>1. j1 \in Jobs /\ j1.at = "cleaning" /\ Become(g, j1)
      BY <1>19, <2>3 DEF NoJob, Jobs, BeginGroup
    <3> HIDE DEF j1
    <3>2. JobsOK'
      BY <1>2, <1>3, <3>1, BecomeKeepsJobs
    <3> QED
      BY <1>2, <1>19, <2>2, <2>3, <3>2 DEF BeginGroup, RowsOK
  <2>4. CASE op # "delete"
    <3>1. j2 \in Jobs /\ j2.at = "dispatch" /\ j2.op \in {"start", "stop"} /\ Become(g, j2)
      BY <1>19, <2>1, <2>4 DEF NoJob, Jobs, Kinds, BeginGroup
    <3> HIDE DEF j2
    <3>2. JobsOK'
      BY <1>2, <1>3, <3>1, BecomeKeepsJobs
    <3> QED
      BY <1>2, <1>19, <2>4, <3>2 DEF BeginGroup, RowsOK
  <2> QED
    BY <2>3, <2>4
<1>20. ASSUME NEW w \in Workers, NEW f \in fan, Work(w, f)
       PROVE  RowsOK' /\ JobsOK' /\ Rest'
  <2> DEFINE r == IF f.kind = "delete" THEN f.row ELSE rows[f.row.id]
             j == [NoJob EXCEPT !.op = f.kind, !.at = "runner", !.by = f.by, !.row = r]
  <2>1. f \in Fan /\ f.kind \in Kinds /\ f.by \in Requests /\ f.row \in Row /\ f.row.id \in Ids
    BY <1>2 DEF Fan, Row
  <2>2. r.status \notin Absent => r \in Row
    BY <1>2, <2>1, ExistingAreRows
  <2>3. \/ UNCHANGED job
        \/ r.status \notin Absent /\ Become(w, j)
    BY <1>20 DEF Work
  <2> HIDE DEF r
  <2>4. r \in Row => j \in Jobs /\ j.at = "runner" /\ j.row \in Row
    BY <2>1 DEF NoJob, Jobs
  <2> HIDE DEF j
  <2>5. JobsOK'
    <3>1. CASE UNCHANGED job
      BY <1>2, <3>1 DEF JobsOK
    <3>2. CASE r.status \notin Absent /\ Become(w, j)
      BY <1>2, <1>3, <2>2, <2>4, <3>2, BecomeKeepsJobs
    <3> QED
      BY <2>3, <3>1, <3>2
  <2> QED
    BY <1>2, <1>20, <2>5 DEF Work, Refused, DbFails, RowsOK
<1>21. ASSUME NEW g \in Tasks, Job(g)
       PROVE  RowsOK' /\ JobsOK' /\ Rest'
  BY <1>5, <1>6, <1>7, <1>8, <1>9, <1>10, <1>11, <1>12, <1>13, <1>14, <1>15, <1>16, <1>21 DEF Job
<1> HIDE DEF Rest
<1> QED
  BY <1>5, <1>17, <1>18, <1>19, <1>20, <1>21 DEF Next, Request, vars

LEMMA InstInvariance == Spec => []InstInv
BY InitInstInv, StepInstInv, PTL DEF Spec

-----------------------------------------------------------------------------
(* The theorems.                                                           *)

\* Rows, jobs and fan-outs keep their types: no step writes a row without a
\* status of domain/emulator/instance.go, or one of an instance that is not there.
THEOREM InstancesTypeCorrect == Spec => []TypeOK
BY InstInvariance, PTL DEF InstInv

\* The instance service implements the runner's specification: its single and
\* group operations reach the runner through Start and Stop alone.
THEOREM InstancesDriveRunner == Spec => RunnerSpec
<1>1. Init => RunnerInit
  BY DEF Init
<1>2. InstInv /\ [Next]_vars => [RunnerNext]_runnerVars
  BY StepsOfRunner DEF InstInv
<1> QED
  BY <1>1, <1>2, InstInvariance, PTL DEF Spec, RunnerSpec

\* So ports stay exclusive however requests and fan-outs overlap.
THEOREM InstancesShareNoPort == Spec => []PortsExclusive
BY InstancesDriveRunner, OnePortOneEmulator, PTL

\* And neither an emulator nor a port is lost but by a doubled start.
THEOREM InstancesLoseNothing == Spec => [](EmulatorsTracked /\ NoPortLost)
BY InstancesDriveRunner, NoStrayEmulator, PortsAccounted, PTL
=============================================================================
