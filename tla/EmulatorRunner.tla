--------------------------- MODULE EmulatorRunner ---------------------------
(***************************************************************************)
(* Runner (internal/infrastructure/emulator/runner.go): the table of the   *)
(* emulators this server started, the ports it reserved for them, and the  *)
(* goroutines inside Start and Stop, each of which takes the mutex several *)
(* times with adb commands and minutes of booting in between.              *)
(*                                                                         *)
(* A serial is its port.  The emulator processes and adb are external: an  *)
(* emulator may die at any moment, boot or not, obey a kill or ignore it,  *)
(* and adb may not list one that runs.                                     *)
(***************************************************************************)
EXTENDS Naturals

CONSTANTS Tasks,    \* goroutines that call Start and Stop
          Names,    \* AVD names of instances
          Ports,    \* the even ports from 5554 to 5682
          None

ASSUME RunnerAssumption == Ports \subseteq Nat /\ None \notin Ports /\ None \notin Names

VARIABLES
    procs,      \* Runner.procs: the registered emulator of a name, or NoProc
    reserved,   \* Runner.reserved
    emus,       \* emulator processes that run, with the task that spawned them
    run,        \* per task: where it is in Start or Stop, and its locals
    doubled     \* history: ports of entries that a second Start overwrote

runnerVars == <<procs, reserved, emus, run, doubled>>

NoProc    == [port |-> None, by |-> None]
Processes == [name : Names, port : Ports, by : Tasks]
Places    == {"out", "check", "list", "reserve", "spawn", "boot", "release",
              "register", "emukill", "collect", "ok", "failed"}

RunnerTypeOK ==
    /\ procs \in [Names -> [port : Ports, by : Tasks] \cup {NoProc}]
    /\ reserved \subseteq Ports
    /\ emus \subseteq Processes
    /\ run \in [Tasks -> [at : Places, name : Names \cup {None},
                          port : Ports \cup {None}, seen : SUBSET Ports]]
    /\ doubled \subseteq Ports

Out == [at |-> "out", name |-> None, port |-> None, seen |-> {}]

RunnerInit ==
    /\ procs = [n \in Names |-> NoProc] /\ reserved = {} /\ emus = {}
    /\ run = [g \in Tasks |-> Out]
    /\ doubled = {}

-----------------------------------------------------------------------------
At(g, l)   == run[g].at = l
Goto(g, l) == run' = [run EXCEPT ![g].at = l]
Process(g) == [name |-> run[g].name, port |-> run[g].port, by |-> g]

\* The calls and the return.
CallStart(g, n) ==
    /\ At(g, "out")
    /\ run' = [run EXCEPT ![g] = [Out EXCEPT !.at = "check", !.name = n]]
    /\ UNCHANGED <<procs, reserved, emus, doubled>>

\* An empty serial is nothing to stop.
CallStop(g, p) ==
    /\ At(g, "out")
    /\ run' = [run EXCEPT ![g] = [Out EXCEPT !.at = IF p = None THEN "ok" ELSE "emukill",
                                             !.port = p]]
    /\ UNCHANGED <<procs, reserved, emus, doubled>>

Return(g) ==
    /\ run[g].at \in {"ok", "failed"}
    /\ run' = [run EXCEPT ![g] = Out]
    /\ UNCHANGED <<procs, reserved, emus, doubled>>

-----------------------------------------------------------------------------
(* Start.                                                                  *)

\* Under mu: a name in the table is taken to be running.
CheckProcs(g) ==
    /\ At(g, "check")
    /\ run' = IF procs[run[g].name] # NoProc
                THEN [run EXCEPT ![g].at = "ok", ![g].port = procs[run[g].name].port]
                ELSE [run EXCEPT ![g].at = "list"]
    /\ UNCHANGED <<procs, reserved, emus, doubled>>

\* adb devices, outside mu: what it lists may be old by the time it is used.
ListPorts(g) ==
    /\ At(g, "list")
    /\ \E S \in SUBSET {e.port : e \in emus} :
         run' = [run EXCEPT ![g].at = "reserve", ![g].seen = S]
    /\ UNCHANGED <<procs, reserved, emus, doubled>>

ListFails(g) ==
    /\ At(g, "list")
    /\ Goto(g, "failed")
    /\ UNCHANGED <<procs, reserved, emus, doubled>>

\* Slip: the reservations of other starts are not looked at.
FreePortsListed(g) == Ports \ run[g].seen

FreePorts(g) == Ports \ (run[g].seen \cup reserved)

\* reservePort, under mu: the lowest free port.
ReservePort(g) ==
    /\ At(g, "reserve")
    /\ \/ /\ FreePorts(g) = {}
          /\ Goto(g, "failed") /\ UNCHANGED reserved
       \/ \E p \in FreePorts(g) :
            /\ \A q \in FreePorts(g) : p <= q
            /\ reserved' = reserved \cup {p}
            /\ run' = [run EXCEPT ![g].at = "spawn", ![g].port = p, ![g].seen = {}]
    /\ UNCHANGED <<procs, emus, doubled>>

Spawn(g) ==
    /\ At(g, "spawn")
    /\ emus' = emus \cup {Process(g)}
    /\ Goto(g, "boot")
    /\ UNCHANGED <<procs, reserved, doubled>>

\* Slip: an error path without releasePort.
SpawnFailsKeepsPort(g) ==
    /\ At(g, "spawn")
    /\ Goto(g, "failed")
    /\ UNCHANGED <<procs, reserved, emus, doubled>>

\* No log directory, no log file or no process: releasePort and return.
SpawnFails(g) ==
    /\ At(g, "spawn")
    /\ reserved' = reserved \ {run[g].port}
    /\ Goto(g, "failed")
    /\ UNCHANGED <<procs, emus, doubled>>

\* waitForBoot.
BootOk(g) ==
    /\ At(g, "boot") /\ Process(g) \in emus
    /\ Goto(g, "register")
    /\ UNCHANGED <<procs, reserved, emus, doubled>>

\* Slip: the process is not killed.
BootFailsLeavesProcess(g) ==
    /\ At(g, "boot")
    /\ Goto(g, "release")
    /\ UNCHANGED <<procs, reserved, emus, doubled>>

\* The deadline or the end of the context: the process is killed...
BootFails(g) ==
    /\ At(g, "boot")
    /\ emus' = emus \ {Process(g)}
    /\ Goto(g, "release")
    /\ UNCHANGED <<procs, reserved, doubled>>

\* ...and its port given back.
ReleasePort(g) ==
    /\ At(g, "release")
    /\ reserved' = reserved \ {run[g].port}
    /\ Goto(g, "failed")
    /\ UNCHANGED <<procs, emus, doubled>>

\* Under mu: whatever entry was there is overwritten.
Register(g) ==
    /\ At(g, "register")
    /\ LET n == run[g].name IN
         /\ procs' = [procs EXCEPT ![n] = [port |-> run[g].port, by |-> g]]
         /\ doubled' = IF procs[n] = NoProc THEN doubled ELSE doubled \cup {procs[n].port}
    /\ Goto(g, "ok")
    /\ UNCHANGED <<reserved, emus>>

-----------------------------------------------------------------------------
(* Stop.                                                                   *)

\* adb emu kill: goes to whoever has the port, and may have no effect.
EmuKill(g) ==
    /\ At(g, "emukill")
    /\ emus' \in {emus, {e \in emus : e.port # run[g].port}}
    /\ Goto(g, "collect")
    /\ UNCHANGED <<procs, reserved, doubled>>

\* Under mu, for an entry with this serial: its process exits within five
\* seconds or is killed, the entry and the reservation go.
Collect(g) ==
    /\ At(g, "collect")
    /\ IF \E n \in Names : procs[n].port = run[g].port
         THEN \E n \in Names :
                /\ procs[n].port = run[g].port
                /\ procs' = [procs EXCEPT ![n] = NoProc]
                /\ emus' = emus \ {[name |-> n, port |-> procs[n].port, by |-> procs[n].by]}
                /\ reserved' = reserved \ {run[g].port}
         ELSE UNCHANGED <<procs, emus, reserved>>
    /\ Goto(g, "ok")
    /\ UNCHANGED doubled

-----------------------------------------------------------------------------
\* An emulator exits: its window was closed, it crashed, or its AVD is in use.
EmulatorDies ==
    /\ \E e \in emus : emus' = emus \ {e}
    /\ UNCHANGED <<procs, reserved, run, doubled>>

Start(g) == \/ CheckProcs(g) \/ ListPorts(g) \/ ListFails(g) \/ ReservePort(g)
            \/ Spawn(g) \/ SpawnFails(g) \/ BootOk(g) \/ BootFails(g)
            \/ ReleasePort(g) \/ Register(g)
Stop(g)  == EmuKill(g) \/ Collect(g)
Run(g)   == Start(g) \/ Stop(g)

RunnerNext ==
    \/ EmulatorDies
    \/ \E g \in Tasks :
         \/ Run(g) \/ Return(g)
         \/ \E n \in Names : CallStart(g, n)
         \/ \E p \in Ports \cup {None} : CallStop(g, p)

RunnerSpec == RunnerInit /\ [][RunnerNext]_runnerVars

-----------------------------------------------------------------------------
(* Properties.                                                             *)

\* A start that holds a port.
InFlight(g) == run[g].at \in {"spawn", "boot", "release", "register"}

\* runner.go:235 "so that concurrent Starts do not get the same port": no two
\* emulators run on one port, although a start looks at adb long before it
\* reserves, and ports are given back by failed boots and by stops, whose
\* serial may be out of date.
PortsExclusive == \A e, f \in emus : e.port = f.port => e = f

\* An emulator that runs is known: its start is still under way, it is in the
\* table where Stop finds it, or its entry was overwritten by a second start of
\* the same name.
EmulatorsTracked ==
    \A e \in emus :
        \/ run[e.by].at \in {"boot", "register"} /\ Process(e.by) = e
        \/ procs[e.name] = [port |-> e.port, by |-> e.by]
        \/ e.port \in doubled

\* runner.go:259 "so that 5554 to 5682 are not used up by failed starts": a
\* reserved port belongs to a start under way or to an entry, again but for the
\* entries that were overwritten.
NoPortLost ==
    \A p \in reserved :
        \/ \E g \in Tasks : InFlight(g) /\ run[g].port = p
        \/ \E n \in Names : procs[n].port = p
        \/ p \in doubled
=============================================================================
