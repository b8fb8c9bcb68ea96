------------------------------ MODULE Backend -------------------------------
(***************************************************************************)
(* The server's process with the services of modules Accounts, Groups and  *)
(* Files over one database and one disk: it starts (NewApp), serves, is    *)
(* stopped by a signal (Serve's deferred calls) or dies, and starts again. *)
(* Tables and files outlive it, requests and fan-outs do not.              *)
(***************************************************************************)
EXTENDS Accounts, Groups, Files

CONSTANTS MaxEnds       \* ends of the process (bound)

ASSUME BackendAssumption == MaxEnds \in Nat

VARIABLES
    service,    \* the one that is asked: they share no table and no file (bound)
    begun,      \* requests so far; MaxCalls bounds them
    ends,       \* ends of the process so far
    resetOk,    \* the last reset could update the table
    quiet       \* history: no request and no fan-out was left to write when the reset ran

procVars == <<service, phase, bg, ends, resetOk, quiet>>
vars == <<procVars, begun, accountVars, groupVars, fileVars>>

TypeOK ==
    /\ service \in {"accounts", "groups", "files"}
    /\ phase \in Phases /\ begun \in 0..MaxCalls /\ ends \in 0..MaxEnds
    /\ resetOk \in BOOLEAN /\ quiet \in BOOLEAN /\ bg \in BOOLEAN
    /\ AccountsTypeOK /\ GroupsTypeOK /\ FilesTypeOK

Init ==
    /\ service \in {"accounts", "groups", "files"}
    /\ phase = "starting" /\ bg = TRUE /\ begun = 0 /\ ends = 0 /\ resetOk = TRUE /\ quiet = TRUE
    /\ AccountsInit /\ GroupsInit /\ FilesInit

-----------------------------------------------------------------------------
(* Requests.                                                               *)

Busy(c) == login[c].at # "idle" \/ gop[c].at # "idle" \/ fop[c].at # "idle"
NoneBusy == \A c \in Calls : ~Busy(c)

Begin(c) ==
    /\ Accepting /\ ~Busy(c) /\ begun < MaxCalls
    /\ begun' = begun + 1
    /\ \/ /\ service = "accounts" /\ BeginLogin(c)
          /\ UNCHANGED <<groupVars, fileVars>>
       \/ /\ service = "groups" /\ BeginGroupOp(c)
          /\ UNCHANGED <<accountVars, fileVars>>
       \/ /\ service = "files" /\ BeginFileOp(c, begun')
          /\ UNCHANGED <<accountVars, groupVars>>
    /\ UNCHANGED procVars

Step(c) ==
    /\ Alive
    /\ \/ LoginStep(c) /\ UNCHANGED <<groupVars, fileVars>>
       \/ GroupStep(c) /\ UNCHANGED <<accountVars, fileVars>>
       \/ FileStep(c) /\ UNCHANGED <<accountVars, groupVars>>
    /\ UNCHANGED <<procVars, begun>>

Fanout(r) ==
    /\ Alive /\ Boot(r)
    /\ UNCHANGED <<procVars, begun, accountVars, fileVars>>

-----------------------------------------------------------------------------
(* The process.                                                            *)

\* ResetAll: the update, or no update and a warning, as its error is dropped.
ResetAll ==
    /\ \/ rows' = ResetRows /\ resetOk' = TRUE
       \/ UNCHANGED rows /\ resetOk' = FALSE
    /\ fresh' = {}
    /\ UNCHANGED <<groups, lastGroup, langs, avds, gop, job, boots, excused>>

\* NewApp from AutoMigrate on, and Listen.
StartUp ==
    /\ phase = "starting" /\ phase' = "serving"
    /\ ResetAll
    /\ UNCHANGED <<service, bg, ends, quiet, begun, accountVars, fileVars>>

\* The signal: Shutdown closes the listener, and Serve returns at once, while
\* Shutdown goes on waiting for the requests in flight.
Signal ==
    /\ Alive /\ bg /\ bg' = FALSE
    /\ IF phase = "serving" THEN ends < MaxEnds /\ phase' = "stopping"
                            ELSE UNCHANGED phase
    /\ UNCHANGED <<service, ends, resetOk, quiet, begun, accountVars, groupVars, fileVars>>

\* The listener fails, and Serve returns by itself.
AcceptFails ==
    /\ phase = "serving" /\ ends < MaxEnds /\ phase' = "stopping"
    /\ UNCHANGED <<service, bg, ends, resetOk, quiet, begun, accountVars, groupVars, fileVars>>

\* Nothing is left that may write a row's status.
Settled == NoneBusy /\ (BgAlive => boots = {})

\* Slip: the database is closed in front of the reset.
ShutDownResetLate ==
    /\ phase = "stopping" /\ phase' = "reset"
    /\ quiet' = Settled /\ resetOk' = TRUE
    /\ UNCHANGED <<service, bg, ends, begun, accountVars, groupVars, fileVars>>

\* resetAllOnShutdown, the first of Serve's deferred calls; then the sessions
\* are closed.
ShutDownReset ==
    /\ phase = "stopping" /\ phase' = "reset"
    /\ quiet' = Settled
    /\ ResetAll
    /\ UNCHANGED <<service, bg, ends, begun, accountVars, fileVars>>

\* closeDB
CloseDB ==
    /\ phase = "reset" /\ phase' = "closed"
    /\ UNCHANGED <<service, bg, ends, resetOk, quiet, begun, accountVars, groupVars, fileVars>>

Dies ==
    /\ ends' = ends + 1
    /\ phase' = "down"
    /\ AccountsDie /\ GroupsDie /\ FilesDie
    /\ resetOk' = TRUE /\ quiet' = TRUE /\ bg' = TRUE
    /\ UNCHANGED <<service, begun>>

\* main returns behind Serve, or the process is killed.
Exit  == phase = "closed" /\ Dies
Crash == phase # "down" /\ ends < MaxEnds /\ Dies

Restart ==
    /\ phase = "down" /\ phase' = "starting"
    /\ UNCHANGED <<service, bg, ends, resetOk, quiet, begun, accountVars, groupVars, fileVars>>

Next ==
    \/ \E c \in Calls : Begin(c) \/ Step(c)
    \/ \E r \in Rows : Fanout(r)
    \/ StartUp \/ Signal \/ AcceptFails \/ ShutDownReset \/ CloseDB \/ Exit \/ Crash \/ Restart

Spec == Init /\ [][Next]_vars

-----------------------------------------------------------------------------
(* Properties, beside those of the services.                               *)

\* What a row says of its emulator was written in this life of the process: no
\* "running" or "starting" of the one before is left, which nobody would end
\* (lifecycle_reset.go:16-18); and when a shutdown has closed the
\* database, every instance is stopped (app.go:281), if no request was in flight
\* and, where the listener ended the server, no fan-out.  Unless the reset could
\* not update the table.
StatusOfThisLife ==
    resetOk =>
        /\ phase = "serving" =>
             \A r \in Rows : rows[r] \notin {"none", "stopped"} => r \in fresh
        /\ phase = "closed" /\ quiet => \A r \in Rows : rows[r] \in {"none", "stopped"}

=============================================================================
