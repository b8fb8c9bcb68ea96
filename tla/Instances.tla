------------------------------ MODULE Instances ------------------------------
(***************************************************************************)
(* InstanceService (internal/application/instance/instance_service.go) on  *)
(* top of the emulator runner: the rows of the instances, their AVDs, and  *)
(* the goroutines that create, start, stop and delete them one by one or   *)
(* as a group, in the request or in the background fan-out it leaves       *)
(* behind.  Every operation reads a row, works for seconds or minutes, and *)
(* writes the whole row back.                                              *)
(*                                                                         *)
(* The rows are those of one user and one group.  An identity is used for  *)
(* one row; the database gives out no number twice.  Each request is made  *)
(* once; the behaviours begin behind the reset of a server start, with     *)
(* some stopped instances.                                                 *)
(***************************************************************************)
EXTENDS EmulatorRunner

CONSTANTS Requests,    \* goroutines of HTTP requests
          Workers,     \* goroutines of the fan-outs
          Ids,         \* primary keys of rows
          Offered      \* the operations users ask for in this instance

ASSUME InstancesAssumption ==
    Tasks = Requests \cup Workers /\ Requests \cap Workers = {}

VARIABLES
    rows,       \* table instance_models
    avds,       \* AVD directories on the disk
    job,        \* per task: the operation, where it is, the row it read
    fan,        \* work of fan-outs that no worker has begun
    dbFailed,   \* history: the database refused an access
    abandoned   \* history: rows that a dispatch marked before it was given up

instVars == <<rows, avds, job, fan, dbFailed, abandoned>>
vars     == <<runnerVars, instVars>>

Statuses == {"stopped", "starting", "running", "stopping", "error"}
Serials  == Ports \cup {None}
Row      == [id : Ids, name : Names, status : Statuses, serial : Serials]
Absent   == {"unborn", "deleted"}
Kinds    == {"start", "stop", "delete"}
Fan      == [kind : Kinds, by : Requests, row : Row]

Jobs     == [op   : Kinds \cup {"none", "create"},
             at   : {"out", "left", "avd", "insert", "rollback", "runner", "save", "mark",
                     "erase", "dispatch", "cleaning"},
             by   : Requests \cup {None},
             row  : Row \cup {None},
             list : SUBSET Row,
             todo : SUBSET Row]

TypeOK ==
    /\ RunnerTypeOK
    /\ rows \in [Ids -> [id : Ids, name : Names \cup {None},
                         status : Statuses \cup Absent, serial : Serials]]
    /\ \A i \in Ids : rows[i].id = i /\ (rows[i].name = None => rows[i].status \in Absent)
    /\ avds \subseteq Names
    /\ job \in [Tasks -> Jobs]
    /\ fan \subseteq Fan
    /\ dbFailed \in BOOLEAN
    /\ abandoned \subseteq Ids

NoJob == [op |-> "none", at |-> "out", by |-> None, row |-> None, list |-> {}, todo |-> {}]

Init ==
    /\ RunnerInit
    /\ \E name \in [Ids -> Names \cup {None}] :
         /\ rows = [i \in Ids |-> [id |-> i, name |-> name[i], serial |-> None,
                        status |-> IF name[i] = None THEN "unborn" ELSE "stopped"]]
         /\ \A i, j \in Ids : i # j /\ name[i] = name[j] => name[i] = None
         /\ avds = {name[i] : i \in Ids} \ {None}
    /\ job = [g \in Tasks |-> NoJob]
    /\ fan = {} /\ dbFailed = FALSE /\ abandoned = {}

-----------------------------------------------------------------------------
(* The database.                                                           *)

Exists(i) == rows[i].status \notin Absent
Rows      == {rows[i] : i \in {j \in Ids : Exists(j)}}

\* Update writes every column of the row it is given, where the row exists.
Update(r) == rows' = IF Exists(r.id) THEN [rows EXCEPT ![r.id] = r] ELSE rows

\* An access that fails, once in a behaviour; every caller but a creation logs
\* it and goes on, or returns an error.
DbFails == ~dbFailed /\ dbFailed' = TRUE /\ UNCHANGED rows

\* A request works under the context of its connection: once the client has gone
\* away the healthy database refuses it, too.
Refused(g) == DbFails \/ (g \in Requests /\ UNCHANGED <<rows, dbFailed>>)

-----------------------------------------------------------------------------
In(g, op, l) == job[g].op = op /\ job[g].at = l
Become(g, j) == job' = [job EXCEPT ![g] = j]
Finish(g)    == Become(g, IF g \in Workers THEN NoJob ELSE [NoJob EXCEPT !.at = "left"])
Idle(g)      == job[g].at = "out" /\ run[g].at = "out"

(* Create and CreateForGroup.                                              *)

NewRow(i, n) == [id |-> i, name |-> n, status |-> "stopped", serial |-> None]

BeginCreate(g) ==
    /\ Idle(g)
    /\ \E n \in Names, i \in Ids :
         /\ rows[i].status = "unborn"
         /\ \A h \in Tasks : job[h].op = "create" => job[h].row.id # i
         /\ Become(g, [NoJob EXCEPT !.op = "create", !.at = "avd",
                          !.row = NewRow(i, n)])
    /\ UNCHANGED <<runnerVars, rows, avds, fan, dbFailed, abandoned>>

\* avdmanager create --force: an AVD of that name is replaced.
CreateAvd(g) ==
    /\ In(g, "create", "avd")
    /\ avds' = avds \cup {job[g].row.name}
    /\ Become(g, [job[g] EXCEPT !.at = "insert"])
    /\ UNCHANGED <<runnerVars, rows, fan, dbFailed, abandoned>>

\* It failed, or the hardware overrides after it did.
CreateAvdFails(g) ==
    /\ In(g, "create", "avd")
    /\ avds' \in {avds, avds \cup {job[g].row.name}}
    /\ Finish(g)
    /\ UNCHANGED <<runnerVars, rows, fan, dbFailed, abandoned>>

InsertRow(g) ==
    /\ In(g, "create", "insert")
    /\ \/ /\ rows' = [rows EXCEPT ![job[g].row.id] = job[g].row]
          /\ Finish(g) /\ UNCHANGED dbFailed
       \/ Refused(g) /\ Become(g, [job[g] EXCEPT !.at = "rollback"])
    /\ UNCHANGED <<runnerVars, avds, fan, abandoned>>

RollBackAvd(g) ==
    /\ In(g, "create", "rollback")
    /\ avds' \in {avds, avds \ {job[g].row.name}}
    /\ Finish(g)
    /\ UNCHANGED <<runnerVars, rows, fan, dbFailed, abandoned>>

-----------------------------------------------------------------------------
(* One instance.  A row is read, and the runner is called with what it says. *)

CallRunner(g, op, r) == IF op = "start" THEN CallStart(g, r.name) ELSE CallStop(g, r.serial)

Begin(g, op) ==
    /\ Idle(g)
    /\ \E r \in Rows :
         /\ CallRunner(g, op, r)
         /\ Become(g, [NoJob EXCEPT !.op = op, !.at = "runner", !.row = r])
    /\ UNCHANGED <<rows, avds, fan, dbFailed, abandoned>>

Stopped(r)    == [r EXCEPT !.status = "stopped", !.serial = None]
Running(r, p) == [r EXCEPT !.status = "running", !.serial = p]
Deleted(r)    == [r EXCEPT !.status = "deleted", !.serial = None]
Failed(r)     == [r EXCEPT !.status = "error", !.serial = None]

\* The runner returned.  A request leaves the row of a failed start alone and
\* takes a failed stop for a good one; a fan-out marks the row in both cases.
\* (Stop fails only without an adb binary, and then no start gave out a serial.)
RunnerReturned(g) ==
    /\ job[g].at = "runner" /\ Return(g)
    /\ LET r == job[g].row
           ok == run[g].at = "ok"
       IN CASE job[g].op = "start" /\ ok ->
                 Become(g, [job[g] EXCEPT !.at = "save", !.row = Running(r, run[g].port)])
            [] job[g].op = "stop" /\ (ok \/ g \in Requests) ->
                 Become(g, [job[g] EXCEPT !.at = "save", !.row = Stopped(r)])
            [] job[g].op = "delete" ->
                 Become(g, [job[g] EXCEPT !.at = "avd"])
            [] OTHER ->
                 IF g \in Workers THEN Become(g, [job[g] EXCEPT !.at = "mark"]) ELSE Finish(g)
    /\ UNCHANGED <<rows, avds, fan, dbFailed, abandoned>>

Save(g) ==
    /\ job[g].at = "save"
    /\ \/ Update(job[g].row) /\ UNCHANGED dbFailed
       \/ Refused(g)
    /\ Finish(g)
    /\ UNCHANGED <<runnerVars, avds, fan, abandoned>>

\* markInstanceError reads the row again.
MarkError(g) ==
    /\ job[g].at = "mark"
    /\ \/ /\ IF Exists(job[g].row.id) THEN Update(Failed(rows[job[g].row.id]))
                                      ELSE UNCHANGED rows
          /\ UNCHANGED dbFailed
       \/ DbFails
    /\ Finish(g)
    /\ UNCHANGED <<runnerVars, avds, fan, abandoned>>

\* The AVD is deleted behind the stop, an error is logged.  A worker of a group
\* deletion is done with that, a request goes on to the row.
DeleteAvd(g) ==
    /\ In(g, "delete", "avd")
    /\ avds' \in {avds, avds \ {job[g].row.name}}
    /\ IF g \in Workers THEN Finish(g) ELSE Become(g, [job[g] EXCEPT !.at = "erase"])
    /\ UNCHANGED <<runnerVars, rows, fan, dbFailed, abandoned>>

\* The row goes, or with a group the rows that are in it by now.
EraseRows(g) ==
    /\ In(g, "delete", "erase")
    /\ LET Gone(i) == job[g].row = None \/ job[g].row.id = i
       IN \/ /\ rows' = [i \in Ids |-> IF Exists(i) /\ Gone(i) THEN Deleted(rows[i]) ELSE rows[i]]
             /\ UNCHANGED dbFailed
          \/ Refused(g)
    /\ Finish(g)
    /\ UNCHANGED <<runnerVars, avds, fan, abandoned>>

-----------------------------------------------------------------------------
(* A group: DispatchStartByGroup and DispatchStopByGroup mark the rows in   *)
(* the request, one by one, from a list read once; RunStartFanout and       *)
(* RunStopFanout do the work afterwards.  StopAndDeleteByGroup waits for    *)
(* its goroutines and erases the rows.                                      *)

BeginGroup(g, op) ==
    /\ Idle(g)
    /\ IF op = "delete"
         THEN /\ fan' = fan \cup [kind : {"delete"}, by : {g}, row : Rows]
              /\ Become(g, [NoJob EXCEPT !.op = op, !.at = "cleaning"])
         ELSE /\ Become(g, [NoJob EXCEPT !.op = op, !.at = "dispatch", !.list = Rows])
              /\ UNCHANGED fan
    /\ UNCHANGED <<runnerVars, rows, avds, dbFailed, abandoned>>

Skipped(op) == IF op = "start" THEN {"running", "starting"} ELSE {"stopped", "stopping"}
Marked(op, r) == IF op = "start" THEN [r EXCEPT !.status = "starting", !.serial = None]
                                 ELSE [r EXCEPT !.status = "stopping"]

\* The next row of the list.  A refused write gives up the whole dispatch, with
\* the rows before it marked and nobody to work on them.
Dispatch(g) ==
    /\ job[g].at = "dispatch"
    /\ \E r \in job[g].list :
         \/ /\ r.status \in Skipped(job[g].op)
            /\ Become(g, [job[g] EXCEPT !.list = @ \ {r}])
            /\ UNCHANGED <<rows, dbFailed, abandoned>>
         \/ /\ r.status \notin Skipped(job[g].op)
            /\ Update(Marked(job[g].op, r))
            /\ Become(g, [job[g] EXCEPT !.list = @ \ {r}, !.todo = @ \cup {r}])
            /\ UNCHANGED <<dbFailed, abandoned>>
         \/ /\ r.status \notin Skipped(job[g].op)
            /\ Refused(g) /\ Finish(g)
            /\ abandoned' = abandoned \cup {m.id : m \in job[g].todo}
    /\ UNCHANGED <<runnerVars, avds, fan>>

\* Slip: the request is answered and the fan-out forgotten.
DispatchedNothing(g) ==
    /\ job[g].at = "dispatch" /\ job[g].list = {}
    /\ Finish(g)
    /\ UNCHANGED <<runnerVars, rows, avds, fan, dbFailed, abandoned>>

\* go RunStartFanout(transitioning), and the request is answered.
Dispatched(g) ==
    /\ job[g].at = "dispatch" /\ job[g].list = {}
    /\ fan' = fan \cup [kind : {job[g].op}, by : {g}, row : job[g].todo]
    /\ Finish(g)
    /\ UNCHANGED <<runnerVars, rows, avds, dbFailed, abandoned>>

\* A goroutine of a fan-out.  Start and stop read the row again, the deletion
\* works with the list.
Work(w, f) ==
    /\ Idle(w) /\ f \in fan
    /\ fan' = fan \ {f}
    /\ LET r == IF f.kind = "delete" THEN f.row ELSE rows[f.row.id]
       IN \/ /\ r.status \notin Absent
             /\ CallRunner(w, f.kind, r)
             /\ Become(w, [NoJob EXCEPT !.op = f.kind, !.at = "runner", !.by = f.by, !.row = r])
             /\ UNCHANGED <<rows, dbFailed>>
          \/ r.status \in Absent /\ UNCHANGED <<job, runnerVars, rows, dbFailed>>
          \/ f.kind # "delete" /\ DbFails /\ UNCHANGED <<job, runnerVars>>
    /\ UNCHANGED <<avds, abandoned>>

\* wg.Wait() of a group deletion.
Cleaned(g) ==
    /\ job[g].at = "cleaning"
    /\ \A f \in fan : f.by # g
    /\ \A w \in Workers : job[w].by # g \/ job[w].op # "delete"
    /\ Become(g, [job[g] EXCEPT !.at = "erase"])
    /\ UNCHANGED <<runnerVars, rows, avds, fan, dbFailed, abandoned>>

-----------------------------------------------------------------------------
Job(g) == \/ CreateAvd(g) \/ CreateAvdFails(g) \/ InsertRow(g) \/ RollBackAvd(g)
          \/ RunnerReturned(g) \/ Save(g) \/ MarkError(g) \/ DeleteAvd(g) \/ EraseRows(g)
          \/ Dispatch(g) \/ Dispatched(g) \/ Cleaned(g)
          \/ Run(g) /\ UNCHANGED instVars

Request(g) == \/ "create" \in Offered /\ BeginCreate(g)
              \/ \E op \in Kinds : op \in Offered /\ Begin(g, op)
              \/ \E op \in Kinds : "group" \in Offered /\ BeginGroup(g, op)

Next == \/ \E g \in Tasks : Job(g)
        \/ \E g \in Requests : Request(g)
        \/ \E w \in Workers : \E f \in fan : Work(w, f)
        \/ EmulatorDies /\ UNCHANGED instVars

Spec == Init /\ [][Next]_vars

(***************************************************************************)
(* Fairness: a goroutine goes on and a fan-out starts its goroutines, but  *)
(* nothing is assumed of a command that either waits for: adb devices,     *)
(* getprop (waitForBoot looks at its deadline and its context between two  *)
(* of them), adb emu kill and avdmanager run as long as they like.  Nobody *)
(* has to ask for anything.                                                *)
(***************************************************************************)
AtCommand(g) == run[g].at \in {"list", "boot", "emukill"} \/ job[g].at \in {"avd", "rollback"}

Fairness ==
    /\ \A g \in Tasks : WF_vars(~AtCommand(g) /\ Job(g))
    /\ WF_vars(\E w \in Workers : \E f \in fan : Work(w, f))

FairSpec == Spec /\ Fairness

-----------------------------------------------------------------------------
(* Properties.                                                             *)

\* emulator/instance.go:30 "starting: runner.Start has not finished booting",
\* and so for stopping: as long as the commands return and the database answers,
\* a row does not stay in either, whatever other requests do to it in the
\* meantime, unless it was marked by a dispatch whose client went away before
\* the last row was.
CommandsReturn == \A g \in Tasks : []<>~AtCommand(g)
Transient(i)   == rows[i].status \in {"starting", "stopping"} /\ i \notin abandoned
TransientResolves ==
    CommandsReturn /\ []~dbFailed => \A i \in Ids : Transient(i) ~> ~Transient(i)

-----------------------------------------------------------------------------
(* What comments say of the code, and the code does not do.                *)

AtRest == fan = {} /\ \A g \in Tasks : job[g].at \in {"out", "left"}

\* instance_service.go:249 "Delete: first stops the emulator, then deletes the
\* AVD, then the row": with everybody done, no emulator of a deleted instance
\* runs.
DeletedMeansGone ==
    AtRest => \A e \in emus : \E r \in Rows : r.name = e.name
=============================================================================
