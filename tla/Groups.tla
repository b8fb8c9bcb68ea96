------------------------------- MODULE Groups -------------------------------
(***************************************************************************)
(* Groups of one user (internal/application/group/group_service.go over    *)
(* group_repo_gorm.go): making a group with an instance for each of its    *)
(* languages, renaming, deleting and starting it.  A group, its instances  *)
(* and their AVDs are in two tables and on a disk, which nothing but the   *)
(* order of the statements keeps together.                                 *)
(*                                                                         *)
(* Of the operations on single instances two are here: the start, whose    *)
(* late write matters to module Backend, and the delete, which takes AVD   *)
(* and row from a group; module Instances has them all.                    *)
(***************************************************************************)
EXTENDS Naturals, FiniteSets, Process

CONSTANTS GroupNames, NoGroup, MaxGroups, Languages,
          Slots,        \* the places of the list of languages of a request
          Concurrency   \* creations of one request at a time

ASSUME GroupsAssumption ==
    /\ MaxGroups \in Nat /\ Concurrency \in Nat \ {0}
    /\ NoGroup \notin GroupNames /\ NoGroup \notin Languages
    /\ IsFiniteSet(Slots) /\ Slots \subseteq Nat

VARIABLES
    groups,     \* the name of each group's row, NoGroup where there is none
    lastGroup,  \* the id given out last; none is used twice
    langs,      \* the languages each group was made with, which name the AVDs
    rows,       \* the status of each row of instances, "none" if there is none
    avds,       \* AVDs on the disk
    gop,        \* where each call is
    job,        \* what each call does for each slot
    boots,      \* rows the background fan-outs still have to start
    fresh,      \* history: rows started in this life
    excused     \* history: groups whose stores may disagree

groupVars == <<groups, lastGroup, langs, rows, avds, gop, job, boots, fresh, excused>>
storeVars == <<groups, lastGroup, langs, rows, avds>>
statusVars == <<boots, fresh>>

GroupIds == 1..MaxGroups
Rows == GroupIds \X Slots
Statuses == {"none", "stopped", "starting", "running", "error"}
NoLangs == [s \in Slots |-> NoGroup]
Op == [at : {"idle", "check", "insert", "fanout", "recheck", "update", "list", "clean",
             "find", "mark", "boot", "drop"},
       g : 0..MaxGroups, name : GroupNames \cup {NoGroup}, sem : 0..Concurrency,
       langs : [Slots -> Languages \cup {NoGroup}]]
NoOp == [at |-> "idle", g |-> 0, name |-> NoGroup, sem |-> 0, langs |-> NoLangs]
NoJobs == [s \in Slots |-> "none"]

GroupsTypeOK ==
    /\ groups \in [GroupIds -> GroupNames \cup {NoGroup}]
    /\ lastGroup \in 0..MaxGroups
    /\ langs \in [GroupIds -> [Slots -> Languages \cup {NoGroup}]]
    /\ rows \in [Rows -> Statuses] /\ avds \subseteq GroupIds \X Languages
    /\ gop \in [Calls -> Op]
    /\ job \in [Calls -> [Slots -> {"none", "todo", "avd", "insert", "rollback",
                                    "clean", "mark", "done"}]]
    /\ boots \subseteq Rows /\ fresh \subseteq Rows
    /\ excused \in [GroupIds -> BOOLEAN]

GroupsInit ==
    /\ groups = [g \in GroupIds |-> NoGroup] /\ lastGroup = 0
    /\ langs = [g \in GroupIds |-> NoLangs]
    /\ rows = [r \in Rows |-> "none"] /\ avds = {}
    /\ gop = [c \in Calls |-> NoOp] /\ job = [c \in Calls |-> NoJobs]
    /\ boots = {} /\ fresh = {}
    /\ excused = [g \in GroupIds |-> FALSE]

-----------------------------------------------------------------------------

Goto(c, at) == gop' = [gop EXCEPT ![c].at = at]
JobDone(c, s) == job' = [job EXCEPT ![c][s] = "done"]
Pending(c, js) == \E s \in Slots : job[c][s] \in js

\* The call is answered.
GroupOpEnds(c) ==
    /\ gop' = [gop EXCEPT ![c] = NoOp]
    /\ job' = [job EXCEPT ![c] = NoJobs]

Excuse(gs) == excused' = [g \in GroupIds |-> excused[g] \/ g \in gs]

Creating(g) == {c \in Calls : gop[c].at = "fanout" /\ gop[c].g = g}
Deleting(g) == {c \in Calls : gop[c].at \in {"list", "clean", "drop"} /\ gop[c].g = g}

\* No other instance of the group has this one's AVD.
Alone(g, s) == \A t \in Slots \ {s} : langs[g][t] # langs[g][s]

\* FindByName, whose errors are taken for "not found".
NameTaken(n, but) == \E g \in GroupIds \ {but} : groups[g] = n

\* The unique index on user and name.
IndexAllows(n, g) == \A h \in GroupIds \ {g} : groups[h] # n

-----------------------------------------------------------------------------
(* Create.                                                                 *)

\* Name, profile and languages are valid.  The languages may repeat: instances of
\* one language share an AVD.
BeginCreate(c) ==
    /\ \E n \in GroupNames, l \in [Slots -> Languages] :
         gop' = [gop EXCEPT ![c] = [NoOp EXCEPT !.at = "check", !.name = n, !.langs = l]]
    /\ UNCHANGED <<storeVars, job, statusVars, excused>>

CheckName(c) ==
    /\ gop[c].at = "check"
    /\ IF DbOpen /\ NameTaken(gop[c].name, 0)
       THEN GroupOpEnds(c)
       ELSE Goto(c, "insert") /\ UNCHANGED job
    /\ UNCHANGED <<storeVars, statusVars, excused>>

\* repo.Create; a lost race for the name, too, is an error without a name.
InsertGroup(c) ==
    /\ gop[c].at = "insert"
    /\ \/ /\ DbOpen /\ lastGroup < MaxGroups
          /\ LET g == lastGroup + 1
             IN  /\ IndexAllows(gop[c].name, g)
                 /\ lastGroup' = g
                 /\ groups' = [groups EXCEPT ![g] = gop[c].name]
                 /\ langs' = [langs EXCEPT ![g] = gop[c].langs]
                 /\ gop' = [gop EXCEPT ![c] = [@ EXCEPT !.at = "fanout", !.g = g, !.name = NoGroup]]
                 /\ Excuse(IF Deleting(g) # {} THEN {g} ELSE {})
          /\ job' = [job EXCEPT ![c] = [s \in Slots |-> "todo"]]
       \/ GroupOpEnds(c) /\ UNCHANGED <<groups, lastGroup, langs, excused>>
    /\ UNCHANGED <<rows, avds, statusVars>>

\* Of the slots with that job the first in the list.
First(c, s, j) == job[c][s] = j /\ \A t \in Slots : t < s => job[c][t] # j

\* The next goroutine, once the semaphore has a place for it.
Fork(c, s) ==
    /\ gop[c].at = "fanout" /\ First(c, s, "todo") /\ gop[c].sem < Concurrency
    /\ gop' = [gop EXCEPT ![c].sem = @ + 1]
    /\ job' = [job EXCEPT ![c][s] = "avd"]
    /\ UNCHANGED <<storeVars, statusVars, excused>>

\* A goroutine of the fan-out ends, with an error or with an id.
CreationFails(c, s) == JobDone(c, s) /\ gop' = [gop EXCEPT ![c].sem = @ - 1]
CreationEnds(c, s)  == JobDone(c, s) /\ gop' = [gop EXCEPT ![c].sem = @ - 1]

AvdOf(c, s) == <<gop[c].g, gop[c].langs[s]>>

\* avd.Create overwrites an AVD of that name (--force).  When it fails there may
\* be one or none: its last step, the config.ini, comes when avdmanager is done,
\* and nothing is rolled back.
CreateAvd(c, s) ==
    /\ job[c][s] = "avd"
    /\ \/ /\ avds' = avds \cup {AvdOf(c, s)}
          /\ job' = [job EXCEPT ![c][s] = "insert"] /\ UNCHANGED <<gop, excused>>
       \/ /\ avds' \in {avds \cup {AvdOf(c, s)}, avds \ {AvdOf(c, s)}}
          /\ Excuse(IF avds' = avds THEN {} ELSE {gop[c].g})
          /\ CreationFails(c, s)
    /\ UNCHANGED <<groups, lastGroup, langs, rows, statusVars>>

\* Slip: without the roll back.
InsertRowOnly(c, s) ==
    /\ job[c][s] = "insert"
    /\ \/ /\ DbOpen
          /\ rows' = [rows EXCEPT ![<<gop[c].g, s>>] = "stopped"]
          /\ CreationEnds(c, s)
       \/ CreationFails(c, s) /\ UNCHANGED rows
    /\ UNCHANGED <<groups, lastGroup, langs, avds, statusVars, excused>>

InsertRow(c, s) ==
    /\ job[c][s] = "insert"
    /\ \/ /\ DbOpen
          /\ rows' = [rows EXCEPT ![<<gop[c].g, s>>] = "stopped"]
          /\ CreationEnds(c, s)
       \/ /\ job' = [job EXCEPT ![c][s] = "rollback"]
          /\ UNCHANGED <<rows, gop>>
    /\ UNCHANGED <<groups, lastGroup, langs, avds, statusVars, excused>>

\* The AVD goes, another instance's too.
RollBackAvd(c, s) ==
    /\ job[c][s] = "rollback"
    /\ \/ /\ avds' = avds \ {AvdOf(c, s)}
          /\ Excuse(IF Alone(gop[c].g, s) THEN {} ELSE {gop[c].g})
       \/ Excuse({gop[c].g}) /\ UNCHANGED avds
    /\ CreationFails(c, s)
    /\ UNCHANGED <<groups, lastGroup, langs, rows, statusVars>>

\* wg.Wait
CreateAnswers(c) ==
    /\ gop[c].at = "fanout" /\ ~Pending(c, {"todo", "avd", "insert", "rollback"})
    /\ GroupOpEnds(c)
    /\ UNCHANGED <<storeVars, statusVars, excused>>

Create(c) ==
    \/ CheckName(c) \/ InsertGroup(c) \/ CreateAnswers(c)
    \/ \E s \in Slots : Fork(c, s) \/ CreateAvd(c, s) \/ InsertRow(c, s) \/ RollBackAvd(c, s)

-----------------------------------------------------------------------------
(* Rename.                                                                 *)

BeginRename(c) ==
    /\ \E n \in GroupNames, g \in 1..lastGroup :
         gop' = [gop EXCEPT ![c] = [NoOp EXCEPT !.at = "recheck", !.name = n, !.g = g]]
    /\ UNCHANGED <<storeVars, job, statusVars, excused>>

RecheckName(c) ==
    /\ gop[c].at = "recheck"
    /\ IF DbOpen /\ NameTaken(gop[c].name, gop[c].g)
       THEN GroupOpEnds(c)
       ELSE Goto(c, "update") /\ UNCHANGED job
    /\ UNCHANGED <<storeVars, statusVars, excused>>

UpdateName(c) ==
    /\ gop[c].at = "update"
    /\ \/ /\ DbOpen /\ groups[gop[c].g] # NoGroup
          /\ IndexAllows(gop[c].name, gop[c].g)
          /\ groups' = [groups EXCEPT ![gop[c].g] = gop[c].name]
       \/ UNCHANGED groups
    /\ GroupOpEnds(c)
    /\ UNCHANGED <<lastGroup, langs, rows, avds, statusVars, excused>>

Rename(c) == RecheckName(c) \/ UpdateName(c)

-----------------------------------------------------------------------------
(* Delete.                                                                 *)

\* A client may name a group that is only now being made.
BeginDelete(c) ==
    /\ \E g \in GroupIds :
         /\ g <= lastGroup + 1
         /\ gop' = [gop EXCEPT ![c] = [NoOp EXCEPT !.at = "list", !.g = g]]
         /\ Excuse(IF Creating(g) # {} THEN {g} ELSE {})
    /\ UNCHANGED <<storeVars, job, statusVars>>

\* ListByGroup of StopAndDeleteByGroup
ListRows(c) ==
    /\ gop[c].at = "list"
    /\ \/ /\ DbOpen
          /\ job' = [job EXCEPT ![c] = [s \in Slots |->
                        IF rows[<<gop[c].g, s>>] # "none" THEN "clean" ELSE "none"]]
          /\ Goto(c, "clean")
       \/ GroupOpEnds(c)
    /\ UNCHANGED <<storeVars, statusVars, excused>>

\* The emulator is stopped and the AVD deleted, an error being logged: for the
\* rows of a group, or for the one row of InstanceService.Delete.
CleanRow(c, s) ==
    /\ job[c][s] = "clean"
    /\ LET g == gop[c].g
       IN  \/ avds' = avds \ {<<g, langs[g][s]>>} /\ UNCHANGED excused
           \/ Excuse({g}) /\ UNCHANGED avds
    /\ JobDone(c, s)
    /\ UNCHANGED <<groups, lastGroup, langs, rows, gop, statusVars>>

\* Slip: the group alone.
EraseGroupOnly(c) ==
    /\ gop[c].at = "clean" /\ ~Pending(c, {"clean"})
    /\ \/ /\ DbOpen /\ groups[gop[c].g] # NoGroup
          /\ groups' = [groups EXCEPT ![gop[c].g] = NoGroup]
          /\ UNCHANGED excused
       \/ Excuse(IF Pending(c, {"done"}) THEN {gop[c].g} ELSE {})
          /\ UNCHANGED groups
    /\ GroupOpEnds(c)
    /\ UNCHANGED <<lastGroup, langs, rows, avds, statusVars>>

\* The transaction of GroupRepoGorm.Delete: rows and group, or, when there is
\* no such group or the database fails, neither.
EraseGroup(c) ==
    /\ gop[c].at = "clean" /\ ~Pending(c, {"clean"})
    /\ \/ /\ DbOpen /\ groups[gop[c].g] # NoGroup
          /\ groups' = [groups EXCEPT ![gop[c].g] = NoGroup]
          /\ rows' = [r \in Rows |-> IF r[1] = gop[c].g THEN "none" ELSE rows[r]]
          /\ fresh' = {r \in fresh : r[1] # gop[c].g}
          /\ UNCHANGED excused
       \/ Excuse(IF Pending(c, {"done"}) THEN {gop[c].g} ELSE {})
          /\ UNCHANGED <<groups, rows, fresh>>
    /\ GroupOpEnds(c)
    /\ UNCHANGED <<lastGroup, langs, avds, boots>>

\* InstanceService.Delete of a row that is there.
BeginDrop(c) ==
    /\ \E g \in GroupIds, s \in Slots :
         /\ rows[<<g, s>>] # "none"
         /\ gop' = [gop EXCEPT ![c] = [NoOp EXCEPT !.at = "drop", !.g = g]]
         /\ job' = [job EXCEPT ![c] = [NoJobs EXCEPT ![s] = "clean"]]
         /\ Excuse(IF Creating(g) # {} \/ ~Alone(g, s) THEN {g} ELSE {})
    /\ UNCHANGED <<storeVars, statusVars>>

\* Its last step: when it fails the row stays, without its AVD.
EraseRow(c) ==
    /\ gop[c].at = "drop"
    /\ \E s \in Slots :
         /\ job[c][s] = "done"
         /\ LET r == <<gop[c].g, s>>
            IN  \/ /\ DbOpen /\ rows' = [rows EXCEPT ![r] = "none"]
                   /\ fresh' = fresh \ {r} /\ UNCHANGED excused
                \/ /\ Excuse(IF rows[r] # "none" THEN {r[1]} ELSE {})
                   /\ UNCHANGED <<rows, fresh>>
    /\ GroupOpEnds(c)
    /\ UNCHANGED <<groups, lastGroup, langs, avds, boots>>

Delete(c) ==
    \/ ListRows(c) \/ EraseGroup(c) \/ EraseRow(c)
    \/ \E s \in Slots : CleanRow(c, s)

-----------------------------------------------------------------------------
(* Start, of a group and of an instance.                                   *)

\* Update of a row's status, without effect on a row that is gone.
Written(r, status) ==
    /\ rows' = IF rows[r] = "none" THEN rows ELSE [rows EXCEPT ![r] = status]
    /\ fresh' = IF rows[r] = "none" THEN fresh ELSE fresh \cup {r}

BeginStartGroup(c) ==
    /\ \E g \in 1..lastGroup :
         gop' = [gop EXCEPT ![c] = [NoOp EXCEPT !.at = "find", !.g = g]]
    /\ UNCHANGED <<storeVars, job, statusVars, excused>>

\* FindOwnedByID and ListByGroup: rows that run or are starting are skipped.
FindGroup(c) ==
    /\ gop[c].at = "find"
    /\ \/ /\ DbOpen /\ groups[gop[c].g] # NoGroup
          /\ job' = [job EXCEPT ![c] = [s \in Slots |->
                       IF rows[<<gop[c].g, s>>] \in {"stopped", "error"} THEN "mark" ELSE "none"]]
          /\ Goto(c, "mark")
       \/ GroupOpEnds(c)
    /\ UNCHANGED <<storeVars, statusVars, excused>>

\* DispatchStartByGroup, row by row; the first error ends it, and nobody starts
\* the rows that are marked.
MarkStarting(c, s) ==
    /\ gop[c].at = "mark" /\ First(c, s, "mark")
    /\ \/ DbOpen /\ Written(<<gop[c].g, s>>, "starting") /\ JobDone(c, s) /\ UNCHANGED gop
       \/ GroupOpEnds(c) /\ UNCHANGED <<rows, fresh>>
    /\ UNCHANGED <<groups, lastGroup, langs, avds, boots, excused>>

\* The request is answered, and RunStartFanout goes on in the background.
StartAnswers(c) ==
    /\ gop[c].at = "mark" /\ ~Pending(c, {"mark"})
    /\ boots' = boots \cup {<<gop[c].g, s>> : s \in {t \in Slots : job[c][t] = "done"}}
    /\ GroupOpEnds(c)
    /\ UNCHANGED <<storeVars, fresh, excused>>

\* One row of RunStartFanout (module Instances has its steps): running, an
\* error, or no write, for which the end of its context suffices.
Boot(r) ==
    /\ r \in boots /\ boots' = boots \ {r}
    /\ \/ BgAlive /\ \E status \in {"running", "error"} : Written(r, status)
       \/ UNCHANGED <<rows, fresh>>
    /\ UNCHANGED <<groups, lastGroup, langs, avds, gop, job, excused>>

\* InstanceService.Start, on the context of its request.
BeginStart(c) ==
    /\ \E r \in Rows :
         /\ rows[r] # "none"
         /\ gop' = [gop EXCEPT ![c] = [NoOp EXCEPT !.at = "boot", !.g = r[1]]]
         /\ job' = [job EXCEPT ![c] = [NoJobs EXCEPT ![r[2]] = "mark"]]
    /\ UNCHANGED <<storeVars, statusVars, excused>>

Start(c) ==
    /\ gop[c].at = "boot"
    /\ \/ \E s \in Slots : job[c][s] = "mark" /\ DbOpen /\ Written(<<gop[c].g, s>>, "running")
       \/ UNCHANGED <<rows, fresh>>
    /\ GroupOpEnds(c)
    /\ UNCHANGED <<groups, lastGroup, langs, avds, boots, excused>>

StartGroup(c) ==
    \/ FindGroup(c) \/ StartAnswers(c)
    \/ \E s \in Slots : MarkStarting(c, s)

-----------------------------------------------------------------------------

BeginGroupOp(c) ==
    \/ BeginCreate(c) \/ BeginRename(c) \/ BeginDelete(c) \/ BeginStartGroup(c)
    \/ BeginStart(c) \/ BeginDrop(c)

GroupStep(c) == Create(c) \/ Rename(c) \/ Delete(c) \/ StartGroup(c) \/ Start(c)

\* The process ends under the calls and the fan-outs.
GroupsDie ==
    /\ gop' = [c \in Calls |-> NoOp] /\ job' = [c \in Calls |-> NoJobs] /\ boots' = {}
    /\ Excuse({g \in GroupIds : Creating(g) \cup Deleting(g) # {}})
    /\ UNCHANGED <<storeVars, fresh>>

\* The update of ResetAll.
ResetRows == [r \in Rows |-> IF rows[r] = "none" THEN "none" ELSE "stopped"]

-----------------------------------------------------------------------------

\* No two groups of a user have one name, however creations and renames race
\* between their check and their write (group_service.go:113, 177).
NamesUnique ==
    \A g, h \in GroupIds : groups[g] # NoGroup /\ groups[g] = groups[h] => g = h

\* A creation that waits for a place of the semaphore waits for another one that
\* is at work: every way out of a goroutine gives its place back
\* (group_service.go:142), so that the request comes to its end.
SemaphoreServes ==
    \A c \in Calls :
        Pending(c, {"todo"}) /\ gop[c].sem = Concurrency
            => Pending(c, {"avd", "insert", "rollback"})

\* An instance's group exists: without it nobody can start, list or delete it
\* as part of a group.  (Unless the group was deleted while it was being made,
\* or the process died in between.)
GroupOfRowExists ==
    \A r \in Rows : rows[r] # "none" /\ ~excused[r[1]] => groups[r[1]] # NoGroup

\* When nobody makes or deletes a group or an instance of it, its instances' rows
\* and its AVDs agree: no AVD is left without a row and no row lacks its AVD, what
\* ever statements of the database failed in a creation (CreateForGroup's roll
\* back).  Unless a failed avdmanager call changed its AVDs or left one that was
\* to go, a deletion failed behind its AVDs, the process died in one of these
\* operations, a deletion overlapped the creation, or an AVD that two instances
\* share (a language that was asked for twice) was rolled back or deleted for one.
AvdsMatchRows ==
    \A g \in GroupIds : ~excused[g] /\ Creating(g) \cup Deleting(g) = {} =>
        /\ \A s \in Slots : rows[<<g, s>>] # "none" => <<g, langs[g][s]>> \in avds
        /\ \A a \in avds : a[1] = g =>
             \E s \in Slots : rows[<<g, s>>] # "none" /\ langs[g][s] = a[2]

=============================================================================
