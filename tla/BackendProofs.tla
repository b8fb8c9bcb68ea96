---------------------------- MODULE BackendProofs ----------------------------
(***************************************************************************)
(* The safety of Backend, for any number of requests in flight, users,     *)
(* groups, languages, files and devices, and any ends of the process: the  *)
(* tables, the AVDs and the files agree where the services promise it.     *)
(* Each service has an invariant of its own, which the steps of the        *)
(* others and of the process leave alone.                                  *)
(***************************************************************************)
EXTENDS Backend, SequenceTheorems, FiniteSetTheorems, TLAPS

USE AccountsAssumption, GroupsAssumption, FilesAssumption, BackendAssumption

-----------------------------------------------------------------------------
(* The invariants.                                                         *)

\* Accounts: names are unique, and who has found or made its user signs for it.
NamesOneUser ==
    \A u, v \in UserIds : users[u] # NoName /\ users[u] = users[v] => u = v

SignsForItself ==
    \A c \in Calls :
        /\ login[c].at # "idle" => login[c].name \in Usernames
        /\ login[c].at = "sign" =>
               login[c].id \in UserIds /\ users[login[c].id] = login[c].name

AccountsInv == AccountsTypeOK /\ NamesOneUser /\ SignsForItself /\ TokenNamesItsUser

\* Groups: which jobs and locals belong to a place.
JobsAt(at) == CASE at = "fanout" -> {"todo", "avd", "insert", "rollback", "done"}
                [] at \in {"clean", "drop"} -> {"none", "clean", "done"}
                [] at = "mark"   -> {"none", "mark", "done"}
                [] at = "boot"   -> {"none", "mark"}
                [] OTHER         -> {"none"}

Named(l) == l \in [Slots -> Languages]

LocalsAt(c) ==
    /\ \A s \in Slots : job[c][s] \in JobsAt(gop[c].at)
    /\ gop[c].at \in {"check", "insert"} => gop[c].name \in GroupNames /\ Named(gop[c].langs)
    /\ gop[c].at \in {"recheck", "update"} => gop[c].name \in GroupNames
    /\ gop[c].at \notin {"idle", "check", "insert"} => gop[c].g \in GroupIds
    /\ gop[c].at # "fanout" => gop[c].sem = 0
    /\ gop[c].at = "fanout" => gop[c].g <= lastGroup /\ gop[c].langs = langs[gop[c].g]
    /\ gop[c].at = "drop" =>
           /\ gop[c].g <= lastGroup
           /\ \A s, t \in Slots : job[c][s] # "none" /\ job[c][t] # "none" => s = t
           /\ ~excused[gop[c].g] =>
                  \A s \in Slots : job[c][s] # "none" => Alone(gop[c].g, s)

LocalsInv == \A c \in Calls : LocalsAt(c)

\* Ids are given out once, so nothing is stored under one that is to come, and
\* a group has one maker.
IdsInv ==
    /\ \A g \in GroupIds : IF g <= lastGroup
                           THEN Named(langs[g])
                           ELSE /\ groups[g] = NoGroup
                                /\ \A s \in Slots : rows[<<g, s>>] = "none"
                                /\ \A l \in Languages : <<g, l>> \notin avds
    /\ \A c, d \in Calls :
         gop[c].at = "fanout" /\ gop[d].at = "fanout" /\ gop[c].g = gop[d].g => c = d

\* Unless it is excused, a group is not made and deleted at a time, and it is
\* there while it is made.
MakersInv ==
    \A g \in GroupIds :
        Creating(g) # {} /\ ~excused[g] => Deleting(g) = {} /\ groups[g] # NoGroup

Made(g, s) == rows[<<g, s>>] # "none"
HasAvd(g, s) == <<g, langs[g][s]>> \in avds

\* While a group is made, the job of a slot tells whether its row is there, and
\* that its AVD is.
JobTells(c, s) ==
    /\ job[c][s] \in {"todo", "avd"} => ~Made(gop[c].g, s)
    /\ job[c][s] \in {"insert", "rollback"} => ~Made(gop[c].g, s) /\ HasAvd(gop[c].g, s)
    /\ job[c][s] = "done" => (Made(gop[c].g, s) => HasAvd(gop[c].g, s))

MakingInv ==
    \A c \in Calls, s \in Slots :
        gop[c].at = "fanout" /\ ~excused[gop[c].g] => JobTells(c, s)

\* Every AVD is that of a row, or of one that is about to be inserted.
Awaited(g, s) == \E c \in Calls : /\ gop[c].at = "fanout" /\ gop[c].g = g
                                  /\ job[c][s] \in {"insert", "rollback"}
BackedInv ==
    \A g \in GroupIds, l \in Languages : ~excused[g] /\ <<g, l>> \in avds =>
        \E s \in Slots : langs[g][s] = l /\ (Made(g, s) \/ Awaited(g, s))

\* While nobody makes it, a row without AVD is one that a deletion has cleaned,
\* and no deletion of the group has passed over a row.
Cleaned(g, s) == \E c \in Calls, t \in Slots :
    /\ gop[c].at \in {"clean", "drop"} /\ gop[c].g = g
    /\ job[c][t] = "done" /\ langs[g][t] = langs[g][s]
DeletingInv ==
    \A g \in GroupIds, s \in Slots :
        ~excused[g] /\ Creating(g) = {} =>
            /\ Made(g, s) /\ ~HasAvd(g, s) => Cleaned(g, s)
            /\ Cleaned(g, s) => ~HasAvd(g, s)
            /\ \A c \in Calls : gop[c].at = "clean" /\ gop[c].g = g /\ Made(g, s)
                                  => job[c][s] # "none"

\* The semaphore counts the goroutines at work.
AtWork(c) == {s \in Slots : job[c][s] \in {"avd", "insert", "rollback"}}
SemInv == \A c \in Calls : gop[c].at = "fanout" => gop[c].sem = Cardinality(AtWork(c))

GroupsInv == /\ GroupsTypeOK /\ LocalsInv /\ IdsInv /\ MakersInv /\ MakingInv /\ BackedInv
             /\ DeletingInv /\ SemInv /\ NamesUnique /\ GroupOfRowExists

\* Files: the locals that a place relies on.
FileLocalsAt(c) ==
    /\ fop[c].at \notin {"idle", "lookup"} =>
           fop[c].name \in FileNames /\ fop[c].n \in 1..MaxCalls
    /\ fop[c].at = "lookup" => fop[c].id \in DOMAIN artifacts
    /\ fop[c].at = "save" /\ fop[c].id # 0 => fop[c].id \in RowsOf(fop[c].name)

FileLocals == \A c \in Calls : FileLocalsAt(c)

\* Two in one file know of each other.
Meet(c, d, ats) == c # d /\ fop[c].at \in ats /\ fop[d].at \in ats /\ fop[c].name = fop[d].name
RacesSeen ==
    \A c, d \in Calls : Meet(c, d, Writing) \/ Meet(c, d, Staging) => fop[c].raced

\* Who is alone in a file finds in it what it wrote, and delivers that.
NoWriter(a) == \A d \in Calls : fop[d].at \in Writing => fop[d].name # a
OwnFileAt(c) ==
    ~fop[c].raced =>
        /\ fop[c].at \in {"find", "save"} => disk[fop[c].name] = fop[c].n
        /\ fop[c].at = "save" /\ fop[c].id = 0 => RowsOf(fop[c].name) = {}
        /\ fop[c].at = "install" => disk[fop[c].name] = fop[c].n /\ NoWriter(fop[c].name)
        /\ fop[c].at \in {"lock", "push"} => staged[fop[c].name] = fop[c].n

OwnFile == \A c \in Calls : OwnFileAt(c)

DeliversAt(c) ==
    fop[c].at \in {"locale", "remove"} /\ fop[c].got # NoFile /\ ~fop[c].raced
        => fop[c].got = fop[c].n

OneRow == \A a \in FileNames \ spoilt : \A i, j \in RowsOf(a) : i = j

FilesInv == /\ FilesTypeOK /\ FileLocals /\ RacesSeen /\ OwnFile /\ OneRow
            /\ ArtifactMatchesFile /\ DeliversItsOwn /\ StagingIsEmptied

\* The process: a reset that nothing was left to write behind is undone by nobody.
QuietInv ==
    quiet /\ phase \in {"reset", "closed"} =>
        Settled /\ (resetOk => \A r \in Rows : rows[r] \in {"none", "stopped"})

\* A shutdown leaves room for the end it leads to.
ProcessInv == /\ service \in {"accounts", "groups", "files"}
              /\ phase \in Phases /\ begun \in 0..MaxCalls /\ ends \in 0..MaxEnds
              /\ phase \in {"stopping", "reset", "closed"} => ends < MaxEnds
              /\ resetOk \in BOOLEAN /\ quiet \in BOOLEAN /\ bg \in BOOLEAN
              /\ QuietInv /\ StatusOfThisLife

-----------------------------------------------------------------------------
(* Accounts.                                                               *)

LEMMA AccountsStart == AccountsInit => AccountsInv
<1> SUFFICES ASSUME AccountsInit PROVE AccountsInv
  OBVIOUS
<1>1. AccountsTypeOK
  BY DEF AccountsInit, AccountsTypeOK, Login, NoLogin
<1>2. NamesOneUser /\ SignsForItself /\ TokenNamesItsUser
  BY DEF AccountsInit, NamesOneUser, SignsForItself, TokenNamesItsUser, NoLogin
<1> QED
  BY <1>1, <1>2 DEF AccountsInv

LEMMA AccountsStable ==
    ASSUME AccountsInv, UNCHANGED accountVars
    PROVE  AccountsInv'
BY DEF AccountsInv, accountVars, AccountsTypeOK, NamesOneUser, SignsForItself, TokenNamesItsUser,
       GetProfile

LEMMA AccountsEnd ==
    ASSUME AccountsInv, AccountsDie
    PROVE  AccountsInv'
<1>1. AccountsTypeOK'
  BY DEF AccountsInv, AccountsDie, AccountsTypeOK, Login, NoLogin
<1>2. SignsForItself'
  BY DEF AccountsDie, SignsForItself, NoLogin
<1>3. NamesOneUser' /\ TokenNamesItsUser'
  BY DEF AccountsInv, AccountsDie, NamesOneUser, TokenNamesItsUser, GetProfile
<1> QED
  BY <1>1, <1>2, <1>3 DEF AccountsInv

\* A call moves on and the tables stay.
LEMMA LoginMoves ==
    ASSUME AccountsInv, NEW c \in Calls, NEW l \in Login,
           login' = [login EXCEPT ![c] = l], UNCHANGED <<users, tokens>>,
           l.at # "idle" => l.name \in Usernames,
           l.at = "sign" => l.id \in UserIds /\ users[l.id] = l.name
    PROVE  AccountsInv'
<1>1. AccountsTypeOK'
  BY DEF AccountsInv, AccountsTypeOK
<1>2. SignsForItself'
  BY DEF AccountsInv, AccountsTypeOK, SignsForItself
<1>3. NamesOneUser' /\ TokenNamesItsUser'
  BY DEF AccountsInv, NamesOneUser, TokenNamesItsUser, GetProfile
<1> QED
  BY <1>1, <1>2, <1>3 DEF AccountsInv

LEMMA BeginLoginKeeps ==
    ASSUME AccountsInv, NEW c \in Calls, BeginLogin(c)
    PROVE  AccountsInv'
<1>1. PICK n \in Usernames :
        login' = [login EXCEPT ![c] = [at |-> "find", name |-> n, id |-> 0]]
  BY DEF BeginLogin
<1>2. [at |-> "find", name |-> n, id |-> 0] \in Login
  BY DEF Login
<1> QED
  BY <1>1, <1>2, LoginMoves DEF BeginLogin

LEMMA LoginEndsKeeps ==
    ASSUME AccountsInv, NEW c \in Calls, LoginEnds(c), UNCHANGED <<users, tokens>>
    PROVE  AccountsInv'
<1>1. NoLogin \in Login /\ NoLogin.at = "idle"
  BY DEF NoLogin, Login
<1> QED
  BY <1>1, LoginMoves DEF LoginEnds

LEMMA FindUserKeeps ==
    ASSUME AccountsInv, NEW c \in Calls, FindUser(c)
    PROVE  AccountsInv'
<1>1. login[c] \in Login /\ login[c].at = "find" /\ login[c].name \in Usernames
  BY DEF AccountsInv, AccountsTypeOK, SignsForItself, FindUser
<1>2. UNCHANGED <<users, tokens>>
  BY DEF FindUser
<1>3. CASE LoginEnds(c)
  BY <1>2, <1>3, LoginEndsKeeps
<1>4. ASSUME NEW u \in UserIds, users[u] = login[c].name,
             login' = [login EXCEPT ![c] = [@ EXCEPT !.at = "sign", !.id = u]]
      PROVE  AccountsInv'
  <2> DEFINE l == [login[c] EXCEPT !.at = "sign", !.id = u]
  <2>0. u \in 0..MaxUsers
    BY DEF UserIds
  <2>1. l \in Login /\ l.at = "sign" /\ l.id = u /\ l.name = login[c].name
    BY <1>1, <2>0 DEF Login
  <2>2. login' = [login EXCEPT ![c] = l]
    BY <1>4 DEF AccountsInv, AccountsTypeOK
  <2> HIDE DEF l
  <2> QED
    <3>1. l.at = "sign" => l.id \in UserIds /\ users[l.id] = l.name
      BY <1>4, <2>1
    <3>2. l.at # "idle" => l.name \in Usernames
      BY <1>1, <2>1
    <3> QED
      BY <1>2, <2>1, <2>2, <3>1, <3>2, LoginMoves
<1>5. CASE login' = [login EXCEPT ![c].at = "create"]
  <2> DEFINE l == [login[c] EXCEPT !.at = "create"]
  <2>1. l \in Login /\ l.at = "create" /\ l.name = login[c].name
    BY <1>1 DEF Login
  <2>2. login' = [login EXCEPT ![c] = l]
    BY <1>5 DEF AccountsInv, AccountsTypeOK
  <2> HIDE DEF l
  <2> QED
    BY <1>1, <1>2, <2>1, <2>2, LoginMoves
<1> QED
  BY <1>3, <1>4, <1>5 DEF FindUser

\* The index lets a name in once, under an id that nobody had.
LEMMA CreateUserKeeps ==
    ASSUME AccountsInv, NEW c \in Calls, CreateUser(c)
    PROVE  AccountsInv'
<1>1. login[c] \in Login /\ login[c].at = "create" /\ login[c].name \in Usernames
      /\ login[c].name # NoName
  BY DEF AccountsInv, AccountsTypeOK, SignsForItself, CreateUser
<1>2. CASE LoginEnds(c) /\ UNCHANGED users
  BY <1>2, LoginEndsKeeps DEF CreateUser
<1>3. ASSUME NEW u \in UserIds, Inserted(c, u)
      PROVE  AccountsInv'
  <2> DEFINE l == [login[c] EXCEPT !.at = "sign", !.id = u]
             n == login[c].name
  <2>0. u \in 0..MaxUsers
    BY DEF UserIds
  <2>1. l \in Login /\ l.at = "sign" /\ l.id = u /\ l.name = n
    BY <1>1, <2>0 DEF Login
  <2>2. login' = [login EXCEPT ![c] = l] /\ UNCHANGED tokens
    BY <1>3 DEF Inserted, AccountsInv, AccountsTypeOK, CreateUser
  <2>3. /\ n \in Usernames /\ n # NoName
        /\ users \in [UserIds -> Usernames \cup {NoName}]
        /\ users' = [users EXCEPT ![u] = n] /\ users[u] = NoName
        /\ \A v \in UserIds : users[v] # n
    BY <1>1, <1>3 DEF Inserted, NameFree, NextUser, AccountsInv, AccountsTypeOK
  <2> HIDE DEF l, n
  <2>4. AccountsTypeOK'
    BY <2>1, <2>2, <2>3 DEF AccountsInv, AccountsTypeOK
  <2>5. SignsForItself'
    BY <2>1, <2>2, <2>3 DEF AccountsInv, AccountsTypeOK, SignsForItself
  <2>6. NamesOneUser'
    BY <2>3 DEF AccountsInv, NamesOneUser
  <2>7. TokenNamesItsUser'
    BY <2>2, <2>3 DEF AccountsInv, AccountsTypeOK, TokenNamesItsUser, GetProfile
  <2> QED
    BY <2>4, <2>5, <2>6, <2>7 DEF AccountsInv
<1> QED
  BY <1>2, <1>3 DEF CreateUser

LEMMA SignTokenKeeps ==
    ASSUME AccountsInv, NEW c \in Calls, SignToken(c)
    PROVE  AccountsInv'
<1> DEFINE t == [id |-> login[c].id, name |-> login[c].name]
<1>1. /\ t \in [id : 0..MaxUsers, name : Usernames]
      /\ t.id \in UserIds /\ users[t.id] = t.name
  BY DEF AccountsInv, AccountsTypeOK, SignsForItself, SignToken, Login
<1>2. tokens' = tokens \cup {t} /\ users' = users
      /\ login' = [login EXCEPT ![c] = NoLogin]
  BY DEF SignToken, LoginEnds
<1> HIDE DEF t
<1>3. AccountsTypeOK'
  BY <1>1, <1>2 DEF AccountsInv, AccountsTypeOK, Login, NoLogin
<1>4. SignsForItself'
  BY <1>2 DEF AccountsInv, AccountsTypeOK, SignsForItself, NoLogin
<1>5. NamesOneUser' /\ TokenNamesItsUser'
  BY <1>1, <1>2 DEF AccountsInv, NamesOneUser, TokenNamesItsUser, GetProfile
<1> QED
  BY <1>3, <1>4, <1>5 DEF AccountsInv

LEMMA AccountsSafe == AccountsInv => OneUserPerName
<1> SUFFICES ASSUME AccountsInv, NEW s \in tokens, NEW t \in tokens, s.name = t.name
             PROVE  s.id = t.id
  BY DEF OneUserPerName
<1>1. \A r \in {s, t} : r.id \in UserIds /\ users[r.id] = r.name /\ r.name # NoName
  BY DEF AccountsInv, AccountsTypeOK, TokenNamesItsUser, GetProfile
<1> QED
  BY <1>1 DEF AccountsInv, NamesOneUser

-----------------------------------------------------------------------------
(* Groups: what the steps of a call have in common.                        *)

SlotJobs == [Slots -> {"none", "todo", "avd", "insert", "rollback", "clean", "mark", "done"}]

\* Only call c moves.
OthersStay(c) == \A d \in Calls \ {c} : gop'[d] = gop[d] /\ job'[d] = job[d]

LEMMA GroupsStart == GroupsInit => GroupsInv
<1> SUFFICES ASSUME GroupsInit PROVE GroupsInv
  OBVIOUS
<1>1. GroupsTypeOK
  <2>1. NoOp \in Op /\ NoJobs \in SlotJobs /\ NoLangs \in [Slots -> Languages \cup {NoGroup}]
    BY DEF NoOp, Op, NoJobs, SlotJobs, NoLangs
  <2> QED
    BY <2>1 DEF GroupsInit, GroupsTypeOK, Rows, SlotJobs, Statuses
<1>2. \A c \in Calls : gop[c].at = "idle" /\ gop[c].sem = 0 /\ \A s \in Slots : job[c][s] = "none"
  BY DEF GroupsInit, NoOp, NoJobs
<1>3. LocalsInv
  BY <1>2 DEF LocalsInv, LocalsAt, JobsAt
<1>4. IdsInv
  BY <1>2 DEF IdsInv, GroupsInit, GroupIds, Rows
<1>5. MakersInv /\ MakingInv /\ SemInv
  BY <1>2 DEF MakersInv, MakingInv, SemInv, Creating
<1>6. DeletingInv /\ BackedInv /\ NamesUnique /\ GroupOfRowExists
  BY <1>2 DEF DeletingInv, Cleaned, BackedInv, NamesUnique, GroupOfRowExists, GroupsInit, HasAvd,
              Made, Rows
<1> QED
  BY <1>1, <1>3, <1>4, <1>5, <1>6 DEF GroupsInv

\* A step that gives no AVD to a group and takes none of its rows, or one that
\* has lost its AVD.
LEMMA StaysBacked ==
    ASSUME GroupsInv,
           \A g \in GroupIds : excused[g] => excused'[g],
           \A g \in GroupIds : ~excused'[g] =>
               /\ langs'[g] = langs[g]
               /\ \A l \in Languages : <<g, l>> \in avds' => <<g, l>> \in avds
               /\ \A s \in Slots : Made(g, s) \/ Awaited(g, s) =>
                      Made(g, s)' \/ Awaited(g, s)' \/ ~HasAvd(g, s)'
    PROVE  BackedInv'
<1> SUFFICES ASSUME NEW g \in GroupIds, NEW l \in Languages, ~excused'[g], <<g, l>> \in avds'
             PROVE  \E s \in Slots : langs'[g][s] = l /\ (Made(g, s)' \/ Awaited(g, s)')
  BY DEF BackedInv
<1>1. PICK s \in Slots : langs[g][s] = l /\ (Made(g, s) \/ Awaited(g, s))
  BY DEF GroupsInv, BackedInv
<1>2. HasAvd(g, s)'
  BY <1>1 DEF HasAvd
<1> QED
  BY <1>1, <1>2

\* Resets and the boots of a fan-out write the status of rows that are there.
LEMMA StatusKeeps ==
    ASSUME GroupsInv, GroupsTypeOK',
           UNCHANGED <<groups, lastGroup, langs, avds, gop, job, excused>>,
           \A r \in Rows : rows'[r] = "none" <=> rows[r] = "none"
    PROVE  GroupsInv'
<1>1. \A g \in GroupIds, s \in Slots : (Made(g, s)' <=> Made(g, s)) /\ (HasAvd(g, s)' <=> HasAvd(g, s))
  BY DEF Made, HasAvd, Rows
<1>2. \A g \in GroupIds : Creating(g)' = Creating(g) /\ Deleting(g)' = Deleting(g)
  BY DEF Creating, Deleting
<1>3. LocalsInv'
  BY DEF GroupsInv, LocalsInv, LocalsAt, Alone
<1>4. IdsInv'
  BY DEF GroupsInv, IdsInv, Rows
<1>9. BackedInv'
  <2>1. \A g \in GroupIds, s \in Slots : Awaited(g, s)' <=> Awaited(g, s)
    BY DEF Awaited
  <2> QED
    BY <1>1, <2>1, StaysBacked
<1>5. MakersInv' /\ SemInv' /\ NamesUnique'
  BY <1>2 DEF GroupsInv, MakersInv, SemInv, AtWork, NamesUnique
<1>6. MakingInv'
  BY <1>1 DEF GroupsInv, MakingInv, JobTells, LocalsInv, LocalsAt
<1>7. DeletingInv'
  <2>1. \A g \in GroupIds, s \in Slots : Cleaned(g, s)' <=> Cleaned(g, s)
    BY DEF Cleaned
  <2> QED
    BY <1>1, <1>2, <2>1 DEF GroupsInv, DeletingInv
<1>8. GroupOfRowExists'
  BY DEF GroupsInv, GroupOfRowExists
<1> QED
  BY <1>3, <1>4, <1>5, <1>6, <1>7, <1>8, <1>9 DEF GroupsInv

LEMMA GroupsStable ==
    ASSUME GroupsInv, UNCHANGED groupVars
    PROVE  GroupsInv'
<1>1. GroupsTypeOK'
  BY DEF GroupsInv, GroupsTypeOK, groupVars
<1> QED
  BY <1>1, StatusKeeps DEF groupVars

\* The call goes to a place, with the jobs of its goroutines.
LEMMA CallMoves ==
    ASSUME GroupsInv, NEW c \in Calls, NEW o \in Op, NEW j \in SlotJobs,
           gop' = [gop EXCEPT ![c] = o], job' = [job EXCEPT ![c] = j]
    PROVE  /\ gop' \in [Calls -> Op] /\ job' \in [Calls -> SlotJobs]
           /\ gop'[c] = o /\ job'[c] = j /\ OthersStay(c)
BY DEF GroupsInv, GroupsTypeOK, OthersStay, SlotJobs

\* A step of a call that makes no group, and that takes nothing from one that is
\* made.
LEMMA MakesNothing ==
    ASSUME GroupsInv, NEW c \in Calls, OthersStay(c), LocalsAt(c)',
           gop[c].at # "fanout", gop'[c].at # "fanout",
           UNCHANGED <<lastGroup, langs>>, avds' \subseteq avds,
           \A g \in GroupIds : excused[g] => excused'[g],
           \A g \in GroupIds : groups[g] = NoGroup => groups'[g] = NoGroup,
           \A r \in Rows : rows[r] = "none" => rows'[r] = "none",
           \A g \in GroupIds : Creating(g) # {} /\ ~excused'[g] =>
               /\ Deleting(g)' = {} /\ groups'[g] # NoGroup
               /\ \A s \in Slots : rows'[<<g, s>>] = "none" => rows[<<g, s>>] = "none"
               /\ \A l \in Languages : <<g, l>> \in avds => <<g, l>> \in avds',
           \A g \in GroupIds, s \in Slots : ~excused'[g] /\ Made(g, s) => Made(g, s)' \/ ~HasAvd(g, s)'
    PROVE  LocalsInv' /\ IdsInv' /\ MakersInv' /\ MakingInv' /\ SemInv' /\ BackedInv'
<1>1. \A g \in GroupIds : Creating(g)' = Creating(g)
  BY DEF Creating, OthersStay
<1>2. LocalsInv'
  BY DEF GroupsInv, LocalsInv, LocalsAt, OthersStay, Alone
<1>3. IdsInv'
  <2>1. \A g \in GroupIds : IF g <= lastGroup'
                            THEN Named(langs'[g])
                            ELSE /\ groups'[g] = NoGroup
                                 /\ \A s \in Slots : rows'[<<g, s>>] = "none"
                                 /\ \A l \in Languages : <<g, l>> \notin avds'
    BY DEF GroupsInv, IdsInv, Rows
  <2>2. \A d, e \in Calls :
          gop'[d].at = "fanout" /\ gop'[e].at = "fanout" /\ gop'[d].g = gop'[e].g => d = e
    BY DEF GroupsInv, IdsInv, OthersStay
  <2> QED
    BY <2>1, <2>2 DEF IdsInv
<1>4. MakersInv'
  BY <1>1 DEF GroupsInv, MakersInv
<1>5. MakingInv'
  <2> SUFFICES ASSUME NEW d \in Calls, NEW s \in Slots,
                      gop'[d].at = "fanout", ~excused'[gop'[d].g]
               PROVE  JobTells(d, s)'
    BY DEF MakingInv
  <2> DEFINE g == gop[d].g
  <2>1. d # c /\ gop'[d] = gop[d] /\ job'[d] = job[d] /\ g \in GroupIds /\ g <= lastGroup
    BY DEF OthersStay, GroupsInv, LocalsInv, LocalsAt
  <2>2. d \in Creating(g) /\ ~excused'[g] /\ ~excused[g]
    BY <2>1 DEF Creating
  <2>3. langs[g][s] \in Languages
    BY <2>1 DEF GroupsInv, IdsInv, Named
  <2>4. (Made(g, s)' <=> Made(g, s)) /\ (HasAvd(g, s)' <=> HasAvd(g, s))
    <3>1. rows'[<<g, s>>] = "none" <=> rows[<<g, s>>] = "none"
      BY <2>1, <2>2 DEF Rows
    <3>2. <<g, langs[g][s]>> \in avds' <=> <<g, langs[g][s]>> \in avds
      BY <2>1, <2>2, <2>3
    <3> QED
      BY <2>1, <3>1, <3>2 DEF Made, HasAvd
  <2>5. JobTells(d, s)
    BY <2>1, <2>2 DEF GroupsInv, MakingInv
  <2> QED
    BY <2>1, <2>4, <2>5 DEF JobTells
<1>6. SemInv'
  BY DEF GroupsInv, SemInv, AtWork, OthersStay
<1>7. BackedInv'
  <2>1. \A g \in GroupIds, s \in Slots : Awaited(g, s)' <=> Awaited(g, s)
    BY DEF Awaited, OthersStay
  <2> QED
    BY <2>1, StaysBacked
<1> QED
  BY <1>2, <1>3, <1>4, <1>5, <1>6, <1>7

\* A step of a call that neither makes nor deletes a group and keeps the rows,
\* but for their status, and the groups, but for their names.
LEMMA StepsAside ==
    ASSUME GroupsInv, NEW c \in Calls, OthersStay(c), LocalsAt(c)', GroupsTypeOK', NamesUnique',
           gop[c].at \notin {"fanout", "list", "clean", "drop"},
           gop'[c].at \notin {"fanout", "list", "clean", "drop"},
           UNCHANGED <<lastGroup, langs, avds, excused>>,
           \A g \in GroupIds : groups'[g] = NoGroup <=> groups[g] = NoGroup,
           \A r \in Rows : rows'[r] = "none" <=> rows[r] = "none"
    PROVE  GroupsInv'
<1>1. \A g \in GroupIds : Creating(g)' = Creating(g) /\ Deleting(g)' = Deleting(g)
  BY DEF Creating, Deleting, OthersStay
<1>2. \A g \in GroupIds, s \in Slots :
        /\ Made(g, s)' <=> Made(g, s)
        /\ HasAvd(g, s)' <=> HasAvd(g, s)
        /\ Cleaned(g, s)' <=> Cleaned(g, s)
  BY DEF Made, HasAvd, Cleaned, Rows, OthersStay
<1>3. \A g \in GroupIds : Creating(g) # {} /\ ~excused'[g] =>
          Deleting(g)' = {} /\ groups'[g] # NoGroup
  BY <1>1 DEF GroupsInv, MakersInv
<1>4. LocalsInv' /\ IdsInv' /\ MakersInv' /\ MakingInv' /\ SemInv' /\ BackedInv'
  BY <1>2, <1>3, MakesNothing DEF Rows
<1>5. DeletingInv'
  <2>1. \A g \in GroupIds, d \in Calls, s \in Slots :
          gop'[d].at = "clean" /\ gop'[d].g = g =>
              gop[d].at = "clean" /\ gop[d].g = g /\ job'[d][s] = job[d][s]
    BY DEF OthersStay
  <2> QED
    BY <1>1, <1>2, <2>1 DEF GroupsInv, DeletingInv
<1>6. GroupOfRowExists'
  BY DEF GroupsInv, GroupOfRowExists, Rows
<1> QED
  BY <1>4, <1>5, <1>6 DEF GroupsInv

\* The call goes from one place to another one, with those locals and jobs.
FitsAt(o, j) ==
    /\ \A s \in Slots : j[s] \in JobsAt(o.at)
    /\ o.at \notin {"fanout", "list", "clean", "drop"}
    /\ o.at \in {"check", "insert"} => o.name \in GroupNames /\ Named(o.langs)
    /\ o.at \in {"recheck", "update"} => o.name \in GroupNames
    /\ o.at \notin {"idle", "check", "insert"} => o.g \in GroupIds
    /\ o.sem = 0

LEMMA CallGoes ==
    ASSUME GroupsInv, NEW c \in Calls, gop[c].at \notin {"fanout", "list", "clean", "drop"},
           NEW o \in Op, NEW j \in SlotJobs, FitsAt(o, j),
           gop' = [gop EXCEPT ![c] = o], job' = [job EXCEPT ![c] = j],
           UNCHANGED <<lastGroup, langs, avds, excused>>,
           groups' \in [GroupIds -> GroupNames \cup {NoGroup}], NamesUnique',
           \A g \in GroupIds : groups'[g] = NoGroup <=> groups[g] = NoGroup,
           rows' \in [Rows -> Statuses], boots' \subseteq Rows, fresh' \subseteq Rows,
           \A r \in Rows : rows'[r] = "none" <=> rows[r] = "none"
    PROVE  GroupsInv'
<1>1. /\ gop' \in [Calls -> Op] /\ job' \in [Calls -> SlotJobs]
      /\ gop'[c] = o /\ job'[c] = j /\ OthersStay(c)
  BY CallMoves
<1>2. GroupsTypeOK'
  BY <1>1 DEF GroupsInv, GroupsTypeOK, SlotJobs, Rows
<1>3. LocalsAt(c)'
  BY <1>1 DEF FitsAt, LocalsAt
<1>4. gop'[c].at \notin {"fanout", "list", "clean", "drop"}
  BY <1>1 DEF FitsAt
<1> QED
  BY <1>1, <1>2, <1>3, <1>4, StepsAside

LEMMA CallOnlyGoes ==
    ASSUME GroupsInv, NEW c \in Calls, gop[c].at \notin {"fanout", "list", "clean", "drop"},
           NEW o \in Op, NEW j \in SlotJobs, FitsAt(o, j),
           gop' = [gop EXCEPT ![c] = o], job' = [job EXCEPT ![c] = j],
           UNCHANGED <<storeVars, fresh, excused>>, boots' \subseteq Rows
    PROVE  GroupsInv'
<1>1. /\ groups' \in [GroupIds -> GroupNames \cup {NoGroup}]
      /\ rows' \in [Rows -> Statuses] /\ fresh' \subseteq Rows
      /\ UNCHANGED <<groups, rows, lastGroup, langs, avds, excused>>
  BY DEF GroupsInv, GroupsTypeOK, storeVars
<1>2. NamesUnique'
  BY <1>1 DEF GroupsInv, NamesUnique
<1> QED
  BY <1>1, <1>2, CallGoes

\* The jobs that a call in this place has, and those of an idle one.
LEMMA JobsTyped ==
    ASSUME GroupsInv, NEW c \in Calls
    PROVE  /\ gop[c] \in Op /\ job[c] \in SlotJobs /\ LocalsAt(c)
           /\ job' = job => job' = [job EXCEPT ![c] = job[c]]
           /\ gop' = gop => gop' = [gop EXCEPT ![c] = gop[c]]
BY DEF GroupsInv, GroupsTypeOK, LocalsInv, SlotJobs

LEMMA NothingIsTyped ==
    /\ NoOp \in Op /\ NoJobs \in SlotJobs /\ FitsAt(NoOp, NoJobs)
    /\ NoOp.at = "idle" /\ NoOp.sem = 0 /\ NoOp.name = NoGroup
    /\ NoOp.langs \in [Slots -> Languages \cup {NoGroup}]
BY DEF NoOp, Op, NoJobs, SlotJobs, NoLangs, FitsAt, JobsAt

LEMMA GroupOpEndsKeeps ==
    ASSUME GroupsInv, NEW c \in Calls, gop[c].at \notin {"fanout", "list", "clean", "drop"},
           GroupOpEnds(c), UNCHANGED <<storeVars, fresh, excused>>, boots' \subseteq Rows
    PROVE  GroupsInv'
BY NothingIsTyped, CallOnlyGoes DEF GroupOpEnds

\* One that answers after a write of a status.
LEMMA WriteEndsKeeps ==
    ASSUME GroupsInv, NEW c \in Calls, gop[c].at \notin {"fanout", "list", "clean", "drop"},
           NEW o \in Op, NEW j \in SlotJobs, FitsAt(o, j),
           gop' = [gop EXCEPT ![c] = o], job' = [job EXCEPT ![c] = j],
           UNCHANGED <<groups, lastGroup, langs, avds, boots, excused>>,
           NEW r \in Rows, NEW status \in Statuses \ {"none"}, Written(r, status)
    PROVE  GroupsInv'
<1>1. /\ rows' \in [Rows -> Statuses] /\ fresh' \subseteq Rows
      /\ \A q \in Rows : rows'[q] = "none" <=> rows[q] = "none"
  BY DEF Written, GroupsInv, GroupsTypeOK
<1>2. groups' \in [GroupIds -> GroupNames \cup {NoGroup}] /\ boots' \subseteq Rows /\ NamesUnique'
  BY DEF GroupsInv, GroupsTypeOK, NamesUnique
<1> QED
  BY <1>1, <1>2, CallGoes

-----------------------------------------------------------------------------
(* Groups: requests begin, and the steps that touch no row and no AVD.     *)

LEMMA BeginCreateKeeps ==
    ASSUME GroupsInv, NEW c \in Calls, gop[c].at = "idle", BeginCreate(c)
    PROVE  GroupsInv'
<1>1. PICK n \in GroupNames, l \in [Slots -> Languages] :
        gop' = [gop EXCEPT ![c] = [NoOp EXCEPT !.at = "check", !.name = n, !.langs = l]]
  BY DEF BeginCreate
<1> DEFINE o == [NoOp EXCEPT !.at = "check", !.name = n, !.langs = l]
<1>2. o.at = "check" /\ o.name = n /\ o.langs = l /\ o.sem = 0
  BY NothingIsTyped DEF Op
<1>3. o \in Op
  BY NothingIsTyped DEF Op
<1> HIDE DEF o
<1>5. FitsAt(o, job[c])
  BY <1>1, <1>2, JobsTyped DEF FitsAt, LocalsAt, JobsAt, Named
<1>4. job' = [job EXCEPT ![c] = job[c]] /\ job[c] \in SlotJobs
      /\ UNCHANGED <<storeVars, fresh, excused>> /\ boots' \subseteq Rows
  BY JobsTyped DEF BeginCreate, statusVars, GroupsInv, GroupsTypeOK
<1> QED
  BY <1>1, <1>3, <1>4, <1>5, CallOnlyGoes DEF o

LEMMA BeginRenameKeeps ==
    ASSUME GroupsInv, NEW c \in Calls, gop[c].at = "idle", BeginRename(c)
    PROVE  GroupsInv'
<1>1. PICK n \in GroupNames, g \in 1..lastGroup :
        gop' = [gop EXCEPT ![c] = [NoOp EXCEPT !.at = "recheck", !.name = n, !.g = g]]
  BY DEF BeginRename
<1> DEFINE o == [NoOp EXCEPT !.at = "recheck", !.name = n, !.g = g]
<1>2. g \in GroupIds /\ g \in 0..MaxGroups
  BY DEF GroupsInv, GroupsTypeOK, GroupIds
<1>3. o \in Op /\ o.at = "recheck" /\ o.g = g /\ o.sem = 0 /\ o.name = n
  BY <1>2, NothingIsTyped DEF Op
<1> HIDE DEF o
<1>4. FitsAt(o, job[c])
  BY <1>2, <1>3, JobsTyped DEF FitsAt, LocalsAt, JobsAt
<1>5. job' = [job EXCEPT ![c] = job[c]] /\ job[c] \in SlotJobs
      /\ UNCHANGED <<storeVars, fresh, excused>> /\ boots' \subseteq Rows
  BY JobsTyped DEF BeginRename, statusVars, GroupsInv, GroupsTypeOK
<1> QED
  BY <1>1, <1>3, <1>4, <1>5, CallOnlyGoes DEF o

LEMMA BeginStartGroupKeeps ==
    ASSUME GroupsInv, NEW c \in Calls, gop[c].at = "idle", BeginStartGroup(c)
    PROVE  GroupsInv'
<1>1. PICK g \in 1..lastGroup :
        gop' = [gop EXCEPT ![c] = [NoOp EXCEPT !.at = "find", !.g = g]]
  BY DEF BeginStartGroup
<1> DEFINE o == [NoOp EXCEPT !.at = "find", !.g = g]
<1>2. g \in GroupIds /\ g \in 0..MaxGroups
  BY DEF GroupsInv, GroupsTypeOK, GroupIds
<1>3. o \in Op /\ o.at = "find" /\ o.g = g /\ o.sem = 0
  BY <1>2, NothingIsTyped DEF Op
<1> HIDE DEF o
<1>4. FitsAt(o, job[c])
  BY <1>2, <1>3, JobsTyped DEF FitsAt, LocalsAt, JobsAt
<1>5. job' = [job EXCEPT ![c] = job[c]] /\ job[c] \in SlotJobs
      /\ UNCHANGED <<storeVars, fresh, excused>> /\ boots' \subseteq Rows
  BY JobsTyped DEF BeginStartGroup, statusVars, GroupsInv, GroupsTypeOK
<1> QED
  BY <1>1, <1>3, <1>4, <1>5, CallOnlyGoes DEF o

LEMMA BeginStartKeeps ==
    ASSUME GroupsInv, NEW c \in Calls, gop[c].at = "idle", BeginStart(c)
    PROVE  GroupsInv'
<1>1. PICK r \in Rows :
        /\ gop' = [gop EXCEPT ![c] = [NoOp EXCEPT !.at = "boot", !.g = r[1]]]
        /\ job' = [job EXCEPT ![c] = [NoJobs EXCEPT ![r[2]] = "mark"]]
  BY DEF BeginStart
<1> DEFINE o == [NoOp EXCEPT !.at = "boot", !.g = r[1]]
           j == [NoJobs EXCEPT ![r[2]] = "mark"]
<1>3. r[1] \in GroupIds /\ r[1] \in 0..MaxGroups /\ r[2] \in Slots
  BY DEF Rows, GroupIds
<1>4. o \in Op /\ o.at = "boot" /\ o.g = r[1] /\ o.sem = 0
  BY <1>3, NothingIsTyped DEF Op
<1>5. j \in SlotJobs /\ \A s \in Slots : j[s] \in {"none", "mark"}
  BY <1>3 DEF NoJobs, SlotJobs
<1> HIDE DEF o, j
<1>7. FitsAt(o, j)
  BY <1>3, <1>4, <1>5 DEF FitsAt, JobsAt
<1>8. UNCHANGED <<storeVars, fresh, excused>> /\ boots' \subseteq Rows
  BY DEF BeginStart, statusVars, GroupsInv, GroupsTypeOK
<1> QED
  BY <1>1, <1>4, <1>5, <1>7, <1>8, CallOnlyGoes DEF o, j

\* Goto, for the places without new locals.
LEMMA GotoKeeps ==
    ASSUME GroupsInv, NEW c \in Calls, gop[c].at \notin {"fanout", "list", "clean", "drop"},
           NEW at \in {"insert", "update", "mark"}, Goto(c, at),
           at = "insert" => gop[c].at = "check", at = "update" => gop[c].at = "recheck",
           at = "mark" => gop[c].at = "find",
           NEW j \in SlotJobs, job' = [job EXCEPT ![c] = j],
           \A s \in Slots : j[s] \in JobsAt(at),
           UNCHANGED <<storeVars, statusVars, excused>>
    PROVE  GroupsInv'
<1> DEFINE o == [gop[c] EXCEPT !.at = at]
<1>1. gop' = [gop EXCEPT ![c] = o]
  BY DEF Goto, GroupsInv, GroupsTypeOK
<1>2. /\ o \in Op /\ o.at = at /\ o.g = gop[c].g /\ o.name = gop[c].name
      /\ o.langs = gop[c].langs /\ o.sem = gop[c].sem
  BY JobsTyped DEF Op
<1> HIDE DEF o
<1>3. FitsAt(o, j)
  BY <1>2, JobsTyped DEF FitsAt, LocalsAt
<1>4. UNCHANGED <<storeVars, fresh, excused>> /\ boots' \subseteq Rows
  BY DEF statusVars, GroupsInv, GroupsTypeOK
<1> QED
  BY <1>1, <1>2, <1>3, <1>4, CallOnlyGoes

LEMMA CheckNameKeeps ==
    ASSUME GroupsInv, NEW c \in Calls, CheckName(c)
    PROVE  GroupsInv'
<1>1. gop[c].at = "check" /\ UNCHANGED <<storeVars, statusVars, excused>>
      /\ UNCHANGED fresh /\ boots' \subseteq Rows
  BY DEF CheckName, statusVars, GroupsInv, GroupsTypeOK
<1>2. CASE GroupOpEnds(c)
  BY <1>1, <1>2, GroupOpEndsKeeps
<1>3. CASE Goto(c, "insert") /\ UNCHANGED job
  <2>1. job[c] \in SlotJobs /\ job' = [job EXCEPT ![c] = job[c]]
        /\ \A s \in Slots : job[c][s] \in JobsAt("insert")
    BY <1>1, <1>3, JobsTyped DEF LocalsAt, JobsAt
  <2> QED
    BY <1>1, <1>3, <2>1, GotoKeeps
<1> QED
  BY <1>2, <1>3 DEF CheckName

LEMMA RecheckNameKeeps ==
    ASSUME GroupsInv, NEW c \in Calls, RecheckName(c)
    PROVE  GroupsInv'
<1>1. gop[c].at = "recheck" /\ UNCHANGED <<storeVars, statusVars, excused>>
      /\ UNCHANGED fresh /\ boots' \subseteq Rows
  BY DEF RecheckName, statusVars, GroupsInv, GroupsTypeOK
<1>2. CASE GroupOpEnds(c)
  BY <1>1, <1>2, GroupOpEndsKeeps
<1>3. CASE Goto(c, "update") /\ UNCHANGED job
  <2>1. job[c] \in SlotJobs /\ job' = [job EXCEPT ![c] = job[c]]
        /\ \A s \in Slots : job[c][s] \in JobsAt("update")
    BY <1>1, <1>3, JobsTyped DEF LocalsAt, JobsAt
  <2> QED
    BY <1>1, <1>3, <2>1, GotoKeeps
<1> QED
  BY <1>2, <1>3 DEF RecheckName

LEMMA FindGroupKeeps ==
    ASSUME GroupsInv, NEW c \in Calls, FindGroup(c)
    PROVE  GroupsInv'
<1>1. gop[c].at = "find" /\ UNCHANGED <<storeVars, statusVars, excused>>
      /\ UNCHANGED fresh /\ boots' \subseteq Rows
  BY DEF FindGroup, statusVars, GroupsInv, GroupsTypeOK
<1>2. CASE GroupOpEnds(c)
  BY <1>1, <1>2, GroupOpEndsKeeps
<1> DEFINE j == [s \in Slots |->
                   IF rows[<<gop[c].g, s>>] \in {"stopped", "error"} THEN "mark" ELSE "none"]
<1>3. CASE job' = [job EXCEPT ![c] = j] /\ Goto(c, "mark")
  <2>1. j \in SlotJobs /\ \A s \in Slots : j[s] \in JobsAt("mark")
    BY DEF SlotJobs, JobsAt
  <2> QED
    BY <1>1, <1>3, <2>1, GotoKeeps
<1> QED
  BY <1>2, <1>3 DEF FindGroup

LEMMA StartAnswersKeeps ==
    ASSUME GroupsInv, NEW c \in Calls, StartAnswers(c)
    PROVE  GroupsInv'
<1>1. gop[c].at = "mark" /\ GroupOpEnds(c) /\ UNCHANGED <<storeVars, fresh, excused>>
  BY DEF StartAnswers
<1>2. gop[c].g \in GroupIds /\ boots \subseteq Rows
  BY <1>1, JobsTyped DEF LocalsAt, GroupsInv, GroupsTypeOK
<1>3. boots' = boots \cup {<<gop[c].g, s>> : s \in {t \in Slots : job[c][t] = "done"}}
  BY DEF StartAnswers
<1>4. boots' \subseteq Rows
  BY <1>2, <1>3 DEF Rows
<1> QED
  BY <1>1, <1>4, GroupOpEndsKeeps

LEMMA MarkStartingKeeps ==
    ASSUME GroupsInv, NEW c \in Calls, NEW s \in Slots, MarkStarting(c, s)
    PROVE  GroupsInv'
<1>1. gop[c].at = "mark" /\ UNCHANGED <<groups, lastGroup, langs, avds, boots, excused>>
      /\ <<gop[c].g, s>> \in Rows
  BY JobsTyped DEF MarkStarting, LocalsAt, Rows
<1>2. CASE Written(<<gop[c].g, s>>, "starting") /\ JobDone(c, s) /\ UNCHANGED gop
  <2> DEFINE j == [job[c] EXCEPT ![s] = "done"]
  <2>1. job' = [job EXCEPT ![c] = j] /\ gop' = [gop EXCEPT ![c] = gop[c]]
    BY <1>2, JobsTyped DEF JobDone, GroupsInv, GroupsTypeOK
  <2>2. j \in SlotJobs /\ \A t \in Slots : j[t] \in JobsAt("mark")
    BY <1>1, JobsTyped DEF SlotJobs, LocalsAt, JobsAt
  <2> HIDE DEF j
  <2>3. FitsAt(gop[c], j)
    BY <1>1, <2>2, JobsTyped DEF FitsAt, LocalsAt
  <2>4. gop[c] \in Op /\ "starting" \in Statuses \ {"none"}
    BY JobsTyped DEF Statuses
  <2> QED
    BY <1>1, <1>2, <2>1, <2>2, <2>3, <2>4, WriteEndsKeeps
<1>3. CASE GroupOpEnds(c) /\ UNCHANGED <<rows, fresh>>
  <2>1. UNCHANGED <<storeVars, fresh, excused>> /\ boots' \subseteq Rows
    BY <1>1, <1>3 DEF storeVars, GroupsInv, GroupsTypeOK
  <2> QED
    BY <1>1, <1>3, <2>1, GroupOpEndsKeeps
<1> QED
  BY <1>2, <1>3 DEF MarkStarting

LEMMA StartKeeps ==
    ASSUME GroupsInv, NEW c \in Calls, Start(c)
    PROVE  GroupsInv'
<1>1. gop[c].at = "boot" /\ UNCHANGED <<groups, lastGroup, langs, avds, boots, excused>>
      /\ GroupOpEnds(c) /\ \A s \in Slots : <<gop[c].g, s>> \in Rows
  BY JobsTyped DEF Start, LocalsAt, Rows
<1>2. ASSUME NEW s \in Slots, Written(<<gop[c].g, s>>, "running")
      PROVE  GroupsInv'
  <2>1. "running" \in Statuses \ {"none"}
    BY DEF Statuses
  <2> QED
    BY <1>1, <1>2, <2>1, NothingIsTyped, WriteEndsKeeps DEF GroupOpEnds
<1>3. CASE UNCHANGED <<rows, fresh>>
  <2>1. UNCHANGED <<storeVars, fresh, excused>> /\ boots' \subseteq Rows
    BY <1>1, <1>3 DEF storeVars, GroupsInv, GroupsTypeOK
  <2> QED
    BY <1>1, <2>1, GroupOpEndsKeeps
<1> QED
  BY <1>2, <1>3 DEF Start

\* Renaming respects the index.
LEMMA UpdateNameKeeps ==
    ASSUME GroupsInv, NEW c \in Calls, UpdateName(c)
    PROVE  GroupsInv'
<1>1. /\ gop[c].at = "update" /\ GroupOpEnds(c)
      /\ UNCHANGED <<lastGroup, langs, rows, avds, statusVars, excused>>
      /\ UNCHANGED <<boots, fresh>>
  BY DEF UpdateName, statusVars
<1>2. /\ rows' \in [Rows -> Statuses] /\ boots' \subseteq Rows /\ fresh' \subseteq Rows
      /\ UNCHANGED <<lastGroup, langs, avds, excused, rows>>
      /\ groups \in [GroupIds -> GroupNames \cup {NoGroup}]
  BY <1>1 DEF GroupsInv, GroupsTypeOK
<1>3. CASE UNCHANGED groups
  BY <1>1, <1>2, <1>3, GroupOpEndsKeeps DEF storeVars
<1>4. CASE /\ groups[gop[c].g] # NoGroup /\ IndexAllows(gop[c].name, gop[c].g)
           /\ groups' = [groups EXCEPT ![gop[c].g] = gop[c].name]
  <2>1. gop[c].g \in GroupIds /\ gop[c].name \in GroupNames /\ gop[c].name # NoGroup
    BY <1>1, JobsTyped DEF LocalsAt
  <2>2. /\ groups' \in [GroupIds -> GroupNames \cup {NoGroup}]
        /\ \A g \in GroupIds : groups'[g] = NoGroup <=> groups[g] = NoGroup
    BY <1>2, <1>4, <2>1
  <2>3. NamesUnique'
    BY <1>2, <1>4, <2>1 DEF NamesUnique, IndexAllows, GroupsInv
  <2> QED
    BY <1>1, <1>2, <2>2, <2>3, NothingIsTyped, CallGoes DEF GroupOpEnds
<1> QED
  BY <1>3, <1>4 DEF UpdateName

-----------------------------------------------------------------------------
(* Groups: the fan-out of a creation.                                      *)

AtWorkJobs == {"avd", "insert", "rollback"}

LEMMA JobPlaces ==
    ASSUME GroupsInv, NEW c \in Calls, NEW s \in Slots
    PROVE  /\ job[c][s] \in {"todo", "avd", "insert", "rollback"} => gop[c].at = "fanout"
           /\ job[c][s] = "clean" => gop[c].at \in {"clean", "drop"}
BY JobsTyped DEF LocalsAt, JobsAt

LEMMA MakerKnows ==
    ASSUME GroupsInv, NEW c \in Calls, gop[c].at = "fanout"
    PROVE  /\ gop[c].g \in GroupIds /\ gop[c].g <= lastGroup
           /\ gop[c].langs = langs[gop[c].g] /\ Named(langs[gop[c].g])
           /\ ~excused[gop[c].g] =>
                  groups[gop[c].g] # NoGroup /\ \A s \in Slots : JobTells(c, s)
           /\ gop[c].sem = Cardinality(AtWork(c)) /\ gop[c].sem \in 0..Concurrency
           /\ IsFiniteSet(AtWork(c))
<1>1. gop[c].g \in GroupIds /\ gop[c].g <= lastGroup /\ gop[c].langs = langs[gop[c].g]
  BY JobsTyped DEF LocalsAt
<1>2. Named(langs[gop[c].g])
  BY <1>1 DEF GroupsInv, IdsInv
<1>3. ASSUME ~excused[gop[c].g]
      PROVE  groups[gop[c].g] # NoGroup /\ \A s \in Slots : JobTells(c, s)
  <2>1. c \in Creating(gop[c].g)
    BY DEF Creating
  <2> QED
    BY <1>1, <1>3, <2>1 DEF GroupsInv, MakersInv, MakingInv
<1>4. gop[c].sem = Cardinality(AtWork(c)) /\ gop[c].sem \in 0..Concurrency
  BY JobsTyped DEF GroupsInv, SemInv, Op
<1>5. IsFiniteSet(AtWork(c))
  BY FS_Subset DEF AtWork
<1> QED
  BY <1>1, <1>2, <1>3, <1>4, <1>5

\* A goroutine does something for its slot, and nothing else changes.
LEMMA SlotMoves ==
    ASSUME GroupsInv, NEW c \in Calls, NEW s \in Slots, gop[c].at = "fanout",
           NEW n \in 0..Concurrency, gop' = [gop EXCEPT ![c].sem = n],
           NEW k \in JobsAt("fanout"), job' = [job EXCEPT ![c][s] = k],
           n = Cardinality(AtWork(c)'),
           UNCHANGED <<groups, lastGroup, langs, boots, fresh>>,
           rows' \in [Rows -> Statuses], avds' \subseteq GroupIds \X Languages,
           \A r \in Rows : r # <<gop[c].g, s>> => rows'[r] = rows[r],
           \A x \in GroupIds \X Languages :
               x # <<gop[c].g, langs[gop[c].g][s]>> => (x \in avds' <=> x \in avds),
           excused' \in [GroupIds -> BOOLEAN],
           \A g \in GroupIds : excused[g] => excused'[g],
           ~excused'[gop[c].g] =>
               /\ JobTells(c, s)'
               /\ HasAvd(gop[c].g, s) => HasAvd(gop[c].g, s)' \/ Alone(gop[c].g, s)
               /\ HasAvd(gop[c].g, s)' =>
                    \/ Made(gop[c].g, s)' \/ k \in {"insert", "rollback"}
                    \/ HasAvd(gop[c].g, s) /\ job[c][s] \in {"todo", "avd"}
    PROVE  GroupsInv'
<1> DEFINE g == gop[c].g
<1>1. /\ g \in GroupIds /\ g <= lastGroup /\ Named(langs[g])
      /\ ~excused[g] => groups[g] # NoGroup /\ \A t \in Slots : JobTells(c, t)
  BY MakerKnows
<1>2. /\ OthersStay(c) /\ gop'[c].at = "fanout" /\ gop'[c].g = g
      /\ gop'[c].langs = gop[c].langs /\ gop'[c].sem = n /\ gop'[c] \in Op
      /\ gop' \in [Calls -> Op]
  <2>1. gop'[c] = [gop[c] EXCEPT !.sem = n] /\ gop[c] \in Op
    BY DEF GroupsInv, GroupsTypeOK
  <2>2. OthersStay(c)
    BY DEF OthersStay, GroupsInv, GroupsTypeOK
  <2>3. /\ gop'[c].at = "fanout" /\ gop'[c].g = g
        /\ gop'[c].langs = gop[c].langs /\ gop'[c].sem = n /\ gop'[c] \in Op
    BY <2>1 DEF Op
  <2> QED
    BY <2>2, <2>3 DEF GroupsInv, GroupsTypeOK
<1>3. /\ job' \in [Calls -> SlotJobs] /\ job'[c] \in SlotJobs
      /\ job'[c][s] = k /\ \A t \in Slots \ {s} : job'[c][t] = job[c][t]
  BY DEF GroupsInv, GroupsTypeOK, SlotJobs, JobsAt
<1>4. GroupsTypeOK'
  BY <1>2, <1>3 DEF GroupsInv, GroupsTypeOK, SlotJobs, Rows
<1>5. \A h \in GroupIds : Creating(h)' = Creating(h) /\ Deleting(h)' = Deleting(h)
  BY <1>2 DEF Creating, Deleting, OthersStay
<1>6. LocalsInv'
  <2>1. LocalsAt(c)'
    BY <1>1, <1>2, <1>3, JobsTyped DEF LocalsAt, JobsAt
  <2> QED
    BY <2>1, <1>2 DEF GroupsInv, LocalsInv, LocalsAt, OthersStay, Alone
<1>7. IdsInv'
  <2>1. ASSUME NEW h \in GroupIds
        PROVE  IF h <= lastGroup'
               THEN Named(langs'[h])
               ELSE /\ groups'[h] = NoGroup
                    /\ \A t \in Slots : rows'[<<h, t>>] = "none"
                    /\ \A l \in Languages : <<h, l>> \notin avds'
    <3>1. CASE h <= lastGroup
      BY <3>1 DEF GroupsInv, IdsInv
    <3>2. CASE ~(h <= lastGroup)
      <4>1. h # g
        BY <1>1, <3>2
      <4> QED
        BY <1>1, <3>2, <4>1 DEF GroupsInv, IdsInv, Rows
    <3> QED
      BY <3>1, <3>2
  <2>2. \A d, e \in Calls :
          gop'[d].at = "fanout" /\ gop'[e].at = "fanout" /\ gop'[d].g = gop'[e].g => d = e
    BY <1>2 DEF GroupsInv, IdsInv, OthersStay
  <2> QED
    BY <2>1, <2>2 DEF IdsInv
<1>8. MakersInv'
  BY <1>5 DEF GroupsInv, MakersInv
<1>9. /\ \A h \in GroupIds, t \in Slots : h # g \/ t # s => (Made(h, t)' <=> Made(h, t))
      /\ \A h \in GroupIds, t \in Slots : h # g => (HasAvd(h, t)' <=> HasAvd(h, t))
      /\ \A t \in Slots : langs[g][t] # langs[g][s] => (HasAvd(g, t)' <=> HasAvd(g, t))
  <2>1. \A h \in GroupIds, t \in Slots : h # g \/ t # s => (Made(h, t)' <=> Made(h, t))
    BY <1>1 DEF Made, Rows
  <2>2. ASSUME NEW h \in GroupIds, NEW t \in Slots, h # g \/ langs[g][t] # langs[g][s]
        PROVE  HasAvd(h, t)' <=> HasAvd(h, t)
    <3>1. CASE langs[h][t] \in Languages
      BY <1>1, <2>2, <3>1 DEF HasAvd
    <3>2. CASE langs[h][t] \notin Languages
      BY <3>2 DEF HasAvd, GroupsInv, GroupsTypeOK
    <3> QED
      BY <3>1, <3>2
  <2> QED
    BY <1>1, <2>1, <2>2
<1>15. \A t \in Slots : ~excused'[g] /\ t # s /\ HasAvd(g, t) => HasAvd(g, t)'
  <2> SUFFICES ASSUME NEW t \in Slots, ~excused'[g], t # s, HasAvd(g, t)
               PROVE  HasAvd(g, t)'
    OBVIOUS
  <2>1. CASE langs[g][t] # langs[g][s]
    BY <1>9, <2>1
  <2>2. CASE langs[g][t] = langs[g][s]
    BY <2>2 DEF HasAvd, Alone
  <2> QED
    BY <2>1, <2>2
<1>10. MakingInv'
  <2> SUFFICES ASSUME NEW d \in Calls, NEW t \in Slots,
                      gop'[d].at = "fanout", ~excused'[gop'[d].g]
               PROVE  JobTells(d, t)'
    BY DEF MakingInv
  <2>1. CASE d = c /\ t = s
    BY <2>1, <1>2
  <2>2. CASE d = c /\ t # s
    <3>1. JobTells(c, t)
      BY <1>1, <1>2, <2>2
    <3>2. gop'[d].g = g /\ job'[d][t] = job[c][t]
      BY <1>2, <1>3, <2>2
    <3> QED
      BY <1>1, <1>2, <1>9, <1>15, <2>2, <3>1, <3>2 DEF JobTells
  <2>3. CASE d # c
    <3>1. gop'[d] = gop[d] /\ job'[d] = job[d]
      BY <1>2, <2>3 DEF OthersStay
    <3>2. gop[d].g # g /\ gop[d].g \in GroupIds /\ gop[d].g <= lastGroup
      BY <3>1, <2>3, MakerKnows DEF GroupsInv, IdsInv
    <3>3. JobTells(d, t)
      BY <3>1, <3>2 DEF GroupsInv, MakingInv
    <3> QED
      BY <1>9, <3>1, <3>2, <3>3 DEF JobTells
  <2> QED
    BY <2>1, <2>2, <2>3
<1>11. DeletingInv'
  <2> SUFFICES ASSUME NEW h \in GroupIds, NEW t \in Slots, ~excused'[h], Creating(h)' = {}
               PROVE  /\ Made(h, t)' /\ ~HasAvd(h, t)' => Cleaned(h, t)'
                      /\ Cleaned(h, t)' => ~HasAvd(h, t)'
                      /\ \A d \in Calls : gop'[d].at = "clean" /\ gop'[d].g = h /\ Made(h, t)'
                                            => job'[d][t] # "none"
    BY DEF DeletingInv
  <2>1. h # g /\ ~excused[h] /\ Creating(h) = {}
    BY <1>5 DEF Creating
  <2>2. /\ Made(h, t)' <=> Made(h, t)
        /\ Cleaned(h, t)' <=> Cleaned(h, t)
    BY <1>2, <2>1 DEF Made, Cleaned, OthersStay, Rows
  <2>3. HasAvd(h, t)' <=> HasAvd(h, t)
    BY <1>9, <2>1
  <2>4. \A d \in Calls : gop'[d].at = "clean" =>
            gop[d].at = "clean" /\ gop'[d].g = gop[d].g /\ job'[d] = job[d]
    BY <1>2 DEF OthersStay
  <2> QED
    BY <2>1, <2>2, <2>3, <2>4 DEF GroupsInv, DeletingInv
<1>12. SemInv'
  <2> SUFFICES ASSUME NEW d \in Calls, gop'[d].at = "fanout"
               PROVE  gop'[d].sem = Cardinality(AtWork(d)')
    BY DEF SemInv, AtWork
  <2>1. CASE d = c
    BY <1>2, <2>1
  <2>2. CASE d # c
    <3>1. gop'[d] = gop[d] /\ AtWork(d)' = AtWork(d)
      BY <1>2, <2>2 DEF OthersStay, AtWork
    <3> QED
      BY <3>1 DEF GroupsInv, SemInv
  <2> QED
    BY <2>1, <2>2
<1>13. NamesUnique'
  BY DEF GroupsInv, NamesUnique
<1>14. GroupOfRowExists'
  <2> SUFFICES ASSUME NEW r \in Rows, rows'[r] # "none", ~excused'[r[1]]
               PROVE  groups[r[1]] # NoGroup
    BY DEF GroupOfRowExists
  <2>1. r[1] \in GroupIds /\ ~excused[r[1]]
    BY DEF Rows
  <2>2. CASE r = <<g, s>>
    BY <1>1, <2>1, <2>2
  <2>3. CASE r # <<g, s>>
    BY <2>1, <2>3 DEF GroupsInv, GroupOfRowExists
  <2> QED
    BY <2>2, <2>3
<1>16. ASSUME NEW t \in Slots, t # s \/ k \in {"insert", "rollback"},
              t = s \/ Awaited(g, t)
       PROVE  Awaited(g, t)'
  <2>1. CASE t = s
    BY <1>2, <1>3, <1>16, <2>1 DEF Awaited
  <2>2. CASE t # s
    BY <1>2, <1>3, <1>16, <2>2 DEF Awaited, OthersStay
  <2> QED
    BY <2>1, <2>2
<1>17. BackedInv'
  <2> SUFFICES ASSUME NEW h \in GroupIds, NEW l \in Languages, ~excused'[h], <<h, l>> \in avds'
               PROVE  \E t \in Slots : langs[h][t] = l /\ (Made(h, t)' \/ Awaited(h, t)')
    BY DEF BackedInv
  <2>1. CASE h # g
    <3>1. <<h, l>> \in avds /\ ~excused[h]
      BY <1>1, <2>1
    <3>2. PICK t \in Slots : langs[h][t] = l /\ (Made(h, t) \/ Awaited(h, t))
      BY <3>1 DEF GroupsInv, BackedInv
    <3>3. Awaited(h, t) => Awaited(h, t)'
      BY <1>2, <2>1 DEF Awaited, OthersStay
    <3> QED
      BY <1>9, <2>1, <3>2, <3>3
  <2>2. ASSUME h = g, NEW t \in Slots, langs[g][t] = l, Made(g, t) \/ Awaited(g, t), t # s
        PROVE  Made(g, t)' \/ Awaited(g, t)'
    BY <1>1, <1>9, <1>16, <2>2
  <2>3. CASE h = g /\ l # langs[g][s]
    <3>1. <<g, l>> \in avds /\ ~excused[g]
      BY <1>1, <2>3
    <3>2. PICK t \in Slots : langs[g][t] = l /\ (Made(g, t) \/ Awaited(g, t))
      BY <1>1, <3>1 DEF GroupsInv, BackedInv
    <3> QED
      BY <2>2, <2>3, <3>2
  <2>4. CASE h = g /\ l = langs[g][s]
    <3>1. HasAvd(g, s)'
      BY <2>4 DEF HasAvd
    <3>2. CASE Made(g, s)' \/ k \in {"insert", "rollback"}
      BY <1>16, <2>4, <3>2
    <3>3. CASE HasAvd(g, s) /\ job[c][s] \in {"todo", "avd"}
      <4>1. ~excused[g] /\ <<g, l>> \in avds
        BY <1>1, <2>4, <3>3 DEF HasAvd
      <4>2. PICK t \in Slots : langs[g][t] = l /\ (Made(g, t) \/ Awaited(g, t))
        BY <1>1, <4>1 DEF GroupsInv, BackedInv
      <4>3. ~Made(g, s)
        BY <1>1, <3>3, <4>1 DEF JobTells
      <4>4. ~Awaited(g, s)
        BY <3>3 DEF Awaited, GroupsInv, IdsInv
      <4> QED
        BY <2>2, <2>4, <4>2, <4>3, <4>4
    <3> QED
      BY <2>4, <3>1, <3>2, <3>3
  <2> QED
    BY <2>1, <2>3, <2>4
<1> QED
  BY <1>4, <1>6, <1>7, <1>8, <1>10, <1>11, <1>12, <1>13, <1>14, <1>17 DEF GroupsInv

\* The goroutines at work after a slot's step.
LEMMA WorkCounted ==
    ASSUME GroupsInv, NEW c \in Calls, NEW s \in Slots, gop[c].at = "fanout",
           NEW k, job' = [job EXCEPT ![c][s] = k]
    PROVE  /\ job[c][s] \notin AtWorkJobs /\ k \in AtWorkJobs
                => Cardinality(AtWork(c)') = gop[c].sem + 1
           /\ job[c][s] \in AtWorkJobs /\ k \in AtWorkJobs
                => Cardinality(AtWork(c)') = gop[c].sem
           /\ job[c][s] \in AtWorkJobs /\ k \notin AtWorkJobs
                => Cardinality(AtWork(c)') = gop[c].sem - 1 /\ gop[c].sem > 0
<1>1. gop[c].sem = Cardinality(AtWork(c)) /\ IsFiniteSet(AtWork(c)) /\ gop[c].sem \in Nat
  BY MakerKnows
<1>2. \A t \in Slots : job'[c][t] = IF t = s THEN k ELSE job[c][t]
  BY DEF GroupsInv, GroupsTypeOK
<1>3. AtWork(c)' = IF k \in AtWorkJobs THEN AtWork(c) \cup {s} ELSE AtWork(c) \ {s}
  BY <1>2 DEF AtWork, AtWorkJobs
<1>4. s \in AtWork(c) <=> job[c][s] \in AtWorkJobs
  BY DEF AtWork, AtWorkJobs
<1> HIDE DEF AtWorkJobs
<1>5. CASE job[c][s] \notin AtWorkJobs /\ k \in AtWorkJobs
  <2>1. Cardinality(AtWork(c) \cup {s}) = Cardinality(AtWork(c)) + 1
    BY <1>1, <1>4, <1>5, FS_AddElement
  <2> QED
    BY <1>1, <1>3, <1>5, <2>1
<1>6. CASE job[c][s] \in AtWorkJobs /\ k \in AtWorkJobs
  <2>1. AtWork(c)' = AtWork(c)
    BY <1>3, <1>4, <1>6
  <2> QED
    BY <1>1, <1>6, <2>1
<1>7. CASE job[c][s] \in AtWorkJobs /\ k \notin AtWorkJobs
  <2>1. Cardinality(AtWork(c) \ {s}) = Cardinality(AtWork(c)) - 1
    BY <1>1, <1>4, <1>7, FS_RemoveElement
  <2>2. Cardinality(AtWork(c) \ {s}) \in Nat
    BY <1>1, FS_Subset, FS_CardinalityType
  <2> QED
    BY <1>1, <1>3, <1>7, <2>1, <2>2
<1> QED
  BY <1>5, <1>6, <1>7

LEMMA ForkKeeps ==
    ASSUME GroupsInv, NEW c \in Calls, NEW s \in Slots, Fork(c, s)
    PROVE  GroupsInv'
<1>1. /\ gop[c].at = "fanout" /\ job[c][s] = "todo" /\ gop[c].sem < Concurrency
      /\ job' = [job EXCEPT ![c][s] = "avd"]
      /\ UNCHANGED <<groups, lastGroup, langs, rows, avds, boots, fresh, excused>>
  BY DEF Fork, First, storeVars, statusVars
<1> DEFINE n == gop[c].sem + 1
<1>2. n \in 0..Concurrency /\ gop' = [gop EXCEPT ![c].sem = n]
  BY <1>1, MakerKnows DEF Fork, GroupsInv, GroupsTypeOK
<1>3. n = Cardinality(AtWork(c)')
  BY <1>1, WorkCounted DEF AtWorkJobs
<1>4. JobTells(c, s) /\ job[c][s] = "todo" => JobTells(c, s)'
  BY <1>1, <1>2 DEF JobTells, Made, HasAvd, GroupsInv, GroupsTypeOK, Op
<1>5. ~excused'[gop[c].g] => JobTells(c, s)'
  BY <1>1, <1>4, MakerKnows
<1>7. HasAvd(gop[c].g, s)' <=> HasAvd(gop[c].g, s)
  BY <1>1, <1>2 DEF HasAvd, GroupsInv, GroupsTypeOK, Op
<1>6. /\ rows' \in [Rows -> Statuses] /\ avds' \subseteq GroupIds \X Languages
      /\ excused' \in [GroupIds -> BOOLEAN] /\ "avd" \in JobsAt("fanout")
  BY <1>1 DEF GroupsInv, GroupsTypeOK, JobsAt
<1> HIDE DEF n
<1> QED
  BY <1>1, <1>2, <1>3, <1>5, <1>6, <1>7, SlotMoves

\* What a goroutine's end has in common, with an error or with an id.
LEMMA SlotIsDone ==
    ASSUME GroupsInv, NEW c \in Calls, NEW s \in Slots, job[c][s] \in AtWorkJobs,
           CreationFails(c, s),
           UNCHANGED <<groups, lastGroup, langs, boots, fresh>>,
           rows' \in [Rows -> Statuses], avds' \subseteq GroupIds \X Languages,
           \A r \in Rows : r # <<gop[c].g, s>> => rows'[r] = rows[r],
           \A x \in GroupIds \X Languages :
               x # <<gop[c].g, langs[gop[c].g][s]>> => (x \in avds' <=> x \in avds),
           excused' \in [GroupIds -> BOOLEAN],
           \A g \in GroupIds : excused[g] => excused'[g],
           ~excused'[gop[c].g] =>
               /\ Made(gop[c].g, s)' => HasAvd(gop[c].g, s)'
               /\ HasAvd(gop[c].g, s) => HasAvd(gop[c].g, s)' \/ Alone(gop[c].g, s)
               /\ HasAvd(gop[c].g, s)' =>
                    Made(gop[c].g, s)' \/ (HasAvd(gop[c].g, s) /\ job[c][s] = "avd")
    PROVE  GroupsInv'
<1> DEFINE n == gop[c].sem - 1
<1>1. gop[c].at = "fanout"
  BY JobPlaces DEF AtWorkJobs
<1>2. /\ job' = [job EXCEPT ![c][s] = "done"]
      /\ n = Cardinality(AtWork(c)') /\ gop[c].sem > 0
  <2>1. job' = [job EXCEPT ![c][s] = "done"] /\ "done" \notin AtWorkJobs
    BY DEF CreationFails, JobDone, AtWorkJobs
  <2> QED
    BY <1>1, <2>1, WorkCounted
<1>3. n \in 0..Concurrency /\ gop' = [gop EXCEPT ![c].sem = n]
  BY <1>1, <1>2, MakerKnows DEF CreationFails, GroupsInv, GroupsTypeOK
<1>4. gop'[c].g = gop[c].g /\ job'[c][s] = "done" /\ "done" \in JobsAt("fanout")
  BY <1>2, <1>3 DEF GroupsInv, GroupsTypeOK, Op, JobsAt
<1>5. ~excused'[gop[c].g] => JobTells(c, s)'
  BY <1>4 DEF JobTells
<1> HIDE DEF n
<1> QED
  BY <1>1, <1>2, <1>3, <1>4, <1>5, SlotMoves

\* One that is at work and goes on.
LEMMA SlotGoesOn ==
    ASSUME GroupsInv, NEW c \in Calls, NEW s \in Slots, job[c][s] \in AtWorkJobs,
           NEW k \in {"insert", "rollback"}, job' = [job EXCEPT ![c][s] = k], UNCHANGED gop,
           UNCHANGED <<groups, lastGroup, langs, rows, boots, fresh, excused>>,
           avds' \subseteq GroupIds \X Languages,
           \A x \in GroupIds \X Languages :
               x # <<gop[c].g, langs[gop[c].g][s]>> => (x \in avds' <=> x \in avds),
           ~excused[gop[c].g] => HasAvd(gop[c].g, s)'
    PROVE  GroupsInv'
<1> DEFINE n == gop[c].sem
<1>1. gop[c].at = "fanout"
  BY JobPlaces DEF AtWorkJobs
<1>2. n = Cardinality(AtWork(c)')
  BY <1>1, WorkCounted DEF AtWorkJobs
<1>3. n \in 0..Concurrency /\ gop' = [gop EXCEPT ![c].sem = n]
  BY <1>1, MakerKnows DEF GroupsInv, GroupsTypeOK, Op
<1>4. job'[c][s] = k /\ k \in JobsAt("fanout")
  BY DEF GroupsInv, GroupsTypeOK, JobsAt
<1>5. ~excused'[gop[c].g] => JobTells(c, s)'
  <2>1. ~excused[gop[c].g] => ~Made(gop[c].g, s)
    BY <1>1, MakerKnows DEF JobTells, AtWorkJobs
  <2> QED
    BY <1>4, <2>1 DEF JobTells, Made
<1>6. rows' \in [Rows -> Statuses] /\ excused' \in [GroupIds -> BOOLEAN]
  BY DEF GroupsInv, GroupsTypeOK
<1> HIDE DEF n
<1> QED
  BY <1>1, <1>2, <1>3, <1>4, <1>5, <1>6, SlotMoves

LEMMA ExcuseTyped ==
    ASSUME GroupsInv, NEW gs, Excuse(gs)
    PROVE  /\ excused' \in [GroupIds -> BOOLEAN]
           /\ \A g \in GroupIds : excused'[g] <=> excused[g] \/ g \in gs
BY DEF Excuse, GroupsInv, GroupsTypeOK

LEMMA CreateAvdKeeps ==
    ASSUME GroupsInv, NEW c \in Calls, NEW s \in Slots, CreateAvd(c, s)
    PROVE  GroupsInv'
<1>1. /\ job[c][s] = "avd" /\ job[c][s] \in AtWorkJobs /\ gop[c].at = "fanout"
      /\ UNCHANGED <<groups, lastGroup, langs, rows, boots, fresh>>
  BY JobPlaces DEF CreateAvd, AtWorkJobs, statusVars
<1> DEFINE a == <<gop[c].g, langs[gop[c].g][s]>>
<1>2. AvdOf(c, s) = a /\ a \in GroupIds \X Languages
  BY <1>1, MakerKnows DEF AvdOf, Named
<1>3. /\ avds \subseteq GroupIds \X Languages /\ rows \in [Rows -> Statuses]
      /\ excused \in [GroupIds -> BOOLEAN] /\ gop[c].g \in GroupIds
  BY <1>1, MakerKnows DEF GroupsInv, GroupsTypeOK
<1>4. CASE /\ avds' = avds \cup {a}
           /\ job' = [job EXCEPT ![c][s] = "insert"] /\ UNCHANGED <<gop, excused>>
  <2>1. HasAvd(gop[c].g, s)'
    BY <1>1, <1>4 DEF HasAvd
  <2>2. /\ avds' \subseteq GroupIds \X Languages
        /\ \A x \in GroupIds \X Languages : x # a => (x \in avds' <=> x \in avds)
    BY <1>2, <1>3, <1>4
  <2> QED
    BY <1>1, <1>4, <2>1, <2>2, SlotGoesOn
<1>5. CASE /\ avds' \in {avds \cup {a}, avds \ {a}}
           /\ Excuse(IF avds' = avds THEN {} ELSE {gop[c].g}) /\ CreationFails(c, s)
  <2>1. ~excused[gop[c].g] => ~Made(gop[c].g, s)
    BY <1>1, MakerKnows DEF JobTells
  <2>2. /\ excused' \in [GroupIds -> BOOLEAN]
        /\ \A g \in GroupIds : excused[g] => excused'[g]
        /\ ~excused'[gop[c].g] => avds' = avds /\ ~excused[gop[c].g]
    BY <1>3, <1>5, ExcuseTyped
  <2>3. gop'[c].g = gop[c].g
    BY <1>5 DEF CreationFails, GroupsInv, GroupsTypeOK, Op
  <2>4. ~excused'[gop'[c].g] =>
          /\ ~Made(gop[c].g, s)'
          /\ HasAvd(gop[c].g, s)' <=> HasAvd(gop[c].g, s)
    BY <1>1, <2>1, <2>2, <2>3 DEF Made, HasAvd
  <2>5. /\ avds' \subseteq GroupIds \X Languages
        /\ \A x \in GroupIds \X Languages : x # a => (x \in avds' <=> x \in avds)
    BY <1>2, <1>3, <1>5
  <2> QED
    BY <1>1, <1>3, <1>5, <2>2, <2>3, <2>4, <2>5, SlotIsDone
<1> QED
  BY <1>2, <1>4, <1>5 DEF CreateAvd

LEMMA InsertRowKeeps ==
    ASSUME GroupsInv, NEW c \in Calls, NEW s \in Slots, InsertRow(c, s)
    PROVE  GroupsInv'
<1>1. /\ job[c][s] = "insert" /\ job[c][s] \in AtWorkJobs /\ gop[c].at = "fanout"
      /\ UNCHANGED <<groups, lastGroup, langs, avds, boots, fresh, excused>>
  BY JobPlaces DEF InsertRow, AtWorkJobs, statusVars
<1>2. /\ avds \subseteq GroupIds \X Languages /\ rows \in [Rows -> Statuses]
      /\ excused \in [GroupIds -> BOOLEAN]
      /\ <<gop[c].g, s>> \in Rows
  BY <1>1, MakerKnows DEF GroupsInv, GroupsTypeOK, Rows
<1>3. ~excused[gop[c].g] => ~Made(gop[c].g, s) /\ HasAvd(gop[c].g, s)
  BY <1>1, MakerKnows DEF JobTells
<1>4. CASE rows' = [rows EXCEPT ![<<gop[c].g, s>>] = "stopped"] /\ CreationEnds(c, s)
  <2>1. gop'[c].g = gop[c].g /\ CreationFails(c, s)
    BY <1>4 DEF CreationEnds, CreationFails, GroupsInv, GroupsTypeOK, Op
  <2>2. ~excused'[gop[c].g] => Made(gop[c].g, s)' /\ HasAvd(gop[c].g, s)'
    BY <1>1, <1>2, <1>3, <1>4, <2>1 DEF Made, HasAvd
  <2>3. rows' \in [Rows -> Statuses] /\ \A r \in Rows : r # <<gop[c].g, s>> => rows'[r] = rows[r]
    BY <1>2, <1>4 DEF Statuses
  <2> QED
    BY <1>1, <1>2, <2>1, <2>2, <2>3, SlotIsDone
<1>5. CASE job' = [job EXCEPT ![c][s] = "rollback"] /\ UNCHANGED <<rows, gop>>
  <2>1. ~excused[gop[c].g] => HasAvd(gop[c].g, s)'
    BY <1>1, <1>3, <1>5 DEF HasAvd
  <2> QED
    BY <1>1, <1>2, <1>5, <2>1, SlotGoesOn
<1> QED
  BY <1>4, <1>5 DEF InsertRow

LEMMA RollBackAvdKeeps ==
    ASSUME GroupsInv, NEW c \in Calls, NEW s \in Slots, RollBackAvd(c, s)
    PROVE  GroupsInv'
<1>1. /\ job[c][s] = "rollback" /\ job[c][s] \in AtWorkJobs /\ gop[c].at = "fanout"
      /\ UNCHANGED <<groups, lastGroup, langs, rows, boots, fresh>> /\ CreationFails(c, s)
  BY JobPlaces DEF RollBackAvd, AtWorkJobs, statusVars
<1> DEFINE g == gop[c].g
           a == <<g, langs[g][s]>>
<1>2. AvdOf(c, s) = a /\ g \in GroupIds
  BY <1>1, MakerKnows DEF AvdOf
<1>3. /\ avds \subseteq GroupIds \X Languages /\ rows \in [Rows -> Statuses]
      /\ excused \in [GroupIds -> BOOLEAN] /\ gop'[c].g = g
  BY <1>1 DEF GroupsInv, GroupsTypeOK, CreationFails, Op
<1>4. CASE avds' = avds \ {a} /\ Excuse(IF Alone(g, s) THEN {} ELSE {g})
  <2>1. ~excused[g] => ~Made(g, s)
    BY <1>1, MakerKnows DEF JobTells
  <2>2. /\ excused' \in [GroupIds -> BOOLEAN]
        /\ \A h \in GroupIds : excused[h] => excused'[h]
        /\ ~excused'[g] => ~excused[g] /\ Alone(g, s)
    BY <1>2, <1>4, ExcuseTyped
  <2>3. /\ avds' \subseteq GroupIds \X Languages
        /\ \A x \in GroupIds \X Languages : x # a => (x \in avds' <=> x \in avds)
    BY <1>3, <1>4
  <2>4. ~excused'[gop'[c].g] => ~Made(g, s)' /\ ~HasAvd(g, s)' /\ Alone(g, s)
    BY <1>1, <1>3, <1>4, <2>1, <2>2 DEF Made, HasAvd
  <2> QED
    BY <1>1, <1>3, <1>4, <2>2, <2>3, <2>4, SlotIsDone
<1>5. CASE Excuse({g}) /\ UNCHANGED avds
  <2>1. /\ excused' \in [GroupIds -> BOOLEAN] /\ excused'[g]
        /\ \A h \in GroupIds : excused[h] => excused'[h]
    BY <1>2, <1>5, ExcuseTyped
  <2> QED
    BY <1>1, <1>3, <1>5, <2>1, SlotIsDone
<1> QED
  BY <1>2, <1>4, <1>5 DEF RollBackAvd

\* The creation ends: its rows and AVDs agree.
LEMMA CreateAnswersKeeps ==
    ASSUME GroupsInv, NEW c \in Calls, CreateAnswers(c)
    PROVE  GroupsInv'
<1> DEFINE g == gop[c].g
<1>1. /\ gop[c].at = "fanout" /\ GroupOpEnds(c)
      /\ UNCHANGED <<groups, lastGroup, langs, rows, avds, boots, fresh, excused>>
  BY DEF CreateAnswers, storeVars, statusVars
<1>2. /\ gop' \in [Calls -> Op] /\ job' \in [Calls -> SlotJobs]
      /\ gop'[c] = NoOp /\ job'[c] = NoJobs /\ OthersStay(c)
  BY <1>1, NothingIsTyped, CallMoves DEF GroupOpEnds
<1>3. GroupsTypeOK'
  BY <1>1, <1>2 DEF GroupsInv, GroupsTypeOK, SlotJobs
<1>4. LocalsInv'
  <2>1. LocalsAt(c)'
    BY <1>2, NothingIsTyped DEF LocalsAt, FitsAt
  <2> QED
    BY <1>1, <1>2, <2>1 DEF GroupsInv, LocalsInv, LocalsAt, OthersStay, Alone
<1>5. IdsInv'
  <2>1. \A d, e \in Calls :
          gop'[d].at = "fanout" /\ gop'[e].at = "fanout" /\ gop'[d].g = gop'[e].g => d = e
    BY <1>2, NothingIsTyped DEF GroupsInv, IdsInv, OthersStay
  <2> QED
    BY <1>1, <2>1 DEF GroupsInv, IdsInv
<1>6. \A h \in GroupIds : /\ Creating(h)' \subseteq Creating(h) /\ Deleting(h)' = Deleting(h)
                          /\ h # g => Creating(h)' = Creating(h)
  BY <1>1, <1>2, NothingIsTyped DEF Creating, Deleting, OthersStay
<1>7. MakersInv'
  BY <1>1, <1>6 DEF GroupsInv, MakersInv
<1>8. \A h \in GroupIds, t \in Slots :
        (Made(h, t)' <=> Made(h, t)) /\ (HasAvd(h, t)' <=> HasAvd(h, t))
        /\ (Cleaned(h, t)' <=> Cleaned(h, t))
  BY <1>1, <1>2, NothingIsTyped DEF Made, HasAvd, Cleaned, OthersStay
<1>9. MakingInv'
  <2> SUFFICES ASSUME NEW d \in Calls, NEW t \in Slots,
                      gop'[d].at = "fanout", ~excused'[gop'[d].g]
               PROVE  JobTells(d, t)'
    BY DEF MakingInv
  <2>1. gop'[d] = gop[d] /\ job'[d] = job[d] /\ gop[d].g \in GroupIds
    BY <1>2, NothingIsTyped, JobsTyped DEF OthersStay, LocalsAt
  <2>2. JobTells(d, t)
    BY <1>1, <2>1 DEF GroupsInv, MakingInv
  <2> QED
    BY <1>8, <2>1, <2>2 DEF JobTells
<1>10. DeletingInv'
  <2> SUFFICES ASSUME NEW h \in GroupIds, NEW t \in Slots, ~excused[h], Creating(h)' = {}
               PROVE  /\ Made(h, t) /\ ~HasAvd(h, t) => Cleaned(h, t)
                      /\ Cleaned(h, t) => ~HasAvd(h, t)
                      /\ \A d \in Calls : gop'[d].at = "clean" /\ gop'[d].g = h /\ Made(h, t)
                                            => job'[d][t] # "none"
    BY <1>1, <1>8 DEF DeletingInv
  <2>1. \A d \in Calls : gop'[d].at = "clean" =>
            gop[d].at = "clean" /\ gop'[d].g = gop[d].g /\ job'[d] = job[d]
    BY <1>2, NothingIsTyped DEF OthersStay
  <2>2. CASE h # g
    <3>1. Creating(h) = {}
      BY <1>6, <2>2
    <3> QED
      BY <2>1, <3>1 DEF GroupsInv, DeletingInv
  <2>3. CASE h = g
    <3>1. c \in Creating(h) /\ Deleting(h) = {}
      BY <1>1, <2>3 DEF Creating, GroupsInv, MakersInv
    <3>2. \A d \in Calls : ~(gop[d].at \in {"clean", "drop"} /\ gop[d].g = h)
      BY <3>1 DEF Deleting
    <3>3. job[c][t] = "done" /\ JobTells(c, t)
      BY <1>1, <2>3, MakerKnows, JobsTyped DEF CreateAnswers, Pending, LocalsAt, JobsAt
    <3> QED
      BY <2>1, <2>3, <3>2, <3>3 DEF JobTells, Cleaned
  <2> QED
    BY <2>2, <2>3
<1>11. SemInv'
  BY <1>2, NothingIsTyped DEF GroupsInv, SemInv, AtWork, OthersStay
<1>12. NamesUnique' /\ GroupOfRowExists'
  BY <1>1 DEF GroupsInv, NamesUnique, GroupOfRowExists
<1>13. BackedInv'
  <2>1. ASSUME NEW h \in GroupIds, NEW t \in Slots, Awaited(h, t)
        PROVE  Awaited(h, t)'
    <3>1. PICK d \in Calls : /\ gop[d].at = "fanout" /\ gop[d].g = h
                             /\ job[d][t] \in {"insert", "rollback"}
      BY <2>1 DEF Awaited
    <3>2. d # c
      BY <3>1 DEF CreateAnswers, Pending
    <3> QED
      BY <1>2, <3>1, <3>2 DEF Awaited, OthersStay
  <2> QED
    BY <1>1, <1>8, <2>1, StaysBacked
<1> QED
  BY <1>3, <1>4, <1>5, <1>7, <1>9, <1>10, <1>11, <1>12, <1>13 DEF GroupsInv

\* A group under a new id: nothing is stored for it yet.
LEMMA GroupInsertedKeeps ==
    ASSUME GroupsInv, NEW c \in Calls, gop[c].at = "insert",
           NEW g, g = lastGroup + 1, lastGroup < MaxGroups,
           IndexAllows(gop[c].name, g), lastGroup' = g,
           groups' = [groups EXCEPT ![g] = gop[c].name],
           langs' = [langs EXCEPT ![g] = gop[c].langs],
           gop' = [gop EXCEPT ![c] = [@ EXCEPT !.at = "fanout", !.g = g, !.name = NoGroup]],
           Excuse(IF Deleting(g) # {} THEN {g} ELSE {}),
           job' = [job EXCEPT ![c] = [s \in Slots |-> "todo"]],
           UNCHANGED <<rows, avds, boots, fresh>>
    PROVE  GroupsInv'
<1> DEFINE o == [gop[c] EXCEPT !.at = "fanout", !.g = g, !.name = NoGroup]
           j == [s \in Slots |-> "todo"]
<1>1. /\ g \in GroupIds /\ g \in 0..MaxGroups /\ lastGroup \in Nat
      /\ gop[c].name \in GroupNames /\ gop[c].name # NoGroup
      /\ Named(gop[c].langs) /\ gop[c].sem = 0 /\ gop[c] \in Op
  BY JobsTyped DEF LocalsAt, GroupsInv, GroupsTypeOK, GroupIds
<1>2. /\ o \in Op /\ o.at = "fanout" /\ o.g = g /\ o.langs = gop[c].langs /\ o.sem = 0
      /\ j \in SlotJobs
  BY <1>1 DEF Op, SlotJobs
<1>3. gop' = [gop EXCEPT ![c] = o]
  BY DEF GroupsInv, GroupsTypeOK
<1>4. \A s \in Slots : j[s] = "todo"
  OBVIOUS
<1> HIDE DEF o
<1>5. /\ gop' \in [Calls -> Op] /\ job' \in [Calls -> SlotJobs]
      /\ gop'[c] = o /\ job'[c] = j /\ OthersStay(c)
  BY <1>2, <1>3, CallMoves
<1> HIDE DEF j
<1>6. /\ excused' \in [GroupIds -> BOOLEAN]
      /\ \A h \in GroupIds : excused'[h] <=> excused[h] \/ (h = g /\ Deleting(g) # {})
  BY ExcuseTyped
<1>7. /\ langs' \in [GroupIds -> [Slots -> Languages \cup {NoGroup}]]
      /\ langs'[g] = gop[c].langs /\ \A h \in GroupIds \ {g} : langs'[h] = langs[h]
      /\ groups' \in [GroupIds -> GroupNames \cup {NoGroup}]
      /\ groups'[g] = gop[c].name /\ \A h \in GroupIds \ {g} : groups'[h] = groups[h]
  BY <1>1 DEF GroupsInv, GroupsTypeOK, Op
<1>8. GroupsTypeOK'
  BY <1>1, <1>5, <1>6, <1>7 DEF GroupsInv, GroupsTypeOK, SlotJobs
<1>9. /\ groups[g] = NoGroup /\ \A s \in Slots : rows[<<g, s>>] = "none"
      /\ \A l \in Languages : <<g, l>> \notin avds
  BY <1>1 DEF GroupsInv, IdsInv
<1>10. \A d \in Calls : gop[d].at = "fanout" => gop[d].g # g /\ gop[d].g \in GroupIds
                                                /\ gop[d].g <= lastGroup
  BY <1>1, MakerKnows DEF GroupIds
<1>11. LocalsInv'
  <2>1. LocalsAt(c)'
    BY <1>1, <1>2, <1>4, <1>5, <1>7 DEF LocalsAt, JobsAt, GroupIds
  <2>2. ASSUME NEW d \in Calls, d # c
        PROVE  LocalsAt(d)'
    <3>1. gop'[d] = gop[d] /\ job'[d] = job[d] /\ LocalsAt(d)
      BY <1>5, <2>2, JobsTyped DEF OthersStay
    <3>2. gop[d].at = "fanout" =>
            gop[d].g <= lastGroup' /\ langs'[gop[d].g] = langs[gop[d].g]
      BY <1>1, <1>7, <1>10 DEF GroupIds
    <3>3. gop[d].at = "drop" =>
            /\ gop[d].g <= lastGroup' /\ langs'[gop[d].g] = langs[gop[d].g]
            /\ gop[d].g \in GroupIds /\ (excused[gop[d].g] => excused'[gop[d].g])
      BY <1>1, <1>6, <1>7, <3>1 DEF GroupIds, LocalsAt
    <3>4. gop[d].at = "drop" => \A s \in Slots : Alone(gop[d].g, s) => Alone(gop[d].g, s)'
      BY <3>1, <3>3 DEF Alone
    <3>5. ASSUME gop'[d].at = "drop"
          PROVE  /\ gop'[d].g <= lastGroup'
                 /\ \A s, u \in Slots : job'[d][s] # "none" /\ job'[d][u] # "none" => s = u
                 /\ ~excused'[gop'[d].g] => \A s \in Slots :
                        job'[d][s] # "none" => Alone(gop[d].g, s)'
      BY <3>1, <3>3, <3>4, <3>5 DEF LocalsAt
    <3>6. /\ \A s \in Slots : job'[d][s] \in JobsAt(gop'[d].at)
          /\ gop'[d].at \in {"check", "insert"} =>
                 gop'[d].name \in GroupNames /\ Named(gop'[d].langs)
          /\ gop'[d].at \in {"recheck", "update"} => gop'[d].name \in GroupNames
          /\ gop'[d].at \notin {"idle", "check", "insert"} => gop'[d].g \in GroupIds
          /\ gop'[d].at # "fanout" => gop'[d].sem = 0
          /\ gop'[d].at = "fanout" =>
                 gop'[d].g <= lastGroup' /\ gop'[d].langs = langs'[gop'[d].g]
      BY <3>1, <3>2 DEF LocalsAt
    <3> QED
      BY <3>5, <3>6 DEF LocalsAt
  <2> QED
    BY <2>1, <2>2 DEF LocalsInv
<1>12. IdsInv'
  <2>1. ASSUME NEW h \in GroupIds
        PROVE  IF h <= lastGroup'
               THEN Named(langs'[h])
               ELSE /\ groups'[h] = NoGroup
                    /\ \A s \in Slots : rows'[<<h, s>>] = "none"
                    /\ \A l \in Languages : <<h, l>> \notin avds'
    <3>1. CASE h = g
      BY <1>1, <1>7, <3>1 DEF GroupIds
    <3>2. CASE h # g
      <4>1. h <= lastGroup' <=> h <= lastGroup
        BY <1>1, <3>2 DEF GroupIds
      <4> QED
        BY <1>7, <3>2, <4>1 DEF GroupsInv, IdsInv
    <3> QED
      BY <3>1, <3>2
  <2>2. \A d, e \in Calls :
          gop'[d].at = "fanout" /\ gop'[e].at = "fanout" /\ gop'[d].g = gop'[e].g => d = e
    BY <1>2, <1>5, <1>10 DEF GroupsInv, IdsInv, OthersStay
  <2> QED
    BY <2>1, <2>2 DEF IdsInv
<1>13. \A h \in GroupIds : /\ h # g => Creating(h)' = Creating(h)
                           /\ Deleting(h)' = Deleting(h)
                           /\ Creating(g)' = {c}
  BY <1>2, <1>5, <1>10 DEF Creating, Deleting, OthersStay
<1>14. MakersInv'
  BY <1>1, <1>6, <1>7, <1>13 DEF GroupsInv, MakersInv
<1>15. \A h \in GroupIds \ {g}, t \in Slots :
         /\ Made(h, t)' <=> Made(h, t)
         /\ HasAvd(h, t)' <=> HasAvd(h, t)
         /\ Cleaned(h, t)' <=> Cleaned(h, t)
  BY <1>2, <1>5, <1>7 DEF Made, HasAvd, Cleaned, OthersStay
<1>16. MakingInv'
  <2> SUFFICES ASSUME NEW d \in Calls, NEW t \in Slots,
                      gop'[d].at = "fanout", ~excused'[gop'[d].g]
               PROVE  JobTells(d, t)'
    BY DEF MakingInv
  <2>1. CASE d = c
    <3>1. ~Made(g, t)'
      BY <1>1, <1>9 DEF Made
    <3> QED
      BY <1>2, <1>4, <1>5, <2>1, <3>1 DEF JobTells, Made
  <2>2. CASE d # c
    <3>1. gop'[d] = gop[d] /\ job'[d] = job[d]
      BY <1>5, <2>2 DEF OthersStay
    <3>2. gop[d].g \in GroupIds \ {g} /\ ~excused[gop[d].g]
      BY <1>6, <1>10, <3>1
    <3>3. JobTells(d, t)
      BY <3>1, <3>2 DEF GroupsInv, MakingInv
    <3> QED
      BY <1>15, <3>1, <3>2, <3>3 DEF JobTells
  <2> QED
    BY <2>1, <2>2
<1>17. DeletingInv'
  <2>1. \A d \in Calls : gop'[d].at = "clean" =>
            gop[d].at = "clean" /\ gop'[d].g = gop[d].g /\ job'[d] = job[d]
    BY <1>2, <1>5 DEF OthersStay
  <2>2. \A h \in GroupIds : Creating(h)' = {} /\ ~excused'[h] =>
            h # g /\ Creating(h) = {} /\ ~excused[h]
    BY <1>6, <1>13
  <2> QED
    BY <1>15, <2>1, <2>2 DEF GroupsInv, DeletingInv
<1>18. SemInv'
  <2>1. AtWork(c)' = {}
    BY <1>4, <1>5 DEF AtWork
  <2>2. gop'[c].sem = Cardinality(AtWork(c)')
    BY <1>2, <1>5, <2>1, FS_EmptySet
  <2>3. ASSUME NEW d \in Calls \ {c}, gop'[d].at = "fanout"
        PROVE  gop'[d].sem = Cardinality(AtWork(d)')
    <3>1. gop'[d] = gop[d] /\ AtWork(d)' = AtWork(d)
      BY <1>5 DEF OthersStay, AtWork
    <3> QED
      BY <2>3, <3>1 DEF GroupsInv, SemInv
  <2>4. \A d \in Calls : gop'[d].at = "fanout" => gop'[d].sem = Cardinality(AtWork(d)')
    BY <2>2, <2>3
  <2> QED
    BY <2>4 DEF SemInv, AtWork
<1>19. NamesUnique'
  BY <1>1, <1>7 DEF GroupsInv, NamesUnique, IndexAllows
<1>20. GroupOfRowExists'
  BY <1>1, <1>6, <1>7 DEF GroupsInv, GroupOfRowExists, Rows
<1>21. BackedInv'
  <2> SUFFICES ASSUME NEW h \in GroupIds, NEW l \in Languages, ~excused'[h], <<h, l>> \in avds'
               PROVE  \E s \in Slots : langs'[h][s] = l /\ (Made(h, s)' \/ Awaited(h, s)')
    BY DEF BackedInv
  <2>1. h \in GroupIds \ {g} /\ ~excused[h] /\ <<h, l>> \in avds
    BY <1>6, <1>9
  <2>2. PICK s \in Slots : langs[h][s] = l /\ (Made(h, s) \/ Awaited(h, s))
    BY <2>1 DEF GroupsInv, BackedInv
  <2>3. Awaited(h, s) => Awaited(h, s)'
    BY <1>5 DEF Awaited, OthersStay
  <2> QED
    BY <1>7, <1>15, <2>1, <2>2, <2>3
<1> QED
  BY <1>8, <1>11, <1>12, <1>14, <1>16, <1>17, <1>18, <1>19, <1>20, <1>21 DEF GroupsInv

LEMMA InsertGroupKeeps ==
    ASSUME GroupsInv, NEW c \in Calls, InsertGroup(c)
    PROVE  GroupsInv'
<1>1. gop[c].at = "insert" /\ UNCHANGED <<rows, avds, boots, fresh>>
  BY DEF InsertGroup, statusVars
<1>2. CASE GroupOpEnds(c) /\ UNCHANGED <<groups, lastGroup, langs, excused>>
  <2>1. UNCHANGED <<storeVars, fresh, excused>> /\ boots' \subseteq Rows
    BY <1>1, <1>2 DEF storeVars, GroupsInv, GroupsTypeOK
  <2> QED
    BY <1>1, <1>2, <2>1, GroupOpEndsKeeps
<1>3. CASE ~(GroupOpEnds(c) /\ UNCHANGED <<groups, lastGroup, langs, excused>>)
  BY <1>1, <1>3, GroupInsertedKeeps DEF InsertGroup
<1> QED
  BY <1>2, <1>3

-----------------------------------------------------------------------------
(* Groups: deletions.                                                      *)

LEMMA BeginDeleteKeeps ==
    ASSUME GroupsInv, NEW c \in Calls, gop[c].at = "idle", BeginDelete(c)
    PROVE  GroupsInv'
<1>1. PICK g \in GroupIds :
        /\ gop' = [gop EXCEPT ![c] = [NoOp EXCEPT !.at = "list", !.g = g]]
        /\ Excuse(IF Creating(g) # {} THEN {g} ELSE {})
  BY DEF BeginDelete
<1> DEFINE o == [NoOp EXCEPT !.at = "list", !.g = g]
<1>2. o \in Op /\ o.at = "list" /\ o.g = g /\ o.sem = 0
  <2>1. g \in 0..MaxGroups
    BY DEF GroupIds
  <2> QED
    BY <2>1, NothingIsTyped DEF Op
<1>3. /\ job' = job /\ job[c] \in SlotJobs /\ job' = [job EXCEPT ![c] = job[c]]
      /\ UNCHANGED <<groups, lastGroup, langs, rows, avds, boots, fresh>>
  BY JobsTyped DEF BeginDelete, storeVars, statusVars
<1> HIDE DEF o
<1>4. gop' \in [Calls -> Op] /\ gop'[c] = o /\ OthersStay(c)
  BY <1>1, <1>2, <1>3, CallMoves DEF o
<1>5. /\ excused' \in [GroupIds -> BOOLEAN]
      /\ \A h \in GroupIds : excused'[h] <=> excused[h] \/ (h = g /\ Creating(g) # {})
  BY <1>1, ExcuseTyped
<1>6. GroupsTypeOK'
  BY <1>3, <1>4, <1>5 DEF GroupsInv, GroupsTypeOK
<1>7. LocalsAt(c)'
  BY <1>2, <1>3, <1>4, JobsTyped DEF LocalsAt, JobsAt
<1>8. \A h \in GroupIds : /\ Creating(h)' = Creating(h)
                          /\ h # g => Deleting(h)' = Deleting(h)
  BY <1>2, <1>4 DEF Creating, Deleting, OthersStay
<1>9. \A h \in GroupIds : Creating(h) # {} /\ ~excused'[h] =>
          Deleting(h)' = {} /\ groups'[h] # NoGroup
  BY <1>3, <1>5, <1>8 DEF GroupsInv, MakersInv
<1>10. LocalsInv' /\ IdsInv' /\ MakersInv' /\ MakingInv' /\ SemInv' /\ BackedInv'
  BY <1>2, <1>3, <1>4, <1>5, <1>7, <1>9, MakesNothing DEF Made
<1>11. DeletingInv'
  <2>1. \A h \in GroupIds, t \in Slots :
          /\ Made(h, t)' <=> Made(h, t)
          /\ HasAvd(h, t)' <=> HasAvd(h, t)
          /\ Cleaned(h, t)' <=> Cleaned(h, t)
    BY <1>2, <1>3, <1>4 DEF Made, HasAvd, Cleaned, OthersStay
  <2>2. \A d \in Calls : gop'[d].at = "clean" => gop'[d] = gop[d] /\ job'[d] = job[d]
    BY <1>2, <1>4 DEF OthersStay
  <2>3. ASSUME NEW h \in GroupIds, NEW t \in Slots, ~excused'[h], Creating(h)' = {}
        PROVE  /\ Made(h, t) /\ ~HasAvd(h, t) => Cleaned(h, t)
               /\ Cleaned(h, t) => ~HasAvd(h, t)
               /\ \A d \in Calls : gop[d].at = "clean" /\ gop[d].g = h /\ Made(h, t)
                                     => job[d][t] # "none"
    BY <1>5, <1>8, <2>3 DEF GroupsInv, DeletingInv
  <2> QED
    BY <2>1, <2>2, <2>3 DEF DeletingInv
<1>12. NamesUnique' /\ GroupOfRowExists'
  BY <1>3, <1>5 DEF GroupsInv, NamesUnique, GroupOfRowExists, Rows
<1> QED
  BY <1>6, <1>10, <1>11, <1>12 DEF GroupsInv

\* Unless it is excused, nobody makes the group that a call deletes.
LEMMA DeleterKnows ==
    ASSUME GroupsInv, NEW c \in Calls, gop[c].at \in {"list", "clean", "drop"}
    PROVE  /\ gop[c].g \in GroupIds
           /\ ~excused[gop[c].g] => Creating(gop[c].g) = {}
<1>1. gop[c].g \in GroupIds
  BY JobsTyped DEF LocalsAt
<1>2. c \in Deleting(gop[c].g)
  BY DEF Deleting
<1> QED
  BY <1>1, <1>2 DEF GroupsInv, MakersInv

\* A deletion that ends without having done a thing.
LEMMA DeleteGivesUp ==
    ASSUME GroupsInv, NEW c \in Calls, gop[c].at \in {"list", "clean"}, GroupOpEnds(c),
           UNCHANGED <<storeVars, statusVars>>,
           Excuse(IF Pending(c, {"done"}) THEN {gop[c].g} ELSE {})
    PROVE  GroupsInv'
<1> DEFINE g == gop[c].g
<1>1. /\ UNCHANGED <<groups, lastGroup, langs, rows, avds, boots, fresh>>
      /\ gop' = [gop EXCEPT ![c] = NoOp] /\ job' = [job EXCEPT ![c] = NoJobs]
  BY DEF storeVars, statusVars, GroupOpEnds
<1>2. /\ gop' \in [Calls -> Op] /\ job' \in [Calls -> SlotJobs]
      /\ gop'[c] = NoOp /\ job'[c] = NoJobs /\ OthersStay(c)
  BY <1>1, NothingIsTyped, CallMoves
<1>3. /\ excused' \in [GroupIds -> BOOLEAN]
      /\ \A h \in GroupIds : excused'[h] <=> excused[h] \/ (h = g /\ Pending(c, {"done"}))
  BY ExcuseTyped
<1>4. GroupsTypeOK'
  BY <1>1, <1>2, <1>3 DEF GroupsInv, GroupsTypeOK, SlotJobs
<1>5. LocalsAt(c)'
  BY <1>2, NothingIsTyped DEF LocalsAt, FitsAt
<1>6. \A h \in GroupIds : Creating(h)' = Creating(h) /\ Deleting(h)' \subseteq Deleting(h)
  BY <1>2, NothingIsTyped DEF Creating, Deleting, OthersStay
<1>7. \A h \in GroupIds : Creating(h) # {} /\ ~excused'[h] =>
          Deleting(h)' = {} /\ groups'[h] # NoGroup
  BY <1>1, <1>3, <1>6 DEF GroupsInv, MakersInv
<1>8. LocalsInv' /\ IdsInv' /\ MakersInv' /\ MakingInv' /\ SemInv' /\ BackedInv'
  BY <1>1, <1>2, <1>3, <1>5, <1>7, NothingIsTyped, MakesNothing DEF Made
<1>9. DeletingInv'
  <2>0. \A h \in GroupIds, t \in Slots :
          (Made(h, t)' <=> Made(h, t)) /\ (HasAvd(h, t)' <=> HasAvd(h, t))
    BY <1>1 DEF Made, HasAvd
  <2>4. ASSUME NEW h \in GroupIds, NEW t \in Slots, ~excused'[h]
        PROVE  Cleaned(h, t)' <=> Cleaned(h, t)
    <3>1. /\ gop'[c].at = "idle"
          /\ \A u \in Slots : ~(gop[c].g = h /\ job[c][u] = "done")
      BY <1>2, <1>3, <2>4, NothingIsTyped DEF Pending
    <3>2. \A d \in Calls \ {c} : gop'[d] = gop[d] /\ job'[d] = job[d]
      BY <1>2 DEF OthersStay
    <3>3. ASSUME NEW d \in Calls, NEW u \in Slots
          PROVE  (/\ gop'[d].at \in {"clean", "drop"} /\ gop'[d].g = h /\ job'[d][u] = "done")
                 <=> (/\ gop[d].at \in {"clean", "drop"} /\ gop[d].g = h /\ job[d][u] = "done")
      <4>1. CASE d = c
        BY <3>1, <4>1
      <4>2. CASE d # c
        BY <3>2, <4>2
      <4> QED
        BY <4>1, <4>2
    <3> QED
      BY <1>1, <3>3 DEF Cleaned
  <2>1. \A h \in GroupIds, t \in Slots : ~excused'[h] =>
          /\ Made(h, t)' <=> Made(h, t)
          /\ HasAvd(h, t)' <=> HasAvd(h, t)
          /\ Cleaned(h, t)' <=> Cleaned(h, t)
    BY <2>0, <2>4
  <2>2. \A d \in Calls : gop'[d].at = "clean" => gop'[d] = gop[d] /\ job'[d] = job[d]
    BY <1>2, NothingIsTyped DEF OthersStay
  <2>3. \A h \in GroupIds : ~excused'[h] /\ Creating(h)' = {} => ~excused[h] /\ Creating(h) = {}
    BY <1>3, <1>6
  <2> QED
    BY <2>1, <2>2, <2>3 DEF GroupsInv, DeletingInv
<1>10. NamesUnique' /\ GroupOfRowExists'
  BY <1>1, <1>3 DEF GroupsInv, NamesUnique, GroupOfRowExists, Rows
<1> QED
  BY <1>4, <1>8, <1>9, <1>10 DEF GroupsInv

LEMMA ListRowsKeeps ==
    ASSUME GroupsInv, NEW c \in Calls, ListRows(c)
    PROVE  GroupsInv'
<1> DEFINE g == gop[c].g
           j == [s \in Slots |-> IF rows[<<g, s>>] # "none" THEN "clean" ELSE "none"]
           o == [gop[c] EXCEPT !.at = "clean"]
<1>1. /\ gop[c].at = "list" /\ UNCHANGED <<storeVars, statusVars>>
      /\ UNCHANGED <<groups, lastGroup, langs, rows, avds, boots, fresh, excused>>
  BY DEF ListRows, storeVars, statusVars
<1>2. CASE GroupOpEnds(c)
  <2>1. ~Pending(c, {"done"})
    BY <1>1, JobsTyped DEF Pending, LocalsAt, JobsAt
  <2>2. Excuse({})
    BY <1>1 DEF Excuse, GroupsInv, GroupsTypeOK
  <2>3. Excuse(IF Pending(c, {"done"}) THEN {gop[c].g} ELSE {})
    BY <2>1, <2>2
  <2>4. gop[c].at \in {"list", "clean"} /\ UNCHANGED <<storeVars, statusVars>>
    BY <1>1
  <2> QED
    BY <1>2, <2>3, <2>4, DeleteGivesUp
<1>3. CASE job' = [job EXCEPT ![c] = j] /\ Goto(c, "clean")
  <2>11. gop[c] \in Op
    BY DEF GroupsInv, GroupsTypeOK
  <2>12. /\ o \in Op /\ o.at = "clean" /\ o.g = g /\ o.sem = gop[c].sem
    BY <2>11 DEF Op
  <2>13. j \in SlotJobs
    BY DEF SlotJobs
  <2>14. gop' = [gop EXCEPT ![c] = o]
    BY <1>3 DEF Goto
  <2>1. /\ o \in Op /\ o.at = "clean" /\ o.g = g /\ o.sem = gop[c].sem
        /\ j \in SlotJobs /\ gop' = [gop EXCEPT ![c] = o]
    BY <2>12, <2>13, <2>14
  <2>2. \A s \in Slots : j[s] = IF rows[<<g, s>>] # "none" THEN "clean" ELSE "none"
    OBVIOUS
  <2> HIDE DEF j, o
  <2>3. /\ gop' \in [Calls -> Op] /\ job' \in [Calls -> SlotJobs]
        /\ gop'[c] = o /\ job'[c] = j /\ OthersStay(c)
    BY <1>3, <2>1, CallMoves
  <2>4. GroupsTypeOK'
    BY <1>1, <2>3 DEF GroupsInv, GroupsTypeOK, SlotJobs
  <2>5. LocalsAt(c)'
    <3>1. g \in GroupIds /\ gop[c].sem = 0
      BY <1>1, JobsTyped DEF LocalsAt
    <3>2. \A s \in Slots : j[s] \in JobsAt("clean")
      BY <2>2 DEF JobsAt
    <3> QED
      BY <2>1, <2>3, <3>1, <3>2 DEF LocalsAt
  <2>6. \A h \in GroupIds : Creating(h)' = Creating(h) /\ Deleting(h)' = Deleting(h)
    BY <1>1, <2>1, <2>3 DEF Creating, Deleting, OthersStay
  <2>7. \A h \in GroupIds : Creating(h) # {} /\ ~excused'[h] =>
            Deleting(h)' = {} /\ groups'[h] # NoGroup
    BY <1>1, <2>6 DEF GroupsInv, MakersInv
  <2>8. LocalsInv' /\ IdsInv' /\ MakersInv' /\ MakingInv' /\ SemInv' /\ BackedInv'
    BY <1>1, <2>1, <2>3, <2>5, <2>7, MakesNothing DEF Made
  <2>9. DeletingInv'
    <3>2. \A d \in Calls \ {c} : gop'[d] = gop[d] /\ job'[d] = job[d]
      BY <2>3 DEF OthersStay
    <3>4. \A h \in GroupIds, t \in Slots :
            (Made(h, t)' <=> Made(h, t)) /\ (HasAvd(h, t)' <=> HasAvd(h, t))
      BY <1>1 DEF Made, HasAvd
    <3>5. \A t \in Slots : gop[c].at = "list" /\ job'[c][t] # "done"
      BY <1>1, <2>2, <2>3
    <3>1. \A h \in GroupIds, t \in Slots :
            /\ Made(h, t)' <=> Made(h, t)
            /\ HasAvd(h, t)' <=> HasAvd(h, t)
            /\ Cleaned(h, t)' <=> Cleaned(h, t)
      BY <1>1, <3>2, <3>4, <3>5 DEF Cleaned
    <3>3. \A t \in Slots : Made(g, t) => job'[c][t] # "none"
      BY <2>2, <2>3 DEF Made
    <3>6. ASSUME NEW h \in GroupIds, NEW t \in Slots, ~excused'[h], Creating(h)' = {}
          PROVE  /\ Made(h, t) /\ ~HasAvd(h, t) => Cleaned(h, t)
                 /\ Cleaned(h, t) => ~HasAvd(h, t)
                 /\ \A d \in Calls : gop[d].at = "clean" /\ gop[d].g = h /\ Made(h, t)
                                       => job[d][t] # "none"
      BY <1>1, <2>6, <3>6 DEF GroupsInv, DeletingInv
    <3>7. ASSUME NEW h \in GroupIds, NEW t \in Slots, ~excused'[h], Creating(h)' = {},
                 NEW d \in Calls, gop'[d].at = "clean", gop'[d].g = h, Made(h, t)
          PROVE  job'[d][t] # "none"
      <4>1. CASE d = c
        BY <2>1, <2>3, <3>3, <3>7, <4>1
      <4>2. CASE d # c
        BY <3>2, <3>6, <3>7, <4>2
      <4> QED
        BY <4>1, <4>2
    <3> QED
      BY <3>1, <3>6, <3>7 DEF DeletingInv
  <2>10. NamesUnique' /\ GroupOfRowExists'
    BY <1>1 DEF GroupsInv, NamesUnique, GroupOfRowExists
  <2> QED
    BY <2>4, <2>8, <2>9, <2>10 DEF GroupsInv
<1> QED
  BY <1>2, <1>3 DEF ListRows

\* The AVD of a slot goes, and the row stays for the transaction.
LEMMA CleanRowKeeps ==
    ASSUME GroupsInv, NEW c \in Calls, NEW s \in Slots, CleanRow(c, s)
    PROVE  GroupsInv'
<1> DEFINE g == gop[c].g
           a == <<g, langs[g][s]>>
           j == [job[c] EXCEPT ![s] = "done"]
<1>1. /\ job[c][s] = "clean" /\ gop[c].at \in {"clean", "drop"}
      /\ UNCHANGED <<groups, lastGroup, langs, rows, gop>>
      /\ UNCHANGED <<boots, fresh>> /\ job' = [job EXCEPT ![c] = j]
      /\ \/ avds' = avds \ {a} /\ UNCHANGED excused
         \/ Excuse({g}) /\ UNCHANGED avds
  BY JobPlaces DEF CleanRow, JobDone, statusVars, GroupsInv, GroupsTypeOK
<1>2. /\ j \in SlotJobs /\ j[s] = "done" /\ \A t \in Slots \ {s} : j[t] = job[c][t]
      /\ gop[c] \in Op /\ gop' = [gop EXCEPT ![c] = gop[c]]
  BY <1>1, JobsTyped DEF SlotJobs
<1> HIDE DEF j
<1>3. /\ gop' \in [Calls -> Op] /\ job' \in [Calls -> SlotJobs]
      /\ gop'[c] = gop[c] /\ job'[c] = j /\ OthersStay(c)
  BY <1>1, <1>2, CallMoves
<1>4. /\ excused' \in [GroupIds -> BOOLEAN] /\ g \in GroupIds
      /\ \A h \in GroupIds : excused[h] => excused'[h]
      /\ ~excused'[g] => avds' = avds \ {a} /\ Creating(g) = {} /\ ~excused[g]
  <2>1. g \in GroupIds /\ (~excused[g] => Creating(g) = {})
    BY <1>1, DeleterKnows
  <2>2. CASE avds' = avds \ {a} /\ UNCHANGED excused
    BY <2>1, <2>2 DEF GroupsInv, GroupsTypeOK
  <2>3. CASE Excuse({g})
    BY <2>1, <2>3, ExcuseTyped
  <2> QED
    BY <1>1, <2>2, <2>3
<1>5. /\ avds' \subseteq avds
      /\ \A h \in GroupIds \ {g} : \A x : <<h, x>> \in avds' <=> <<h, x>> \in avds
  BY <1>1
<1>6. GroupsTypeOK'
  BY <1>1, <1>3, <1>4, <1>5 DEF GroupsInv, GroupsTypeOK, SlotJobs
<1>7. LocalsAt(c)'
  BY <1>1, <1>2, <1>3, <1>4, JobsTyped DEF LocalsAt, JobsAt, Alone
<1>8. \A h \in GroupIds : Creating(h)' = Creating(h) /\ Deleting(h)' = Deleting(h)
  BY <1>1 DEF Creating, Deleting
<1>9. \A h \in GroupIds : Creating(h) # {} /\ ~excused'[h] =>
          /\ Deleting(h)' = {} /\ groups'[h] # NoGroup
          /\ \A l \in Languages : <<h, l>> \in avds => <<h, l>> \in avds'
  BY <1>1, <1>4, <1>5, <1>8 DEF GroupsInv, MakersInv
<1>10. LocalsInv' /\ IdsInv' /\ MakersInv' /\ MakingInv' /\ SemInv' /\ BackedInv'
  BY <1>1, <1>3, <1>4, <1>5, <1>7, <1>9, MakesNothing DEF Made
<1>11. DeletingInv'
  <2> SUFFICES ASSUME NEW h \in GroupIds, NEW t \in Slots, ~excused'[h], Creating(h) = {}
               PROVE  /\ Made(h, t) /\ ~HasAvd(h, t)' => Cleaned(h, t)'
                      /\ Cleaned(h, t)' => ~HasAvd(h, t)'
                      /\ \A d \in Calls : gop[d].at = "clean" /\ gop[d].g = h /\ Made(h, t)
                                            => job'[d][t] # "none"
    BY <1>1, <1>8 DEF DeletingInv, Made
  <2>1. /\ ~excused[h]
        /\ Made(h, t) /\ ~HasAvd(h, t) => Cleaned(h, t)
        /\ Cleaned(h, t) => ~HasAvd(h, t)
        /\ \A d \in Calls : gop[d].at = "clean" /\ gop[d].g = h /\ Made(h, t)
                              => job[d][t] # "none"
    BY <1>4 DEF GroupsInv, DeletingInv
  <2>2. HasAvd(h, t)' => HasAvd(h, t)
    BY <1>1, <1>5 DEF HasAvd
  <2>3. Cleaned(h, t) => Cleaned(h, t)'
    BY <1>1, <1>2, <1>3 DEF Cleaned, OthersStay
  <2>4. \A d \in Calls : job[d][t] # "none" => job'[d][t] # "none"
    BY <1>2, <1>3 DEF OthersStay
  <2>5. CASE h = g /\ langs[g][t] = langs[g][s]
    <3>1. Cleaned(h, t)'
      BY <1>1, <1>2, <1>3, <2>5 DEF Cleaned
    <3>2. ~HasAvd(h, t)'
      BY <1>1, <1>4, <2>5 DEF HasAvd
    <3> QED
      BY <2>1, <2>4, <3>1, <3>2
  <2>6. CASE h # g \/ langs[g][t] # langs[g][s]
    <3>1. Cleaned(h, t)' => Cleaned(h, t)
      BY <1>1, <1>2, <1>3, <2>6 DEF Cleaned, OthersStay
    <3>2. HasAvd(h, t) => HasAvd(h, t)'
      BY <1>1, <1>5, <2>6 DEF HasAvd
    <3> QED
      BY <2>1, <2>2, <2>3, <2>4, <3>1, <3>2
  <2> QED
    BY <2>5, <2>6
<1>12. NamesUnique' /\ GroupOfRowExists'
  BY <1>1, <1>4 DEF GroupsInv, NamesUnique, GroupOfRowExists, Rows
<1> QED
  BY <1>6, <1>10, <1>11, <1>12 DEF GroupsInv

\* The transaction: by then every row of the group has lost its AVD.
LEMMA GroupErasedKeeps ==
    ASSUME GroupsInv, NEW c \in Calls, gop[c].at = "clean", ~Pending(c, {"clean"}),
           GroupOpEnds(c),
           groups' = [groups EXCEPT ![gop[c].g] = NoGroup],
           rows' = [r \in Rows |-> IF r[1] = gop[c].g THEN "none" ELSE rows[r]],
           fresh' \subseteq fresh, UNCHANGED <<lastGroup, langs, avds, boots, excused>>
    PROVE  GroupsInv'
<1> DEFINE g == gop[c].g
<1>1. gop' = [gop EXCEPT ![c] = NoOp] /\ job' = [job EXCEPT ![c] = NoJobs]
  BY DEF GroupOpEnds
<1>2. /\ gop' \in [Calls -> Op] /\ job' \in [Calls -> SlotJobs]
      /\ gop'[c] = NoOp /\ job'[c] = NoJobs /\ OthersStay(c)
  BY <1>1, NothingIsTyped, CallMoves
<1>3. /\ g \in GroupIds /\ (~excused[g] => Creating(g) = {})
      /\ groups' \in [GroupIds -> GroupNames \cup {NoGroup}] /\ groups'[g] = NoGroup
      /\ \A h \in GroupIds \ {g} : groups'[h] = groups[h]
      /\ rows' \in [Rows -> Statuses]
      /\ \A r \in Rows : rows'[r] = IF r[1] = g THEN "none" ELSE rows[r]
  BY DeleterKnows DEF GroupsInv, GroupsTypeOK, Statuses
<1>4. GroupsTypeOK'
  BY <1>2, <1>3 DEF GroupsInv, GroupsTypeOK, SlotJobs
<1>5. LocalsAt(c)'
  BY <1>2, NothingIsTyped DEF LocalsAt, FitsAt
<1>6. \A h \in GroupIds : Creating(h)' = Creating(h) /\ Deleting(h)' \subseteq Deleting(h)
  BY <1>2, NothingIsTyped DEF Creating, Deleting, OthersStay
<1>7. \A h \in GroupIds : Creating(h) # {} /\ ~excused[h] =>
          /\ h # g /\ Deleting(h)' = {} /\ groups'[h] # NoGroup
          /\ \A s \in Slots : rows'[<<h, s>>] = "none" => rows[<<h, s>>] = "none"
  BY <1>3, <1>6 DEF GroupsInv, MakersInv, Rows
<1>12. \A t \in Slots : ~excused[g] /\ Made(g, t) => ~HasAvd(g, t)
  <2> SUFFICES ASSUME NEW t \in Slots, ~excused[g], Made(g, t)
               PROVE  ~HasAvd(g, t)
    OBVIOUS
  <2>1. job[c][t] # "none" /\ (Cleaned(g, t) => ~HasAvd(g, t))
    BY <1>3 DEF GroupsInv, DeletingInv
  <2>2. job[c][t] = "done"
    BY <2>1, JobsTyped DEF LocalsAt, JobsAt, Pending
  <2> QED
    BY <2>1, <2>2 DEF Cleaned
<1>13. \A h \in GroupIds, t \in Slots : ~excused[h] /\ Made(h, t) => Made(h, t)' \/ ~HasAvd(h, t)'
  BY <1>3, <1>12 DEF Made, HasAvd, Rows
<1>8. LocalsInv' /\ IdsInv' /\ MakersInv' /\ MakingInv' /\ SemInv' /\ BackedInv'
  BY <1>2, <1>3, <1>5, <1>7, <1>13, NothingIsTyped, MakesNothing
<1>9. DeletingInv'
  <2> SUFFICES ASSUME NEW h \in GroupIds, NEW t \in Slots, ~excused[h], Creating(h) = {}
               PROVE  /\ Made(h, t)' /\ ~HasAvd(h, t) => Cleaned(h, t)'
                      /\ Cleaned(h, t)' => ~HasAvd(h, t)
                      /\ \A d \in Calls : gop'[d].at = "clean" /\ gop'[d].g = h /\ Made(h, t)'
                                            => job'[d][t] # "none"
    BY <1>6 DEF DeletingInv, HasAvd
  <2>1. /\ Made(h, t) /\ ~HasAvd(h, t) => Cleaned(h, t)
        /\ Cleaned(h, t) => ~HasAvd(h, t)
        /\ \A d \in Calls : gop[d].at = "clean" /\ gop[d].g = h /\ Made(h, t)
                              => job[d][t] # "none"
    BY DEF GroupsInv, DeletingInv
  <2>2. \A d \in Calls : gop'[d].at \in {"clean", "drop"} =>
            d # c /\ gop'[d] = gop[d] /\ job'[d] = job[d]
    BY <1>2, NothingIsTyped DEF OthersStay
  <2>3. Cleaned(h, t)' => Cleaned(h, t)
    BY <2>2 DEF Cleaned
  <2>4. CASE h # g
    <3>1. (Made(h, t)' <=> Made(h, t)) /\ (Cleaned(h, t) => Cleaned(h, t)')
      BY <1>2, <1>3, <2>4 DEF Made, Cleaned, OthersStay, Rows
    <3> QED
      BY <2>1, <2>2, <2>3, <3>1
  <2>5. CASE h = g
    <3>1. ~Made(h, t)'
      BY <1>3, <2>5 DEF Made, Rows
    <3> QED
      BY <2>1, <2>3, <3>1
  <2> QED
    BY <2>4, <2>5
<1>10. NamesUnique'
  BY <1>3 DEF GroupsInv, NamesUnique
<1>11. GroupOfRowExists'
  BY <1>3 DEF GroupsInv, GroupOfRowExists, Rows
<1> QED
  BY <1>4, <1>8, <1>9, <1>10, <1>11 DEF GroupsInv

LEMMA EraseGroupKeeps ==
    ASSUME GroupsInv, NEW c \in Calls, EraseGroup(c)
    PROVE  GroupsInv'
<1>1. /\ gop[c].at = "clean" /\ ~Pending(c, {"clean"}) /\ GroupOpEnds(c)
      /\ UNCHANGED <<lastGroup, langs, avds, boots>>
  BY DEF EraseGroup
<1>2. CASE /\ Excuse(IF Pending(c, {"done"}) THEN {gop[c].g} ELSE {})
           /\ UNCHANGED <<groups, rows, fresh>>
  BY <1>1, <1>2, DeleteGivesUp DEF storeVars, statusVars
<1>3. CASE /\ groups' = [groups EXCEPT ![gop[c].g] = NoGroup]
           /\ rows' = [r \in Rows |-> IF r[1] = gop[c].g THEN "none" ELSE rows[r]]
           /\ fresh' = {r \in fresh : r[1] # gop[c].g}
           /\ UNCHANGED excused
  <2>1. fresh' \subseteq fresh
    BY <1>3
  <2> QED
    BY <1>1, <1>3, <2>1, GroupErasedKeeps
<1> QED
  BY <1>2, <1>3 DEF EraseGroup

\* One instance of a group is to go.
LEMMA BeginDropKeeps ==
    ASSUME GroupsInv, NEW c \in Calls, gop[c].at = "idle", BeginDrop(c)
    PROVE  GroupsInv'
<1>1. PICK g \in GroupIds, s \in Slots :
        /\ rows[<<g, s>>] # "none"
        /\ gop' = [gop EXCEPT ![c] = [NoOp EXCEPT !.at = "drop", !.g = g]]
        /\ job' = [job EXCEPT ![c] = [NoJobs EXCEPT ![s] = "clean"]]
        /\ Excuse(IF Creating(g) # {} \/ ~Alone(g, s) THEN {g} ELSE {})
  BY DEF BeginDrop
<1> DEFINE o == [NoOp EXCEPT !.at = "drop", !.g = g]
           j == [NoJobs EXCEPT ![s] = "clean"]
<1>2. o \in Op /\ o.at = "drop" /\ o.g = g /\ o.sem = 0
  <2>1. g \in 0..MaxGroups
    BY DEF GroupIds
  <2> QED
    BY <2>1, NothingIsTyped DEF Op
<1>3. j \in SlotJobs /\ \A t \in Slots : j[t] = IF t = s THEN "clean" ELSE "none"
  BY DEF NoJobs, SlotJobs
<1> HIDE DEF o, j
<1>4. /\ gop' \in [Calls -> Op] /\ gop'[c] = o /\ job' \in [Calls -> SlotJobs]
      /\ job'[c] = j /\ OthersStay(c)
  BY <1>1, <1>2, <1>3, CallMoves DEF o, j
<1>5. /\ excused' \in [GroupIds -> BOOLEAN]
      /\ \A h \in GroupIds : excused[h] => excused'[h]
      /\ ~excused'[g] => Creating(g) = {} /\ Alone(g, s)
      /\ \A h \in GroupIds : h # g => (excused'[h] <=> excused[h])
  <2>1. CASE Creating(g) # {} \/ ~Alone(g, s)
    BY <1>1, <2>1, ExcuseTyped
  <2>2. CASE ~(Creating(g) # {} \/ ~Alone(g, s))
    BY <1>1, <2>2, ExcuseTyped
  <2> QED
    BY <2>1, <2>2
<1>6. UNCHANGED <<groups, lastGroup, langs, rows, avds, boots, fresh>>
  BY DEF BeginDrop, storeVars, statusVars
<1>7. GroupsTypeOK'
  BY <1>4, <1>5, <1>6 DEF GroupsInv, GroupsTypeOK, SlotJobs
<1>8. LocalsAt(c)'
  <2>1. g <= lastGroup
    BY <1>1 DEF GroupsInv, IdsInv
  <2> QED
    BY <1>2, <1>3, <1>4, <1>5, <1>6, <2>1 DEF LocalsAt, JobsAt, Alone
<1>9. \A h \in GroupIds : /\ Creating(h)' = Creating(h)
                          /\ h # g => Deleting(h)' = Deleting(h)
  BY <1>2, <1>4 DEF Creating, Deleting, OthersStay
<1>10. \A h \in GroupIds : Creating(h) # {} /\ ~excused'[h] =>
           Deleting(h)' = {} /\ groups'[h] # NoGroup
  BY <1>5, <1>6, <1>9 DEF GroupsInv, MakersInv
<1>11. \A h \in GroupIds, t \in Slots : (Made(h, t)' <=> Made(h, t)) /\ (HasAvd(h, t)' <=> HasAvd(h, t))
  BY <1>6 DEF Made, HasAvd
<1>12. LocalsInv' /\ IdsInv' /\ MakersInv' /\ MakingInv' /\ SemInv' /\ BackedInv'
  BY <1>2, <1>4, <1>5, <1>6, <1>8, <1>10, <1>11, MakesNothing
<1>13. DeletingInv'
  <2>1. \A t \in Slots : job'[c][t] # "done"
    BY <1>3, <1>4
  <2>2. \A h \in GroupIds, t \in Slots : Cleaned(h, t)' <=> Cleaned(h, t)
    BY <1>4, <1>6, <2>1 DEF Cleaned, OthersStay
  <2>3. \A d \in Calls : gop'[d].at = "clean" => gop'[d] = gop[d] /\ job'[d] = job[d]
    BY <1>2, <1>4 DEF OthersStay
  <2>4. ASSUME NEW h \in GroupIds, NEW t \in Slots, ~excused'[h], Creating(h)' = {}
        PROVE  /\ Made(h, t) /\ ~HasAvd(h, t) => Cleaned(h, t)
               /\ Cleaned(h, t) => ~HasAvd(h, t)
               /\ \A d \in Calls : gop[d].at = "clean" /\ gop[d].g = h /\ Made(h, t)
                                     => job[d][t] # "none"
    BY <1>5, <1>9, <2>4 DEF GroupsInv, DeletingInv
  <2> QED
    BY <1>11, <2>2, <2>3, <2>4 DEF DeletingInv
<1>14. NamesUnique' /\ GroupOfRowExists'
  BY <1>5, <1>6 DEF GroupsInv, NamesUnique, GroupOfRowExists, Rows
<1> QED
  BY <1>7, <1>12, <1>13, <1>14 DEF GroupsInv

\* Its row goes when its AVD has gone, which no other row had.
LEMMA EraseRowKeeps ==
    ASSUME GroupsInv, NEW c \in Calls, EraseRow(c)
    PROVE  GroupsInv'
<1> DEFINE g == gop[c].g
<1>1. PICK s \in Slots :
        /\ job[c][s] = "done"
        /\ \/ rows' = [rows EXCEPT ![<<g, s>>] = "none"] /\ fresh' = fresh \ {<<g, s>>}
              /\ UNCHANGED excused
           \/ Excuse(IF rows[<<g, s>>] # "none" THEN {g} ELSE {}) /\ UNCHANGED <<rows, fresh>>
  BY DEF EraseRow
<1>2. /\ gop[c].at = "drop" /\ g \in GroupIds
      /\ gop' = [gop EXCEPT ![c] = NoOp] /\ job' = [job EXCEPT ![c] = NoJobs]
      /\ UNCHANGED <<groups, lastGroup, langs, avds, boots>>
  BY DeleterKnows DEF EraseRow, GroupOpEnds
<1>3. /\ gop' \in [Calls -> Op] /\ job' \in [Calls -> SlotJobs]
      /\ gop'[c] = NoOp /\ job'[c] = NoJobs /\ OthersStay(c)
  BY <1>2, NothingIsTyped, CallMoves
<1>4. /\ excused' \in [GroupIds -> BOOLEAN] /\ rows' \in [Rows -> Statuses] /\ fresh' \subseteq Rows
      /\ \A h \in GroupIds : (excused[h] => excused'[h]) /\ (h # g => excused'[h] = excused[h])
      /\ \A r \in Rows : r # <<g, s>> => rows'[r] = rows[r]
      /\ rows'[<<g, s>>] \in {"none", rows[<<g, s>>]}
      /\ ~excused'[g] => rows'[<<g, s>>] = "none"
  <2>1. <<g, s>> \in Rows /\ "none" \in Statuses
    BY <1>2 DEF Rows, Statuses
  <2>2. CASE /\ rows' = [rows EXCEPT ![<<g, s>>] = "none"] /\ fresh' = fresh \ {<<g, s>>}
             /\ UNCHANGED excused
    BY <2>1, <2>2 DEF GroupsInv, GroupsTypeOK
  <2>3. CASE /\ Excuse(IF rows[<<g, s>>] # "none" THEN {g} ELSE {})
             /\ UNCHANGED <<rows, fresh>>
    <3>1. /\ excused' \in [GroupIds -> BOOLEAN]
          /\ \A h \in GroupIds : excused'[h] <=> excused[h] \/ (h = g /\ rows[<<g, s>>] # "none")
      BY <2>3, ExcuseTyped
    <3>2. \A h \in GroupIds : (excused[h] => excused'[h]) /\ (h # g => excused'[h] = excused[h])
      BY <3>1 DEF GroupsInv, GroupsTypeOK
    <3> QED
      BY <1>2, <2>3, <3>1, <3>2 DEF GroupsInv, GroupsTypeOK
  <2> QED
    BY <1>1, <2>2, <2>3
<1>5. ~excused'[g] =>
        /\ ~excused[g] /\ Creating(g) = {} /\ Alone(g, s) /\ ~HasAvd(g, s)
        /\ \A t \in Slots : job[c][t] = "done" => t = s
  <2> SUFFICES ASSUME ~excused[g]
               PROVE  /\ Creating(g) = {} /\ Alone(g, s) /\ ~HasAvd(g, s)
                      /\ \A t \in Slots : job[c][t] = "done" => t = s
    BY <1>2, <1>4
  <2>1. Creating(g) = {} /\ Alone(g, s) /\ \A t \in Slots : job[c][t] = "done" => t = s
    BY <1>1, <1>2, DeleterKnows, JobsTyped DEF LocalsAt
  <2>2. Cleaned(g, s)
    BY <1>1, <1>2 DEF Cleaned
  <2> QED
    BY <1>2, <2>1, <2>2 DEF GroupsInv, DeletingInv
<1>6. GroupsTypeOK'
  BY <1>2, <1>3, <1>4 DEF GroupsInv, GroupsTypeOK, SlotJobs
<1>7. LocalsAt(c)'
  BY <1>3, NothingIsTyped DEF LocalsAt, FitsAt
<1>8. \A h \in GroupIds : Creating(h)' = Creating(h) /\ Deleting(h)' \subseteq Deleting(h)
  BY <1>2, <1>3, NothingIsTyped DEF Creating, Deleting, OthersStay
<1>9. \A h \in GroupIds : Creating(h) # {} /\ ~excused'[h] =>
          /\ h # g /\ Deleting(h)' = {} /\ groups'[h] # NoGroup
          /\ \A t \in Slots : rows'[<<h, t>>] = "none" => rows[<<h, t>>] = "none"
  BY <1>2, <1>4, <1>5, <1>8 DEF GroupsInv, MakersInv, Rows
<1>10. \A h \in GroupIds, t \in Slots : HasAvd(h, t)' <=> HasAvd(h, t)
  BY <1>2 DEF HasAvd
<1>11. \A h \in GroupIds, t \in Slots : h # g \/ t # s => (Made(h, t)' <=> Made(h, t))
  BY <1>4 DEF Made, Rows
<1>12. \A h \in GroupIds, t \in Slots : ~excused'[h] /\ Made(h, t) => Made(h, t)' \/ ~HasAvd(h, t)'
  BY <1>5, <1>10, <1>11
<1>13. LocalsInv' /\ IdsInv' /\ MakersInv' /\ MakingInv' /\ SemInv' /\ BackedInv'
  <2>1. \A r \in Rows : rows[r] = "none" => rows'[r] = "none"
    BY <1>4
  <2>2. gop[c].at # "fanout" /\ gop'[c].at # "fanout"
    BY <1>2, <1>3, NothingIsTyped
  <2> QED
    BY <1>2, <1>3, <1>4, <1>7, <1>9, <1>12, <2>1, <2>2, MakesNothing
<1>14. DeletingInv'
  <2> SUFFICES ASSUME NEW h \in GroupIds, NEW t \in Slots, ~excused'[h], Creating(h) = {}
               PROVE  /\ Made(h, t)' /\ ~HasAvd(h, t) => Cleaned(h, t)'
                      /\ Cleaned(h, t)' => ~HasAvd(h, t)
                      /\ \A d \in Calls : gop'[d].at = "clean" /\ gop'[d].g = h /\ Made(h, t)'
                                            => job'[d][t] # "none"
    BY <1>8, <1>10 DEF DeletingInv
  <2>1. /\ Made(h, t) /\ ~HasAvd(h, t) => Cleaned(h, t)
        /\ Cleaned(h, t) => ~HasAvd(h, t)
        /\ \A d \in Calls : gop[d].at = "clean" /\ gop[d].g = h /\ Made(h, t)
                              => job[d][t] # "none"
    BY <1>4 DEF GroupsInv, DeletingInv
  <2>2. \A d \in Calls : gop'[d].at \in {"clean", "drop"} =>
            d # c /\ gop'[d] = gop[d] /\ job'[d] = job[d]
    BY <1>3, NothingIsTyped DEF OthersStay
  <2>3. Cleaned(h, t)' => Cleaned(h, t)
    BY <1>2, <2>2 DEF Cleaned
  <2>4. CASE h = g /\ t = s
    <3>1. ~Made(h, t)'
      BY <1>4, <2>4 DEF Made
    <3> QED
      BY <2>1, <2>3, <3>1
  <2>5. CASE h # g \/ t # s
    <3>1. Cleaned(h, t) => Cleaned(h, t)'
      <4> SUFFICES ASSUME NEW d \in Calls, NEW u \in Slots, gop[d].at \in {"clean", "drop"},
                          gop[d].g = h, job[d][u] = "done", langs[h][u] = langs[h][t]
                   PROVE  Cleaned(h, t)'
        BY DEF Cleaned
      <4>1. d # c
        BY <1>5, <2>5 DEF Alone
      <4> QED
        BY <1>2, <1>3, <4>1 DEF Cleaned, OthersStay
    <3> QED
      BY <1>11, <2>1, <2>2, <2>3, <2>5, <3>1
  <2> QED
    BY <2>4, <2>5
<1>15. NamesUnique'
  BY <1>2 DEF GroupsInv, NamesUnique
<1>16. GroupOfRowExists'
  BY <1>2, <1>4 DEF GroupsInv, GroupOfRowExists, Rows
<1> QED
  BY <1>6, <1>13, <1>14, <1>15, <1>16 DEF GroupsInv

-----------------------------------------------------------------------------
(* Groups: the background, the process, and the whole.                     *)

LEMMA BootKeeps ==
    ASSUME GroupsInv, NEW r \in Rows, Boot(r)
    PROVE  GroupsInv'
<1>1. /\ UNCHANGED <<groups, lastGroup, langs, avds, gop, job, excused>>
      /\ boots' = boots \ {r}
  BY DEF Boot
<1>2. /\ rows' \in [Rows -> Statuses] /\ fresh' \subseteq Rows
      /\ \A q \in Rows : rows'[q] = "none" <=> rows[q] = "none"
  BY DEF Boot, Written, GroupsInv, GroupsTypeOK, Statuses
<1>3. GroupsTypeOK'
  BY <1>1, <1>2 DEF GroupsInv, GroupsTypeOK, Rows
<1> QED
  BY <1>1, <1>2, <1>3, StatusKeeps

LEMMA ResetAllKeeps ==
    ASSUME GroupsInv, ResetAll
    PROVE  GroupsInv'
<1>1. UNCHANGED <<groups, lastGroup, langs, avds, gop, job, boots, excused>> /\ fresh' = {}
  BY DEF ResetAll
<1>2. /\ rows' \in [Rows -> Statuses]
      /\ \A q \in Rows : rows'[q] = "none" <=> rows[q] = "none"
  BY DEF ResetAll, ResetRows, GroupsInv, GroupsTypeOK, Statuses
<1>3. GroupsTypeOK'
  BY <1>1, <1>2 DEF GroupsInv, GroupsTypeOK, Rows
<1> QED
  BY <1>1, <1>2, <1>3, StatusKeeps

\* The calls are gone, and what they were about is excused.
LEMMA GroupsEnd ==
    ASSUME GroupsInv, GroupsDie
    PROVE  GroupsInv'
<1>1. /\ UNCHANGED <<groups, lastGroup, langs, rows, avds, fresh>> /\ boots' = {}
      /\ gop' = [c \in Calls |-> NoOp] /\ job' = [c \in Calls |-> NoJobs]
  BY DEF GroupsDie, storeVars
<1>2. \A c \in Calls : gop'[c] = NoOp /\ job'[c] = NoJobs
  BY <1>1
<1>3. /\ excused' \in [GroupIds -> BOOLEAN]
      /\ \A g \in GroupIds : ~excused'[g] => ~excused[g] /\ Creating(g) = {} /\ Deleting(g) = {}
  <2>1. Excuse({g \in GroupIds : Creating(g) \cup Deleting(g) # {}})
    BY DEF GroupsDie
  <2>2. /\ excused' \in [GroupIds -> BOOLEAN]
        /\ \A g \in GroupIds : excused'[g] <=>
               excused[g] \/ g \in {h \in GroupIds : Creating(h) \cup Deleting(h) # {}}
    BY <2>1, ExcuseTyped
  <2> QED
    BY <2>2
<1>4. GroupsTypeOK'
  <2>1. gop' \in [Calls -> Op] /\ job' \in [Calls -> SlotJobs]
    BY <1>1, NothingIsTyped
  <2> QED
    BY <1>1, <1>3, <2>1 DEF GroupsInv, GroupsTypeOK, SlotJobs
<1>5. LocalsInv'
  BY <1>2, NothingIsTyped DEF LocalsInv, LocalsAt, FitsAt
<1>6. IdsInv'
  BY <1>1, <1>2, NothingIsTyped DEF GroupsInv, IdsInv
<1>7. MakersInv' /\ MakingInv' /\ SemInv'
  BY <1>2, NothingIsTyped DEF MakersInv, MakingInv, SemInv, Creating
<1>8. DeletingInv'
  <2> SUFFICES ASSUME NEW g \in GroupIds, NEW s \in Slots, ~excused'[g]
               PROVE  /\ Made(g, s)' => HasAvd(g, s)'
                      /\ ~Cleaned(g, s)' /\ \A c \in Calls : gop'[c].at # "clean"
    BY DEF DeletingInv
  <2>1. ~excused[g] /\ Creating(g) = {} /\ ~Cleaned(g, s)
    BY <1>3 DEF Deleting, Cleaned
  <2>2. Made(g, s) => HasAvd(g, s)
    BY <2>1 DEF GroupsInv, DeletingInv
  <2>3. (HasAvd(g, s)' <=> HasAvd(g, s)) /\ (Made(g, s)' <=> Made(g, s))
    BY <1>1 DEF HasAvd, Made
  <2>4. \A c \in Calls : gop'[c].at = "idle"
    BY <1>2, NothingIsTyped
  <2> QED
    BY <2>2, <2>3, <2>4 DEF Cleaned
<1>10. BackedInv'
  <2>1. ASSUME NEW g \in GroupIds, ~excused'[g], NEW s \in Slots
        PROVE  ~Awaited(g, s) /\ (Made(g, s)' <=> Made(g, s))
    BY <1>1, <1>3, <2>1 DEF Awaited, Creating, Made
  <2> QED
    BY <1>1, <1>3, <2>1, StaysBacked
<1>9. NamesUnique' /\ GroupOfRowExists'
  BY <1>1, <1>3 DEF GroupsInv, NamesUnique, GroupOfRowExists, Rows
<1> QED
  BY <1>4, <1>5, <1>6, <1>7, <1>8, <1>9, <1>10 DEF GroupsInv

LEMMA BeginGroupOpKeeps ==
    ASSUME GroupsInv, NEW c \in Calls, gop[c].at = "idle", BeginGroupOp(c)
    PROVE  GroupsInv'
BY BeginCreateKeeps, BeginRenameKeeps, BeginDeleteKeeps, BeginStartGroupKeeps, BeginStartKeeps,
   BeginDropKeeps DEF BeginGroupOp

LEMMA GroupStepKeeps ==
    ASSUME GroupsInv, NEW c \in Calls, GroupStep(c)
    PROVE  GroupsInv'
<1>1. CASE Create(c)
  BY <1>1, CheckNameKeeps, InsertGroupKeeps, CreateAnswersKeeps, ForkKeeps, CreateAvdKeeps,
     InsertRowKeeps, RollBackAvdKeeps DEF Create
<1>2. CASE Rename(c)
  BY <1>2, RecheckNameKeeps, UpdateNameKeeps DEF Rename
<1>3. CASE Delete(c)
  BY <1>3, ListRowsKeeps, EraseGroupKeeps, EraseRowKeeps, CleanRowKeeps DEF Delete
<1>4. CASE StartGroup(c)
  BY <1>4, FindGroupKeeps, StartAnswersKeeps, MarkStartingKeeps DEF StartGroup
<1>5. CASE Start(c)
  BY <1>5, StartKeeps
<1> QED
  BY <1>1, <1>2, <1>3, <1>4, <1>5 DEF GroupStep

LEMMA GroupsSafe == GroupsInv => AvdsMatchRows /\ SemaphoreServes
<1> SUFFICES ASSUME GroupsInv PROVE AvdsMatchRows /\ SemaphoreServes
  OBVIOUS
<1>1. AvdsMatchRows
  <2> SUFFICES ASSUME NEW g \in GroupIds, ~excused[g], Creating(g) \cup Deleting(g) = {}
               PROVE  /\ \A s \in Slots : Made(g, s) => HasAvd(g, s)
                      /\ \A a \in avds : a[1] = g =>
                           \E s \in Slots : Made(g, s) /\ langs[g][s] = a[2]
    BY DEF AvdsMatchRows, Made, HasAvd
  <2>1. Creating(g) = {} /\ \A s \in Slots : ~Cleaned(g, s) /\ ~Awaited(g, s)
    BY DEF Deleting, Cleaned, Creating, Awaited
  <2>2. \A s \in Slots : Made(g, s) => HasAvd(g, s)
    BY <2>1 DEF GroupsInv, DeletingInv
  <2>3. ASSUME NEW a \in avds, a[1] = g
        PROVE  \E s \in Slots : Made(g, s) /\ langs[g][s] = a[2]
    <3>1. a[2] \in Languages /\ a = <<g, a[2]>>
      BY <2>3 DEF GroupsInv, GroupsTypeOK
    <3> QED
      BY <2>1, <2>3, <3>1 DEF GroupsInv, BackedInv
  <2> QED
    BY <2>2, <2>3
<1>2. SemaphoreServes
  <2> SUFFICES ASSUME NEW c \in Calls, Pending(c, {"todo"}), gop[c].sem = Concurrency
               PROVE  Pending(c, {"avd", "insert", "rollback"})
    BY DEF SemaphoreServes
  <2>1. gop[c].at = "fanout"
    BY JobPlaces DEF Pending
  <2>2. Cardinality(AtWork(c)) # 0
    BY <2>1, MakerKnows
  <2>3. AtWork(c) # {}
    BY <2>2, FS_EmptySet
  <2> QED
    BY <2>3 DEF AtWork, Pending
<1> QED
  BY <1>1, <1>2

-----------------------------------------------------------------------------
(* Files: what the steps of a call have in common.                         *)

\* The others are where they were, and some may have been disturbed.
Bystanders(c) ==
    \A d \in Calls \ {c} :
        /\ fop'[d].at = fop[d].at /\ fop'[d].name = fop[d].name /\ fop'[d].n = fop[d].n
        /\ fop'[d].id = fop[d].id /\ fop'[d].got = fop[d].got
        /\ fop[d].raced => fop'[d].raced

\* Those of them that are in these places with this name.
Disturbed(c, ats, a) ==
    \A d \in Calls \ {c} : fop[d].at \in ats /\ fop[d].name = a => fop'[d].raced

LEMMA IdleFileOp ==
    /\ NoFileOp \in FileOp /\ NoFileOp.at = "idle" /\ NoFileOp.raced = FALSE
    /\ NoFileOp.got = NoFile
<1>1. (CHOOSE d \in Devices : TRUE) \in Devices
  OBVIOUS
<1>2. 0 \in Contents
  BY DEF Contents, Partial
<1> QED
  BY <1>1, <1>2 DEF NoFileOp, FileOp, NoFile

LEMMA FilesStart == FilesInit => FilesInv
<1> SUFFICES ASSUME FilesInit PROVE FilesInv
  OBVIOUS
<1>1. \A c \in Calls : fop[c] = NoFileOp /\ fop[c].at = "idle"
  BY IdleFileOp DEF FilesInit
<1>2. FilesTypeOK
  <2>1. NoFile \in Contents
    BY DEF NoFile, Contents, Partial
  <2>2. <<>> \in Seq([name : FileNames, sum : 1..MaxCalls])
    OBVIOUS
  <2> QED
    BY <2>1, <2>2, IdleFileOp DEF FilesInit, FilesTypeOK
<1>3. FileLocals /\ RacesSeen /\ OwnFile /\ DeliversItsOwn
  BY <1>1 DEF FileLocals, FileLocalsAt, RacesSeen, Meet, OwnFile, OwnFileAt, DeliversItsOwn,
     Writing, Staging
<1>4. OneRow /\ ArtifactMatchesFile /\ StagingIsEmptied
  BY DEF FilesInit, OneRow, ArtifactMatchesFile, StagingIsEmptied, RowsOf
<1> QED
  BY <1>2, <1>3, <1>4 DEF FilesInv

LEMMA FilesStable ==
    ASSUME FilesInv, UNCHANGED fileVars
    PROVE  FilesInv'
<1>1. UNCHANGED <<disk, artifacts, staged, fop, spoilt, left>>
  BY DEF fileVars
<1>2. FilesTypeOK' /\ StagingIsEmptied' /\ DeliversItsOwn'
  BY <1>1 DEF FilesInv, FilesTypeOK, StagingIsEmptied, DeliversItsOwn
<1>3. FileLocals' /\ RacesSeen' /\ OwnFile'
  BY <1>1 DEF FilesInv, FileLocals, FileLocalsAt, RacesSeen, Meet, OwnFile, OwnFileAt, RowsOf,
     NoWriter
<1>4. OneRow' /\ ArtifactMatchesFile'
  BY <1>1 DEF FilesInv, OneRow, ArtifactMatchesFile, RowsOf
<1> QED
  BY <1>2, <1>3, <1>4 DEF FilesInv

\* A step of one call: what it changes disturbs those who rely on it, and it is
\* itself in order afterwards.
LEMMA FileMoves ==
    ASSUME FilesInv, NEW c \in Calls, FilesTypeOK', Bystanders(c),
           \A a \in FileNames :
               disk'[a] = disk[a] \/ Disturbed(c, Writing \cup {"install"}, a),
           \A a \in FileNames : staged'[a] = staged[a] \/ Disturbed(c, Staging, a),
           DOMAIN artifacts \subseteq DOMAIN artifacts',
           \A a \in FileNames : RowsOf(a)' = RowsOf(a)
                \/ (RowsOf(a) \subseteq RowsOf(a)' /\ Disturbed(c, {"save"}, a)),
           fop'[c].at \in Writing => Disturbed(c, {"install"}, fop'[c].name),
           \A d \in Calls \ {c} :
               Meet(c, d, Writing)' \/ Meet(c, d, Staging)' => fop'[c].raced /\ fop'[d].raced,
           FileLocalsAt(c)', OwnFileAt(c)', DeliversAt(c)',
           OneRow', ArtifactMatchesFile', StagingIsEmptied'
    PROVE  FilesInv'
<1>1. \A d \in Calls \ {c} :
        /\ fop'[d].at = fop[d].at /\ fop'[d].name = fop[d].name /\ fop'[d].n = fop[d].n
        /\ fop'[d].id = fop[d].id /\ fop'[d].got = fop[d].got
        /\ fop[d].raced => fop'[d].raced
  BY DEF Bystanders
<1>2. FileLocals'
  <2> SUFFICES ASSUME NEW d \in Calls \ {c}
               PROVE  FileLocalsAt(d)'
    BY DEF FileLocals
  <2>1. FileLocalsAt(d)
    BY DEF FilesInv, FileLocals
  <2>2. fop[d].at = "save" => RowsOf(fop[d].name) \subseteq RowsOf(fop[d].name)'
    BY <1>1, <2>1 DEF FileLocalsAt
  <2> QED
    BY <1>1, <2>1, <2>2 DEF FileLocalsAt, RowsOf
<1>3. RacesSeen'
  <2> SUFFICES ASSUME NEW d \in Calls, NEW e \in Calls, Meet(d, e, Writing)' \/ Meet(d, e, Staging)'
               PROVE  fop'[d].raced
    BY DEF RacesSeen
  <2>1. CASE d = c \/ e = c
    BY <2>1 DEF Meet
  <2>2. CASE d # c /\ e # c
    <3>1. Meet(d, e, Writing) \/ Meet(d, e, Staging)
      BY <1>1, <2>2 DEF Meet
    <3> QED
      BY <1>1, <2>2, <3>1 DEF FilesInv, RacesSeen
  <2> QED
    BY <2>1, <2>2
<1>4. OwnFile'
  <2> SUFFICES ASSUME NEW d \in Calls \ {c}, ~fop'[d].raced
               PROVE  OwnFileAt(d)'
    BY DEF OwnFile, OwnFileAt
  <2>1. OwnFileAt(d) /\ FileLocalsAt(d) /\ ~fop[d].raced
    BY <1>1 DEF FilesInv, OwnFile, FileLocals
  <2>2. fop[d].at \in Writing \cup {"install"} => disk'[fop[d].name] = disk[fop[d].name]
    BY <2>1 DEF Disturbed, FileLocalsAt, Writing
  <2>3. fop[d].at \in Staging => staged'[fop[d].name] = staged[fop[d].name]
    BY <2>1 DEF Disturbed, FileLocalsAt, Staging
  <2>4. fop[d].at = "save" => RowsOf(fop[d].name)' = RowsOf(fop[d].name)
    BY <1>1, <2>1 DEF Disturbed, FileLocalsAt, RowsOf
  <2>5. fop[d].at = "install" /\ NoWriter(fop[d].name) => NoWriter(fop[d].name)'
    BY <1>1 DEF Disturbed, NoWriter
  <2> QED
    BY <1>1, <2>1, <2>2, <2>3, <2>4, <2>5 DEF OwnFileAt, Writing, Staging, NoWriter, RowsOf
<1>5. DeliversItsOwn'
  BY <1>1 DEF FilesInv, DeliversItsOwn, DeliversAt
<1> QED
  BY <1>2, <1>3, <1>4, <1>5 DEF FilesInv

\* A step that changes no file and no row: what its call leaves is spoilt or left.
LEMMA TableStays ==
    ASSUME FilesInv, NEW c \in Calls, Bystanders(c), UNCHANGED <<disk, artifacts>>,
           spoilt \subseteq spoilt',
           fop[c].at \in Writing => \/ fop'[c].at \in Writing /\ fop'[c].name = fop[c].name
                                    \/ fop[c].name \in spoilt'
    PROVE  OneRow' /\ ArtifactMatchesFile'
<1>1. OneRow'
  BY DEF FilesInv, OneRow, RowsOf
<1>2. \A a \in FileNames :
        a \notin spoilt' /\ (\A d \in Calls : fop'[d].at \in Writing => fop'[d].name # a)
        => a \notin spoilt /\ (\A d \in Calls : fop[d].at \in Writing => fop[d].name # a)
  BY DEF Bystanders
<1>3. \A a \in FileNames : RowsOf(a)' = RowsOf(a)
  BY DEF RowsOf
<1> QED
  BY <1>1, <1>2, <1>3 DEF FilesInv, ArtifactMatchesFile

LEMMA StagingStays ==
    ASSUME FilesInv, NEW c \in Calls, Bystanders(c), UNCHANGED staged, left \subseteq left',
           fop[c].at \in Staging => \/ fop'[c].at \in Staging /\ fop'[c].name = fop[c].name
                                    \/ fop[c].name \in left'
    PROVE  StagingIsEmptied'
<1> SUFFICES ASSUME NEW a \in FileNames, staged[a] # NoFile, a \notin left'
             PROVE  \E d \in Calls : fop'[d].name = a /\ fop'[d].at \in Staging
  BY DEF StagingIsEmptied
<1>1. PICK d \in Calls : fop[d].name = a /\ fop[d].at \in Staging
  BY DEF FilesInv, StagingIsEmptied
<1> QED
  BY <1>1 DEF Bystanders

\* The call alone goes to another place.
LEMMA FileCallGoes ==
    ASSUME FilesInv, NEW c \in Calls, NEW o \in FileOp, fop' = [fop EXCEPT ![c] = o],
           UNCHANGED <<disk, artifacts, staged>>,
           spoilt \subseteq spoilt', spoilt' \subseteq FileNames,
           left \subseteq left', left' \subseteq FileNames,
           fop[c].at \in Writing => o.at \in Writing \/ fop[c].name \in spoilt',
           o.at \in Writing =>
               fop[c].at \in Writing /\ o.name = fop[c].name /\ o.raced = fop[c].raced,
           fop[c].at \in Staging => o.at \in Staging \/ fop[c].name \in left',
           o.at \in Staging =>
               fop[c].at \in Staging /\ o.name = fop[c].name /\ o.raced = fop[c].raced,
           FileLocalsAt(c)', OwnFileAt(c)', DeliversAt(c)'
    PROVE  FilesInv'
<1>1. fop' \in [Calls -> FileOp] /\ fop'[c] = o /\ \A d \in Calls \ {c} : fop'[d] = fop[d]
  BY DEF FilesInv, FilesTypeOK
<1>2. FilesTypeOK'
  BY <1>1 DEF FilesInv, FilesTypeOK
<1>3. Bystanders(c)
  BY <1>1 DEF Bystanders
<1>4. OneRow' /\ ArtifactMatchesFile'
  BY <1>1, <1>3, TableStays
<1>5. StagingIsEmptied'
  BY <1>1, <1>3, StagingStays
<1>6. o.at \in Writing => Disturbed(c, {"install"}, o.name)
  <2> SUFFICES ASSUME o.at \in Writing, NEW d \in Calls \ {c}, fop[d].at = "install",
                      fop[d].name = o.name, ~fop[d].raced
               PROVE  FALSE
    BY <1>1 DEF Disturbed, FilesInv, FilesTypeOK, FileOp
  <2>1. NoWriter(fop[d].name)
    BY DEF FilesInv, OwnFile, OwnFileAt
  <2> QED
    BY <2>1 DEF NoWriter
<1>7. ASSUME NEW d \in Calls \ {c}, Meet(c, d, Writing)' \/ Meet(c, d, Staging)'
      PROVE  fop'[c].raced /\ fop'[d].raced
  <2>1. \/ Meet(c, d, Writing) /\ Meet(d, c, Writing)
        \/ Meet(c, d, Staging) /\ Meet(d, c, Staging)
    BY <1>1, <1>7 DEF Meet
  <2>2. fop[c].raced /\ fop[d].raced
    BY <2>1 DEF FilesInv, RacesSeen
  <2> QED
    BY <1>1, <1>7, <2>2 DEF Meet
<1>8. \A a \in FileNames : RowsOf(a)' = RowsOf(a)
  BY DEF RowsOf
<1>9. fop'[c].at \in Writing => Disturbed(c, {"install"}, fop'[c].name)
  BY <1>1, <1>6
<1>10. DOMAIN artifacts \subseteq DOMAIN artifacts'
  OBVIOUS
<1>11. \A a \in FileNames : RowsOf(a)' = RowsOf(a)
            \/ (RowsOf(a) \subseteq RowsOf(a)' /\ Disturbed(c, {"save"}, a))
  BY <1>8
<1> QED
  BY <1>2, <1>3, <1>4, <1>5, <1>7, <1>9, <1>10, <1>11, FileMoves

LEMMA FileOpEndsKeeps ==
    ASSUME FilesInv, NEW c \in Calls, FileOpEnds(c), UNCHANGED <<disk, artifacts, staged>>,
           spoilt \subseteq spoilt', spoilt' \subseteq FileNames,
           left \subseteq left', left' \subseteq FileNames,
           fop[c].at \in Writing => fop[c].name \in spoilt',
           fop[c].at \in Staging => fop[c].name \in left'
    PROVE  FilesInv'
<1>1. fop' = [fop EXCEPT ![c] = NoFileOp] /\ fop'[c] = NoFileOp
  BY DEF FileOpEnds, FilesInv, FilesTypeOK
<1>2. FileLocalsAt(c)' /\ OwnFileAt(c)' /\ DeliversAt(c)'
  BY <1>1, IdleFileOp DEF FileLocalsAt, OwnFileAt, DeliversAt
<1>3. NoFileOp.at \notin Writing /\ NoFileOp.at \notin Staging
  BY IdleFileOp DEF Writing, Staging
<1> QED
  BY <1>1, <1>2, <1>3, IdleFileOp, FileCallGoes

-----------------------------------------------------------------------------
(* Files: requests begin, and the steps that change no file and no row.    *)

LEMMA FileTyped ==
    ASSUME FilesInv, NEW c \in Calls
    PROVE  /\ fop[c] \in FileOp /\ FileLocalsAt(c) /\ OwnFileAt(c) /\ DeliversAt(c)
           /\ spoilt \subseteq FileNames /\ left \subseteq FileNames
           /\ \A o : fop' = [fop EXCEPT ![c] = o] => fop'[c] = o
           /\ \A o : fop' = [fop EXCEPT ![c] = o] => \A d \in Calls \ {c} : fop'[d] = fop[d]
BY DEF FilesInv, FilesTypeOK, FileLocals, OwnFile, DeliversItsOwn, DeliversAt

LEMMA ContentsTyped ==
    /\ NoFile \in Contents /\ Partial \in Contents /\ 1..MaxCalls \subseteq Contents
    /\ \A n \in 1..MaxCalls : n # NoFile
BY DEF NoFile, Contents, Partial

\* A step of one call to one of the places outside the files.
LEMMA FileCallGoesOn ==
    ASSUME FilesInv, NEW c \in Calls, NEW o \in FileOp, fop' = [fop EXCEPT ![c] = o],
           UNCHANGED <<disk, artifacts, staged, spoilt, left>>,
           fop[c].at \notin Writing, o.at \notin Writing,
           fop[c].at \notin Staging, o.at \notin Staging,
           FileLocalsAt(c)', OwnFileAt(c)', DeliversAt(c)'
    PROVE  FilesInv'
BY FileTyped, FileCallGoes

LEMMA BeginUploadKeeps ==
    ASSUME FilesInv, NEW c \in Calls, fop[c].at = "idle", NEW n \in 1..MaxCalls, BeginUpload(c, n)
    PROVE  FilesInv'
<1>1. PICK a \in FileNames :
        fop' = [fop EXCEPT ![c] = [NoFileOp EXCEPT !.at = "create", !.name = a, !.n = n]]
  BY DEF BeginUpload
<1> DEFINE o == [NoFileOp EXCEPT !.at = "create", !.name = a, !.n = n]
<1>2. o \in FileOp /\ o.at = "create" /\ o.name = a /\ o.n = n
  BY IdleFileOp, ContentsTyped DEF FileOp
<1> HIDE DEF o
<1>3. fop' = [fop EXCEPT ![c] = o] /\ fop'[c] = o
  BY <1>1, FileTyped DEF o
<1>4. FileLocalsAt(c)' /\ OwnFileAt(c)' /\ DeliversAt(c)'
  BY <1>2, <1>3 DEF FileLocalsAt, OwnFileAt, DeliversAt
<1> QED
  BY <1>2, <1>3, <1>4, FileCallGoesOn DEF BeginUpload, Writing, Staging

LEMMA BeginPushKeeps ==
    ASSUME FilesInv, NEW c \in Calls, fop[c].at = "idle", NEW n \in 1..MaxCalls, BeginPush(c, n)
    PROVE  FilesInv'
<1>1. PICK a \in FileNames, dev \in Devices :
        fop' = [fop EXCEPT ![c] = [NoFileOp EXCEPT !.at = "stage", !.name = a,
                                                   !.dev = dev, !.n = n]]
  BY DEF BeginPush
<1> DEFINE o == [NoFileOp EXCEPT !.at = "stage", !.name = a, !.dev = dev, !.n = n]
<1>2. o \in FileOp /\ o.at = "stage" /\ o.name = a /\ o.n = n
  BY IdleFileOp, ContentsTyped DEF FileOp
<1> HIDE DEF o
<1>3. fop' = [fop EXCEPT ![c] = o] /\ fop'[c] = o
  BY <1>1, FileTyped DEF o
<1>4. FileLocalsAt(c)' /\ OwnFileAt(c)' /\ DeliversAt(c)'
  BY <1>2, <1>3 DEF FileLocalsAt, OwnFileAt, DeliversAt
<1> QED
  BY <1>2, <1>3, <1>4, FileCallGoesOn DEF BeginPush, Writing, Staging

LEMMA BeginInstallKeeps ==
    ASSUME FilesInv, NEW c \in Calls, fop[c].at = "idle", BeginInstall(c)
    PROVE  FilesInv'
<1>1. PICK i \in DOMAIN artifacts :
        fop' = [fop EXCEPT ![c] = [NoFileOp EXCEPT !.at = "lookup", !.id = i]]
  BY DEF BeginInstall
<1> DEFINE o == [NoFileOp EXCEPT !.at = "lookup", !.id = i]
<1>2. i \in Nat
  BY DEF FilesInv, FilesTypeOK
<1>3. o \in FileOp /\ o.at = "lookup" /\ o.id = i
  BY <1>2, IdleFileOp DEF FileOp
<1> HIDE DEF o
<1>4. fop' = [fop EXCEPT ![c] = o] /\ fop'[c] = o
  BY <1>1, FileTyped DEF o
<1>5. FileLocalsAt(c)' /\ OwnFileAt(c)' /\ DeliversAt(c)'
  BY <1>3, <1>4 DEF FileLocalsAt, OwnFileAt, DeliversAt, BeginInstall
<1> QED
  BY <1>3, <1>4, <1>5, FileCallGoesOn DEF BeginInstall, Writing, Staging

\* What is found is as the row says, unless somebody is at the file.
LEMMA LookupArtifactKeeps ==
    ASSUME FilesInv, NEW c \in Calls, LookupArtifact(c)
    PROVE  FilesInv'
<1>1. fop[c].at = "lookup" /\ UNCHANGED <<disk, artifacts, staged, spoilt, left>>
      /\ fop[c].at \notin Writing /\ fop[c].at \notin Staging
  BY DEF LookupArtifact, Writing, Staging
<1>2. CASE FileOpEnds(c)
  BY <1>1, <1>2, FileTyped, FileOpEndsKeeps
<1>3. PICK row : row = artifacts[fop[c].id]
  OBVIOUS
<1>4. PICK raced \in BOOLEAN :
        raced = (row.name \in spoilt \/ Others(c, Writing, row.name) # {})
  OBVIOUS
<1>5. /\ fop[c].id \in DOMAIN artifacts /\ row.name \in FileNames /\ row.sum \in 1..MaxCalls
      /\ fop[c] \in FileOp /\ fop[c].id \in RowsOf(row.name)
  <2>1. fop[c].id \in DOMAIN artifacts /\ fop[c] \in FileOp
    BY <1>1, FileTyped DEF FileLocalsAt
  <2>2. artifacts \in Seq([name : FileNames, sum : 1..MaxCalls])
        /\ DOMAIN artifacts = 1..Len(artifacts)
    BY DEF FilesInv, FilesTypeOK
  <2>3. row \in [name : FileNames, sum : 1..MaxCalls]
    BY <1>3, <2>1, <2>2, ElementOfSeq
  <2> QED
    BY <1>3, <2>1, <2>3 DEF RowsOf
<1>6. CASE fop' = [fop EXCEPT ![c] = [@ EXCEPT !.at = "install", !.name = row.name,
                                               !.n = row.sum, !.raced = raced]]
  <2> DEFINE o == [fop[c] EXCEPT !.at = "install", !.name = row.name, !.n = row.sum,
                                 !.raced = raced]
  <2>1. fop' = [fop EXCEPT ![c] = o]
    BY <1>6 DEF FilesInv, FilesTypeOK
  <2>2. row.sum \in Contents
    BY <1>5, ContentsTyped
  <2>3. o \in FileOp /\ o.at = "install" /\ o.name = row.name /\ o.n = row.sum /\ o.raced = raced
    BY <1>5, <2>2 DEF FileOp
  <2> HIDE DEF o
  <2>4. fop'[c] = o /\ \A d \in Calls \ {c} : fop'[d] = fop[d]
    BY <2>1, FileTyped
  <2>5. o.at \notin Writing /\ o.at \notin Staging
    BY <2>3 DEF Writing, Staging
  <2>6. ~raced => disk[row.name] = row.sum /\ NoWriter(row.name)
    <3>1. ~raced => NoWriter(row.name) /\ row.name \notin spoilt
      BY <1>1, <1>4 DEF NoWriter, Others
    <3> QED
      BY <1>3, <1>5, <3>1 DEF FilesInv, ArtifactMatchesFile, NoWriter
  <2>7. NoWriter(row.name) => NoWriter(row.name)'
    BY <2>4, <2>5 DEF NoWriter
  <2>8. FileLocalsAt(c)' /\ DeliversAt(c)'
    BY <1>5, <2>3, <2>4 DEF FileLocalsAt, DeliversAt
  <2>9. OwnFileAt(c)'
    BY <1>1, <2>3, <2>4, <2>6, <2>7 DEF OwnFileAt, NoWriter
  <2> QED
    BY <1>1, <2>1, <2>3, <2>5, <2>8, <2>9, FileCallGoesOn
<1>7. FileOpEnds(c) \/ fop' = [fop EXCEPT ![c] = [@ EXCEPT !.at = "install", !.name = row.name,
                                                  !.n = row.sum, !.raced = raced]]
  BY <1>3, <1>4 DEF LookupArtifact
<1> QED
  BY <1>2, <1>6, <1>7

LEMMA InstallFileKeeps ==
    ASSUME FilesInv, NEW c \in Calls, InstallFile(c)
    PROVE  FilesInv'
<1>1. fop[c].at = "install" /\ UNCHANGED <<disk, artifacts, staged, spoilt, left>>
      /\ fop[c].at \notin Writing /\ fop[c].at \notin Staging
  BY DEF InstallFile, Writing, Staging
<1>2. CASE FileOpEnds(c)
  BY <1>1, <1>2, FileTyped, FileOpEndsKeeps
<1>3. CASE fop' = [fop EXCEPT ![c] = [@ EXCEPT !.at = "locale", !.got = disk[fop[c].name]]]
  <2> DEFINE o == [fop[c] EXCEPT !.at = "locale", !.got = disk[fop[c].name]]
  <2>1. fop' = [fop EXCEPT ![c] = o]
    BY <1>3 DEF FilesInv, FilesTypeOK
  <2>2. /\ fop[c] \in FileOp /\ fop[c].name \in FileNames /\ fop[c].n \in 1..MaxCalls
        /\ disk[fop[c].name] \in Contents
        /\ ~fop[c].raced => disk[fop[c].name] = fop[c].n
    BY <1>1, FileTyped DEF FileLocalsAt, OwnFileAt, FilesInv, FilesTypeOK
  <2>3. /\ o \in FileOp /\ o.at = "locale" /\ o.name = fop[c].name /\ o.n = fop[c].n
        /\ o.raced = fop[c].raced /\ o.got = disk[fop[c].name]
    BY <2>2 DEF FileOp
  <2> HIDE DEF o
  <2>4. fop'[c] = o
    BY <2>1, FileTyped
  <2>5. FileLocalsAt(c)' /\ OwnFileAt(c)' /\ DeliversAt(c)'
    BY <2>2, <2>3, <2>4 DEF FileLocalsAt, OwnFileAt, DeliversAt
  <2>6. o.at \notin Writing /\ o.at \notin Staging
    BY <2>3 DEF Writing, Staging
  <2> QED
    BY <1>1, <2>1, <2>3, <2>5, <2>6, FileCallGoesOn
<1> QED
  BY <1>2, <1>3 DEF InstallFile

LEMMA SetLocaleKeeps ==
    ASSUME FilesInv, NEW c \in Calls, SetLocale(c)
    PROVE  FilesInv'
BY FileTyped, FileOpEndsKeeps DEF SetLocale, Writing, Staging

LEMMA FindArtifactKeeps ==
    ASSUME FilesInv, NEW c \in Calls, FindArtifact(c)
    PROVE  FilesInv'
<1>1. /\ fop[c].at = "find" /\ UNCHANGED <<disk, artifacts, staged, left>>
      /\ fop[c].at \in Writing /\ fop[c].at \notin Staging
      /\ fop[c] \in FileOp /\ fop[c].name \in FileNames /\ fop[c].n \in 1..MaxCalls
      /\ ~fop[c].raced => disk[fop[c].name] = fop[c].n
  BY FileTyped DEF FindArtifact, Writing, Staging, FileLocalsAt, OwnFileAt
<1>2. CASE FileOpEnds(c) /\ spoilt' = spoilt \cup {fop[c].name}
  <2>1. spoilt \subseteq spoilt' /\ spoilt' \subseteq FileNames /\ fop[c].name \in spoilt'
    BY <1>1, <1>2, FileTyped
  <2> QED
    BY <1>1, <1>2, <2>1, FileTyped, FileOpEndsKeeps
<1>3. ASSUME UNCHANGED spoilt, NEW i \in RowsOf(fop[c].name) \cup {0},
             i = 0 => RowsOf(fop[c].name) = {},
             fop' = [fop EXCEPT ![c] = [@ EXCEPT !.at = "save", !.id = i]]
      PROVE  FilesInv'
  <2> DEFINE o == [fop[c] EXCEPT !.at = "save", !.id = i]
  <2>1. fop' = [fop EXCEPT ![c] = o]
    BY <1>3 DEF FilesInv, FilesTypeOK
  <2>2. i \in Nat
    BY <1>3 DEF RowsOf, FilesInv, FilesTypeOK
  <2>3. /\ o \in FileOp /\ o.at = "save" /\ o.name = fop[c].name /\ o.n = fop[c].n
        /\ o.raced = fop[c].raced /\ o.id = i
    BY <1>1, <2>2 DEF FileOp
  <2> HIDE DEF o
  <2>4. fop'[c] = o
    BY <2>1, FileTyped
  <2>5. FileLocalsAt(c)' /\ OwnFileAt(c)' /\ DeliversAt(c)'
    BY <1>1, <1>3, <2>3, <2>4 DEF FileLocalsAt, OwnFileAt, DeliversAt, RowsOf
  <2>6. o.at \in Writing /\ o.at \notin Staging
    BY <2>3 DEF Writing, Staging
  <2> QED
    BY <1>1, <1>3, <2>1, <2>3, <2>5, <2>6, FileTyped, FileCallGoes
<1> QED
  BY <1>2, <1>3 DEF FindArtifact

LEMMA LockDeviceKeeps ==
    ASSUME FilesInv, NEW c \in Calls, LockDevice(c)
    PROVE  FilesInv'
<1>1. /\ fop[c].at = "lock" /\ UNCHANGED <<disk, artifacts, staged, spoilt, left>>
      /\ fop[c].at \notin Writing /\ fop[c].at \in Staging
      /\ fop[c] \in FileOp /\ fop[c].name \in FileNames /\ fop[c].n \in 1..MaxCalls
      /\ ~fop[c].raced => staged[fop[c].name] = fop[c].n
  BY FileTyped DEF LockDevice, Writing, Staging, FileLocalsAt, OwnFileAt
<1> DEFINE o == [fop[c] EXCEPT !.at = "push"]
<1>2. fop' = [fop EXCEPT ![c] = o]
  BY DEF LockDevice, FilesInv, FilesTypeOK
<1>3. /\ o \in FileOp /\ o.at = "push" /\ o.name = fop[c].name /\ o.n = fop[c].n
      /\ o.raced = fop[c].raced
  BY <1>1 DEF FileOp
<1> HIDE DEF o
<1>4. fop'[c] = o
  BY <1>2, FileTyped
<1>5. FileLocalsAt(c)' /\ OwnFileAt(c)' /\ DeliversAt(c)'
  BY <1>1, <1>3, <1>4 DEF FileLocalsAt, OwnFileAt, DeliversAt
<1>6. o.at \notin Writing /\ o.at \in Staging
  BY <1>3 DEF Writing, Staging
<1> QED
  BY <1>1, <1>2, <1>3, <1>5, <1>6, FileTyped, FileCallGoes

LEMMA PushFileKeeps ==
    ASSUME FilesInv, NEW c \in Calls, PushFile(c)
    PROVE  FilesInv'
<1>1. /\ fop[c].at = "push" /\ UNCHANGED <<disk, artifacts, staged, spoilt, left>>
      /\ fop[c].at \notin Writing /\ fop[c].at \in Staging
      /\ fop[c] \in FileOp /\ fop[c].name \in FileNames /\ fop[c].n \in 1..MaxCalls
      /\ ~fop[c].raced => staged[fop[c].name] = fop[c].n
  BY FileTyped DEF PushFile, Writing, Staging, FileLocalsAt, OwnFileAt
<1>2. PICK x \in {staged[fop[c].name], NoFile} :
        fop' = [fop EXCEPT ![c] = [@ EXCEPT !.at = "remove", !.got = x]]
  BY DEF PushFile
<1>3. x \in Contents
  BY <1>1, ContentsTyped DEF FilesInv, FilesTypeOK
<1> DEFINE o == [fop[c] EXCEPT !.at = "remove", !.got = x]
<1>4. fop' = [fop EXCEPT ![c] = o]
  BY <1>2 DEF FilesInv, FilesTypeOK
<1>5. /\ o \in FileOp /\ o.at = "remove" /\ o.name = fop[c].name /\ o.n = fop[c].n
      /\ o.raced = fop[c].raced /\ o.got = x
  BY <1>1, <1>3 DEF FileOp
<1> HIDE DEF o
<1>6. fop'[c] = o
  BY <1>4, FileTyped
<1>7. FileLocalsAt(c)' /\ OwnFileAt(c)' /\ DeliversAt(c)'
  BY <1>1, <1>5, <1>6 DEF FileLocalsAt, OwnFileAt, DeliversAt
<1>8. o.at \notin Writing /\ o.at \in Staging
  BY <1>5 DEF Writing, Staging
<1> QED
  BY <1>1, <1>4, <1>5, <1>7, <1>8, FileTyped, FileCallGoes

-----------------------------------------------------------------------------
(* Files: the steps that write.                                            *)

\* os.Create: the call and who is in the file are in each other's way.
LEMMA RacesMarked ==
    ASSUME FilesInv, NEW c \in Calls, NEW at \in {"copy", "receive"}, NEW ats, NEW a,
           a = fop[c].name, GotoRacing(c, at, Others(c, ats, a))
    PROVE  /\ fop' \in [Calls -> FileOp] /\ Bystanders(c) /\ Disturbed(c, ats, a)
           /\ fop'[c].at = at /\ fop'[c].name = a /\ fop'[c].n = fop[c].n
           /\ \A d \in Calls \ {c} : fop[d].at \in ats /\ fop[d].name = a => fop'[c].raced
<1> DEFINE others == Others(c, ats, a)
           f(d) == IF d = c THEN [fop[d] EXCEPT !.at = at, !.raced = @ \/ others # {}]
                   ELSE IF d \in others THEN [fop[d] EXCEPT !.raced = TRUE] ELSE fop[d]
<1>1. fop' = [d \in Calls |-> f(d)] /\ \A d \in Calls : fop[d] \in FileOp
  BY FileTyped DEF GotoRacing
<1>2. /\ f(c) \in FileOp /\ f(c).at = at /\ f(c).name = fop[c].name /\ f(c).n = fop[c].n
      /\ others # {} => f(c).raced
  <2>1. fop[c] \in FileOp /\ (fop[c].raced \/ others # {}) \in BOOLEAN
    BY <1>1
  <2> DEFINE r == fop[c].raced \/ others # {}
  <2>2. f(c) = [fop[c] EXCEPT !.at = at, !.raced = r]
    OBVIOUS
  <2>3. r \in BOOLEAN /\ (others # {} => r)
    OBVIOUS
  <2> HIDE DEF r, f
  <2> QED
    BY <2>1, <2>2, <2>3 DEF FileOp
<1>3. ASSUME NEW d \in Calls \ {c}
      PROVE  /\ f(d) \in FileOp /\ f(d).at = fop[d].at /\ f(d).name = fop[d].name
             /\ f(d).n = fop[d].n /\ f(d).id = fop[d].id /\ f(d).got = fop[d].got
             /\ fop[d].raced => f(d).raced
             /\ d \in others => f(d).raced
  <2>1. fop[d] \in FileOp
    BY <1>1
  <2> QED
    BY <2>1 DEF FileOp
<1>4. \A d \in Calls \ {c} : d \in others <=> fop[d].at \in ats /\ fop[d].name = a
  BY DEF Others
<1> HIDE DEF f, others
<1>5. \A d \in Calls : fop'[d] = f(d)
  BY <1>1
<1>6. fop' \in [Calls -> FileOp]
  <2>1. \A d \in Calls : f(d) \in FileOp
    BY <1>2, <1>3
  <2> QED
    BY <1>1, <2>1
<1>7. Bystanders(c) /\ Disturbed(c, ats, a)
  BY <1>3, <1>4, <1>5 DEF Bystanders, Disturbed
<1>8. \A d \in Calls \ {c} : fop[d].at \in ats /\ fop[d].name = a => fop'[c].raced
  BY <1>2, <1>4, <1>5
<1> QED
  BY <1>2, <1>5, <1>6, <1>7, <1>8

LEMMA CreateFileKeeps ==
    ASSUME FilesInv, NEW c \in Calls, CreateFile(c)
    PROVE  FilesInv'
<1>1. /\ fop[c].at = "create" /\ UNCHANGED <<artifacts, staged, spoilt, left>>
      /\ fop[c].at \notin Writing /\ fop[c].at \notin Staging
      /\ fop[c].name \in FileNames /\ fop[c].n \in 1..MaxCalls
  BY FileTyped DEF CreateFile, Writing, Staging, FileLocalsAt
<1>2. CASE FileOpEnds(c) /\ UNCHANGED disk
  BY <1>1, <1>2, FileTyped, FileOpEndsKeeps
<1>3. PICK a \in FileNames : a = fop[c].name
  BY <1>1
<1>4. CASE /\ disk' = [disk EXCEPT ![a] = Partial]
           /\ GotoRacing(c, "copy", Others(c, Writing \cup {"install"}, a))
  <2>1. /\ fop' \in [Calls -> FileOp] /\ Bystanders(c)
        /\ Disturbed(c, Writing \cup {"install"}, a)
        /\ fop'[c].at = "copy" /\ fop'[c].name = a /\ fop'[c].n = fop[c].n
        /\ \A d \in Calls \ {c} :
             fop[d].at \in Writing \cup {"install"} /\ fop[d].name = a => fop'[c].raced
    BY <1>3, <1>4, RacesMarked
  <2>2. /\ disk' \in [FileNames -> Contents]
        /\ \A b \in FileNames \ {a} : disk'[b] = disk[b]
    BY <1>4, ContentsTyped DEF FilesInv, FilesTypeOK
  <2>3. FilesTypeOK'
    BY <1>1, <2>1, <2>2 DEF FilesInv, FilesTypeOK
  <2>4. fop'[c].at \in Writing /\ fop'[c].at \notin Staging
    BY <2>1 DEF Writing, Staging
  <2>5. \A b \in FileNames : RowsOf(b)' = RowsOf(b)
    BY <1>1 DEF RowsOf
  <2>6. FileLocalsAt(c)' /\ OwnFileAt(c)' /\ DeliversAt(c)'
    BY <1>1, <1>3, <2>1 DEF FileLocalsAt, OwnFileAt, DeliversAt
  <2>7. ASSUME NEW d \in Calls \ {c}, Meet(c, d, Writing)' \/ Meet(c, d, Staging)'
        PROVE  fop'[c].raced /\ fop'[d].raced
    <3>1. fop[d].at \in Writing /\ fop[d].name = a
      BY <2>1, <2>4, <2>7 DEF Meet, Bystanders
    <3> QED
      BY <2>1, <3>1 DEF Disturbed
  <2>8. OneRow'
    BY <1>1, <2>5 DEF FilesInv, OneRow
  <2>9. ArtifactMatchesFile'
    <3> SUFFICES ASSUME NEW b \in FileNames, b \notin spoilt,
                        \A d \in Calls : fop'[d].at \in Writing => fop'[d].name # b
                 PROVE  \A i, j \in RowsOf(b) : i = j /\ disk'[b] = artifacts[i].sum
      BY <1>1, <2>5 DEF ArtifactMatchesFile
    <3>1. b # a /\ \A d \in Calls : fop[d].at \in Writing => fop[d].name # b
      BY <1>1, <2>1, <2>4 DEF Bystanders
    <3> QED
      BY <2>2, <3>1 DEF FilesInv, ArtifactMatchesFile
  <2>10. StagingIsEmptied'
    BY <1>1, <2>1, StagingStays
  <2>11. Disturbed(c, {"install"}, fop'[c].name)
    BY <2>1 DEF Disturbed
  <2>12. \A b \in FileNames : disk'[b] = disk[b] \/ Disturbed(c, Writing \cup {"install"}, b)
    BY <2>1, <2>2
  <2>13. \A b \in FileNames : RowsOf(b)' = RowsOf(b)
             \/ (RowsOf(b) \subseteq RowsOf(b)' /\ Disturbed(c, {"save"}, b))
    BY <2>5
  <2>14. /\ DOMAIN artifacts \subseteq DOMAIN artifacts'
         /\ \A b \in FileNames : staged'[b] = staged[b] \/ Disturbed(c, Staging, b)
    BY <1>1
  <2> QED
    BY <2>1, <2>3, <2>6, <2>7, <2>8, <2>9, <2>10, <2>11, <2>12, <2>13, <2>14, FileMoves
<1> QED
  BY <1>2, <1>3, <1>4 DEF CreateFile

\* Who else relies on the file of one that writes in it has been disturbed.
LEMMA WriterDisturbs ==
    ASSUME FilesInv, NEW c \in Calls, NEW d \in Calls, c # d, fop[c].name = fop[d].name
    PROVE  /\ fop[c].at \in Writing /\ fop[d].at \in Writing \cup {"install"} => fop[d].raced
           /\ fop[c].at \in Staging /\ fop[d].at \in Staging => fop[d].raced
<1>1. ASSUME fop[c].at \in Writing, fop[d].at = "install", ~fop[d].raced
      PROVE  FALSE
  <2>1. NoWriter(fop[d].name)
    BY <1>1, FileTyped DEF OwnFileAt
  <2> QED
    BY <1>1, <2>1 DEF NoWriter
<1>2. fop[d].raced \in BOOLEAN
  BY FileTyped DEF FileOp
<1>3. Meet(d, c, Writing) \/ Meet(d, c, Staging) => fop[d].raced
  BY DEF FilesInv, RacesSeen
<1> QED
  BY <1>1, <1>2, <1>3 DEF Meet

\* A step of a call that is in a file and leaves it or goes on in it.
LEMMA InFileGoesOn ==
    ASSUME FilesInv, NEW c \in Calls, FilesTypeOK',
           NEW a \in FileNames, a = fop[c].name,
           NEW o \in FileOp, fop' = [fop EXCEPT ![c] = o],
           fop[c].at \in Writing \/ UNCHANGED <<disk, artifacts>>,
           fop[c].at \in Staging \/ UNCHANGED staged,
           \A b \in FileNames \ {a} : disk'[b] = disk[b] /\ staged'[b] = staged[b],
           o.at \in Writing => fop[c].at \in Writing /\ o.name = a /\ o.raced = fop[c].raced,
           o.at \in Staging => fop[c].at \in Staging /\ o.name = a /\ o.raced = fop[c].raced,
           DOMAIN artifacts \subseteq DOMAIN artifacts',
           \A b \in FileNames : RowsOf(b) \subseteq RowsOf(b)' /\ (b # a => RowsOf(b)' = RowsOf(b)),
           FileLocalsAt(c)', OwnFileAt(c)', DeliversAt(c)',
           OneRow', ArtifactMatchesFile', StagingIsEmptied'
    PROVE  FilesInv'
<1>1. fop'[c] = o /\ \A d \in Calls \ {c} : fop'[d] = fop[d]
  BY FileTyped
<1>2. Bystanders(c)
  BY <1>1 DEF Bystanders
<1>3. fop[c].at \in Writing => Disturbed(c, Writing \cup {"install"}, a)
  BY <1>1, WriterDisturbs DEF Disturbed
<1>4. fop[c].at \in Staging => Disturbed(c, Staging, a)
  BY <1>1, WriterDisturbs DEF Disturbed
<1>5. \A b \in FileNames : disk'[b] = disk[b] \/ Disturbed(c, Writing \cup {"install"}, b)
  BY <1>3
<1>6. \A b \in FileNames : staged'[b] = staged[b] \/ Disturbed(c, Staging, b)
  BY <1>4
<1>7. \A b \in FileNames : RowsOf(b)' = RowsOf(b)
          \/ (RowsOf(b) \subseteq RowsOf(b)' /\ Disturbed(c, {"save"}, b))
  <2>1. fop[c].at \in Writing => Disturbed(c, {"save"}, a)
    BY <1>3 DEF Disturbed, Writing
  <2>2. UNCHANGED artifacts => \A b \in FileNames : RowsOf(b)' = RowsOf(b)
    BY DEF RowsOf
  <2> QED
    BY <2>1, <2>2
<1>8. fop'[c].at \in Writing => Disturbed(c, {"install"}, fop'[c].name)
  BY <1>1, <1>3 DEF Disturbed
<1>9. ASSUME NEW d \in Calls \ {c}, Meet(c, d, Writing)' \/ Meet(c, d, Staging)'
      PROVE  fop'[c].raced /\ fop'[d].raced
  <2>1. \/ Meet(c, d, Writing) /\ Meet(d, c, Writing)
        \/ Meet(c, d, Staging) /\ Meet(d, c, Staging)
    BY <1>1, <1>9 DEF Meet
  <2>2. fop[c].raced /\ fop[d].raced
    BY <2>1 DEF FilesInv, RacesSeen
  <2> QED
    BY <1>1, <1>9, <2>2 DEF Meet
<1> QED
  BY <1>2, <1>5, <1>6, <1>7, <1>8, <1>9, FileMoves

\* The same with what a writer in the directory of artifacts owes: its name is
\* spoilt when it gives up.
LEMMA WriterGoesOn ==
    ASSUME FilesInv, NEW c \in Calls, fop[c].at \in Writing,
           NEW a \in FileNames, a = fop[c].name,
           NEW o \in FileOp, fop' = [fop EXCEPT ![c] = o],
           NEW x \in Contents, disk' = [disk EXCEPT ![a] = x],
           UNCHANGED <<artifacts, staged, left>>,
           \/ UNCHANGED spoilt /\ o.at \in Writing /\ o.name = a /\ o.raced = fop[c].raced
           \/ spoilt' = spoilt \cup {a} /\ o.at = "idle",
           FileLocalsAt(c)', OwnFileAt(c)', DeliversAt(c)'
    PROVE  FilesInv'
<1>1. fop' \in [Calls -> FileOp] /\ fop'[c] = o /\ \A d \in Calls \ {c} : fop'[d] = fop[d]
  BY DEF FilesInv, FilesTypeOK
<1>2. disk' \in [FileNames -> Contents] /\ \A b \in FileNames \ {a} : disk'[b] = disk[b]
  BY DEF FilesInv, FilesTypeOK
<1>3. FilesTypeOK'
  BY <1>1, <1>2 DEF FilesInv, FilesTypeOK
<1>4. \A b \in FileNames : RowsOf(b)' = RowsOf(b)
  BY DEF RowsOf
<1>5. fop[c].at \notin Staging /\ o.at \notin Staging
  BY DEF Writing, Staging
<1>6. Bystanders(c)
  BY <1>1 DEF Bystanders
<1>7. OneRow'
  BY <1>4 DEF FilesInv, OneRow
<1>8. ArtifactMatchesFile'
  <2> SUFFICES ASSUME NEW b \in FileNames, b \notin spoilt',
                      \A d \in Calls : fop'[d].at \in Writing => fop'[d].name # b
               PROVE  \A i, j \in RowsOf(b) : i = j /\ disk'[b] = artifacts[i].sum
    BY <1>4 DEF ArtifactMatchesFile
  <2>1. b # a /\ b \notin spoilt /\ \A d \in Calls : fop[d].at \in Writing => fop[d].name # b
    BY <1>1
  <2> QED
    BY <1>2, <2>1 DEF FilesInv, ArtifactMatchesFile
<1>9. StagingIsEmptied'
  BY <1>5, <1>6, StagingStays
<1>10. /\ DOMAIN artifacts \subseteq DOMAIN artifacts'
       /\ \A b \in FileNames \ {a} : disk'[b] = disk[b] /\ staged'[b] = staged[b]
       /\ o.at \in Writing => fop[c].at \in Writing /\ o.name = a /\ o.raced = fop[c].raced
  BY <1>2 DEF Writing
<1> QED
  BY <1>3, <1>4, <1>5, <1>7, <1>8, <1>9, <1>10, InFileGoesOn

LEMMA WriterGivesUp ==
    ASSUME FilesInv, NEW c \in Calls, fop[c].at \in Writing, FileOpEnds(c),
           spoilt' = spoilt \cup {fop[c].name}, UNCHANGED <<artifacts, staged, left>>,
           NEW x \in Contents, disk' = [disk EXCEPT ![fop[c].name] = x]
    PROVE  FilesInv'
<1>1. fop[c].name \in FileNames
  BY FileTyped DEF FileLocalsAt, Writing
<1>2. fop' = [fop EXCEPT ![c] = NoFileOp] /\ fop'[c] = NoFileOp
  BY FileTyped DEF FileOpEnds
<1>3. FileLocalsAt(c)' /\ OwnFileAt(c)' /\ DeliversAt(c)'
  BY <1>2, IdleFileOp DEF FileLocalsAt, OwnFileAt, DeliversAt
<1> QED
  BY <1>1, <1>2, <1>3, IdleFileOp, WriterGoesOn

LEMMA CopyFileKeeps ==
    ASSUME FilesInv, NEW c \in Calls, CopyFile(c)
    PROVE  FilesInv'
<1> DEFINE a == fop[c].name
<1>1. /\ fop[c].at = "copy" /\ fop[c].at \in Writing /\ UNCHANGED <<artifacts, staged, left>>
      /\ fop[c] \in FileOp /\ a \in FileNames /\ fop[c].n \in 1..MaxCalls
      /\ disk \in [FileNames -> Contents]
  BY FileTyped DEF CopyFile, Writing, FileLocalsAt, FilesInv, FilesTypeOK
<1>2. ASSUME NEW x \in Copied(c), disk' = [disk EXCEPT ![a] = x],
             fop' = [fop EXCEPT ![c].at = "find"], UNCHANGED spoilt
      PROVE  FilesInv'
  <2> DEFINE o == [fop[c] EXCEPT !.at = "find"]
  <2>1. fop' = [fop EXCEPT ![c] = o]
    BY <1>2 DEF FilesInv, FilesTypeOK
  <2>2. /\ o \in FileOp /\ o.at = "find" /\ o.name = a /\ o.n = fop[c].n
        /\ o.raced = fop[c].raced
    BY <1>1 DEF FileOp
  <2> HIDE DEF o
  <2>3. fop'[c] = o /\ o.at \in Writing
    BY <2>1, <2>2, FileTyped DEF Writing
  <2>4. x \in Contents /\ (~fop[c].raced => x = fop[c].n)
    BY <1>1, ContentsTyped DEF Copied
  <2>5. disk'[a] = x
    BY <1>1, <1>2
  <2>6. FileLocalsAt(c)' /\ OwnFileAt(c)' /\ DeliversAt(c)'
    BY <1>1, <2>2, <2>3, <2>4, <2>5 DEF FileLocalsAt, OwnFileAt, DeliversAt
  <2> QED
    BY <1>1, <1>2, <2>1, <2>2, <2>3, <2>4, <2>6, WriterGoesOn
<1>3. CASE /\ disk' = [disk EXCEPT ![a] = NoFile] /\ FileOpEnds(c)
           /\ spoilt' = spoilt \cup {a}
  BY <1>1, <1>3, ContentsTyped, WriterGivesUp
<1>4. CASE FileOpEnds(c) /\ spoilt' = spoilt \cup {a} /\ UNCHANGED disk
  <2>1. disk' = [disk EXCEPT ![a] = disk[a]] /\ disk[a] \in Contents
    BY <1>1, <1>4
  <2> QED
    BY <1>1, <1>4, <2>1, WriterGivesUp
<1> QED
  BY <1>2, <1>3, <1>4 DEF CopyFile

\* Save: the row that the call has found, or a new one.
LEMMA SavedRows ==
    ASSUME FilesInv, NEW c \in Calls, fop[c].at = "save", Saved(c),
           NEW a \in FileNames, a = fop[c].name
    PROVE  /\ artifacts' \in Seq([name : FileNames, sum : 1..MaxCalls])
           /\ DOMAIN artifacts \subseteq DOMAIN artifacts'
           /\ \A b \in FileNames : RowsOf(b) \subseteq RowsOf(b)'
           /\ \A b \in FileNames \ {a} :
                RowsOf(b)' = RowsOf(b) /\ \A i \in RowsOf(b) : artifacts'[i] = artifacts[i]
           /\ fop[c].id # 0 => /\ fop[c].id \in RowsOf(a) /\ RowsOf(a)' = RowsOf(a)
                               /\ artifacts'[fop[c].id].sum = fop[c].n
           /\ fop[c].id = 0 /\ RowsOf(a) = {} =>
                  \E k : RowsOf(a)' = {k} /\ artifacts'[k].sum = fop[c].n
<1> DEFINE Row == [name : FileNames, sum : 1..MaxCalls]
           n == fop[c].n
           id == fop[c].id
<1>1. /\ artifacts \in Seq(Row) /\ a \in FileNames /\ n \in 1..MaxCalls
      /\ DOMAIN artifacts = 1..Len(artifacts) /\ Len(artifacts) \in Nat
      /\ id # 0 => id \in RowsOf(a)
      /\ \A i \in DOMAIN artifacts : artifacts[i] \in Row
  <2>1. /\ artifacts \in Seq(Row) /\ DOMAIN artifacts = 1..Len(artifacts)
        /\ Len(artifacts) \in Nat
    BY DEF FilesInv, FilesTypeOK
  <2>2. \A i \in DOMAIN artifacts : artifacts[i] \in Row
    BY <2>1, ElementOfSeq
  <2>3. a \in FileNames /\ n \in 1..MaxCalls /\ (id # 0 => id \in RowsOf(a))
    BY FileTyped DEF FileLocalsAt
  <2> QED
    BY <2>1, <2>2, <2>3
<1>2. CASE id = 0
  <2> DEFINE k == Len(artifacts) + 1
             e == [name |-> a, sum |-> n]
  <2>1. artifacts' = Append(artifacts, e) /\ e \in Row /\ e.name = a /\ e.sum = n
    BY <1>1, <1>2 DEF Saved
  <2> HIDE DEF e
  <2>2. /\ artifacts' \in Seq(Row) /\ DOMAIN artifacts' = 1..k
        /\ artifacts'[k] = e /\ \A i \in DOMAIN artifacts : artifacts'[i] = artifacts[i]
    BY <1>1, <2>1, AppendProperties
  <2>3. DOMAIN artifacts' = DOMAIN artifacts \cup {k}
    BY <1>1, <2>2
  <2> HIDE DEF k
  <2>4. \A b \in FileNames : RowsOf(b)' = IF b = a THEN RowsOf(b) \cup {k} ELSE RowsOf(b)
    BY <2>1, <2>2, <2>3 DEF RowsOf
  <2>5. \A b \in FileNames : \A i \in RowsOf(b) : artifacts'[i] = artifacts[i]
    BY <2>2 DEF RowsOf
  <2> QED
    BY <1>2, <2>1, <2>2, <2>3, <2>4, <2>5
<1>3. CASE id # 0
  <2>1. artifacts' = [artifacts EXCEPT ![id].sum = n] /\ id \in DOMAIN artifacts
        /\ artifacts[id].name = a /\ artifacts[id] \in Row
    BY <1>1, <1>3 DEF Saved, RowsOf
  <2> DEFINE e == [artifacts[id] EXCEPT !.sum = n]
  <2>2. artifacts' = [artifacts EXCEPT ![id] = e] /\ e \in Row /\ e.name = a /\ e.sum = n
    BY <1>1, <2>1
  <2> HIDE DEF e
  <2>3. /\ artifacts' \in Seq(Row) /\ DOMAIN artifacts' = DOMAIN artifacts
        /\ artifacts'[id] = e /\ \A i \in DOMAIN artifacts \ {id} : artifacts'[i] = artifacts[i]
    BY <1>1, <2>1, <2>2, ExceptSeq
  <2>4. \A i \in DOMAIN artifacts : artifacts'[i].name = artifacts[i].name
    BY <2>1, <2>2, <2>3
  <2>5. \A b \in FileNames : RowsOf(b)' = RowsOf(b)
    BY <2>3, <2>4 DEF RowsOf
  <2>6. \A b \in FileNames \ {a} : \A i \in RowsOf(b) : artifacts'[i] = artifacts[i]
    BY <2>1, <2>3 DEF RowsOf
  <2> QED
    BY <1>1, <1>3, <2>2, <2>3, <2>5, <2>6
<1> QED
  BY <1>2, <1>3

\* Counting the rows of a name tells whether there is a second one.
LEMMA RowsCounted ==
    ASSUME FilesInv, NEW a \in FileNames, ~(Cardinality(RowsOf(a)) > 1)
    PROVE  \A i, j \in RowsOf(a) : i = j
<1>1. IsFiniteSet(RowsOf(a))
  <2>1. DOMAIN artifacts = 1..Len(artifacts) /\ Len(artifacts) \in Int /\ 1 \in Int
    BY DEF FilesInv, FilesTypeOK
  <2>2. IsFiniteSet(1..Len(artifacts))
    BY <2>1, FS_Interval
  <2>3. RowsOf(a) \in SUBSET (1..Len(artifacts))
    BY <2>1 DEF RowsOf
  <2> QED
    BY <2>2, <2>3, FS_Subset
<1>2. Cardinality(RowsOf(a)) \in {0, 1}
  BY <1>1, FS_CardinalityType
<1>3. RowsOf(a) = {} \/ \E x : RowsOf(a) = {x}
  BY <1>1, <1>2, FS_EmptySet, FS_Singleton
<1> QED
  BY <1>3

LEMMA SaveArtifactKeeps ==
    ASSUME FilesInv, NEW c \in Calls, SaveArtifact(c)
    PROVE  FilesInv'
<1>1. /\ fop[c].at = "save" /\ fop[c].at \in Writing /\ FileOpEnds(c)
      /\ UNCHANGED <<disk, staged, left>>
      /\ fop[c].name \in FileNames /\ fop[c].n \in 1..MaxCalls
      /\ disk \in [FileNames -> Contents]
  BY FileTyped DEF SaveArtifact, Writing, FileLocalsAt, FilesInv, FilesTypeOK
<1>2. PICK a \in FileNames : a = fop[c].name
  BY <1>1
<1>3. CASE spoilt' = spoilt \cup {a} /\ UNCHANGED artifacts
  <2>1. disk' = [disk EXCEPT ![a] = disk[a]] /\ disk[a] \in Contents
    BY <1>1
  <2> QED
    BY <1>1, <1>2, <1>3, <2>1, WriterGivesUp
<1>4. CASE /\ Saved(c)
           /\ spoilt' = IF fop[c].raced THEN spoilt \cup {a}
                        ELSE IF Cardinality(RowsOf(a)) > 1 THEN spoilt
                        ELSE spoilt \ {a}
  <2>1. /\ fop' = [fop EXCEPT ![c] = NoFileOp] /\ fop'[c] = NoFileOp
        /\ \A d \in Calls \ {c} : fop'[d] = fop[d]
        /\ fop' \in [Calls -> FileOp] /\ Bystanders(c)
        /\ NoFileOp.at \notin Writing /\ NoFileOp.at \notin Staging /\ fop[c].at \notin Staging
    <3>1. fop' = [fop EXCEPT ![c] = NoFileOp]
      BY <1>1 DEF FileOpEnds
    <3>2. /\ fop'[c] = NoFileOp /\ fop' \in [Calls -> FileOp]
          /\ \A d \in Calls \ {c} : fop'[d] = fop[d]
      BY <3>1, IdleFileOp DEF FilesInv, FilesTypeOK
    <3> QED
      BY <1>1, <3>1, <3>2, IdleFileOp DEF Bystanders, Writing, Staging
  <2>2. /\ artifacts' \in Seq([name : FileNames, sum : 1..MaxCalls])
        /\ DOMAIN artifacts \subseteq DOMAIN artifacts'
        /\ \A b \in FileNames : RowsOf(b) \subseteq RowsOf(b)'
        /\ \A b \in FileNames \ {a} :
             RowsOf(b)' = RowsOf(b) /\ \A i \in RowsOf(b) : artifacts'[i] = artifacts[i]
    BY <1>1, <1>2, <1>4, SavedRows
  <2>3. a \notin spoilt' =>
            \A i, j \in RowsOf(a)' : i = j /\ disk[a] = artifacts'[i].sum
    <3> SUFFICES ASSUME a \notin spoilt'
                 PROVE  \A i, j \in RowsOf(a)' : i = j /\ disk[a] = artifacts'[i].sum
      OBVIOUS
    <3>1. ~fop[c].raced
      BY <1>4
    <3>2. disk[a] = fop[c].n /\ (fop[c].id = 0 => RowsOf(a) = {})
      BY <1>1, <1>2, <3>1, FileTyped DEF OwnFileAt
    <3>3. CASE fop[c].id = 0
      <4>1. \E k : RowsOf(a)' = {k} /\ artifacts'[k].sum = fop[c].n
        BY <1>1, <1>2, <1>4, <3>2, <3>3, SavedRows
      <4> QED
        BY <3>2, <4>1
    <3>4. CASE fop[c].id # 0
      <4>1. /\ fop[c].id \in RowsOf(a) /\ RowsOf(a)' = RowsOf(a)
            /\ artifacts'[fop[c].id].sum = fop[c].n
        BY <1>1, <1>2, <1>4, <3>4, SavedRows
      <4>2. \A i, j \in RowsOf(a) : i = j
        <5>1. CASE Cardinality(RowsOf(a)) > 1
          <6>1. a \notin spoilt
            BY <1>4, <3>1, <5>1
          <6> QED
            BY <6>1 DEF FilesInv, OneRow
        <5>2. CASE ~(Cardinality(RowsOf(a)) > 1)
          BY <5>2, RowsCounted
        <5> QED
          BY <5>1, <5>2
      <4> QED
        BY <3>2, <4>1, <4>2
    <3> QED
      BY <3>3, <3>4
  <2>4. \A b \in FileNames \ {a} : b \in spoilt' <=> b \in spoilt
    BY <1>4
  <2>5. OneRow'
    <3> SUFFICES ASSUME NEW b \in FileNames \ spoilt'
                 PROVE  \A i, j \in RowsOf(b)' : i = j
      BY DEF OneRow, RowsOf
    <3>1. CASE b = a
      BY <2>3, <3>1
    <3>2. CASE b # a
      <4>1. b \in FileNames \ spoilt /\ RowsOf(b)' = RowsOf(b)
        BY <2>2, <2>4, <3>2
      <4> QED
        BY <4>1 DEF FilesInv, OneRow
    <3> QED
      BY <3>1, <3>2
  <2>6. ArtifactMatchesFile'
    <3> SUFFICES ASSUME NEW b \in FileNames, b \notin spoilt',
                        \A d \in Calls : fop'[d].at \in Writing => fop'[d].name # b
                 PROVE  \A i, j \in RowsOf(b)' : i = j /\ disk[b] = artifacts'[i].sum
      BY <1>1 DEF ArtifactMatchesFile, RowsOf
    <3>1. CASE b = a
      BY <2>3, <3>1
    <3>2. CASE b # a
      <4>1. b \notin spoilt /\ \A d \in Calls : fop[d].at \in Writing => fop[d].name # b
        BY <1>2, <2>1, <2>4, <3>2
      <4>2. RowsOf(b)' = RowsOf(b) /\ \A i \in RowsOf(b) : artifacts'[i] = artifacts[i]
        BY <2>2, <3>2
      <4> QED
        BY <4>1, <4>2 DEF FilesInv, ArtifactMatchesFile
    <3> QED
      BY <3>1, <3>2
  <2>7. StagingIsEmptied'
    BY <1>1, <2>1, StagingStays
  <2>8. FilesTypeOK'
    <3>1. spoilt' \subseteq FileNames
      BY <1>4, FileTyped
    <3> QED
      BY <1>1, <2>1, <2>2, <3>1 DEF FilesInv, FilesTypeOK
  <2>9. FileLocalsAt(c)' /\ OwnFileAt(c)' /\ DeliversAt(c)'
    BY <2>1, IdleFileOp DEF FileLocalsAt, OwnFileAt, DeliversAt
  <2>10. /\ \A b \in FileNames \ {a} : disk'[b] = disk[b] /\ staged'[b] = staged[b]
         /\ fop[c].at \in Staging \/ UNCHANGED staged
         /\ \A b \in FileNames : /\ RowsOf(b) \subseteq RowsOf(b)'
                                 /\ b # a => RowsOf(b)' = RowsOf(b)
    BY <1>1, <2>2
  <2> QED
    BY <1>1, <1>2, <2>1, <2>2, <2>5, <2>6, <2>7, <2>8, <2>9, <2>10, IdleFileOp, InFileGoesOn
<1> QED
  BY <1>2, <1>3, <1>4 DEF SaveArtifact

-----------------------------------------------------------------------------
(* Files: the staging directory.                                           *)

LEMMA StageKeeps ==
    ASSUME FilesInv, NEW c \in Calls, Stage(c)
    PROVE  FilesInv'
<1>1. /\ fop[c].at = "stage" /\ UNCHANGED <<disk, artifacts, spoilt, left>>
      /\ fop[c].at \notin Writing /\ fop[c].at \notin Staging
      /\ fop[c].name \in FileNames /\ fop[c].n \in 1..MaxCalls
  BY FileTyped DEF Stage, Writing, Staging, FileLocalsAt
<1>2. CASE FileOpEnds(c) /\ UNCHANGED staged
  BY <1>1, <1>2, FileTyped, FileOpEndsKeeps
<1>3. PICK a \in FileNames : a = fop[c].name
  BY <1>1
<1>4. CASE /\ staged' = [staged EXCEPT ![a] = Partial]
           /\ GotoRacing(c, "receive", Others(c, Staging, a))
  <2>1. /\ fop' \in [Calls -> FileOp] /\ Bystanders(c) /\ Disturbed(c, Staging, a)
        /\ fop'[c].at = "receive" /\ fop'[c].name = a /\ fop'[c].n = fop[c].n
        /\ \A d \in Calls \ {c} : fop[d].at \in Staging /\ fop[d].name = a => fop'[c].raced
    BY <1>3, <1>4, RacesMarked
  <2>2. /\ staged' \in [FileNames -> Contents]
        /\ \A b \in FileNames \ {a} : staged'[b] = staged[b]
    BY <1>4, ContentsTyped DEF FilesInv, FilesTypeOK
  <2>3. FilesTypeOK'
    BY <1>1, <2>1, <2>2 DEF FilesInv, FilesTypeOK
  <2>4. fop'[c].at \notin Writing /\ fop'[c].at \in Staging
    BY <2>1 DEF Writing, Staging
  <2>5. FileLocalsAt(c)' /\ OwnFileAt(c)' /\ DeliversAt(c)'
    BY <1>1, <1>3, <2>1 DEF FileLocalsAt, OwnFileAt, DeliversAt
  <2>6. ASSUME NEW d \in Calls \ {c}, Meet(c, d, Writing)' \/ Meet(c, d, Staging)'
        PROVE  fop'[c].raced /\ fop'[d].raced
    <3>1. fop[d].at \in Staging /\ fop[d].name = a
      BY <2>1, <2>4, <2>6 DEF Meet, Bystanders
    <3> QED
      BY <2>1, <3>1 DEF Disturbed
  <2>7. OneRow' /\ ArtifactMatchesFile'
    BY <1>1, <2>1, TableStays
  <2>8. StagingIsEmptied'
    <3> SUFFICES ASSUME NEW b \in FileNames, staged'[b] # NoFile, b \notin left
                 PROVE  \E d \in Calls : fop'[d].name = b /\ fop'[d].at \in Staging
      BY <1>1 DEF StagingIsEmptied
    <3>1. CASE b = a
      BY <2>1, <2>4, <3>1
    <3>2. CASE b # a
      <4>1. PICK d \in Calls : fop[d].name = b /\ fop[d].at \in Staging
        BY <2>2, <3>2 DEF FilesInv, StagingIsEmptied
      <4> QED
        BY <1>1, <2>1, <4>1 DEF Bystanders
    <3> QED
      BY <3>1, <3>2
  <2>9. \A b \in FileNames : staged'[b] = staged[b] \/ Disturbed(c, Staging, b)
    BY <2>1, <2>2
  <2>10. /\ DOMAIN artifacts \subseteq DOMAIN artifacts'
         /\ \A b \in FileNames : RowsOf(b)' = RowsOf(b)
         /\ \A b \in FileNames : disk'[b] = disk[b]
    BY <1>1 DEF RowsOf
  <2> QED
    BY <2>1, <2>3, <2>4, <2>5, <2>6, <2>7, <2>8, <2>9, <2>10, FileMoves
<1> QED
  BY <1>2, <1>3, <1>4 DEF Stage

\* A call that is in a staged file writes or removes it.
LEMMA StagerGoesOn ==
    ASSUME FilesInv, NEW c \in Calls, fop[c].at \in Staging,
           NEW a \in FileNames, a = fop[c].name,
           NEW o \in FileOp, fop' = [fop EXCEPT ![c] = o],
           NEW x \in Contents, staged' = [staged EXCEPT ![a] = x],
           UNCHANGED <<disk, artifacts, spoilt>>, left' \subseteq FileNames,
           \A b \in FileNames \ {a} : b \in left => b \in left',
           \/ o.at \in Staging /\ o.name = a /\ o.raced = fop[c].raced
           \/ o.at = "idle" /\ (x = NoFile \/ a \in left'),
           FileLocalsAt(c)', OwnFileAt(c)', DeliversAt(c)'
    PROVE  FilesInv'
<1>1. fop' \in [Calls -> FileOp] /\ fop'[c] = o /\ \A d \in Calls \ {c} : fop'[d] = fop[d]
  BY DEF FilesInv, FilesTypeOK
<1>2. /\ staged' \in [FileNames -> Contents] /\ staged'[a] = x
      /\ \A b \in FileNames \ {a} : staged'[b] = staged[b]
  BY DEF FilesInv, FilesTypeOK
<1>3. FilesTypeOK'
  BY <1>1, <1>2 DEF FilesInv, FilesTypeOK
<1>4. fop[c].at \notin Writing /\ o.at \notin Writing
  BY DEF Writing, Staging
<1>5. Bystanders(c)
  BY <1>1 DEF Bystanders
<1>6. OneRow' /\ ArtifactMatchesFile'
  BY <1>4, <1>5, TableStays
<1>7. StagingIsEmptied'
  <2> SUFFICES ASSUME NEW b \in FileNames, staged'[b] # NoFile, b \notin left'
               PROVE  \E d \in Calls : fop'[d].name = b /\ fop'[d].at \in Staging
    BY DEF StagingIsEmptied
  <2>1. CASE b = a
    BY <1>1, <1>2, <2>1
  <2>2. CASE b # a
    <3>1. PICK d \in Calls : fop[d].name = b /\ fop[d].at \in Staging
      BY <1>2, <2>2 DEF FilesInv, StagingIsEmptied
    <3> QED
      BY <1>1, <2>2, <3>1
  <2> QED
    BY <2>1, <2>2
<1>8. /\ DOMAIN artifacts \subseteq DOMAIN artifacts'
      /\ \A b \in FileNames \ {a} : disk'[b] = disk[b] /\ staged'[b] = staged[b]
      /\ \A b \in FileNames : RowsOf(b) \subseteq RowsOf(b)' /\ (b # a => RowsOf(b)' = RowsOf(b))
      /\ o.at \in Staging => fop[c].at \in Staging /\ o.name = a /\ o.raced = fop[c].raced
  BY <1>2 DEF RowsOf, Staging
<1> QED
  BY <1>3, <1>4, <1>6, <1>7, <1>8, InFileGoesOn

LEMMA StagerEnds ==
    ASSUME FilesInv, NEW c \in Calls, fop[c].at \in Staging, FileOpEnds(c),
           NEW x \in Contents, staged' = [staged EXCEPT ![fop[c].name] = x],
           UNCHANGED <<disk, artifacts, spoilt>>, left' \subseteq FileNames,
           \A b \in FileNames \ {fop[c].name} : b \in left => b \in left',
           x = NoFile \/ fop[c].name \in left'
    PROVE  FilesInv'
<1>1. fop[c].name \in FileNames
  BY FileTyped DEF FileLocalsAt, Staging
<1>2. fop' = [fop EXCEPT ![c] = NoFileOp] /\ fop'[c] = NoFileOp
  BY FileTyped DEF FileOpEnds
<1>3. FileLocalsAt(c)' /\ OwnFileAt(c)' /\ DeliversAt(c)'
  BY <1>2, IdleFileOp DEF FileLocalsAt, OwnFileAt, DeliversAt
<1> QED
  BY <1>1, <1>2, <1>3, IdleFileOp, StagerGoesOn

LEMMA ReceiveKeeps ==
    ASSUME FilesInv, NEW c \in Calls, Receive(c)
    PROVE  FilesInv'
<1> DEFINE a == fop[c].name
<1>1. /\ fop[c].at = "receive" /\ fop[c].at \in Staging /\ UNCHANGED <<disk, artifacts, spoilt>>
      /\ fop[c] \in FileOp /\ a \in FileNames /\ fop[c].n \in 1..MaxCalls
      /\ staged \in [FileNames -> Contents] /\ left \subseteq FileNames
  BY FileTyped DEF Receive, Staging, FileLocalsAt, FilesInv, FilesTypeOK
<1>2. ASSUME NEW x \in Copied(c), staged' = [staged EXCEPT ![a] = x],
             fop' = [fop EXCEPT ![c].at = "lock"], UNCHANGED left
      PROVE  FilesInv'
  <2> DEFINE o == [fop[c] EXCEPT !.at = "lock"]
  <2>1. fop' = [fop EXCEPT ![c] = o]
    BY <1>2 DEF FilesInv, FilesTypeOK
  <2>2. /\ o \in FileOp /\ o.at = "lock" /\ o.name = a /\ o.n = fop[c].n
        /\ o.raced = fop[c].raced
    BY <1>1 DEF FileOp
  <2> HIDE DEF o
  <2>3. fop'[c] = o /\ o.at \in Staging
    BY <2>1, <2>2, FileTyped DEF Staging
  <2>4. x \in Contents /\ (~fop[c].raced => x = fop[c].n)
    BY <1>1, ContentsTyped DEF Copied
  <2>5. staged'[a] = x
    BY <1>1, <1>2
  <2>6. FileLocalsAt(c)' /\ OwnFileAt(c)' /\ DeliversAt(c)'
    BY <1>1, <2>2, <2>3, <2>4, <2>5 DEF FileLocalsAt, OwnFileAt, DeliversAt
  <2> QED
    BY <1>1, <1>2, <2>1, <2>2, <2>3, <2>4, <2>6, StagerGoesOn
<1>3. CASE FileOpEnds(c) /\ left' = left \cup {a} /\ UNCHANGED staged
  <2>1. staged' = [staged EXCEPT ![a] = staged[a]] /\ staged[a] \in Contents
    BY <1>1, <1>3
  <2>2. left' \subseteq FileNames /\ a \in left'
        /\ \A b \in FileNames \ {a} : b \in left => b \in left'
    BY <1>1, <1>3
  <2> QED
    BY <1>1, <1>3, <2>1, <2>2, StagerEnds
<1> QED
  BY <1>2, <1>3 DEF Receive

LEMMA RemoveStagedKeeps ==
    ASSUME FilesInv, NEW c \in Calls, RemoveStaged(c)
    PROVE  FilesInv'
<1>1. fop[c].at \in Staging /\ left \subseteq FileNames
  BY FileTyped DEF RemoveStaged, Staging
<1> QED
  BY <1>1, ContentsTyped, StagerEnds DEF RemoveStaged

-----------------------------------------------------------------------------
(* Files: the whole.                                                       *)

LEMMA FilesEnd ==
    ASSUME FilesInv, FilesDie
    PROVE  FilesInv'
<1>1. /\ \A c \in Calls : fop'[c] = NoFileOp /\ fop'[c].at = "idle"
      /\ fop' \in [Calls -> FileOp] /\ UNCHANGED <<disk, artifacts, staged>>
  BY IdleFileOp DEF FilesDie
<1>2. /\ spoilt' = spoilt \cup {fop[c].name : c \in {d \in Calls : fop[d].at \in Writing}}
      /\ left' = left \cup {fop[c].name : c \in {d \in Calls : fop[d].at \in Staging}}
  BY DEF FilesDie
<1>3. \A c \in Calls : /\ fop[c].at \in Writing => fop[c].name \in FileNames
                       /\ fop[c].at \in Staging => fop[c].name \in FileNames
  BY FileTyped DEF FileLocalsAt, Writing, Staging
<1>4. FilesTypeOK'
  <2>1. spoilt' \subseteq FileNames /\ left' \subseteq FileNames
    BY <1>2, <1>3, FileTyped DEF FilesInv, FilesTypeOK
  <2> QED
    BY <1>1, <2>1 DEF FilesInv, FilesTypeOK
<1>5. FileLocals' /\ RacesSeen' /\ OwnFile' /\ DeliversItsOwn'
  BY <1>1 DEF FileLocals, FileLocalsAt, RacesSeen, Meet, OwnFile, OwnFileAt, DeliversItsOwn,
     Writing, Staging
<1>6. \A a \in FileNames : a \notin spoilt' =>
          a \notin spoilt /\ \A d \in Calls : fop[d].at \in Writing => fop[d].name # a
  BY <1>2
<1>7. \A a \in FileNames : RowsOf(a)' = RowsOf(a)
  BY <1>1 DEF RowsOf
<1>8. OneRow'
  BY <1>6, <1>7 DEF FilesInv, OneRow
<1>9. ArtifactMatchesFile'
  BY <1>1, <1>6, <1>7 DEF FilesInv, ArtifactMatchesFile
<1>10. StagingIsEmptied'
  <2> SUFFICES ASSUME NEW a \in FileNames, staged[a] # NoFile, a \notin left'
               PROVE  FALSE
    BY <1>1 DEF StagingIsEmptied
  <2>1. PICK d \in Calls : fop[d].name = a /\ fop[d].at \in Staging
    BY <1>2 DEF FilesInv, StagingIsEmptied
  <2> QED
    BY <1>2, <2>1
<1> QED
  BY <1>4, <1>5, <1>8, <1>9, <1>10 DEF FilesInv

LEMMA BeginFileOpKeeps ==
    ASSUME FilesInv, NEW c \in Calls, fop[c].at = "idle", NEW n \in 1..MaxCalls, BeginFileOp(c, n)
    PROVE  FilesInv'
BY BeginUploadKeeps, BeginInstallKeeps, BeginPushKeeps DEF BeginFileOp

LEMMA FileStepKeeps ==
    ASSUME FilesInv, NEW c \in Calls, FileStep(c)
    PROVE  FilesInv'
<1>1. CASE Upload(c)
  BY <1>1, CreateFileKeeps, CopyFileKeeps, FindArtifactKeeps, SaveArtifactKeeps DEF Upload
<1>2. CASE Install(c)
  BY <1>2, LookupArtifactKeeps, InstallFileKeeps, SetLocaleKeeps DEF Install
<1>3. CASE Push(c)
  BY <1>3, StageKeeps, ReceiveKeeps, LockDeviceKeeps, PushFileKeeps, RemoveStagedKeeps DEF Push
<1> QED
  BY <1>1, <1>2, <1>3 DEF FileStep

-----------------------------------------------------------------------------
(* The process.                                                            *)

Inv == AccountsInv /\ GroupsInv /\ FilesInv /\ ProcessInv

\* A call that takes a step is in flight.
LEMMA StepsAreBusy ==
    ASSUME GroupsInv, NEW c \in Calls
    PROVE  /\ LoginStep(c) => login[c].at # "idle"
           /\ GroupStep(c) => gop[c].at # "idle"
           /\ FileStep(c) => fop[c].at # "idle"
<1>1. LoginStep(c) => login[c].at # "idle"
  BY DEF LoginStep, FindUser, CreateUser, SignToken
<1>2. GroupStep(c) => gop[c].at # "idle"
  BY JobPlaces DEF GroupStep, Create, Rename, Delete, StartGroup, Start, CheckName, InsertGroup,
     CreateAnswers, Fork, CreateAvd, InsertRow, RollBackAvd, RecheckName, UpdateName, ListRows,
     EraseGroup, EraseRow, CleanRow, FindGroup, StartAnswers, MarkStarting
<1>3. FileStep(c) => fop[c].at # "idle"
  BY DEF FileStep, Upload, Install, Push, CreateFile, CopyFile, FindArtifact, SaveArtifact,
     LookupArtifact, InstallFile, SetLocale, Stage, Receive, LockDevice, PushFile, RemoveStaged
<1> QED
  BY <1>1, <1>2, <1>3

\* A row that is neither gone nor stopped after a step was so before, or is
\* written by the step.
StatusKnown ==
    \A r \in Rows : rows'[r] \notin {"none", "stopped"} =>
        r \in fresh' \/ (rows[r] \notin {"none", "stopped"} /\ r \notin fresh)

LEMMA WrittenIsKnown ==
    ASSUME GroupsInv, NEW r \in Rows, NEW status, Written(r, status)
    PROVE  StatusKnown
BY DEF Written, StatusKnown, GroupsInv, GroupsTypeOK

LEMMA UnwrittenIsKnown ==
    ASSUME UNCHANGED <<rows, fresh>>
    PROVE  StatusKnown
BY DEF StatusKnown

LEMMA GroupStepsWriteKnown ==
    ASSUME GroupsInv, NEW c \in Calls, GroupStep(c)
    PROVE  StatusKnown
<1>1. CASE Create(c)
  <2>1. CASE \E s \in Slots : InsertRow(c, s)
    <3>1. PICK s \in Slots : InsertRow(c, s)
      BY <2>1
    <3>2. UNCHANGED fresh
      BY <3>1 DEF InsertRow, statusVars
    <3>3. CASE rows' = [rows EXCEPT ![<<gop[c].g, s>>] = "stopped"]
      BY <3>2, <3>3 DEF StatusKnown, GroupsInv, GroupsTypeOK
    <3>4. CASE UNCHANGED rows
      BY <3>2, <3>4, UnwrittenIsKnown
    <3> QED
      BY <3>1, <3>3, <3>4 DEF InsertRow
  <2>2. CASE ~\E s \in Slots : InsertRow(c, s)
    <3>1. UNCHANGED <<rows, fresh>>
      BY <1>1, <2>2 DEF Create, CheckName, InsertGroup, CreateAnswers, Fork, CreateAvd,
         RollBackAvd, storeVars, statusVars
    <3> QED
      BY <3>1, UnwrittenIsKnown
  <2> QED
    BY <2>1, <2>2
<1>2. CASE Rename(c)
  BY <1>2, UnwrittenIsKnown DEF Rename, RecheckName, UpdateName, storeVars, statusVars
<1>3. CASE ListRows(c) \/ \E s \in Slots : CleanRow(c, s)
  BY <1>3, UnwrittenIsKnown DEF ListRows, CleanRow, storeVars, statusVars
<1>4. CASE EraseGroup(c)
  <2>1. CASE UNCHANGED <<groups, rows, fresh>>
    BY <2>1, UnwrittenIsKnown
  <2>2. CASE /\ rows' = [r \in Rows |-> IF r[1] = gop[c].g THEN "none" ELSE rows[r]]
             /\ fresh' = {r \in fresh : r[1] # gop[c].g}
    BY <2>2 DEF StatusKnown
  <2> QED
    BY <1>4, <2>1, <2>2 DEF EraseGroup
<1>5. CASE StartGroup(c)
  <2>1. ASSUME NEW s \in Slots, MarkStarting(c, s)
        PROVE  StatusKnown
    <3>1. <<gop[c].g, s>> \in Rows
      BY <2>1, JobsTyped DEF MarkStarting, LocalsAt, Rows
    <3>2. CASE Written(<<gop[c].g, s>>, "starting")
      BY <3>1, <3>2, WrittenIsKnown
    <3>3. CASE UNCHANGED <<rows, fresh>>
      BY <3>3, UnwrittenIsKnown
    <3> QED
      BY <2>1, <3>2, <3>3 DEF MarkStarting
  <2>2. CASE FindGroup(c) \/ StartAnswers(c)
    BY <2>2, UnwrittenIsKnown DEF FindGroup, StartAnswers, storeVars, statusVars
  <2> QED
    BY <1>5, <2>1, <2>2 DEF StartGroup
<1>6. CASE Start(c)
  <2>1. ASSUME NEW s \in Slots, Written(<<gop[c].g, s>>, "running")
        PROVE  StatusKnown
    <3>1. <<gop[c].g, s>> \in Rows
      BY <1>6, JobsTyped DEF Start, LocalsAt, Rows
    <3> QED
      BY <2>1, <3>1, WrittenIsKnown
  <2> QED
    BY <1>6, <2>1, UnwrittenIsKnown DEF Start
<1>7. CASE EraseRow(c)
  <2>1. CASE UNCHANGED <<rows, fresh>>
    BY <2>1, UnwrittenIsKnown
  <2>2. ASSUME NEW s \in Slots, rows' = [rows EXCEPT ![<<gop[c].g, s>>] = "none"],
               fresh' = fresh \ {<<gop[c].g, s>>}
        PROVE  StatusKnown
    BY <2>2 DEF StatusKnown, GroupsInv, GroupsTypeOK
  <2> QED
    BY <1>7, <2>1, <2>2 DEF EraseRow
<1> QED
  BY <1>1, <1>2, <1>3, <1>4, <1>5, <1>6, <1>7 DEF GroupStep, Delete

\* The reset leaves no row of an earlier life.
LEMMA ResetWrites ==
    ASSUME GroupsInv, ResetAll
    PROVE  resetOk' = TRUE => \A r \in Rows : rows'[r] \in {"none", "stopped"}
BY DEF ResetAll, ResetRows

-----------------------------------------------------------------------------
(* Every step keeps the invariant.                                         *)

LEMMA InvStart == Init => Inv
<1> SUFFICES ASSUME Init PROVE Inv
  OBVIOUS
<1>1. ProcessInv
  BY DEF Init, ProcessInv, Phases, QuietInv, StatusOfThisLife, FilesInit
<1> QED
  BY <1>1, AccountsStart, GroupsStart, FilesStart DEF Init, Inv

LEMMA BeginKeeps ==
    ASSUME Inv, NEW c \in Calls, Begin(c)
    PROVE  Inv'
<1>1. /\ phase = "serving" /\ login[c].at = "idle" /\ gop[c].at = "idle" /\ fop[c].at = "idle"
      /\ begun' = begun + 1 /\ begun < MaxCalls /\ begun \in 0..MaxCalls /\ UNCHANGED procVars
  BY DEF Begin, Accepting, Busy, Inv, ProcessInv
<1>2. begun' \in 1..MaxCalls
  BY <1>1
<1>3. \/ BeginLogin(c) /\ UNCHANGED <<groupVars, fileVars>>
      \/ BeginGroupOp(c) /\ UNCHANGED <<accountVars, fileVars>>
      \/ BeginFileOp(c, begun') /\ UNCHANGED <<accountVars, groupVars>>
  BY DEF Begin
<1>4. AccountsInv' /\ GroupsInv' /\ FilesInv'
  <2>1. CASE BeginLogin(c) /\ UNCHANGED <<groupVars, fileVars>>
    BY <2>1, BeginLoginKeeps, GroupsStable, FilesStable DEF Inv
  <2>2. CASE BeginGroupOp(c) /\ UNCHANGED <<accountVars, fileVars>>
    BY <1>1, <2>2, AccountsStable, BeginGroupOpKeeps, FilesStable DEF Inv
  <2>3. CASE BeginFileOp(c, begun') /\ UNCHANGED <<accountVars, groupVars>>
    BY <1>1, <1>2, <2>3, AccountsStable, GroupsStable, BeginFileOpKeeps DEF Inv
  <2> QED
    BY <1>3, <2>1, <2>2, <2>3
<1>5. UNCHANGED <<rows, fresh>>
  BY <1>3 DEF groupVars, BeginGroupOp, BeginCreate, BeginRename, BeginDelete, BeginStartGroup,
     BeginStart, BeginDrop, storeVars, statusVars
<1>6. ProcessInv'
  BY <1>1, <1>2, <1>5 DEF Inv, ProcessInv, procVars, QuietInv, StatusOfThisLife
<1> QED
  BY <1>4, <1>6 DEF Inv

\* A step of the services that writes statuses of this life alone; in a quiet
\* shutdown it writes none and starts no call.
LEMMA ServicesKeepProcess ==
    ASSUME Inv, UNCHANGED <<procVars, begun>>, StatusKnown,
           quiet /\ phase \in {"reset", "closed"} =>
               UNCHANGED <<rows, login, gop, fop>> /\ (BgAlive => UNCHANGED boots)
    PROVE  ProcessInv'
<1>1. QuietInv'
  BY DEF Inv, ProcessInv, procVars, QuietInv, Settled, BgAlive, NoneBusy, Busy
<1>2. StatusOfThisLife'
  BY DEF Inv, ProcessInv, procVars, StatusOfThisLife, StatusKnown
<1> QED
  BY <1>1, <1>2 DEF Inv, ProcessInv, procVars

LEMMA StepKeeps ==
    ASSUME Inv, NEW c \in Calls, Step(c)
    PROVE  Inv'
<1>1. UNCHANGED <<procVars, begun>>
  BY DEF Step
<1>2. Busy(c)
  BY StepsAreBusy DEF Step, Inv, Busy
<1>3. ~(quiet /\ phase \in {"reset", "closed"})
  BY <1>2 DEF Inv, ProcessInv, QuietInv, Settled, NoneBusy
<1>4. CASE LoginStep(c) /\ UNCHANGED <<groupVars, fileVars>>
  <2>1. AccountsInv' /\ GroupsInv' /\ FilesInv'
    BY <1>4, FindUserKeeps, CreateUserKeeps, SignTokenKeeps, GroupsStable, FilesStable
       DEF Inv, LoginStep
  <2>2. StatusKnown
    BY <1>4, UnwrittenIsKnown DEF groupVars
  <2> QED
    BY <1>1, <1>3, <2>1, <2>2, ServicesKeepProcess DEF Inv
<1>5. CASE GroupStep(c) /\ UNCHANGED <<accountVars, fileVars>>
  <2>1. AccountsInv' /\ GroupsInv' /\ FilesInv'
    BY <1>5, AccountsStable, GroupStepKeeps, FilesStable DEF Inv
  <2>2. StatusKnown
    BY <1>5, GroupStepsWriteKnown DEF Inv
  <2> QED
    BY <1>1, <1>3, <2>1, <2>2, ServicesKeepProcess DEF Inv
<1>6. CASE FileStep(c) /\ UNCHANGED <<accountVars, groupVars>>
  <2>1. AccountsInv' /\ GroupsInv' /\ FilesInv'
    BY <1>6, AccountsStable, GroupsStable, FileStepKeeps DEF Inv
  <2>2. StatusKnown
    BY <1>6, UnwrittenIsKnown DEF groupVars
  <2> QED
    BY <1>1, <1>3, <2>1, <2>2, ServicesKeepProcess DEF Inv
<1> QED
  BY <1>4, <1>5, <1>6 DEF Step

LEMMA FanoutKeeps ==
    ASSUME Inv, NEW r \in Rows, Fanout(r)
    PROVE  Inv'
<1>1. Boot(r) /\ UNCHANGED <<procVars, begun, accountVars, fileVars>>
  BY DEF Fanout
<1>2. AccountsInv' /\ GroupsInv' /\ FilesInv'
  BY <1>1, AccountsStable, BootKeeps, FilesStable DEF Inv
<1>3. StatusKnown
  <2>1. ASSUME NEW status, Written(r, status)
        PROVE  StatusKnown
    BY <2>1, WrittenIsKnown DEF Inv
  <2> QED
    BY <1>1, <2>1, UnwrittenIsKnown DEF Boot
<1>4. quiet /\ phase \in {"reset", "closed"} => ~BgAlive
  BY <1>1 DEF Boot, Inv, ProcessInv, QuietInv, Settled
<1>5. ~BgAlive => UNCHANGED <<rows, login, gop, fop>>
  BY <1>1 DEF Boot, accountVars, fileVars
<1> QED
  BY <1>1, <1>2, <1>3, <1>4, <1>5, ServicesKeepProcess DEF Inv

LEMMA StartUpKeeps ==
    ASSUME Inv, StartUp
    PROVE  Inv'
<1>1. AccountsInv' /\ GroupsInv' /\ FilesInv'
  BY AccountsStable, ResetAllKeeps, FilesStable DEF Inv, StartUp
<1>2. ProcessInv'
  BY ResetWrites DEF Inv, ProcessInv, StartUp, ResetAll, Phases, QuietInv, StatusOfThisLife
<1> QED
  BY <1>1, <1>2 DEF Inv

LEMMA ShutDownResetKeeps ==
    ASSUME Inv, ShutDownReset
    PROVE  Inv'
<1>1. AccountsInv' /\ GroupsInv' /\ FilesInv'
  BY AccountsStable, ResetAllKeeps, FilesStable DEF Inv, ShutDownReset
<1>2. phase = "stopping" /\ phase' = "reset" /\ quiet' = Settled /\ resetOk' \in BOOLEAN
      /\ UNCHANGED <<service, bg, ends, begun>> /\ UNCHANGED <<login, gop, fop, boots>>
  BY DEF ShutDownReset, ResetAll, accountVars, fileVars
<1>3. resetOk' => \A r \in Rows : rows'[r] \in {"none", "stopped"}
  BY <1>2, ResetWrites DEF Inv, ShutDownReset
<1>4. Settled' <=> Settled
  BY <1>2 DEF Settled, BgAlive, NoneBusy, Busy
<1>5. QuietInv'
  BY <1>2, <1>3, <1>4 DEF QuietInv
<1>6. StatusOfThisLife'
  BY <1>2 DEF StatusOfThisLife
<1>7. quiet' \in BOOLEAN
  BY <1>2 DEF Settled
<1> QED
  BY <1>1, <1>2, <1>5, <1>6, <1>7 DEF Inv, ProcessInv, Phases

\* An end of Serve, and what it leads to, disturbs no table.
LEMMA SignalKeeps ==
    ASSUME Inv, Signal
    PROVE  Inv'
<1>1. AccountsInv' /\ GroupsInv' /\ FilesInv'
  BY AccountsStable, GroupsStable, FilesStable DEF Inv, Signal
<1>2. /\ bg' = FALSE /\ UNCHANGED <<service, ends, resetOk, quiet, begun>>
      /\ UNCHANGED <<rows, fresh, login, gop, fop>>
      /\ phase' = phase \/ (phase' = "stopping" /\ ends < MaxEnds)
  BY DEF Signal, accountVars, groupVars, fileVars
<1>3. Settled => Settled'
  BY <1>2 DEF Settled, BgAlive, NoneBusy, Busy
<1>4. QuietInv'
  BY <1>2, <1>3 DEF Inv, ProcessInv, QuietInv
<1>5. StatusOfThisLife'
  BY <1>2 DEF Inv, ProcessInv, StatusOfThisLife
<1> QED
  BY <1>1, <1>2, <1>4, <1>5 DEF Inv, ProcessInv, Phases

LEMMA AcceptFailsKeeps ==
    ASSUME Inv, AcceptFails
    PROVE  Inv'
<1>1. AccountsInv' /\ GroupsInv' /\ FilesInv'
  BY AccountsStable, GroupsStable, FilesStable DEF Inv, AcceptFails
<1>2. ProcessInv'
  BY DEF Inv, ProcessInv, AcceptFails, Phases, QuietInv, StatusOfThisLife
<1> QED
  BY <1>1, <1>2 DEF Inv

LEMMA CloseDBKeeps ==
    ASSUME Inv, CloseDB
    PROVE  Inv'
<1>1. AccountsInv' /\ GroupsInv' /\ FilesInv'
  BY AccountsStable, GroupsStable, FilesStable DEF Inv, CloseDB
<1>2. UNCHANGED <<bg, rows, boots, login, gop, fop>>
  BY DEF CloseDB, accountVars, groupVars, fileVars
<1>3. Settled' <=> Settled
  BY <1>2 DEF Settled, BgAlive, NoneBusy, Busy
<1>4. ProcessInv'
  BY <1>2, <1>3 DEF Inv, ProcessInv, CloseDB, Phases, QuietInv, StatusOfThisLife
<1> QED
  BY <1>1, <1>4 DEF Inv

LEMMA DiesKeeps ==
    ASSUME Inv, Dies, ends < MaxEnds
    PROVE  Inv'
<1>1. AccountsInv' /\ GroupsInv' /\ FilesInv'
  BY AccountsEnd, GroupsEnd, FilesEnd DEF Inv, Dies
<1>2. ProcessInv'
  BY DEF Inv, ProcessInv, Dies, Phases, QuietInv, StatusOfThisLife
<1> QED
  BY <1>1, <1>2 DEF Inv

LEMMA RestartKeeps ==
    ASSUME Inv, Restart
    PROVE  Inv'
<1>1. AccountsInv' /\ GroupsInv' /\ FilesInv'
  BY AccountsStable, GroupsStable, FilesStable DEF Inv, Restart
<1>2. ProcessInv'
  BY DEF Inv, ProcessInv, Restart, Phases, QuietInv, StatusOfThisLife
<1> QED
  BY <1>1, <1>2 DEF Inv

LEMMA InvStep == Inv /\ [Next]_vars => Inv'
<1> SUFFICES ASSUME Inv, [Next]_vars PROVE Inv'
  OBVIOUS
<1>1. ASSUME NEW c \in Calls, Begin(c) \/ Step(c)
      PROVE  Inv'
  BY <1>1, BeginKeeps, StepKeeps
<1>2. ASSUME NEW r \in Rows, Fanout(r)
      PROVE  Inv'
  BY <1>2, FanoutKeeps
<1>3. CASE StartUp \/ Signal \/ AcceptFails \/ ShutDownReset \/ CloseDB \/ Restart
  BY <1>3, StartUpKeeps, SignalKeeps, AcceptFailsKeeps, ShutDownResetKeeps, CloseDBKeeps,
     RestartKeeps
<1>4. CASE Exit \/ Crash
  <2>1. Dies /\ ends < MaxEnds
    BY <1>4 DEF Exit, Crash, Inv, ProcessInv
  <2> QED
    BY <2>1, DiesKeeps
<1>5. CASE UNCHANGED vars
  <2>1. AccountsInv' /\ GroupsInv' /\ FilesInv'
    BY <1>5, AccountsStable, GroupsStable, FilesStable DEF Inv, vars
  <2>2. StatusKnown
    BY <1>5, UnwrittenIsKnown DEF vars, groupVars
  <2>3. UNCHANGED <<procVars, begun>> /\ UNCHANGED <<rows, login, gop, fop, boots>>
    BY <1>5 DEF vars, accountVars, groupVars, fileVars
  <2> QED
    BY <2>1, <2>2, <2>3, ServicesKeepProcess DEF Inv
<1> QED
  BY <1>1, <1>2, <1>3, <1>4, <1>5 DEF Next

LEMMA InvHolds == Spec => []Inv
BY InvStart, InvStep, PTL DEF Spec

-----------------------------------------------------------------------------
(* The theorems.                                                           *)

\* Every variable of the server has its type, whatever requests run and
\* wherever the process ends.
THEOREM TypeCorrect == Spec => []TypeOK
<1>1. Inv => TypeOK
  BY DEF Inv, ProcessInv, AccountsInv, GroupsInv, FilesInv, TypeOK
<1> QED
  BY <1>1, InvHolds, PTL

\* All who log in under one name hold tokens of one user, however their first
\* logins race (session_service.go:50).
THEOREM OneUser == Spec => []OneUserPerName
<1>1. Inv => OneUserPerName
  BY AccountsSafe DEF Inv
<1> QED
  BY <1>1, InvHolds, PTL

\* A token leads to the user it was handed to, over all restarts.
THEOREM TokensKeepTheirUser == Spec => []TokenNamesItsUser
<1>1. Inv => TokenNamesItsUser
  BY DEF Inv, AccountsInv
<1> QED
  BY <1>1, InvHolds, PTL

\* No two groups have one name, however creations and renames race between their
\* check and their write (group_service.go:113, 177).
THEOREM GroupNamesUnique == Spec => []NamesUnique
<1>1. Inv => NamesUnique
  BY DEF Inv, GroupsInv
<1> QED
  BY <1>1, InvHolds, PTL

\* No row of instances is without its group: the transaction of
\* GroupRepoGorm.Delete, with every creation and deletion around it.
THEOREM GroupsOfRowsExist == Spec => []GroupOfRowExists
<1>1. Inv => GroupOfRowExists
  BY DEF Inv, GroupsInv
<1> QED
  BY <1>1, InvHolds, PTL

\* When nobody makes or deletes a group, it has an AVD for each of its rows and
\* no other one (CreateForGroup's roll back), whatever languages it was asked for:
\* but for the groups whose stores one of the steps named there left apart.
THEOREM AvdsAndRowsAgree == Spec => []AvdsMatchRows
<1>1. Inv => AvdsMatchRows
  BY GroupsSafe DEF Inv
<1> QED
  BY <1>1, InvHolds, PTL

\* A creation that waits for the semaphore waits for one that is at work
\* (group_service.go:142).
THEOREM NoPlaceIsLost == Spec => []SemaphoreServes
<1>1. Inv => SemaphoreServes
  BY GroupsSafe DEF Inv
<1> QED
  BY <1>1, InvHolds, PTL

\* The one row of a name has the checksum of the file, whatever uploads of the
\* name overlap, fail or die and are made good.
THEOREM ArtifactsMatchFiles == Spec => []ArtifactMatchesFile
<1>1. Inv => ArtifactMatchesFile
  BY DEF Inv, FilesInv
<1> QED
  BY <1>1, InvHolds, PTL

\* A device gets what its request was about, unless another request was in the
\* file.
THEOREM DeliveriesAreOwn == Spec => []DeliversItsOwn
<1>1. Inv => DeliversItsOwn
  BY DEF Inv, FilesInv
<1> QED
  BY <1>1, InvHolds, PTL

\* No file stays in the staging directory without a push that will remove it,
\* but for those that could not be received.
THEOREM StagingEmpties == Spec => []StagingIsEmptied
<1>1. Inv => StagingIsEmptied
  BY DEF Inv, FilesInv
<1> QED
  BY <1>1, InvHolds, PTL

\* What the rows say of emulators was written in this life of the process, and
\* a shutdown without requests in flight leaves every row stopped.
THEOREM StatusesAreOfThisLife == Spec => []StatusOfThisLife
<1>1. Inv => StatusOfThisLife
  BY DEF Inv, ProcessInv
<1> QED
  BY <1>1, InvHolds, PTL

=============================================================================
