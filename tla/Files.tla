------------------------------- MODULE Files --------------------------------
(***************************************************************************)
(* Files of one user: uploaded APKs (internal/application/artifact/        *)
(* artifact_service.go over artifact_repo_gorm.go), their installation     *)
(* (application/app/app_service.go) and files pushed to a device           *)
(* (application/file/file_service.go).  Each is put on the disk under the  *)
(* name it came with, in place, and read there again.                      *)
(*                                                                         *)
(* A content is the number of the request that brought it.                 *)
(***************************************************************************)
EXTENDS Naturals, Sequences, FiniteSets, Process

CONSTANTS FileNames, NoFileName, Devices, MaxCalls

ASSUME FilesAssumption ==
    MaxCalls \in Nat /\ NoFileName \notin FileNames /\ Devices # {}

VARIABLES
    disk,       \* content of each file in the user's directory of artifacts
    artifacts,  \* the table, by id: name and checksum
    staged,     \* content of each file in the staging directory
    fop,        \* where each call is
    spoilt,     \* history: names whose file and row may disagree
    left        \* history: names that a push left in the staging directory

fileVars == <<disk, artifacts, staged, fop, spoilt, left>>

NoFile   == 0
Partial  == MaxCalls + 1    \* a content that nobody sent
Contents == 0..Partial

FileOp == [at : {"idle", "create", "copy", "find", "save", "lookup", "install",
                 "locale", "stage", "receive", "lock", "push", "remove"},
           name : FileNames \cup {NoFileName}, dev : Devices, n : Contents,
           id : Nat, got : Contents, raced : BOOLEAN]
\* In the file of an upload, in the staged file of a push.
Writing == {"copy", "find", "save"}
Staging == {"receive", "lock", "push", "remove"}

NoFileOp == [at |-> "idle", name |-> NoFileName, dev |-> CHOOSE d \in Devices : TRUE,
             n |-> 0, id |-> 0, got |-> NoFile, raced |-> FALSE]

FilesTypeOK ==
    /\ disk \in [FileNames -> Contents] /\ staged \in [FileNames -> Contents]
    /\ artifacts \in Seq([name : FileNames, sum : 1..MaxCalls])
    /\ fop \in [Calls -> FileOp]
    /\ spoilt \subseteq FileNames /\ left \subseteq FileNames

FilesInit ==
    /\ disk = [a \in FileNames |-> NoFile] /\ staged = [a \in FileNames |-> NoFile]
    /\ artifacts = <<>>
    /\ fop = [c \in Calls |-> NoFileOp]
    /\ spoilt = {} /\ left = {}

FileOpEnds(c) == fop' = [fop EXCEPT ![c] = NoFileOp]

\* The calls other than c that are in one of these places with this name.
Others(c, ats, a) == {d \in Calls \ {c} : fop[d].at \in ats /\ fop[d].name = a}

\* c goes to a place, and it and these others are in each other's way.
GotoRacing(c, at, others) ==
    fop' = [d \in Calls |->
              IF d = c THEN [fop[d] EXCEPT !.at = at, !.raced = @ \/ others # {}]
              ELSE IF d \in others THEN [fop[d] EXCEPT !.raced = TRUE] ELSE fop[d]]

\* What a call's copy leaves in its file: its own content, if it was alone;
\* otherwise what the writes and removals of others make of it.
Copied(c) == IF fop[c].raced THEN {fop[c].n, Partial, NoFile} ELSE {fop[c].n}

-----------------------------------------------------------------------------
(* UploadAPK.                                                              *)

\* Request n: the name ends in .apk and there is a body.
BeginUpload(c, n) ==
    /\ \E a \in FileNames :
         fop' = [fop EXCEPT ![c] = [NoFileOp EXCEPT !.at = "create", !.name = a, !.n = n]]
    /\ UNCHANGED <<disk, artifacts, staged, spoilt, left>>

\* os.Create, which empties a file that is there: in front of uploads of the
\* name that are in flight and of installations that are to read it.
CreateFile(c) ==
    LET a == fop[c].name
    IN  /\ fop[c].at = "create"
        /\ \/ /\ disk' = [disk EXCEPT ![a] = Partial]
              /\ GotoRacing(c, "copy", Others(c, Writing \cup {"install"}, a))
           \/ FileOpEnds(c) /\ UNCHANGED disk
        /\ UNCHANGED <<artifacts, staged, spoilt, left>>

\* io.Copy with the checksum, and the parser: what is received, nothing, or an
\* error, which leaves the file as it is.
CopyFile(c) ==
    LET a == fop[c].name
    IN  /\ fop[c].at = "copy"
        /\ \/ /\ \E x \in Copied(c) : disk' = [disk EXCEPT ![a] = x]
              /\ fop' = [fop EXCEPT ![c].at = "find"]
              /\ UNCHANGED spoilt
           \/ /\ disk' = [disk EXCEPT ![a] = NoFile]
              /\ FileOpEnds(c) /\ spoilt' = spoilt \cup {a}
           \/ FileOpEnds(c) /\ spoilt' = spoilt \cup {a} /\ UNCHANGED disk
        /\ UNCHANGED <<artifacts, staged, left>>

RowsOf(a) == {i \in DOMAIN artifacts : artifacts[i].name = a}

\* UpsertByOriginName: the row of the least id.
FindArtifact(c) ==
    LET a == fop[c].name
    IN  /\ fop[c].at = "find"
        /\ \/ /\ DbOpen
              /\ \E i \in RowsOf(a) \cup {0} :
                   /\ i = 0 => RowsOf(a) = {}
                   /\ \A j \in RowsOf(a) : i <= j
                   /\ fop' = [fop EXCEPT ![c] = [@ EXCEPT !.at = "save", !.id = i]]
              /\ UNCHANGED spoilt
           \/ FileOpEnds(c) /\ spoilt' = spoilt \cup {a}
        /\ UNCHANGED <<disk, artifacts, staged, left>>

\* Slip: a row that was found is left as it is.
SavedIfNew(c) ==
    artifacts' = IF fop[c].id = 0
                 THEN Append(artifacts, [name |-> fop[c].name, sum |-> fop[c].n])
                 ELSE artifacts

\* The row is created or updated.
Saved(c) ==
    artifacts' = IF fop[c].id = 0
                 THEN Append(artifacts, [name |-> fop[c].name, sum |-> fop[c].n])
                 ELSE [artifacts EXCEPT ![fop[c].id].sum = fop[c].n]

\* An upload that was alone makes good what an earlier one spoilt, but for a
\* second row of the name, which stays.
SaveArtifact(c) ==
    LET a == fop[c].name
    IN  /\ fop[c].at = "save"
        /\ \/ /\ DbOpen /\ Saved(c)
              /\ spoilt' = IF fop[c].raced THEN spoilt \cup {a}
                           ELSE IF Cardinality(RowsOf(a)) > 1 THEN spoilt
                           ELSE spoilt \ {a}
           \/ spoilt' = spoilt \cup {a} /\ UNCHANGED artifacts
        /\ FileOpEnds(c)
        /\ UNCHANGED <<disk, staged, left>>

Upload(c) == CreateFile(c) \/ CopyFile(c) \/ FindArtifact(c) \/ SaveArtifact(c)

-----------------------------------------------------------------------------
(* Install.                                                                *)

BeginInstall(c) ==
    /\ \E i \in DOMAIN artifacts :
         fop' = [fop EXCEPT ![c] = [NoFileOp EXCEPT !.at = "lookup", !.id = i]]
    /\ UNCHANGED <<disk, artifacts, staged, spoilt, left>>

\* The row of the artifact, behind that of the instance.
LookupArtifact(c) ==
    /\ fop[c].at = "lookup"
    /\ \/ /\ DbOpen
          /\ LET row == artifacts[fop[c].id]
                 raced == row.name \in spoilt \/ Others(c, Writing, row.name) # {}
             IN  fop' = [fop EXCEPT ![c] = [@ EXCEPT !.at = "install", !.name = row.name,
                                                     !.n = row.sum, !.raced = raced]]
       \/ FileOpEnds(c)
    /\ UNCHANGED <<disk, artifacts, staged, spoilt, left>>

\* adb install of the row's path.
InstallFile(c) ==
    /\ fop[c].at = "install"
    /\ \/ /\ disk[fop[c].name] # NoFile
          /\ fop' = [fop EXCEPT ![c] = [@ EXCEPT !.at = "locale", !.got = disk[fop[c].name]]]
       \/ FileOpEnds(c)
    /\ UNCHANGED <<disk, artifacts, staged, spoilt, left>>

\* SetAppLocale, whose failure is logged.
SetLocale(c) ==
    /\ fop[c].at = "locale" /\ FileOpEnds(c)
    /\ UNCHANGED <<disk, artifacts, staged, spoilt, left>>

Install(c) == LookupArtifact(c) \/ InstallFile(c) \/ SetLocale(c)

-----------------------------------------------------------------------------
(* Push.                                                                   *)

\* The remote path is allowed and the instance has a serial.
BeginPush(c, n) ==
    /\ \E a \in FileNames, d \in Devices :
         fop' = [fop EXCEPT ![c] = [NoFileOp EXCEPT !.at = "stage", !.name = a,
                                                    !.dev = d, !.n = n]]
    /\ UNCHANGED <<disk, artifacts, staged, spoilt, left>>

\* os.Create in the directory that all users and instances share.
Stage(c) ==
    LET a == fop[c].name
    IN  /\ fop[c].at = "stage"
        /\ \/ /\ staged' = [staged EXCEPT ![a] = Partial]
              /\ GotoRacing(c, "receive", Others(c, Staging, a))
           \/ FileOpEnds(c) /\ UNCHANGED staged
        /\ UNCHANGED <<disk, artifacts, spoilt, left>>

\* Slip: the error of io.Copy is not looked at.
ReceiveAnything(c) ==
    /\ fop[c].at = "receive"
    /\ \E x \in Copied(c) \cup {Partial} : staged' = [staged EXCEPT ![fop[c].name] = x]
    /\ fop' = [fop EXCEPT ![c].at = "lock"]
    /\ UNCHANGED <<disk, artifacts, spoilt, left>>

\* io.Copy; an error returns in front of the deferred removal.
Receive(c) ==
    /\ fop[c].at = "receive"
    /\ \/ /\ \E x \in Copied(c) : staged' = [staged EXCEPT ![fop[c].name] = x]
          /\ fop' = [fop EXCEPT ![c].at = "lock"]
          /\ UNCHANGED left
       \/ FileOpEnds(c) /\ left' = left \cup {fop[c].name} /\ UNCHANGED staged
    /\ UNCHANGED <<disk, artifacts, spoilt>>

LockDevice(c) ==
    /\ fop[c].at = "lock"
    /\ \A d \in Calls : ~(fop[d].at = "push" /\ fop[d].dev = fop[c].dev)
    /\ fop' = [fop EXCEPT ![c].at = "push"]
    /\ UNCHANGED <<disk, artifacts, staged, spoilt, left>>

\* adb push, which may fail and must without a file; the unlock.
PushFile(c) ==
    /\ fop[c].at = "push"
    /\ \E x \in {staged[fop[c].name], NoFile} :
         fop' = [fop EXCEPT ![c] = [@ EXCEPT !.at = "remove", !.got = x]]
    /\ UNCHANGED <<disk, artifacts, staged, spoilt, left>>

\* Slip: the file stays when the push has failed.
RemoveStagedIfPushed(c) ==
    LET a == fop[c].name
    IN  /\ fop[c].at = "remove"
        /\ staged' = [staged EXCEPT ![a] = IF fop[c].got = NoFile THEN @ ELSE NoFile]
        /\ left' = left \ {a}
        /\ FileOpEnds(c)
        /\ UNCHANGED <<disk, artifacts, spoilt>>

\* The deferred os.Remove.
RemoveStaged(c) ==
    /\ fop[c].at = "remove"
    /\ staged' = [staged EXCEPT ![fop[c].name] = NoFile]
    /\ left' = left \ {fop[c].name}
    /\ FileOpEnds(c)
    /\ UNCHANGED <<disk, artifacts, spoilt>>

Push(c) == Stage(c) \/ Receive(c) \/ LockDevice(c) \/ PushFile(c) \/ RemoveStaged(c)

-----------------------------------------------------------------------------

BeginFileOp(c, n) == BeginUpload(c, n) \/ BeginInstall(c) \/ BeginPush(c, n)
FileStep(c) == Upload(c) \/ Install(c) \/ Push(c)

\* The process ends under the calls.
FilesDie ==
    /\ fop' = [c \in Calls |-> NoFileOp]
    /\ spoilt' = spoilt \cup {fop[c].name : c \in
                    {d \in Calls : fop[d].at \in Writing}}
    /\ left' = left \cup {fop[c].name : c \in
                    {d \in Calls : fop[d].at \in Staging}}
    /\ UNCHANGED <<disk, artifacts, staged>>

-----------------------------------------------------------------------------

\* A name has one row, and the file is the one whose checksum the row has: an
\* upload under a name that exists replaces both.  Unless an upload of the name
\* failed behind its os.Create, overlapped another, or died with the process,
\* and none has gone well since.
ArtifactMatchesFile ==
    \A a \in FileNames :
        a \notin spoilt /\ (\A c \in Calls : fop[c].at \in Writing => fop[c].name # a)
        => \A i, j \in RowsOf(a) : i = j /\ disk[a] = artifacts[i].sum

\* A device gets the file of its own push and the artifact that was asked for,
\* unless another request used the file meanwhile.
DeliversItsOwn ==
    \A c \in Calls :
        fop[c].at \in {"locale", "remove"} /\ fop[c].got # NoFile /\ ~fop[c].raced
            => fop[c].got = fop[c].n

\* A staged file belongs to a push in flight, whatever pushes of one name do to
\* each other, or to one that could not receive it.
StagingIsEmptied ==
    \A a \in FileNames : staged[a] # NoFile /\ a \notin left =>
        \E c \in Calls : fop[c].name = a /\ fop[c].at \in Staging

=============================================================================
