------------------------------ MODULE Accounts ------------------------------
(***************************************************************************)
(* Users and their tokens: SessionService                                  *)
(* (internal/application/user/session_service.go) over the table of users  *)
(* (infrastructure/repository/user_repo_gorm.go).  The first login of a    *)
(* name makes the user, find and create being two statements.              *)
(***************************************************************************)
EXTENDS Naturals, Process

CONSTANTS Usernames, MaxUsers, NoName

ASSUME AccountsAssumption == MaxUsers \in Nat /\ NoName \notin Usernames

VARIABLES
    users,      \* the name of each user's row, NoName where there is none
    tokens,     \* history: the tokens that were handed out, and to whom
    login       \* where each call of Login is

accountVars == <<users, tokens, login>>

UserIds == 1..MaxUsers
Login == [at : {"idle", "find", "create", "sign"},
          name : Usernames \cup {NoName}, id : 0..MaxUsers]
NoLogin == [at |-> "idle", name |-> NoName, id |-> 0]

AccountsTypeOK ==
    /\ users \in [UserIds -> Usernames \cup {NoName}]
    /\ tokens \subseteq [id : 0..MaxUsers, name : Usernames]
    /\ login \in [Calls -> Login]

AccountsInit ==
    /\ users = [u \in UserIds |-> NoName] /\ tokens = {}
    /\ login = [c \in Calls |-> NoLogin]

LoginEnds(c) == login' = [login EXCEPT ![c] = NoLogin]

\* SessionHandler.Login: the name is not blank.
BeginLogin(c) ==
    /\ \E n \in Usernames :
         login' = [login EXCEPT ![c] = [at |-> "find", name |-> n, id |-> 0]]
    /\ UNCHANGED <<users, tokens>>

\* FindByUsername
FindUser(c) ==
    /\ login[c].at = "find"
    /\ \/ LoginEnds(c)
       \/ /\ DbOpen
          /\ \/ \E u \in UserIds :
                  /\ users[u] = login[c].name
                  /\ login' = [login EXCEPT ![c] = [@ EXCEPT !.at = "sign", !.id = u]]
             \/ /\ \A u \in UserIds : users[u] # login[c].name
                /\ login' = [login EXCEPT ![c].at = "create"]
    /\ UNCHANGED <<users, tokens>>

\* The next id: rows of users are never deleted.
NextUser(u) == users[u] = NoName /\ \A v \in UserIds : v < u => users[v] # NoName

\* Slip: no index.
NameFreeAnyway(n) == TRUE

\* The unique index on Username.
NameFree(n) == \A u \in UserIds : users[u] # n

Inserted(c, u) ==
    /\ DbOpen /\ NameFree(login[c].name) /\ NextUser(u)
    /\ users' = [users EXCEPT ![u] = login[c].name]
    /\ login' = [login EXCEPT ![c] = [@ EXCEPT !.at = "sign", !.id = u]]

\* Create: refused by the index when another first login was faster, which the
\* client sees as a failure of the server.
CreateUser(c) ==
    /\ login[c].at = "create"
    /\ \/ \E u \in UserIds : Inserted(c, u)
       \/ LoginEnds(c) /\ UNCHANGED users
    /\ UNCHANGED tokens

\* signToken: the token carries the id alone.
SignToken(c) ==
    /\ login[c].at = "sign"
    /\ tokens' = tokens \cup {[id |-> login[c].id, name |-> login[c].name]}
    /\ LoginEnds(c)
    /\ UNCHANGED users

LoginStep(c) == FindUser(c) \/ CreateUser(c) \/ SignToken(c)

\* GetProfile of the id in a token: the name in its row.
GetProfile(id) == IF id \in UserIds THEN users[id] ELSE NoName

\* The process ends under the calls.
AccountsDie == login' = [c \in Calls |-> NoLogin] /\ UNCHANGED <<users, tokens>>

-----------------------------------------------------------------------------

\* A token leads, over whatever restarts, to the user it was handed to.  (One
\* whose id has no row is refused for ever.)
TokenNamesItsUser ==
    \A t \in tokens : GetProfile(t.id) = t.name

\* All who log in under one name, at the same time or not, are one user, whose
\* instances and groups they share (session_service.go:50).
OneUserPerName ==
    \A s, t \in tokens : s.name = t.name => s.id = t.id

=============================================================================
