------------------------------ MODULE ApiTokens ------------------------------
(***************************************************************************)
(* API tokens: how a request that carries one is let through, and the      *)
(* routes that create, rename and delete tokens.                           *)
(*                                                                         *)
(* The guard reads the token with its user, the policies are decided on    *)
(* what was read, and the handler reads and writes again.  Tokens, users   *)
(* and permissions change in between.  Each step of a request is one query *)
(* with what follows it.  What a JWT brings is left to AuthSessions: here  *)
(* it only names a user.                                                   *)
(***************************************************************************)
EXTENDS Naturals, FiniteSets

CONSTANTS
    Users,         \* users (model values)
    Requests,      \* requests served at the same time (model values)
    MaxTokens,     \* bound: tokens ever created
    MaxRequests,   \* bound: requests that come
    MaxChanges     \* bound: deletions of users and changes of permissions

VARIABLES
    tokens,    \* the table: id and owner
    issued,    \* tokens created so far
    users,     \* per user: soft-deleted or not, and the permissions
    request,   \* the requests under way
    came,      \* requests so far
    changes    \* deletions of users and changes of permissions so far

vars == <<tokens, issued, users, request, came, changes>>

Ids == 1..MaxTokens
Permissions == {"MANAGE_MY", "MANAGE"}
Mine == {"createMine", "updateMine", "deleteMine"}
Ops == Mine \cup {"updateAny", "deleteAny"}
Idle == [step |-> "idle", op |-> "createMine", token |-> 0, target |-> 0, user |-> {},
         owner |-> {}, since |-> {}]

Token == [id : Ids, user : Users]
User == [deleted : BOOLEAN, permissions : SUBSET Permissions]
Steps == {"idle", "came", "find", "write", "served", "rejected"}
Request == [step : Steps, op : Ops, token : {0} \cup Ids, target : {0} \cup Ids,
            user : SUBSET Users, owner : SUBSET Users,
            since : SUBSET [tokens : SUBSET Token, users : [Users -> User]]]

TypeOK ==
    /\ tokens \subseteq Token /\ users \in [Users -> User]
    /\ issued \in 0..MaxTokens /\ came \in 0..MaxRequests /\ changes \in 0..MaxChanges
    /\ request \in [Requests -> Request]

-----------------------------------------------------------------------------
\* What was stored while a request was served
Now == [tokens |-> tokens, users |-> users]
Witnessed(q, now) ==
    [r \in Requests |-> IF q[r].step \in {"came", "find", "write"}
                        THEN [q[r] EXCEPT !.since = @ \cup {now}] ELSE q[r]]
Witness(q) == request' = Witnessed(q, [tokens |-> tokens', users |-> users'])

Reject(r) == request' = [request EXCEPT ![r] = [Idle EXCEPT !.step = "rejected"]]

\* With a token in the header the guard of the tokens runs in place of the one
\* of the JWT; without one the request is that of a signed-in user
CanActivate(r) ==
    /\ request[r].step = "idle" /\ came < MaxRequests /\ came' = came + 1
    /\ \E op \in Ops, target \in 0..issued :
        /\ target = 0 <=> op = "createMine"
        /\ \/ \E token \in 1..issued :
                request' = [request EXCEPT ![r] = [Idle EXCEPT !.step = "came", !.op = op,
                                !.token = token, !.target = target, !.since = {Now}]]
           \/ \E u \in Users :
                /\ ~users[u].deleted
                /\ request' = [request EXCEPT ![r] = [Idle EXCEPT !.step = "came", !.op = op,
                                !.user = {u}, !.target = target, !.since = {Now}]]
    /\ UNCHANGED <<tokens, issued, users, changes>>

\* Mutant of Read: the relation is read with the users that were deleted
ReadDeletedToo(t) == TRUE

\* The relation leaves out a deleted user: the strategy fails on what is not there
Read(t) == ~users[t.user].deleted

Needed(op) == IF op \in Mine THEN "MANAGE_MY" ELSE "MANAGE"

\* A user without the permission is stopped by the policies guard, which decides
\* on the permissions read together with the token
Validate(r) ==
    /\ request[r].step = "came"
    /\ LET found == {t \in tokens : t.id = request[r].token /\ Read(t)}
           user == IF request[r].token = 0 THEN request[r].user ELSE {t.user : t \in found}
       IN  IF \E u \in user : Needed(request[r].op) \in users[u].permissions
           THEN request' = [request EXCEPT ![r].step = "find", ![r].user = user]
           ELSE Reject(r)
    /\ UNCHANGED <<tokens, issued, users, came, changes>>

-----------------------------------------------------------------------------
(* The routes *)

\* The hash of the new token is awaited before the row is written
CreateOne(r) ==
    /\ request[r].step = "find" /\ request[r].op = "createMine" /\ issued < MaxTokens
    /\ issued' = issued + 1
    /\ tokens' = tokens \cup {[id |-> issued + 1, user |-> u] : u \in request[r].user}
    /\ UNCHANGED <<users, came, changes>>
    /\ Witness([request EXCEPT ![r].step = "served", ![r].owner = request[r].user])

\* Mutant of Filter: the route of the own tokens finds those of others, too
FilterNothing(r, t) == t.id = request[r].target

Filter(r, t) ==
    /\ t.id = request[r].target
    /\ request[r].op \in Mine => t.user \in request[r].user

Find(r) ==
    /\ request[r].step = "find" /\ request[r].op # "createMine"
    /\ LET found == {t \in tokens : Filter(r, t)} IN
        IF found = {} THEN Reject(r)
        ELSE request' = [request EXCEPT ![r].step = "write", ![r].owner = {t.user : t \in found}]
    /\ UNCHANGED <<tokens, issued, users, came, changes>>

DeleteOne(r) ==
    /\ request[r].step = "write" /\ request[r].op \in {"deleteMine", "deleteAny"}
    /\ tokens' = {t \in tokens : t.id # request[r].target}
    /\ UNCHANGED <<issued, users, came, changes>>
    /\ Witness([request EXCEPT ![r].step = "served"])

\* Only the name changes.  The row that was found has no hash: when it is gone,
\* saving it again fails
UpdateOne(r) ==
    /\ request[r].step = "write" /\ request[r].op \in {"updateMine", "updateAny"}
    /\ IF \E t \in tokens : t.id = request[r].target
       THEN request' = [request EXCEPT ![r].step = "served"]
       ELSE Reject(r)
    /\ UNCHANGED <<tokens, issued, users, came, changes>>

Done(r) ==
    /\ request[r].step \in {"served", "rejected"}
    /\ request' = [request EXCEPT ![r] = Idle]
    /\ UNCHANGED <<tokens, issued, users, came, changes>>

ChangeUser(u) ==
    /\ changes < MaxChanges /\ changes' = changes + 1
    /\ ~users[u].deleted
    /\ \/ users' = [users EXCEPT ![u].deleted = TRUE]
       \/ \E p \in SUBSET Permissions : users' = [users EXCEPT ![u].permissions = p]
    /\ UNCHANGED tokens
    /\ Witness(request)
    /\ UNCHANGED <<issued, came>>

-----------------------------------------------------------------------------
Init ==
    /\ tokens \in {{}} \cup {{[id |-> 1, user |-> u]} : u \in Users}
    /\ issued = Cardinality(tokens)
    /\ users \in [Users -> [deleted : {FALSE}, permissions : {{"MANAGE_MY"}, Permissions}]]
    /\ request = [r \in Requests |-> Idle]
    /\ came = 0 /\ changes = 0

Next ==
    \/ \E r \in Requests :
        \/ CanActivate(r) \/ Validate(r) \/ CreateOne(r) \/ Find(r)
        \/ DeleteOne(r) \/ UpdateOne(r) \/ Done(r)
    \/ \E u \in Users : ChangeUser(u)

-----------------------------------------------------------------------------
(* Properties *)

TokensAreUnique ==
    \A t \in tokens : t.id <= issued /\ \A o \in tokens : o.id = t.id => o = t

\* At one moment while the request was served its token was there, and the user
\* of the token was not deleted and had the permission, all three at once
AllowedOnce(q) ==
    \E s \in q.since : \E t \in s.tokens :
        /\ t.id = q.token /\ q.user = {t.user}
        /\ ~s.users[t.user].deleted
        /\ Needed(q.op) \in s.users[t.user].permissions

\* What holds of a request on its way: it has seen what is stored now, was
\* allowed when it was judged, and has found tokens of its one user
RightSoFar(q) ==
    /\ q.step \in {"came", "find", "write"} => Now \in q.since
    /\ q.step \in {"find", "write", "served"} /\ q.token # 0 => AllowedOnce(q)
    /\ q.step \in {"write", "served"} /\ q.op \in Mine =>
         q.owner = q.user
    /\ \A u, o \in q.user : u = o

\* A request that carried a token and was served was allowed while it was served
ServedWasAllowed ==
    \A r \in Requests : request[r].step = "served" /\ request[r].token # 0 =>
        AllowedOnce(request[r])

\* A request for the own tokens wrote a token of the user it was made for
OwnTokensOnly ==
    \A r \in Requests :
        request[r].step = "served" /\ request[r].op \in Mine =>
            request[r].owner = request[r].user
=============================================================================
