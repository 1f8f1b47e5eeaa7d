---------------------- MODULE UserAdministrationProofs ----------------------
(***************************************************************************)
(* What UserAdministration keeps for any users, requests and processes.    *)
(***************************************************************************)
EXTENDS UserAdministration, TLAPS

(* A slot without a request. *)
LEMMA IdleIsTyped == Idle \in Request /\ Idle.pc = "idle"
  BY ConstantsAssumption DEF Idle, Request

(* A commit, whoever it is of, keeps the types. *)
LEMMA CommitTypes ==
  ASSUME TypeOK, NEW r \in Requests, NEW t \in Users, NEW row \in Row, NEW promotes \in BOOLEAN,
         Commit(r, t, row, promotes)
  PROVE  TypeOK'
<1> USE DEF TypeOK, Commit
<1>2. req' \in [Requests -> Request]
  <2> SUFFICES ASSUME NEW q \in Requests
               PROVE  (IF q = r THEN Idle
                       ELSE IF req[q].pc = "idle" THEN Idle
                       ELSE [req[q] EXCEPT !.overtaken = TRUE]) \in Request
    OBVIOUS
  <2> QED
    BY IdleIsTyped DEF Request
<1>3. users' \in [Users -> Row \cup {NoRow}]
  OBVIOUS
<1>4. raced' \in BOOLEAN /\ appointed' \subseteq Users /\ commits' \in Nat
  <2>1. req[r].overtaken \in BOOLEAN
    BY DEF Request
  <2> QED
    BY <2>1
<1> QED
  BY <1>2, <1>3, <1>4

(* The rows the three routes write.                                        *)
LEMMA RowsWritten ==
  ASSUME NEW body \in Body
  PROVE  /\ NewRow(body) \in Row
         /\ \A found \in Row : [found EXCEPT !.role = Given(body.role, @),
                                             !.permissions = Given(body.permissions, @)] \in Row
         /\ \A row \in Row : [row EXCEPT !.deleted = TRUE] \in Row
  BY DEF NewRow, Given, Row, Body, Roles

(* Every state keeps its types; the row an update has found is a row.      *)
FoundRows == \A r \in Requests : req[r].pc = "update" => req[r].found \in Row

Typed == TypeOK /\ FoundRows

LEMMA TypedInit == Init => Typed
<1> SUFFICES ASSUME Init
             PROVE  Typed
  OBVIOUS
<1>1. req \in [Requests -> Request] /\ \A r \in Requests : req[r].pc = "idle"
  BY IdleIsTyped DEF Init
<1> QED
  BY <1>1 DEF Init, Typed, TypeOK, FoundRows

LEMMA TypedStep == Typed /\ [Next]_vars => Typed'
<1> SUFFICES ASSUME Typed, [Next]_vars
             PROVE  Typed'
  OBVIOUS
<1> USE DEF Typed
<1>1. ASSUME NEW i \in Instances, Start(i)
      PROVE  Typed'
  <2> USE DEF TypeOK, FoundRows, history
  <2>1. CASE OnModuleInit(i)
    BY <2>1 DEF OnModuleInit
  <2>2. CASE CreateDefaultAdmin(i)
    <3>1. [role |-> "admin", permissions |-> {}, deleted |-> FALSE] \in Row
      BY DEF Row, Roles
    <3> QED
      BY <2>2, <3>1, ConstantsAssumption DEF CreateDefaultAdmin
  <2>3. CASE Crash(i)
    BY <2>3 DEF Crash
  <2> QED
    BY <1>1, <2>1, <2>2, <2>3 DEF Start
<1>2. ASSUME NEW r \in Requests, NEW t \in Users, NEW row \in Row, NEW promotes \in BOOLEAN,
             Commit(r, t, row, promotes)
      PROVE  Typed'
  <2>1. TypeOK'
    BY <1>2, CommitTypes
  <2>2. FoundRows'
    BY <1>2 DEF Commit, FoundRows, TypeOK, Idle, Request
  <2> QED
    BY <2>1, <2>2
<1>3. ASSUME NEW r \in Requests, Step(r)
      PROVE  Typed'
  <2>1. ASSUME NEW u \in Users, Authenticate(r, u)
        PROVE  Typed'
    <3> DEFINE new == [Idle EXCEPT !.pc = "handler", !.id = u, !.user = users[u]]
    <3>1. new \in Request /\ new.pc = "handler"
      BY ConstantsAssumption DEF Idle, Request, TypeOK
    <3>2. req' = [req EXCEPT ![r] = new] /\ UNCHANGED <<managing, users, instance, history>>
      BY <2>1 DEF Authenticate
    <3> HIDE DEF new
    <3> QED
      BY <3>1, <3>2 DEF TypeOK, FoundRows, history
  <2>2. ASSUME NEW u \in Users, FindOne(r, u)
        PROVE  Typed'
    <3>1. users[u] \in Row
      BY <2>2 DEF FindOne, Active, Exists, TypeOK
    <3> DEFINE new == [req[r] EXCEPT !.pc = "update", !.target = u, !.found = users[u]]
    <3>2. new \in Request /\ new.found \in Row
      BY <3>1 DEF Request, TypeOK
    <3>3. req' = [req EXCEPT ![r] = new] /\ UNCHANGED <<managing, users, instance, history>>
      BY <2>2 DEF FindOne
    <3> HIDE DEF new
    <3> QED
      BY <3>2, <3>3 DEF TypeOK, FoundRows, history
  <2>3. ASSUME NEW u \in Users, DeleteOne(r, u)
        PROVE  Typed'
    <3>1. users[u] \in Row
      BY <2>3 DEF DeleteOne, Active, Exists, TypeOK
    <3>2. [users[u] EXCEPT !.deleted = TRUE] \in Row
      BY <3>1 DEF Row
    <3> QED
      BY <2>3, <3>2, <1>2 DEF DeleteOne
  <2>4. ASSUME NEW body \in Body, NEW t \in Users, CreateOne(r, t, body)
        PROVE  Typed'
    <3> DEFINE promotes == body.role = "admin"
    <3>1. NewRow(body) \in Row /\ promotes \in BOOLEAN
      BY RowsWritten
    <3>2. Commit(r, t, NewRow(body), promotes)
      BY <2>4 DEF CreateOne
    <3> HIDE DEF promotes
    <3> QED
      BY <3>1, <3>2, <1>2
  <2>5. ASSUME NEW body \in Body, UpdateOne(r, body)
        PROVE  Typed'
    <3> DEFINE promotes == body.role = "admin"
               row == [req[r].found EXCEPT !.role = Given(body.role, @),
                                           !.permissions = Given(body.permissions, @)]
    <3>1. req[r].found \in Row
      BY <2>5 DEF UpdateOne, FoundRows
    <3>2. row \in Row /\ promotes \in BOOLEAN /\ req[r].target \in Users
      BY <3>1, RowsWritten DEF TypeOK, Request
    <3>3. Commit(r, req[r].target, row, promotes)
      BY <2>5 DEF UpdateOne
    <3> HIDE DEF promotes, row
    <3> QED
      BY <3>2, <3>3, <1>2
  <2>6. CASE EndRequest(r)
    BY <2>6, ConstantsAssumption DEF EndRequest, TypeOK, FoundRows, history, Request, Idle
  <2> QED
    BY <1>3, <2>1, <2>2, <2>3, <2>4, <2>5, <2>6 DEF Step
<1>4. CASE UNCHANGED vars
  BY <1>4 DEF vars, history, TypeOK, FoundRows
<1> QED
  BY <1>1, <1>3, <1>4 DEF Next

(* Every variable keeps its type, for any users, permissions and bounds.   *)
THEOREM TypeCorrect == Spec => []TypeOK
<1>1. Typed => TypeOK
  BY DEF Typed
<1> QED
  BY <1>1, TypedInit, TypedStep, PTL DEF Spec

-----------------------------------------------------------------------------
(* A request that nothing has overtaken still knows what the table holds:  *)
(* its user, and the row it is to update, are as it read them.             *)
FreshRequest(r) ==
  req[r].pc # "idle" /\ ~req[r].overtaken =>
    /\ users[req[r].id] = req[r].user
    /\ req[r].user \in Row /\ ~req[r].user.deleted
    /\ req[r].pc = "update" =>
         users[req[r].target] = req[r].found /\ req[r].found \in Row /\ ~req[r].found.deleted

Fresh == \A r \in Requests : FreshRequest(r)

AdminInv == Fresh /\ AdministratorRemains /\ AdminsMakeAdmins

LEMMA NoRowIsNoRow == NoRow \notin Row
  BY DEF NoRow, Row, Roles

(* A commit leaves no request fresh. *)
LEMMA CommitKeepsFresh ==
  ASSUME Typed, NEW r \in Requests, NEW t, NEW row, NEW promotes, Commit(r, t, row, promotes)
  PROVE  Fresh'
<1> SUFFICES ASSUME NEW q \in Requests
             PROVE  req'[q].pc = "idle" \/ req'[q].overtaken
  BY DEF Fresh, FreshRequest
<1> QED
  BY IdleIsTyped DEF Commit, Typed, TypeOK, Request

(* A commit that is not overtaken keeps its requester an administrator, if *)
(* it may not touch that, and makes no administrator on other authority.   *)
LEMMA CommitKeepsAdmins ==
  ASSUME Typed, AdminInv, NEW r \in Requests, NEW t \in Users, NEW row \in Row,
         NEW promotes \in BOOLEAN, Commit(r, t, row, promotes), req[r].pc # "idle",
         ~req[r].overtaken =>
           /\ t = req[r].id => ~row.deleted /\ row.role = req[r].user.role
           /\ ~row.deleted /\ row.role = "admin" =>
                IsAdmin(t) \/ (promotes /\ CanManageAll(req[r].user))
  PROVE  AdministratorRemains' /\ AdminsMakeAdmins'
<1> SUFFICES ASSUME ~raced'
             PROVE  AdministratorRemains' /\ AdminsMakeAdmins'
  BY DEF AdministratorRemains, AdminsMakeAdmins
<1>1. ~raced /\ ~req[r].overtaken
  BY DEF Commit, Typed, TypeOK, Request
<1>2. /\ users' = [users EXCEPT ![t] = row] /\ users \in [Users -> Row \cup {NoRow}]
      /\ req[r].id \in Users
  BY DEF Commit, Typed, TypeOK, Request
<1>3. users[req[r].id] = req[r].user /\ req[r].user \in Row /\ ~req[r].user.deleted
  BY <1>1 DEF AdminInv, Fresh, FreshRequest
<1>4. AdministratorRemains'
  <2> PICK id \in Users : id = req[r].id
    BY <1>2
  <2> SUFFICES ASSUME managing' = {}
               PROVE  IsAdmin(id)'
    BY DEF AdministratorRemains
  <2>1. req[r].user.role = "admin"
    BY DEF Commit, CanManageUsers, CanManageAll
  <2>2. users'[id] \in Row /\ ~users'[id].deleted /\ users'[id].role = "admin"
    BY <1>1, <1>2, <1>3, <2>1
  <2> QED
    BY <2>2, NoRowIsNoRow DEF IsAdmin, Active, Exists
<1>5. AdminsMakeAdmins'
  <2> SUFFICES ASSUME NEW u \in Users, IsAdmin(u)'
               PROVE  u \in appointed'
    BY DEF AdminsMakeAdmins
  <2>1. CASE u # t
    <3>1. IsAdmin(u)
      BY <1>2, <2>1 DEF IsAdmin, Active, Exists
    <3>2. u \in appointed
      BY <1>1, <3>1 DEF AdminInv, AdminsMakeAdmins
    <3> QED
      BY <2>1, <3>2 DEF Commit
  <2>2. CASE u = t
    <3>1. ~row.deleted /\ row.role = "admin"
      BY <1>2, <2>2 DEF IsAdmin, Active, Exists
    <3>2. CASE IsAdmin(t)
      <4>1. t \in appointed
        BY <1>1, <3>2 DEF AdminInv, AdminsMakeAdmins
      <4> QED
        BY <2>2, <3>1, <4>1 DEF Commit
    <3>3. CASE promotes /\ CanManageAll(req[r].user)
      BY <2>2, <3>1, <3>3 DEF Commit
    <3> QED
      BY <1>1, <3>1, <3>2, <3>3
  <2> QED
    BY <2>1, <2>2
<1> QED
  BY <1>4, <1>5

(* A step that changes no user, and makes no request staler. *)
LEMMA QuietKeepsAdmins ==
  ASSUME AdminInv, UNCHANGED <<managing, users, raced, appointed>>
  PROVE  AdministratorRemains' /\ AdminsMakeAdmins'
  BY DEF AdminInv, AdministratorRemains, AdminsMakeAdmins, IsAdmin, Active, Exists

LEMMA AdminInit == Init => AdminInv
<1> SUFFICES ASSUME Init
             PROVE  AdminInv
  OBVIOUS
<1>1. Fresh
  BY IdleIsTyped DEF Init, Fresh, FreshRequest
<1>2. \A u \in Users : ~Exists(u)
  BY DEF Init, Exists
<1> QED
  BY <1>1, <1>2 DEF AdminInv, AdministratorRemains, AdminsMakeAdmins, IsAdmin, Active

LEMMA StartKeepsAdmins ==
  ASSUME Typed, AdminInv, NEW i \in Instances, Start(i)
  PROVE  AdminInv'
<1>1. CASE OnModuleInit(i) \/ Crash(i)
  BY <1>1, QuietKeepsAdmins
  DEF OnModuleInit, Crash, history, AdminInv, Fresh, FreshRequest
<1>2. CASE CreateDefaultAdmin(i) /\ Exists(SeededAdmin)
  BY <1>2, QuietKeepsAdmins
  DEF CreateDefaultAdmin, AdminInv, Fresh, FreshRequest
<1>3. CASE CreateDefaultAdmin(i) /\ ~Exists(SeededAdmin)
  <2> DEFINE admin == [role |-> "admin", permissions |-> {}, deleted |-> FALSE]
  <2>1. /\ users' = [users EXCEPT ![SeededAdmin] = admin] /\ UNCHANGED <<managing, req, raced>>
        /\ users[SeededAdmin] = NoRow /\ appointed' = appointed \cup {SeededAdmin}
        /\ SeededAdmin \in Users /\ users \in [Users -> Row \cup {NoRow}]
    BY <1>3, ConstantsAssumption DEF CreateDefaultAdmin, Exists, Typed, TypeOK
  <2>2. Fresh'
    <3> SUFFICES ASSUME NEW r \in Requests
                 PROVE  FreshRequest(r)'
      BY DEF Fresh
    <3>1. FreshRequest(r) /\ req[r].id \in Users /\ req[r].target \in Users
      BY DEF AdminInv, Fresh, Typed, TypeOK, Request
    <3> QED
      BY <2>1, <3>1, NoRowIsNoRow DEF FreshRequest
  <2>3. IsAdmin(SeededAdmin)'
    <3>1. admin # NoRow
      BY DEF NoRow
    <3>2. users'[SeededAdmin] = admin
      BY <2>1
    <3> QED
      BY <3>1, <3>2 DEF IsAdmin, Active, Exists
  <2>4. \A u \in Users \ {SeededAdmin} : IsAdmin(u)' => IsAdmin(u)
    BY <2>1 DEF IsAdmin, Active, Exists
  <2> QED
    BY <2>1, <2>2, <2>3, <2>4 DEF AdminInv, AdministratorRemains, AdminsMakeAdmins
<1> QED
  BY <1>1, <1>2, <1>3 DEF Start

LEMMA RequestKeepsAdmins ==
  ASSUME Typed, AdminInv, NEW r \in Requests, Step(r)
  PROVE  AdminInv'
<1>1. ASSUME NEW u \in Users, Authenticate(r, u)
      PROVE  AdminInv'
  <2>1. users[u] \in Row /\ ~users[u].deleted
    BY <1>1 DEF Authenticate, Active, Exists, Typed, TypeOK
  <2>2. Fresh'
    BY <1>1, <2>1 DEF Authenticate, history, AdminInv, Fresh, FreshRequest, Idle, Typed, TypeOK
  <2> QED
    BY <1>1, <2>2, QuietKeepsAdmins DEF Authenticate, history, AdminInv
<1>2. ASSUME NEW u \in Users, FindOne(r, u)
      PROVE  AdminInv'
  <2>1. users[u] \in Row /\ ~users[u].deleted
    BY <1>2 DEF FindOne, Active, Exists, Typed, TypeOK
  <2>2. Fresh'
    BY <1>2, <2>1 DEF FindOne, history, AdminInv, Fresh, FreshRequest, Typed, TypeOK, Request
  <2> QED
    BY <1>2, <2>2, QuietKeepsAdmins DEF FindOne, history, AdminInv
<1>3. ASSUME NEW u \in Users, DeleteOne(r, u)
      PROVE  AdminInv'
  <2> DEFINE row == [users[u] EXCEPT !.deleted = TRUE]
  <2>1. users[u] \in Row
    BY <1>3 DEF DeleteOne, Active, Exists, Typed, TypeOK
  <2>2. row \in Row /\ row.deleted
    BY <2>1 DEF Row
  <2>3. Commit(r, u, row, FALSE) /\ u # req[r].id /\ req[r].pc # "idle"
    BY <1>3 DEF DeleteOne, MayDelete
  <2> HIDE DEF row
  <2> QED
    BY <2>2, <2>3, CommitKeepsFresh, CommitKeepsAdmins DEF AdminInv
<1>4. ASSUME NEW body \in Body, NEW t \in Users, CreateOne(r, t, body)
      PROVE  AdminInv'
  <2> DEFINE promotes == body.role = "admin"
  <2>1. NewRow(body) \in Row /\ promotes \in BOOLEAN
    BY RowsWritten
  <2>2. /\ Commit(r, t, NewRow(body), promotes) /\ req[r].pc # "idle"
        /\ ~Exists(t) /\ (promotes => CanManageAll(req[r].user))
    BY <1>4 DEF CreateOne, MayMakeAdmin
  <2>3. ~req[r].overtaken => t # req[r].id
    BY <2>2, NoRowIsNoRow DEF AdminInv, Fresh, FreshRequest, Exists
  <2>4. NewRow(body).role = "admin" => promotes
    BY DEF NewRow, Given
  <2> HIDE DEF promotes
  <2> QED
    BY <2>1, <2>2, <2>3, <2>4, CommitKeepsFresh, CommitKeepsAdmins DEF AdminInv
<1>5. ASSUME NEW body \in Body, UpdateOne(r, body)
      PROVE  AdminInv'
  <2> DEFINE promotes == body.role = "admin"
             found == req[r].found
             t == req[r].target
             row == [found EXCEPT !.role = Given(body.role, @),
                                  !.permissions = Given(body.permissions, @)]
  <2>1. found \in Row
    BY <1>5 DEF UpdateOne, Typed, FoundRows
  <2>2. row \in Row /\ promotes \in BOOLEAN /\ t \in Users
    BY <2>1, RowsWritten DEF Typed, TypeOK, Request
  <2>3. /\ row.role = Given(body.role, found.role)
        /\ row.deleted = found.deleted
    BY <2>1 DEF Row
  <2>4. /\ Commit(r, t, row, promotes) /\ req[r].pc = "update"
        /\ promotes => CanManageAll(req[r].user)
        /\ t = req[r].id => body.role \in {req[r].user.role, Undefined}
    BY <1>5 DEF UpdateOne, MayMakeAdmin, KeepsOwnRights
  <2>5. ASSUME ~req[r].overtaken
        PROVE  /\ users[t] = found /\ ~found.deleted
               /\ users[req[r].id] = req[r].user
    BY <2>4, <2>5 DEF AdminInv, Fresh, FreshRequest
  <2>6. ASSUME ~req[r].overtaken, t = req[r].id
        PROVE  ~row.deleted /\ row.role = req[r].user.role
    BY <2>3, <2>4, <2>5, <2>6 DEF Given
  <2>7. ASSUME ~req[r].overtaken, row.role = "admin"
        PROVE  IsAdmin(t) \/ (promotes /\ CanManageAll(req[r].user))
    <3>1. CASE body.role = Undefined
      <4>1. found.role = "admin"
        BY <2>3, <2>7, <3>1 DEF Given
      <4> QED
        BY <2>1, <2>5, <2>7, <4>1, NoRowIsNoRow DEF IsAdmin, Active, Exists
    <3>2. CASE body.role # Undefined
      BY <2>3, <2>4, <2>7, <3>2 DEF Given
    <3> QED
      BY <3>1, <3>2
  <2> HIDE DEF promotes, found, t, row
  <2>8. AdministratorRemains' /\ AdminsMakeAdmins'
    BY <2>2, <2>4, <2>6, <2>7, CommitKeepsAdmins
  <2> QED
    BY <2>2, <2>4, <2>8, CommitKeepsFresh DEF AdminInv
<1>6. CASE EndRequest(r)
  <2>1. Fresh'
    BY <1>6, IdleIsTyped DEF EndRequest, history, AdminInv, Fresh, FreshRequest, Typed, TypeOK
  <2> QED
    BY <1>6, <2>1, QuietKeepsAdmins DEF EndRequest, history, AdminInv
<1> QED
  BY <1>1, <1>2, <1>3, <1>4, <1>5, <1>6 DEF Step

LEMMA AdminStep == Typed /\ AdminInv /\ [Next]_vars => AdminInv'
<1>1. Typed /\ AdminInv /\ UNCHANGED vars => AdminInv'
  BY QuietKeepsAdmins DEF vars, history, AdminInv, Fresh, FreshRequest
<1> QED
  BY <1>1, StartKeepsAdmins, RequestKeepsAdmins DEF Next

LEMMA SpecInvariants == Spec => [](Typed /\ AdminInv)
  BY TypedInit, TypedStep, AdminInit, AdminStep, PTL DEF Spec

(* However many requests are in flight: while no change has overtaken      *)
(* another, and only administrators manage users, one administrator is left*)
(* (UsersEditingGuard refuses an administrator to delete or demote himself)*)
THEOREM AnAdministratorRemains == Spec => []AdministratorRemains
<1>1. AdminInv => AdministratorRemains
  BY DEF AdminInv
<1> QED
  BY <1>1, SpecInvariants, PTL

(* Whatever permissions a host gives the management of users: while no     *)
(* change has overtaken another, nobody becomes an administrator but by    *)
(* seeding or by the act of an administrator.                              *)
THEOREM OnlyAdminsAppoint == Spec => []AdminsMakeAdmins
<1>1. AdminInv => AdminsMakeAdmins
  BY DEF AdminInv
<1> QED
  BY <1>1, SpecInvariants, PTL
=============================================================================
