------------------------- MODULE UserAdministration -------------------------
(***************************************************************************)
(* Users of users-backend, and the administrators who edit them: the first *)
(* administrator, seeded when a process starts; the CRUD routes of         *)
(* UsersController; the two guards in front of them.                       *)
(*                                                                         *)
(* Both guards judge a request by request.user, the row of the requester   *)
(* as it was when the request was authenticated.  An update reads the row  *)
(* it edits, lays the body over it and saves the whole.  Other requests    *)
(* come between these steps.                                               *)
(*                                                                         *)
(* A user is known by an email, which is unique among all rows, deleted    *)
(* ones included; requests that change an email are left out.              *)
(***************************************************************************)
EXTENDS Naturals, FiniteSets

CONSTANTS
  Users,         \* emails
  SeededAdmin,   \* test-admin@test.test
  Permissions,
  Requests,      \* slots for requests in flight (over all processes)
  Instances,     \* processes that run UsersModule
  Undefined,     \* a property the body does not have
  MaxCommits     \* bound: changes made by requests

ASSUME ConstantsAssumption ==
  /\ SeededAdmin \in Users
  /\ Undefined \notin {"admin", "user"}
  /\ \A granted \in SUBSET Permissions : granted # Undefined
  /\ MaxCommits \in Nat

VARIABLES
  managing,   \* permissionsToActionsMap: those a host gave the management of users
  users,      \* email -> row, or none
  req,        \* what each request in flight is doing
  instance,   \* what each process is doing
  (* History; only the bound reads commits: *)
  commits,    \* changes made by requests
  raced,      \* a request made a change after another had overtaken it
  appointed   \* who was seeded, or made an administrator by one

history == <<commits, raced, appointed>>
vars == <<managing, users, req, instance, history>>

Roles == {"admin", "user"}
Row == [role : Roles, permissions : SUBSET Permissions, deleted : BOOLEAN]
NoRow == [role |-> "none", permissions |-> {}, deleted |-> FALSE]
Body == [role : Roles \cup {Undefined},
         permissions : {Undefined} \cup {granted : granted \in SUBSET Permissions}]

Exists(u) == users[u] # NoRow
Active(u) == Exists(u) /\ ~users[u].deleted
IsAdmin(u) == Active(u) /\ users[u].role = "admin"

Request ==
  [pc : {"idle", "handler", "update"},
   id : Users, user : Row \cup {NoRow},       \* request.user
   target : Users, found : Row \cup {NoRow},  \* of an update
   overtaken : BOOLEAN]                       \* history

Idle == [pc |-> "idle", id |-> SeededAdmin, user |-> NoRow,
         target |-> SeededAdmin, found |-> NoRow, overtaken |-> FALSE]

-----------------------------------------------------------------------------
(* The first administrator *)

(* Mutant of Count: the default user is created whoever there is. *)
CountNothing == FALSE

(* usersService.count(): deleted users do not count. *)
Count == \E u \in Users : Active(u)

(* onModuleInit, up to the hashing of the default password.  SWAGGER is    *)
(* not set.                                                                *)
OnModuleInit(i) ==
  /\ instance[i] = "down"
  /\ instance' = [instance EXCEPT ![i] = IF Count THEN "up" ELSE "seeding"]
  /\ UNCHANGED <<managing, users, req, history>>

(* create({ role: ADMIN, ... }): where the email is taken the insert fails,*)
(* and with it the start of the process.                                   *)
CreateDefaultAdmin(i) ==
  /\ instance[i] = "seeding"
  /\ IF Exists(SeededAdmin)
     THEN /\ instance' = [instance EXCEPT ![i] = "down"]
          /\ UNCHANGED <<users, appointed>>
     ELSE /\ instance' = [instance EXCEPT ![i] = "up"]
          /\ users' = [users EXCEPT ![SeededAdmin] =
               [role |-> "admin", permissions |-> {}, deleted |-> FALSE]]
          /\ appointed' = appointed \cup {SeededAdmin}
  /\ UNCHANGED <<managing, req, commits, raced>>

Crash(i) ==
  /\ instance' = [instance EXCEPT ![i] = "down"]
  /\ UNCHANGED <<managing, users, req, history>>

-----------------------------------------------------------------------------
(* Guards *)

(* JWTStrategy, or TokensAuthStrategy: request.user is the row of now. *)
Authenticate(r, u) ==
  /\ \E i \in Instances : instance[i] = "up"
  /\ req[r].pc = "idle" /\ Active(u)
  /\ req' = [req EXCEPT ![r] = [Idle EXCEPT !.pc = "handler", !.id = u, !.user = users[u]]]
  /\ UNCHANGED <<managing, users, instance, history>>

(* createForUser: ability.can(Action.Manage, 'all'). *)
CanManageAll(user) == user.role = "admin"

(* PoliciesGuard with ManageUsersPolicy: ability.can(Action.Manage, User). *)
CanManageUsers(user) ==
  \/ CanManageAll(user)
  \/ user.role = "user" /\ user.permissions \cap managing # {}

(* Mutant of MayMakeAdmin: whoever manages users may. *)
MayMakeAnyone(user, body) == TRUE

MayMakeAdmin(user, body) == body.role = "admin" => CanManageAll(user)

(* UsersEditingGuard, 'Update-One' of oneself. *)
KeepsOwnRights(user, body) ==
  /\ body.role \in {user.role, Undefined}
  /\ body.permissions \in {user.permissions, Undefined}

(* Mutant of MayDelete: nothing is asked of the target. *)
MayDeleteAnyone(id, target) == TRUE

(* UsersEditingGuard, 'Delete-One'. *)
MayDelete(id, target) == target # id

-----------------------------------------------------------------------------
(* Changes.  The guards read nothing but the request, so they are made     *)
(* part of the step that ends it, and the body is chosen there.            *)

(* The end of request r, which PoliciesGuard lets pass: row takes the place*)
(* of that of t; promotes says whether the body makes t an administrator.  *)
Commit(r, t, row, promotes) ==
  /\ CanManageUsers(req[r].user)
  /\ commits < MaxCommits
  /\ commits' = commits + 1
  /\ users' = [users EXCEPT ![t] = row]
  /\ req' = [q \in Requests |->
       IF q = r THEN Idle
       ELSE IF req[q].pc = "idle" THEN Idle ELSE [req[q] EXCEPT !.overtaken = TRUE]]
  /\ raced' = (raced \/ req[r].overtaken)
  /\ appointed' = IF row.role = "user" THEN appointed \ {t}
                  ELSE IF promotes /\ CanManageAll(req[r].user) THEN appointed \cup {t}
                  ELSE appointed
  /\ UNCHANGED <<managing, instance>>

Given(value, default) == IF value = Undefined THEN default ELSE value

(* Mutant of NewRow: the column has no default. *)
NewRowAsGiven(body) ==
  [role |-> body.role, permissions |-> Given(body.permissions, {}), deleted |-> FALSE]

(* The defaults of the columns. *)
NewRow(body) ==
  [role |-> Given(body.role, "user"), permissions |-> Given(body.permissions, {}),
   deleted |-> FALSE]

(* createOneBase; an email that is taken is a conflict: EndRequest. *)
CreateOne(r, t, body) ==
  /\ req[r].pc = "handler" /\ ~Exists(t)
  /\ MayMakeAdmin(req[r].user, body)
  /\ Commit(r, t, NewRow(body), body.role = "admin")

(* updateOneBase, up to getOneOrFail(req).  The method is the library's;   *)
(* AuditLogBaseService.updateOne repeats it.                               *)
FindOne(r, t) ==
  /\ req[r].pc = "handler" /\ Active(t)
  /\ CanManageUsers(req[r].user)
  /\ req' = [req EXCEPT ![r].pc = "update", ![r].target = t, ![r].found = users[t]]
  /\ UNCHANGED <<managing, users, instance, history>>

(* repo.save({ ...found, ...dto }): every column that differs from the     *)
(* database is written, deletedAt too.                                     *)
UpdateOne(r, body) ==
  LET found == req[r].found IN
  /\ req[r].pc = "update"
  /\ req[r].target = req[r].id => KeepsOwnRights(req[r].user, body)
  /\ MayMakeAdmin(req[r].user, body)
  /\ Commit(r, req[r].target,
            [found EXCEPT !.role = Given(body.role, @),
                          !.permissions = Given(body.permissions, @)],
            body.role = "admin")

(* deleteOneBase: repo.softRemove(found) *)
DeleteOne(r, t) ==
  /\ req[r].pc = "handler" /\ Active(t)
  /\ MayDelete(req[r].id, t)
  /\ Commit(r, t, [users[t] EXCEPT !.deleted = TRUE], FALSE)

(* Any other end: a refusal, a conflict, a failed query, a dead process. *)
EndRequest(r) ==
  /\ req[r].pc # "idle"
  /\ req' = [req EXCEPT ![r] = Idle]
  /\ UNCHANGED <<managing, users, instance, history>>

-----------------------------------------------------------------------------
(* An empty table. *)
Init ==
  /\ managing \in SUBSET Permissions
  /\ users = [u \in Users |-> NoRow]
  /\ req = [r \in Requests |-> Idle]
  /\ instance = [i \in Instances |-> "down"]
  /\ commits = 0
  /\ raced = FALSE
  /\ appointed = {}

Start(i) == OnModuleInit(i) \/ CreateDefaultAdmin(i) \/ Crash(i)

Step(r) ==
  \/ \E u \in Users : Authenticate(r, u) \/ FindOne(r, u) \/ DeleteOne(r, u)
  \/ \E body \in Body : UpdateOne(r, body) \/ \E t \in Users : CreateOne(r, t, body)
  \/ EndRequest(r)

Next ==
  \/ \E i \in Instances : Start(i)
  \/ \E r \in Requests : Step(r)

Spec == Init /\ [][Next]_vars

(* A process that is down is started, and does not die each time while it  *)
(* seeds.                                                                  *)
Fairness ==
  \A i \in Instances : WF_vars(OnModuleInit(i)) /\ SF_vars(CreateDefaultAdmin(i))

FairSpec == Spec /\ Fairness

-----------------------------------------------------------------------------
(* Types: what each variable may hold. *)
TypeOK ==
  /\ managing \subseteq Permissions
  /\ users \in [Users -> Row \cup {NoRow}]
  /\ req \in [Requests -> Request]
  /\ instance \in [Instances -> {"down", "seeding", "up"}]
  /\ commits \in Nat
  /\ raced \in BOOLEAN
  /\ appointed \subseteq Users

(* The guards together never let the last administrator go: as long as no  *)
(* change overtakes another, and only administrators manage users, a table *)
(* that has had users has an administrator (users-editing.guard.ts).       *)
AdministratorRemains ==
  (\E u \in Users : Exists(u)) /\ managing = {} /\ ~raced => \E u \in Users : IsAdmin(u)

(* Also where a host lets others manage users, and whatever chain of       *)
(* creations and edits they make, every administrator was seeded or made   *)
(* one by an administrator, unless a change overtook another.              *)
AdminsMakeAdmins ==
  ~raced => \A u \in Users : IsAdmin(u) => u \in appointed

(* README.md, "Default admin seeding": however many processes start at     *)
(* once on an empty table, and whatever they are made to restart for, each *)
(* comes up again and again, unless overlapping changes removed every user.*)
StartsAgain ==
  \A i \in Instances : []<>(instance[i] = "up" \/ raced)
=============================================================================
