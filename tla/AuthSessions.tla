---------------------------- MODULE AuthSessions ----------------------------
(***************************************************************************)
(* Browser sessions of users-backend: the JWT pair signed at login, the    *)
(* two passport strategies that admit a request, refresh-token rotation,   *)
(* logout, and the hourly cleanup of the revocation table.                 *)
(*                                                                         *)
(* Every `await` on the database is a point where another request, the     *)
(* cleanup job or the clock may step in, so a request is a small state     *)
(* machine: check -> (revoke) -> lookup -> handler.  Two tokens of one     *)
(* pair share a session id (sid); the pair number stands for the random    *)
(* UUIDs, which never collide.                                             *)
(*                                                                         *)
(* Time counts in fractions of a second, Sec of them to the second: JWT    *)
(* claims are whole seconds, the columns of the table are not.             *)
(***************************************************************************)
EXTENDS Integers, FiniteSets

CONSTANTS
  Users,       \* user ids
  Admins,      \* the users whose permissions grant manage-all
  Requests,    \* slots for requests in flight (over all worker processes)
  AccessTTL,   \* ACCESS_TOKEN_EXPIRATION, in seconds
  RefreshTTL,  \* REFRESH_TOKEN_EXPIRATION, in seconds
  Sec,         \* clock ticks in a second
  NoToken,     \* a request that carries no JWT
  NoUser,      \* request.user before the strategy sets it
  MaxPairs,    \* bound: token pairs ever signed
  MaxTime      \* bound: the clock

ASSUME ConstantsAssumption ==
  /\ Admins \subseteq Users
  /\ AccessTTL \in Nat \ {0}
  /\ RefreshTTL \in Nat \ {0}
  /\ Sec \in Nat \ {0}
  /\ MaxPairs \in Nat
  /\ MaxTime \in Nat

VARIABLES
  now,       \* Date.now()
  active,    \* users not soft-deleted
  tokens,    \* every JWT signed so far: clients may present any of them
  pairs,     \* how many pairs were signed: names the next fresh UUIDs
  revoked,   \* rows of the revoked_tokens table
  req,       \* what each request in flight is doing
  (* History, read by no guard: *)
  dead,      \* jtis of every row the table was ever told to hold
  late,      \* requests presenting what was already revoked, or a deleted user
  spent      \* <<refresh jti, sid of the pair it was exchanged for>>

store == <<active, tokens, pairs, revoked>>
history == <<dead, late, spent>>
vars == <<now, store, req, history>>

TokenType == {"access", "refresh"}
Jti == Nat \X {"access", "refresh", "session"}
Token == [jti : Jti, sid : Nat, type : TokenType, sub : Users, exp : Nat]
Row == [jti : Jti, sid : Nat, tokenType : TokenType \cup {"session"},
        expiresAt : Nat]

(* Routes behind the access strategy, and the ones that skip it.           *)
AccessRoutes == {"token", "logout", "loginAs", "protected"}
Routes == AccessRoutes \cup {"refresh", "login"}

Request == [pc : {"idle", "check", "revoke", "lookup", "handler"},
            route : Routes \cup {"none"},
            token : Token \cup {NoToken},
            user : Users \cup {NoUser}]
Idle == [pc |-> "idle", route |-> "none", token |-> NoToken, user |-> NoUser]

InFlight(r) == req[r].pc # "idle"

(* jsonwebtoken compares whole seconds: the token dies when its second     *)
(* begins.                                                                 *)
Expired(t) == now \div Sec >= t.exp

-----------------------------------------------------------------------------
(* The revocation table *)

(* Mutant of Sign: the refresh token carries the type of the session row.  *)
SignAsSession(sid, type, u) ==
  [jti |-> <<sid, type>>, sid |-> sid, sub |-> u, exp |-> now \div Sec + 1,
   type |-> IF type = "access" THEN "access" ELSE "session"]

(* JWTAuthService.sign and AuthService.login: every call opens a session   *)
(* of its own and signs the two tokens of that session.                    *)
Sign(sid, type, u) ==
  [jti |-> <<sid, type>>, sid |-> sid, type |-> type, sub |-> u,
   exp |-> now \div Sec
             + (IF type = "access" THEN AccessTTL ELSE RefreshTTL)]

Login(u) ==
  /\ pairs < MaxPairs
  /\ pairs' = pairs + 1
  /\ tokens' = tokens \cup {Sign(pairs, "access", u), Sign(pairs, "refresh", u)}

(* INSERT ... ON CONFLICT DO NOTHING over the unique jti column.           *)
RevokeTokens(rows) ==
  /\ revoked' = revoked \cup
       {w \in rows : \A old \in revoked : old.jti # w.jti}
  /\ dead' = dead \cup {w.jti : w \in rows}

TokenRow(t) ==
  [jti |-> t.jti, sid |-> t.sid, tokenType |-> t.type,
   expiresAt |-> t.exp * Sec]

SessionJti(sid) == <<sid, "session">>

(* Mutant of SessionRow: the row lives as long as an access token.         *)
ShortSessionRow(t) ==
  [jti |-> SessionJti(t.sid), sid |-> t.sid, tokenType |-> "session",
   expiresAt |-> now + AccessTTL * Sec]

SessionRow(t) ==
  [jti |-> SessionJti(t.sid), sid |-> t.sid, tokenType |-> "session",
   expiresAt |-> now + RefreshTTL * Sec]

IsTokenRevoked(t) ==
  \E w \in revoked :
    \/ w.jti = t.jti
    \/ w.sid = t.sid /\ w.tokenType = "session"

(* cleanupExpiredTokens, every hour; a failed DELETE changes nothing.      *)
CleanupExpiredTokens ==
  /\ \E w \in revoked : w.expiresAt < now
  /\ revoked' = {w \in revoked : w.expiresAt >= now}
  /\ UNCHANGED <<now, active, tokens, pairs, req, history>>

-----------------------------------------------------------------------------
(* Admitting a request *)

(* What was said of a token before, in the table or by its session.        *)
Dead(t) == t.jti \in dead \/ SessionJti(t.sid) \in dead

(* The strategy a route is guarded by, and the one type it lets through.   *)
AcceptedType(route) == IF route = "refresh" THEN "refresh" ELSE "access"

(* passport-jwt verifies signature and expiry, then validate() compares    *)
(* the type claim with the one its route wants.  Anything else is a 401    *)
(* that leaves no trace.                                                   *)
Authenticate(r, route, t) ==
  /\ ~InFlight(r)
  /\ ~Expired(t)
  /\ t.type = AcceptedType(route)
  /\ req' = [req EXCEPT ![r] = [pc |-> "check", route |-> route,
                                token |-> t, user |-> NoUser]]
  /\ late' = [late EXCEPT ![r] =
       (IF Dead(t) THEN {"revoked"} ELSE {}) \cup
       (IF t.sub \notin active THEN {"deleted"} ELSE {})]
  /\ UNCHANGED <<now, store, dead, spent>>

(* Mutant of CheckRevoked: the refresh strategy revokes without looking.   *)
CheckRevokedAccessOnly(r) ==
  /\ req[r].pc = "check"
  /\ req' =
       IF req[r].route # "refresh" /\ IsTokenRevoked(req[r].token)
       THEN [req EXCEPT ![r] = Idle]
       ELSE [req EXCEPT ![r].pc =
               IF req[r].route = "refresh" THEN "revoke" ELSE "lookup"]
  /\ UNCHANGED <<now, store, history>>

(* await isTokenRevoked(jti, sid) *)
CheckRevoked(r) ==
  /\ req[r].pc = "check"
  /\ req' =
       IF IsTokenRevoked(req[r].token)
       THEN [req EXCEPT ![r] = Idle]
       ELSE [req EXCEPT ![r].pc =
               IF req[r].route = "refresh" THEN "revoke" ELSE "lookup"]
  /\ UNCHANGED <<now, store, history>>

(* await revokeRefreshToken(...): the row of the token itself only. *)
RevokeRefreshToken(r) ==
  /\ req[r].pc = "revoke"
  /\ RevokeTokens({TokenRow(req[r].token)})
  /\ req' = [req EXCEPT ![r].pc = "lookup"]
  /\ UNCHANGED <<now, active, tokens, pairs, late, spent>>

(* Mutant of LookupUser: the query includes soft-deleted rows.             *)
LookupUserWithDeleted(r) ==
  /\ req[r].pc = "lookup"
  /\ req' = [req EXCEPT ![r].pc = "handler", ![r].user = req[r].token.sub]
  /\ UNCHANGED <<now, store, history>>

(* await usersService.findOne(...): a soft-deleted user is not found. *)
LookupUser(r) ==
  /\ req[r].pc = "lookup"
  /\ req' = IF req[r].token.sub \in active
            THEN [req EXCEPT ![r].pc = "handler",
                             ![r].user = req[r].token.sub]
            ELSE [req EXCEPT ![r] = Idle]
  /\ UNCHANGED <<now, store, history>>

(* LocalAuthStrategy: findByEmail, then the password is compared while     *)
(* the user may already be gone.                                           *)
LocalLogin(r, u) ==
  /\ ~InFlight(r)
  /\ u \in active
  /\ req' = [req EXCEPT ![r] = [pc |-> "handler", route |-> "login",
                                token |-> NoToken, user |-> u]]
  /\ late' = [late EXCEPT ![r] = {}]
  /\ UNCHANGED <<now, store, dead, spent>>

-----------------------------------------------------------------------------
(* The handlers *)

AtHandler(r, route) == req[r].pc = "handler" /\ req[r].route = route
Respond(r) == req' = [req EXCEPT ![r] = Idle]

(* POST /auth/login *)
LocalLoginRoute(r) ==
  /\ AtHandler(r, "login")
  /\ Login(req[r].user)
  /\ Respond(r)
  /\ UNCHANGED <<now, active, revoked, history>>

(* POST /auth/token: a pair beside the one presented, which stays valid. *)
TokenRoute(r) ==
  /\ AtHandler(r, "token")
  /\ Login(req[r].user)
  /\ Respond(r)
  /\ UNCHANGED <<now, active, revoked, history>>

(* POST /auth/refresh *)
Refresh(r) ==
  /\ AtHandler(r, "refresh")
  /\ Login(req[r].user)
  /\ spent' = spent \cup {<<req[r].token.jti, pairs>>}
  /\ Respond(r)
  /\ UNCHANGED <<now, active, revoked, dead, late>>

(* POST /auth-manage/login-as-user/:userId, for manage-all only *)
LoginAsUser(r, u) ==
  /\ AtHandler(r, "loginAs")
  /\ req[r].user \in Admins
  /\ u \in active
  /\ Login(u)
  /\ Respond(r)
  /\ UNCHANGED <<now, active, revoked, history>>

(* POST /auth/logout: one INSERT for the access token and its session *)
Logout(r) ==
  /\ AtHandler(r, "logout")
  /\ RevokeTokens({TokenRow(req[r].token), SessionRow(req[r].token)})
  /\ Respond(r)
  /\ UNCHANGED <<now, active, tokens, pairs, late, spent>>

(* DELETE /users/:id, by an administrator: a soft delete *)
DeleteUser(r, u) ==
  /\ AtHandler(r, "protected")
  /\ req[r].user \in Admins \ {u}
  /\ active' = active \ {u}
  /\ Respond(r)
  /\ UNCHANGED <<now, tokens, pairs, revoked, history>>

(* Any other end of a request: a handler of another module, a rejection by *)
(* the policies guard, a failed query, a closed connection, a dead worker. *)
EndRequest(r) ==
  /\ InFlight(r)
  /\ Respond(r)
  /\ UNCHANGED <<now, store, history>>

Tick ==
  /\ now < MaxTime
  /\ now' = now + 1
  /\ UNCHANGED <<store, req, history>>

-----------------------------------------------------------------------------
Init ==
  /\ now = 0
  /\ active = Users
  /\ tokens = {}
  /\ pairs = 0
  /\ revoked = {}
  /\ req = [r \in Requests |-> Idle]
  /\ dead = {}
  /\ late = [r \in Requests |-> {}]
  /\ spent = {}

Next ==
  \/ Tick
  \/ CleanupExpiredTokens
  \/ \E r \in Requests :
       \/ \E t \in tokens, route \in AccessRoutes \cup {"refresh"} :
            Authenticate(r, route, t)
       \/ \E u \in Users :
            LocalLogin(r, u) \/ LoginAsUser(r, u) \/ DeleteUser(r, u)
       \/ CheckRevoked(r)
       \/ RevokeRefreshToken(r)
       \/ LookupUser(r)
       \/ LocalLoginRoute(r)
       \/ TokenRoute(r)
       \/ Refresh(r)
       \/ Logout(r)
       \/ EndRequest(r)

Spec == Init /\ [][Next]_vars

-----------------------------------------------------------------------------
(* Types: what each variable may hold.                                     *)
TypeOK ==
  /\ now \in Nat
  /\ active \subseteq Users
  /\ tokens \subseteq Token
  /\ pairs \in Nat
  /\ revoked \subseteq Row
  /\ req \in [Requests -> Request]
  /\ dead \subseteq Jti
  /\ late \in [Requests -> SUBSET {"revoked", "deleted"}]
  /\ spent \subseteq Jti \X Nat

(* Forgetting is safe: whatever rows the hourly cleanup has deleted, a     *)
(* token that was revoked, or whose session was logged out, is still found *)
(* in the table until the token itself has expired                         *)
(* (revoked-tokens.service.ts revokeToken, isTokenRevoked, cleanup).       *)
RevocationHolds ==
  \A t \in tokens : Dead(t) => Expired(t) \/ IsTokenRevoked(t)

(* A request that started after its token was revoked, or after the logout *)
(* of its session, reaches no handler.  The one way past the table is to   *)
(* outlive it: a request so slow that its token expires, and the row is    *)
(* cleaned up, between the signature check and the query.                  *)
RevokedNeverServed ==
  \A r \in Requests :
    "revoked" \in late[r] /\ req[r].pc \in {"revoke", "lookup", "handler"}
      => Expired(req[r].token)

(* A request that started after its user was deleted reaches no handler,   *)
(* whatever tokens logins racing with the deletion signed for that user.   *)
DeletedNeverServed ==
  \A r \in Requests :
    "deleted" \in late[r] => req[r].pc # "handler"

(* docs/auth-refresh-token.md: a refresh token is revoked as soon as it is *)
(* used, so no token is ever exchanged for two pairs.                      *)
RefreshTokenUsedOnce ==
  \A x, y \in spent : x[1] = y[1] => x = y
=============================================================================
