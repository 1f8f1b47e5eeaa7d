------------------------- MODULE AuthSessionsProofs -------------------------
(***************************************************************************)
(* Proofs about AuthSessions, for every number of users, requests, pairs   *)
(* and every lifetime of the tokens.                                       *)
(***************************************************************************)
EXTENDS AuthSessions, TLAPS

-----------------------------------------------------------------------------
(* Seconds and clock ticks *)

(* A row past its expiry belongs to an expired token: the cleanup compares *)
(* ticks, jsonwebtoken compares whole seconds.                             *)
LEMMA TicksToSeconds ==
  ASSUME NEW e \in Nat, NEW n \in Nat, e * Sec < n
  PROVE  n \div Sec >= e
<1>1. Sec \in Nat \ {0}
  BY ConstantsAssumption
<1>2. /\ n \div Sec \in Int
      /\ n = Sec * (n \div Sec) + (n % Sec)
      /\ n % Sec \in 0 .. Sec - 1
  BY <1>1
<1>3. Sec * e < Sec * ((n \div Sec) + 1)
  BY <1>1, <1>2
<1> QED BY <1>1, <1>2, <1>3

(* A token signed at n has expired ttl seconds later: flooring only brings *)
(* the end closer.                                                         *)
LEMMA SecondsToTicks ==
  ASSUME NEW n \in Nat, NEW ttl \in Nat
  PROVE  /\ n \div Sec \in Nat
         /\ ((n \div Sec) + ttl) * Sec <= n + (ttl * Sec)
<1>1. Sec \in Nat \ {0}
  BY ConstantsAssumption
<1>2. /\ n \div Sec \in Nat
      /\ n = Sec * (n \div Sec) + (n % Sec)
      /\ n % Sec \in 0 .. Sec - 1
  BY <1>1
<1>3. ((n \div Sec) + ttl) * Sec = (Sec * (n \div Sec)) + (ttl * Sec)
  BY <1>1, <1>2
<1> QED BY <1>1, <1>2, <1>3

(* Once expired, a token stays expired. *)
LEMMA ExpiryIsStable ==
  ASSUME NEW e \in Nat, NEW n \in Nat, n \div Sec >= e
  PROVE  (n + 1) \div Sec >= e
<1>1. Sec \in Nat \ {0}
  BY ConstantsAssumption
<1>2. /\ n \div Sec \in Nat
      /\ n = Sec * (n \div Sec) + (n % Sec)
      /\ n % Sec \in 0 .. Sec - 1
  BY <1>1
<1>3. /\ (n + 1) \div Sec \in Nat
      /\ n + 1 = Sec * ((n + 1) \div Sec) + ((n + 1) % Sec)
      /\ (n + 1) % Sec \in 0 .. Sec - 1
  BY <1>1
<1>4. Sec * (n \div Sec) < Sec * (((n + 1) \div Sec) + 1)
  BY <1>1, <1>2, <1>3
<1>5. n \div Sec < ((n + 1) \div Sec) + 1
  BY <1>1, <1>2, <1>3, <1>4
<1> QED BY <1>2, <1>3, <1>5

-----------------------------------------------------------------------------
(* Types *)

(* What a request needs of its own record before each step. *)
RequestsTyped ==
  \A r \in Requests :
    /\ InFlight(r) /\ req[r].route # "login" => req[r].token \in tokens
    /\ req[r].route = "login" => req[r].pc \in {"idle", "handler"}
    /\ req[r].pc = "handler" => req[r].user \in Users
    /\ req[r].route = "logout" => req[r].token.type = "access"
    /\ req[r].route = "refresh" => req[r].token.type = "refresh"
    /\ req[r].pc = "revoke" => req[r].route = "refresh"

Typed == TypeOK /\ RequestsTyped

LEMMA SignType ==
  ASSUME now \in Nat, NEW sid \in Nat, NEW type \in TokenType, NEW u \in Users
  PROVE  Sign(sid, type, u) \in Token
<1>1. now \div Sec \in Nat
  BY SecondsToTicks
<1>2. <<sid, type>> \in Jti
  BY DEF Jti, TokenType
<1> QED BY <1>1, <1>2, ConstantsAssumption DEF Sign, Token

LEMMA RowTypes ==
  ASSUME now \in Nat, NEW t \in Token
  PROVE  TokenRow(t) \in Row /\ SessionRow(t) \in Row
<1>1. t.exp * Sec \in Nat /\ now + (RefreshTTL * Sec) \in Nat
  BY ConstantsAssumption DEF Token
<1>2. <<t.sid, "session">> \in Jti
  BY DEF Jti, Token
<1> QED BY <1>1, <1>2 DEF TokenRow, SessionRow, SessionJti, Row, Token

LEMMA LoginTypes ==
  ASSUME TypeOK, NEW u \in Users, Login(u)
  PROVE  /\ tokens' \subseteq Token
         /\ pairs' \in Nat
         /\ tokens \subseteq tokens'
<1>1. Sign(pairs, "access", u) \in Token /\ Sign(pairs, "refresh", u) \in Token
  BY SignType DEF TypeOK, TokenType
<1> QED BY <1>1 DEF Login, TypeOK

LEMMA RevokeTypes ==
  ASSUME TypeOK, NEW rows, rows \subseteq Row, RevokeTokens(rows)
  PROVE  revoked' \subseteq Row /\ dead' \subseteq Jti
BY DEF RevokeTokens, TypeOK, Row

LEMMA TypedInit == Init => Typed
BY ConstantsAssumption DEF Init, Typed, TypeOK, RequestsTyped, Idle, InFlight, Request

LEMMA TypedStep == Typed /\ [Next]_vars => Typed'
<1> SUFFICES ASSUME Typed, [Next]_vars
             PROVE  Typed'
  OBVIOUS
<1> USE DEF Typed, InFlight, Request
<1>1. CASE Tick
  BY <1>1 DEF Tick, TypeOK, RequestsTyped, store, history
<1>2. CASE CleanupExpiredTokens
  BY <1>2 DEF CleanupExpiredTokens, TypeOK, RequestsTyped, history
<1>3. ASSUME NEW r \in Requests, NEW t \in tokens,
             NEW route \in AccessRoutes \cup {"refresh"}, Authenticate(r, route, t)
      PROVE  Typed'
  <2>1. t \in Token
    BY DEF TypeOK
  <2>2. TypeOK'
    BY <1>3, <2>1 DEF Authenticate, AcceptedType, TypeOK, store, AccessRoutes, Routes
  <2>3. RequestsTyped'
    BY <1>3, <2>1 DEF Authenticate, AcceptedType, RequestsTyped, TypeOK, store, AccessRoutes
  <2> QED BY <2>2, <2>3
<1>4. ASSUME NEW r \in Requests, NEW u \in Users, LocalLogin(r, u)
      PROVE  Typed'
  BY <1>4 DEF LocalLogin, TypeOK, RequestsTyped, store, Routes
<1>5. ASSUME NEW r \in Requests, NEW u \in Users, LoginAsUser(r, u)
      PROVE  Typed'
  BY <1>5, LoginTypes DEF LoginAsUser, Respond, Idle, TypeOK, RequestsTyped, history
<1>6. ASSUME NEW r \in Requests, NEW u \in Users, DeleteUser(r, u)
      PROVE  Typed'
  BY <1>6 DEF DeleteUser, Respond, Idle, TypeOK, RequestsTyped, history
<1>7. ASSUME NEW r \in Requests, CheckRevoked(r)
      PROVE  Typed'
  BY <1>7 DEF CheckRevoked, Idle, TypeOK, RequestsTyped, store, history
<1>8. ASSUME NEW r \in Requests, RevokeRefreshToken(r)
      PROVE  Typed'
  <2>1. req[r].token \in tokens /\ req[r].token \in Token
    BY <1>8 DEF RevokeRefreshToken, RequestsTyped, TypeOK
  <2>2. TokenRow(req[r].token) \in Row
    BY <2>1, RowTypes DEF TypeOK
  <2>3. revoked' \subseteq Row /\ dead' \subseteq Jti
    BY <1>8, <2>2, RevokeTypes DEF RevokeRefreshToken
  <2> QED BY <1>8, <2>1, <2>3 DEF RevokeRefreshToken, TypeOK, RequestsTyped
<1>9. ASSUME NEW r \in Requests, LookupUser(r)
      PROVE  Typed'
  <2>1. req[r].pc = "lookup" /\ req[r].token \in Token
    BY <1>9 DEF LookupUser, TypeOK, RequestsTyped
  <2>2. req[r].token.sub \in Users
    BY <2>1 DEF Token
  <2>3. CASE req[r].token.sub \in active
    <3> DEFINE served == [[req EXCEPT ![r].pc = "handler"]
                             EXCEPT ![r].user = req[r].token.sub]
    <3>1. req' = served
      BY <1>9, <2>3 DEF LookupUser, TypeOK
    <3>2. req[r].route # "login"
      BY <2>1 DEF RequestsTyped
    <3>3. RequestsTyped'
      BY <1>9, <2>1, <2>2, <3>1, <3>2 DEF LookupUser, TypeOK, RequestsTyped, store
    <3>4. req' \in [Requests -> Request]
      <4>1. [req EXCEPT ![r].pc = "handler"] \in [Requests -> Request]
        BY DEF TypeOK
      <4>2. \A f \in [Requests -> Request], u \in Users :
              [f EXCEPT ![r].user = u] \in [Requests -> Request]
        OBVIOUS
      <4> QED BY <2>2, <3>1, <4>1, <4>2
    <3>5. TypeOK'
      BY <1>9, <3>4 DEF LookupUser, TypeOK, store, history
    <3> QED BY <3>3, <3>5
  <2>4. CASE req[r].token.sub \notin active
    BY <1>9, <2>4 DEF LookupUser, Idle, TypeOK, RequestsTyped, store, history
  <2> QED BY <2>3, <2>4
<1>10. ASSUME NEW r \in Requests, LocalLoginRoute(r) \/ TokenRoute(r)
       PROVE  Typed'
  BY <1>10, LoginTypes
     DEF LocalLoginRoute, TokenRoute, AtHandler, Respond, Idle, TypeOK, RequestsTyped, history
<1>11. ASSUME NEW r \in Requests, Refresh(r)
       PROVE  Typed'
  <2>1. req[r].user \in Users /\ req[r].token \in Token
    BY <1>11 DEF Refresh, AtHandler, RequestsTyped, TypeOK
  <2>2. spent' \subseteq Jti \X Nat
    BY <1>11, <2>1 DEF Refresh, TypeOK, Token
  <2> QED BY <1>11, <2>1, <2>2, LoginTypes
          DEF Refresh, Respond, Idle, TypeOK, RequestsTyped
<1>12. ASSUME NEW r \in Requests, Logout(r)
       PROVE  Typed'
  <2>1. req[r].token \in Token
    BY <1>12 DEF Logout, AtHandler, RequestsTyped, TypeOK
  <2>2. {TokenRow(req[r].token), SessionRow(req[r].token)} \subseteq Row
    BY <2>1, RowTypes DEF TypeOK
  <2>3. revoked' \subseteq Row /\ dead' \subseteq Jti
    BY <1>12, <2>2, RevokeTypes DEF Logout
  <2> QED BY <1>12, <2>3 DEF Logout, Respond, Idle, TypeOK, RequestsTyped
<1>13. ASSUME NEW r \in Requests, EndRequest(r)
       PROVE  Typed'
  BY <1>13 DEF EndRequest, Respond, Idle, TypeOK, RequestsTyped, store, history
<1>14. CASE UNCHANGED vars
  BY <1>14 DEF vars, store, history, TypeOK, RequestsTyped
<1> QED BY <1>1, <1>2, <1>3, <1>4, <1>5, <1>6, <1>7, <1>8, <1>9, <1>10, <1>11,
           <1>12, <1>13, <1>14 DEF Next

(* Every variable keeps its type, and a request that presents a token      *)
(* presents one that was signed.                                           *)
THEOREM TypeCorrect == Spec => []TypeOK
<1>1. Typed => TypeOK
  BY DEF Typed
<1> QED BY TypedInit, TypedStep, <1>1, PTL DEF Spec

-----------------------------------------------------------------------------
(* Revocation: the inductive invariant                                     *)
(*                                                                         *)
(* RevocationHolds is not inductive: it does not say that the row which    *)
(* answers for a token lives as long as the token, so the next cleanup     *)
(* could delete it.  RowsCover says so; the other conjuncts are what each  *)
(* INSERT needs to keep RowsCover although a conflicting row makes it a    *)
(* no-op.                                                                  *)

(* A row answers for a token at least until the token expires.             *)
Covers(w, t) ==
  /\ w.jti = t.jti \/ (w.sid = t.sid /\ w.tokenType = "session")
  /\ w.expiresAt >= t.exp * Sec

(* The names of a pair are fresh, and no token outlives its refresh TTL.   *)
TokensNamed ==
  \A t \in tokens :
    /\ t.jti = <<t.sid, t.type>>
    /\ t.sid < pairs
    /\ t.type = "refresh" => t.exp * Sec <= now + (RefreshTTL * Sec)

TokensDistinct == \A s, t \in tokens : s.jti = t.jti => s = t

(* What a row already in the table guarantees to an INSERT it makes void.  *)
RowsNamed ==
  \A w \in revoked :
    /\ w.jti = <<w.sid, w.tokenType>>
    /\ \A t \in tokens :
         /\ w.jti = t.jti => w.expiresAt >= t.exp * Sec
         /\ w.tokenType = "session" /\ w.sid = t.sid /\ t.type = "refresh"
              => w.expiresAt >= t.exp * Sec
    /\ w.sid < pairs

DeadNamed == \A j \in dead : j[1] < pairs

RowsCover ==
  \A t \in tokens : Dead(t) => Expired(t) \/ \E w \in revoked : Covers(w, t)

RevocationInv ==
  TokensNamed /\ TokensDistinct /\ RowsNamed /\ DeadNamed /\ RowsCover

(* Inserting the rows of a request's own token keeps the invariant. *)
LEMMA RevokeKeepsInv ==
  ASSUME Typed, RevocationInv, NEW p \in tokens, NEW rows,
         \/ rows = {TokenRow(p)} /\ p.type = "refresh"
         \/ rows = {TokenRow(p), SessionRow(p)} /\ p.type = "access",
         RevokeTokens(rows), UNCHANGED <<now, tokens, pairs>>
  PROVE  RevocationInv'
<1>1. p \in Token /\ p.sid \in Nat /\ p.jti = <<p.sid, p.type>> /\ p.sid < pairs
  BY DEF Typed, TypeOK, RevocationInv, TokensNamed, Token
<1>2. /\ TokenRow(p).jti = <<p.sid, p.type>>
      /\ TokenRow(p).jti = p.jti
      /\ TokenRow(p).sid = p.sid
      /\ TokenRow(p).tokenType = p.type
      /\ TokenRow(p).expiresAt = p.exp * Sec
  BY <1>1 DEF TokenRow
<1>3. /\ SessionRow(p).jti = <<p.sid, "session">>
      /\ SessionRow(p).sid = p.sid
      /\ SessionRow(p).tokenType = "session"
      /\ SessionRow(p).expiresAt = now + (RefreshTTL * Sec)
  BY DEF SessionRow, SessionJti
<1>4. rows \subseteq Row
  BY <1>1, RowTypes DEF Typed, TypeOK
<1>5. \A t \in tokens : /\ t \in Token /\ t.exp * Sec \in Nat
                         /\ t.jti = <<t.sid, t.type>> /\ t.type \in TokenType
                         /\ t.sid \in Nat
  BY ConstantsAssumption DEF Typed, TypeOK, Token, RevocationInv, TokensNamed
<1>6. TokensNamed' /\ TokensDistinct'
  BY DEF RevocationInv, TokensNamed, TokensDistinct
<1>7. RowsNamed'
  <2> SUFFICES ASSUME NEW w \in revoked'
               PROVE  /\ w.jti = <<w.sid, w.tokenType>>
                      /\ \A t \in tokens :
                           /\ w.jti = t.jti => w.expiresAt >= t.exp * Sec
                           /\ w.tokenType = "session" /\ w.sid = t.sid
                                /\ t.type = "refresh"
                                => w.expiresAt >= t.exp * Sec
                      /\ w.sid < pairs
    BY DEF RowsNamed
  <2>1. CASE w \in revoked
    BY <2>1 DEF RevocationInv, RowsNamed
  <2>2. CASE w = TokenRow(p)
    <3>1. \A t \in tokens : w.jti = t.jti => t = p
      BY <1>2, <2>2 DEF RevocationInv, TokensDistinct
    <3>2. w.tokenType # "session"
      BY <1>2, <1>5, <2>2 DEF TokenType
    <3> QED BY <1>1, <1>2, <1>5, <2>2, <3>1, <3>2
  <2>3. CASE w = SessionRow(p)
    <3>1. \A t \in tokens : w.jti # t.jti
      BY <1>3, <1>5, <2>3 DEF TokenType
    <3> QED BY <1>1, <1>3, <2>3, <3>1 DEF RevocationInv, TokensNamed
  <2> QED BY <2>1, <2>2, <2>3 DEF RevokeTokens
<1>8. DeadNamed'
  BY <1>1, <1>2, <1>3 DEF RevocationInv, DeadNamed, RevokeTokens
<1>9. RowsCover'
  <2> SUFFICES ASSUME NEW t \in tokens, Dead(t)', ~Expired(t)
               PROVE  \E w \in revoked' : Covers(w, t)
    BY DEF RowsCover, Covers, Expired
  <2>1. revoked \subseteq revoked'
    BY DEF RevokeTokens
  <2>2. CASE Dead(t)
    BY <2>1, <2>2 DEF RevocationInv, RowsCover
  <2>3. ASSUME NEW w \in rows,
               \A old \in Row : old.jti = w.jti /\ old \in revoked'
                                   => Covers(old, t)
        PROVE  \E x \in revoked' : Covers(x, t)
    BY <1>4, <2>3 DEF RevokeTokens, Typed, TypeOK
  <2>4. CASE ~Dead(t) /\ t = p
    <3>1. \A old \in revoked' : old.jti = TokenRow(p).jti => Covers(old, t)
      BY <1>2, <1>7, <2>4 DEF RowsNamed, Covers
    <3>2. TokenRow(p) \in rows
      OBVIOUS
    <3> QED BY <2>3, <3>1, <3>2
  <2>5. CASE ~Dead(t) /\ t # p
    <3>1. t.jti # p.jti
      BY <2>5 DEF RevocationInv, TokensDistinct
    <3>2. t.jti # <<p.sid, "session">>
      BY <1>5 DEF TokenType
    <3>3. rows = {TokenRow(p), SessionRow(p)} /\ p.type = "access" /\ t.sid = p.sid
      <4>1. \A j \in dead' \ dead : j = p.jti \/ j = <<p.sid, "session">>
        BY <1>2, <1>3 DEF RevokeTokens
      <4>2. SessionJti(t.sid) \in dead' \ dead
        BY <2>5, <3>1, <3>2, <4>1 DEF Dead
      <4>3. <<t.sid, "session">> # p.jti
        BY <1>1, <1>5 DEF TokenType, Token
      <4> QED BY <1>2, <1>5, <4>1, <4>2, <4>3 DEF SessionJti, RevokeTokens
    <3>4. t.type = "refresh"
      BY <1>1, <1>5, <3>1, <3>3 DEF TokenType
    <3>5. \A old \in revoked' : old.jti = SessionRow(p).jti => Covers(old, t)
      BY <1>3, <1>7, <3>3, <3>4 DEF RowsNamed, Covers
    <3> QED BY <2>3, <3>3, <3>5
  <2> QED BY <2>2, <2>4, <2>5
<1> QED BY <1>6, <1>7, <1>8, <1>9 DEF RevocationInv

(* Signing a fresh pair keeps the invariant: nothing names it yet. *)
LEMMA LoginKeepsInv ==
  ASSUME Typed, RevocationInv, NEW u \in Users, Login(u),
         UNCHANGED <<now, revoked, dead>>
  PROVE  RevocationInv'
<1> DEFINE a == Sign(pairs, "access", u)
           b == Sign(pairs, "refresh", u)
<1>1. /\ a \in Token /\ b \in Token /\ pairs \in Nat
      /\ a.jti = <<pairs, "access">> /\ a.sid = pairs /\ a.type = "access"
      /\ b.jti = <<pairs, "refresh">> /\ b.sid = pairs /\ b.type = "refresh"
      /\ b.exp = (now \div Sec) + RefreshTTL
      /\ tokens' = tokens \cup {a, b} /\ pairs' = pairs + 1
  BY SignType DEF Sign, Login, Typed, TypeOK, TokenType
<1>2. b.exp * Sec <= now + (RefreshTTL * Sec)
  BY <1>1, SecondsToTicks, ConstantsAssumption DEF Typed, TypeOK
<1>3. \A t \in tokens : /\ t.jti = <<t.sid, t.type>> /\ t.sid < pairs
                         /\ t.sid \in Nat /\ t.type \in TokenType
  BY DEF RevocationInv, TokensNamed, Typed, TypeOK, Token
<1>4. TokensNamed'
  BY <1>1, <1>2, <1>3 DEF RevocationInv, TokensNamed
<1>5. TokensDistinct'
  <2>1. \A t \in tokens : t.jti # a.jti /\ t.jti # b.jti
    BY <1>1, <1>3
  <2> QED BY <1>1, <2>1 DEF RevocationInv, TokensDistinct
<1>6. \A w \in revoked : w.jti = <<w.sid, w.tokenType>> /\ w.sid \in Nat /\ w.sid < pairs
  BY DEF RevocationInv, RowsNamed, Typed, TypeOK, Row
<1>7. RowsNamed'
  <2>1. \A w \in revoked : w.jti # a.jti /\ w.jti # b.jti /\ w.sid # pairs
    BY <1>1, <1>6
  <2> QED BY <1>1, <1>6, <2>1 DEF RevocationInv, RowsNamed
<1>8. DeadNamed'
  <2>1. \A j \in dead : j[1] \in Nat
    BY DEF Typed, TypeOK, Jti
  <2> QED BY <1>1, <2>1 DEF RevocationInv, DeadNamed
<1>9. RowsCover'
  <2>1. ~Dead(a) /\ ~Dead(b)
    <3>1. \A j \in dead : j[1] # pairs
      BY <1>1 DEF RevocationInv, DeadNamed
    <3>2. <<pairs, "access">>[1] = pairs /\ <<pairs, "refresh">>[1] = pairs
           /\ <<pairs, "session">>[1] = pairs
      OBVIOUS
    <3> QED BY <1>1, <3>1, <3>2 DEF Dead, SessionJti
  <2>2. \A t \in tokens' : Dead(t)' => t \in tokens /\ Dead(t)
    BY <1>1, <2>1 DEF Dead
  <2>3. ASSUME NEW t \in tokens, Dead(t)
        PROVE  Expired(t)' \/ \E w \in revoked' : Covers(w, t)
    BY <2>3 DEF RevocationInv, RowsCover, Expired
  <2> QED BY <2>2, <2>3 DEF RowsCover, Covers
<1> QED BY <1>4, <1>5, <1>7, <1>8, <1>9 DEF RevocationInv

(* The cleanup deletes a row only after every token it answers for. *)
LEMMA CleanupKeepsInv ==
  ASSUME Typed, RevocationInv, CleanupExpiredTokens
  PROVE  RevocationInv'
<1> USE DEF CleanupExpiredTokens, history
<1>1. TokensNamed' /\ TokensDistinct' /\ RowsNamed' /\ DeadNamed'
  BY DEF RevocationInv, TokensNamed, TokensDistinct, RowsNamed, DeadNamed
<1>2. RowsCover'
  <2> SUFFICES ASSUME NEW t \in tokens, Dead(t), ~Expired(t)
               PROVE  \E w \in revoked' : Covers(w, t)
    BY DEF RowsCover, Dead, Expired, Covers
  <2>1. PICK w \in revoked : Covers(w, t)
    BY DEF RevocationInv, RowsCover
  <2>2. /\ t.exp \in Nat /\ now \in Nat /\ w.expiresAt \in Nat
        /\ t.exp * Sec \in Nat
    BY ConstantsAssumption DEF Typed, TypeOK, Token, Row
  <2>3. ~(t.exp * Sec < now)
    BY <2>2, TicksToSeconds DEF Expired
  <2>4. w.expiresAt >= now
    BY <2>1, <2>2, <2>3 DEF Covers
  <2> QED BY <2>1, <2>4
<1> QED BY <1>1, <1>2 DEF RevocationInv

(* Time passes: tokens expire and stay expired. *)
LEMMA TickKeepsInv ==
  ASSUME Typed, RevocationInv, Tick
  PROVE  RevocationInv'
<1> USE DEF Tick, store, history
<1>1. \A t \in tokens : t.exp \in Nat /\ t.exp * Sec \in Nat
  BY ConstantsAssumption DEF Typed, TypeOK, Token
<1>2. now \in Nat /\ RefreshTTL * Sec \in Nat
  BY ConstantsAssumption DEF Typed, TypeOK
<1>3. TokensNamed'
  BY <1>1, <1>2 DEF RevocationInv, TokensNamed
<1>4. TokensDistinct' /\ RowsNamed' /\ DeadNamed'
  BY DEF RevocationInv, TokensDistinct, RowsNamed, DeadNamed
<1>5. RowsCover'
  <2>1. \A t \in tokens : Expired(t) => Expired(t)'
    BY <1>1, <1>2, ExpiryIsStable DEF Expired
  <2>2. \A t \in tokens : Dead(t)' => Dead(t)
    BY DEF Dead
  <2> QED BY <2>1, <2>2 DEF RevocationInv, RowsCover, Covers
<1> QED BY <1>3, <1>4, <1>5 DEF RevocationInv

(* Steps that touch neither the clock, nor the tokens, nor the table. *)
LEMMA QuietKeepsInv ==
  ASSUME RevocationInv, UNCHANGED <<now, tokens, pairs, revoked, dead>>
  PROVE  RevocationInv'
BY DEF RevocationInv, TokensNamed, TokensDistinct, RowsNamed, DeadNamed,
       RowsCover, Covers, Dead, Expired

LEMMA RevocationInit == Init => RevocationInv
BY DEF Init, RevocationInv, TokensNamed, TokensDistinct, RowsNamed, DeadNamed,
       RowsCover

LEMMA RevocationStep == Typed /\ RevocationInv /\ [Next]_vars => RevocationInv'
<1> SUFFICES ASSUME Typed, RevocationInv, [Next]_vars
             PROVE  RevocationInv'
  OBVIOUS
<1>1. CASE Tick
  BY <1>1, TickKeepsInv
<1>2. CASE CleanupExpiredTokens
  BY <1>2, CleanupKeepsInv
<1>3. ASSUME NEW r \in Requests,
             \/ \E t \in tokens, route \in AccessRoutes \cup {"refresh"} :
                  Authenticate(r, route, t)
             \/ \E u \in Users : LocalLogin(r, u) \/ DeleteUser(r, u)
             \/ CheckRevoked(r) \/ LookupUser(r) \/ EndRequest(r)
      PROVE  RevocationInv'
  BY <1>3, QuietKeepsInv
     DEF Authenticate, LocalLogin, DeleteUser, CheckRevoked, LookupUser,
         EndRequest, store, history
<1>4. ASSUME NEW r \in Requests,
             \/ \E u \in Users : LoginAsUser(r, u)
             \/ LocalLoginRoute(r) \/ TokenRoute(r) \/ Refresh(r)
      PROVE  RevocationInv'
  <2>1. \E u \in Users : Login(u)
    BY <1>4 DEF LoginAsUser, LocalLoginRoute, TokenRoute, Refresh, AtHandler, Typed, RequestsTyped
  <2>2. UNCHANGED <<now, revoked, dead>>
    BY <1>4 DEF LoginAsUser, LocalLoginRoute, TokenRoute, Refresh, history
  <2> QED BY <2>1, <2>2, LoginKeepsInv
<1>5. ASSUME NEW r \in Requests, RevokeRefreshToken(r)
      PROVE  RevocationInv'
  <2>1. req[r].token \in tokens /\ req[r].token.type = "refresh"
    BY <1>5 DEF RevokeRefreshToken, Typed, RequestsTyped, InFlight
  <2> QED BY <1>5, <2>1, RevokeKeepsInv DEF RevokeRefreshToken
<1>6. ASSUME NEW r \in Requests, Logout(r)
      PROVE  RevocationInv'
  <2>1. req[r].token \in tokens /\ req[r].token.type = "access"
    BY <1>6 DEF Logout, AtHandler, Typed, RequestsTyped, InFlight
  <2> QED BY <1>6, <2>1, RevokeKeepsInv DEF Logout
<1>7. CASE UNCHANGED vars
  BY <1>7, QuietKeepsInv DEF vars, store, history
<1> QED BY <1>1, <1>2, <1>3, <1>4, <1>5, <1>6, <1>7 DEF Next

(* A revoked token, or one of a logged-out session, is found in the table  *)
(* until it expires: the cleanup never brings one back to life.            *)
THEOREM RevocationIsNeverForgotten == Spec => []RevocationHolds
<1>1. RevocationInv => RevocationHolds
  BY DEF RevocationInv, RowsCover, Covers, RevocationHolds, IsTokenRevoked
<1> QED BY TypedInit, TypedStep, RevocationInit, RevocationStep, <1>1, PTL DEF Spec

-----------------------------------------------------------------------------
(* Late requests *)

(* What was true when a late request began is still true while it runs.    *)
LateFacts(r) ==
  late[r] # {} /\ InFlight(r) =>
    /\ req[r].token \in Token /\ req[r].route # "login"
    /\ "revoked" \in late[r] => Dead(req[r].token)
    /\ "deleted" \in late[r] =>
         req[r].token.sub \notin active /\ req[r].pc # "handler"
    /\ "revoked" \in late[r] /\ req[r].pc # "check" => Expired(req[r].token)

LateInv == \A r \in Requests : LateFacts(r)

(* A request that stays where it is, or ends, keeps its facts: revocation, *)
(* deletion and expiry are for ever.                                       *)
LEMMA LateFrame ==
  ASSUME Typed, now' = now \/ now' = now + 1,
         dead \subseteq dead', active' \subseteq active,
         NEW q \in Requests, LateFacts(q), late'[q] = late[q],
         req'[q] = req[q] \/ req'[q] = Idle
  PROVE  LateFacts(q)'
<1>1. CASE req'[q] = Idle
  BY <1>1 DEF LateFacts, Idle, InFlight
<1>2. CASE req'[q] = req[q]
  <2> SUFFICES ASSUME late[q] # {}, InFlight(q)
               PROVE  LateFacts(q)'
    BY <1>2 DEF LateFacts, InFlight
  <2>1. Dead(req[q].token) => Dead(req[q].token)'
    BY <1>2 DEF Dead
  <2>2. Expired(req[q].token) => Expired(req[q].token)'
    <3>1. req[q].token.exp \in Nat /\ now \in Nat
      BY DEF LateFacts, Typed, TypeOK, Token
    <3> QED BY <1>2, <3>1, ExpiryIsStable DEF Expired
  <2> QED BY <1>2, <2>1, <2>2 DEF LateFacts, InFlight
<1> QED BY <1>1, <1>2

LEMMA LateInit == Init => LateInv
BY DEF Init, LateInv, LateFacts

LEMMA LateStep == Typed /\ RevocationHolds /\ LateInv /\ [Next]_vars => LateInv'
<1> SUFFICES ASSUME Typed, RevocationHolds, LateInv, [Next]_vars
             PROVE  LateInv'
  OBVIOUS
<1> USE DEF LateInv
<1>1. CASE Tick \/ CleanupExpiredTokens \/ UNCHANGED vars
  BY <1>1, LateFrame DEF Tick, CleanupExpiredTokens, vars, store, history
<1>2. ASSUME NEW r \in Requests,
             \/ \E u \in Users : LoginAsUser(r, u) \/ DeleteUser(r, u)
             \/ LocalLoginRoute(r) \/ TokenRoute(r) \/ Refresh(r) \/ Logout(r) \/ EndRequest(r)
      PROVE  LateInv'
  <2>1. /\ now' = now /\ late' = late /\ dead \subseteq dead'
        /\ active' \subseteq active /\ req' = [req EXCEPT ![r] = Idle]
    BY <1>2 DEF LoginAsUser, DeleteUser, LocalLoginRoute, TokenRoute, Refresh, Logout, EndRequest,
                Respond, RevokeTokens, store, history
  <2>2. \A q \in Requests : req'[q] = req[q] \/ req'[q] = Idle
    BY <2>1 DEF Typed, TypeOK
  <2> QED BY <2>1, <2>2, LateFrame
<1>3. ASSUME NEW r \in Requests, NEW t \in tokens,
             NEW route \in AccessRoutes \cup {"refresh"}, Authenticate(r, route, t)
      PROVE  LateInv'
  <2>1. \A q \in Requests \ {r} : LateFacts(q)'
    BY <1>3, LateFrame DEF Authenticate, store, Typed, TypeOK
  <2>2. LateFacts(r)'
    <3>1. /\ req'[r] = [pc |-> "check", route |-> route, token |-> t, user |-> NoUser]
          /\ late'[r] = (IF Dead(t) THEN {"revoked"} ELSE {}) \cup
                         (IF t.sub \notin active THEN {"deleted"} ELSE {})
          /\ t \in Token /\ route # "login"
      BY <1>3 DEF Authenticate, Typed, TypeOK, AccessRoutes
    <3>2. Dead(t) => t.jti \in dead' \/ SessionJti(t.sid) \in dead'
      BY <1>3 DEF Authenticate, Dead
    <3> QED BY <1>3, <3>1, <3>2 DEF LateFacts, Dead, Authenticate, store
  <2> QED BY <2>1, <2>2
<1>4. ASSUME NEW r \in Requests, NEW u \in Users, LocalLogin(r, u)
      PROVE  LateInv'
  <2>1. \A q \in Requests \ {r} : LateFacts(q)'
    BY <1>4, LateFrame DEF LocalLogin, store, Typed, TypeOK
  <2>2. LateFacts(r)'
    BY <1>4 DEF LocalLogin, LateFacts, Typed, TypeOK
  <2> QED BY <2>1, <2>2
<1>5. ASSUME NEW r \in Requests, CheckRevoked(r)
      PROVE  LateInv'
  <2>1. \A q \in Requests \ {r} : LateFacts(q)'
    BY <1>5, LateFrame DEF CheckRevoked, store, history, Typed, TypeOK
  <2>2. LateFacts(r)'
    <3>1. req[r].token \in tokens
      BY <1>5 DEF CheckRevoked, Typed, RequestsTyped, InFlight
    <3>2. CASE IsTokenRevoked(req[r].token)
      BY <1>5, <3>2 DEF CheckRevoked, LateFacts, Idle, InFlight, Typed, TypeOK
    <3>3. CASE ~IsTokenRevoked(req[r].token)
      <4>1. Dead(req[r].token) => Expired(req[r].token)
        BY <3>1, <3>3 DEF RevocationHolds
      <4>2. req[r].pc = "check" /\ req'[r].pc \in {"revoke", "lookup"}
             /\ req'[r].token = req[r].token /\ req'[r].route = req[r].route
        BY <1>5, <3>3 DEF CheckRevoked, Typed, TypeOK, Request
      <4> QED BY <1>5, <4>1, <4>2
              DEF CheckRevoked, LateFacts, InFlight, Dead, Expired, store, history
    <3> QED BY <3>2, <3>3
  <2> QED BY <2>1, <2>2
<1>6. ASSUME NEW r \in Requests, RevokeRefreshToken(r)
      PROVE  LateInv'
  <2>1. dead \subseteq dead'
    BY <1>6 DEF RevokeRefreshToken, RevokeTokens
  <2>2. \A q \in Requests \ {r} : LateFacts(q)'
    BY <1>6, <2>1, LateFrame DEF RevokeRefreshToken, Typed, TypeOK
  <2>3. req[r].pc = "revoke" /\ req'[r].pc = "lookup"
         /\ req'[r].token = req[r].token /\ req'[r].route = req[r].route
    BY <1>6 DEF RevokeRefreshToken, Typed, TypeOK, Request
  <2>4. LateFacts(r)'
    BY <1>6, <2>1, <2>3
       DEF RevokeRefreshToken, LateFacts, InFlight, Dead, Expired
  <2> QED BY <2>2, <2>4
<1>7. ASSUME NEW r \in Requests, LookupUser(r)
      PROVE  LateInv'
  <2>1. \A q \in Requests \ {r} : LateFacts(q)'
    BY <1>7, LateFrame DEF LookupUser, store, history, Typed, TypeOK
  <2>2. LateFacts(r)'
    <3>1. CASE req[r].token.sub \in active
      <4>1. req[r].pc = "lookup" /\ req'[r].pc = "handler"
             /\ req'[r].token = req[r].token /\ req'[r].route = req[r].route
        BY <1>7, <3>1 DEF LookupUser, Typed, TypeOK, Request
      <4> QED BY <1>7, <3>1, <4>1
              DEF LookupUser, LateFacts, InFlight, Dead, Expired, store, history
    <3>2. CASE req[r].token.sub \notin active
      BY <1>7, <3>2 DEF LookupUser, LateFacts, Idle, InFlight, Typed, TypeOK
    <3> QED BY <3>1, <3>2
  <2> QED BY <2>1, <2>2
<1> QED BY <1>1, <1>2, <1>3, <1>4, <1>5, <1>6, <1>7 DEF Next

LEMMA SpecInvariants == Spec => [](Typed /\ RevocationHolds /\ LateInv)
<1>1. RevocationInv => RevocationHolds
  BY DEF RevocationInv, RowsCover, Covers, RevocationHolds, IsTokenRevoked
<1> QED BY TypedInit, TypedStep, RevocationInit, RevocationStep, LateInit,
           LateStep, <1>1, PTL DEF Spec

(* A request that began after its token was revoked reaches no handler     *)
(* unless the token expired while the request was in flight.               *)
THEOREM RevokedRequestsAreRejected == Spec => []RevokedNeverServed
<1>1. LateInv => RevokedNeverServed
  BY DEF LateInv, LateFacts, RevokedNeverServed, InFlight
<1> QED BY SpecInvariants, <1>1, PTL

(* A request that began after its user was deleted reaches no handler. *)
THEOREM DeletedUsersAreRejected == Spec => []DeletedNeverServed
<1>1. LateInv => DeletedNeverServed
  BY DEF LateInv, LateFacts, DeletedNeverServed, InFlight
<1> QED BY SpecInvariants, <1>1, PTL
=============================================================================
