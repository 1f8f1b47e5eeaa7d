------------------------------- MODULE WsAuth -------------------------------
(***************************************************************************)
(* WsAuthService of users-backend, with its gateway and guard: a socket of *)
(* the `/ws` gateway is authenticated once, when it connects; authenticated*)
(* sockets receive broadcasts and are pinged every five seconds.           *)
(*                                                                         *)
(* Authentication is asynchronous: the socket may send messages, or close, *)
(* before passport answers.  The peer of a socket may fall silent, and then*)
(* the server never sees its connection close.                             *)
(***************************************************************************)
EXTENDS Naturals

CONSTANT Sockets

VARIABLES
  link,       \* readyState of the server's end
  auth,       \* socketsAuthenticators: what the promise of the socket holds
  clients,
  clientsToTerminate,
  peer,       \* whether the other end still answers
  heartbeat,  \* the ping or pong of the socket that is on its way
  guard       \* a message of the socket, and what the guard said of it

vars == <<link, auth, clients, clientsToTerminate, peer, heartbeat, guard>>

Connected(s) == link[s] \in {"open", "closing"}

(* socket.close(), socket.terminate(): the close event comes later, and    *)
(* only to a socket that is not closed yet.                                *)
Closing(ss) == [s \in Sockets |-> IF s \in ss /\ link[s] = "open" THEN "closing" ELSE link[s]]

-----------------------------------------------------------------------------
(* Connection and authentication *)

HandleConnection(s) ==
  /\ link[s] = "none"
  /\ link' = [link EXCEPT ![s] = "open"]
  /\ auth' = [auth EXCEPT ![s] = "pending"]
  /\ UNCHANGED <<clients, clientsToTerminate, peer, heartbeat, guard>>

(* The callback of passport.authenticate, with a user: addClient, whatever *)
(* became of the socket in the meantime.                                   *)
Authenticated(s) ==
  /\ auth[s] = "pending"
  /\ auth' = [auth EXCEPT ![s] = "user"]
  /\ clients' = clients \cup {s}
  /\ UNCHANGED <<link, clientsToTerminate, peer, heartbeat, guard>>

(* The callback, with an error or without a user. *)
Rejected(s) ==
  /\ auth[s] = "pending"
  /\ auth' = [auth EXCEPT ![s] = "null"]
  /\ link' = Closing({s})
  /\ UNCHANGED <<clients, clientsToTerminate, peer, heartbeat, guard>>

(* Mutant of MiddlewareFailed: the promise is left unresolved. *)
MiddlewareFailedSilently(s) ==
  /\ auth[s] = "pending"
  /\ auth' = [auth EXCEPT ![s] = "stuck"]
  /\ UNCHANGED <<link, clients, clientsToTerminate, peer, heartbeat, guard>>

(* passport itself fails: the socket stays open, unauthenticated. *)
MiddlewareFailed(s) ==
  /\ auth[s] = "pending"
  /\ auth' = [auth EXCEPT ![s] = "null"]
  /\ UNCHANGED <<link, clients, clientsToTerminate, peer, heartbeat, guard>>

(* The close event: the peer closed, or a close of ours is through. *)
HandleDisconnect(s) ==
  /\ Connected(s) /\ (link[s] = "closing" \/ peer[s] = "answering")
  /\ link' = [link EXCEPT ![s] = "closed"]
  /\ clients' = clients \ {s}
  /\ UNCHANGED <<auth, clientsToTerminate, peer, heartbeat, guard>>

-----------------------------------------------------------------------------
(* Messages: WsAuthGuard in front of a handler *)

Message(s) ==
  /\ Connected(s) /\ peer[s] = "answering" /\ guard[s] # "waiting"
  /\ guard' = [guard EXCEPT ![s] = "waiting"]
  /\ UNCHANGED <<link, auth, clients, clientsToTerminate, peer, heartbeat>>

(* canActivate, once finishInitialization has resolved. *)
CanActivate(s) ==
  /\ guard[s] = "waiting" /\ auth[s] \in {"user", "null"}
  /\ IF auth[s] = "user"
     THEN guard' = [guard EXCEPT ![s] = "none"] /\ UNCHANGED link
     ELSE guard' = [guard EXCEPT ![s] = "denied"] /\ link' = Closing({s})
  /\ UNCHANGED <<auth, clients, clientsToTerminate, peer, heartbeat>>

-----------------------------------------------------------------------------
(* Heartbeat *)

(* Mutant of CheckClients: the terminated socket is left to its own close. *)
CheckClientsKeeps ==
  LET late == clients \cap clientsToTerminate
      pinged == clients \ clientsToTerminate
  IN
  /\ link' = Closing(late)
  /\ clientsToTerminate' = clientsToTerminate \cup pinged
  /\ heartbeat' = [s \in Sockets |->
       IF s \in pinged /\ link[s] = "open" THEN "ping" ELSE heartbeat[s]]
  /\ UNCHANGED <<auth, clients, peer, guard>>

(* Every five seconds: terminate who has not answered, ping the others.    *)
(* A ping to a socket that is not open is dropped.                         *)
CheckClients ==
  LET late == clients \cap clientsToTerminate
      pinged == clients \ clientsToTerminate
  IN
  /\ link' = Closing(late)
  /\ clients' = clients \ late
  /\ clientsToTerminate' = clientsToTerminate \cup pinged
  /\ heartbeat' = [s \in Sockets |->
       IF s \in pinged /\ link[s] = "open" THEN "ping" ELSE heartbeat[s]]
  /\ UNCHANGED <<auth, peer, guard>>

(* The peer's WebSocket implementation answers a ping by itself. *)
PeerAnswers(s) ==
  /\ heartbeat[s] = "ping" /\ peer[s] = "answering" /\ Connected(s)
  /\ heartbeat' = [heartbeat EXCEPT ![s] = "pong"]
  /\ UNCHANGED <<link, auth, clients, clientsToTerminate, peer, guard>>

(* Mutant of Pong: the answer is not noted. *)
PongIgnored(s) ==
  /\ heartbeat[s] = "pong" /\ Connected(s)
  /\ heartbeat' = [heartbeat EXCEPT ![s] = "none"]
  /\ UNCHANGED <<link, auth, clients, clientsToTerminate, peer, guard>>

Pong(s) ==
  /\ heartbeat[s] = "pong" /\ Connected(s)
  /\ heartbeat' = [heartbeat EXCEPT ![s] = "none"]
  /\ clientsToTerminate' = clientsToTerminate \ {s}
  /\ UNCHANGED <<link, auth, clients, peer, guard>>

FallsSilent(s) ==
  /\ link[s] = "open" /\ peer[s] = "answering"
  /\ peer' = [peer EXCEPT ![s] = "silent"]
  /\ UNCHANGED <<link, auth, clients, clientsToTerminate, heartbeat, guard>>

-----------------------------------------------------------------------------
Init ==
  /\ link = [s \in Sockets |-> "none"]
  /\ auth = [s \in Sockets |-> "none"]
  /\ clients = {}
  /\ clientsToTerminate = {}
  /\ peer = [s \in Sockets |-> "answering"]
  /\ heartbeat = [s \in Sockets |-> "none"]
  /\ guard = [s \in Sockets |-> "none"]

Next ==
  \/ CheckClients
  \/ \E s \in Sockets :
       \/ HandleConnection(s) \/ HandleDisconnect(s) \/ FallsSilent(s)
       \/ Authenticated(s) \/ Rejected(s) \/ MiddlewareFailed(s)
       \/ Message(s) \/ CanActivate(s) \/ PeerAnswers(s) \/ Pong(s)

Spec == Init /\ [][Next]_vars

(* The interval fires, passport answers, and a resolved promise resumes    *)
(* the guard.  Nothing is asked of the peer or of the network.             *)
Fairness ==
  /\ WF_vars(CheckClients)
  /\ \A s \in Sockets :
       /\ WF_vars(Authenticated(s) \/ Rejected(s) \/ MiddlewareFailed(s))
       /\ WF_vars(CanActivate(s))

FairSpec == Spec /\ Fairness

-----------------------------------------------------------------------------
(* Types: what each variable may hold. *)
TypeOK ==
  /\ link \in [Sockets -> {"none", "open", "closing", "closed"}]
  /\ auth \in [Sockets -> {"none", "pending", "user", "null"}]
  /\ clients \subseteq Sockets
  /\ clientsToTerminate \subseteq Sockets
  /\ peer \in [Sockets -> {"answering", "silent"}]
  /\ heartbeat \in [Sockets -> {"none", "ping", "pong"}]
  /\ guard \in [Sockets -> {"none", "waiting", "denied"}]

(* A client due for termination is one whose ping is still unanswered: a   *)
(* socket whose pong was received since the last check survives the next   *)
(* check, whatever else closed, connected or fell silent meanwhile.        *)
MarkedAwaitsPong ==
  \A s \in clients \cap clientsToTerminate : link[s] = "open" => heartbeat[s] # "none"

(* A socket is marked only once it is authenticated, which happens once;   *)
(* so that none is marked before it is added, and no ping sent, for it.    *)
OnceAuthenticated ==
  /\ \A s \in clients \cup clientsToTerminate : auth[s] = "user"
  /\ \A s \in Sockets : link[s] = "none" => auth[s] = "none"

(* A client that no longer answers, or closed before it was authenticated, *)
(* is not kept for ever.                                                   *)
LostClientsAreForgotten ==
  \A s \in Sockets :
    (s \in clients /\ (peer[s] = "silent" \/ link[s] = "closed")) ~> s \notin clients

(* A message received before its socket is authenticated is not held for   *)
(* ever: the promise it waits for resolves on every path.                  *)
MessagesGetAVerdict ==
  \A s \in Sockets : guard[s] = "waiting" ~> guard[s] # "waiting"
=============================================================================
