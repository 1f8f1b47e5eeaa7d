--------------------------- MODULE WebsocketClient ---------------------------
(***************************************************************************)
(* WebsocketClient of common-frontend: one client object that connects,    *)
(* queues what is sent while no socket is open, and reconnects after a     *)
(* timeout when its owner asks for it.                                     *)
(*                                                                         *)
(* The handlers of every socket act on `this.socket`, the latest one.  An  *)
(* orderly owner calls reconnect() only from its close handler and never   *)
(* has two; nothing in the class makes an owner orderly.                   *)
(***************************************************************************)
EXTENDS Naturals, Sequences, FiniteSets, SequencesExt

CONSTANTS
  MaxSockets,    \* bound: sockets created
  MaxSends,      \* bound: payloads sent, numbered in the order of the calls
  MaxReconnects  \* bound: calls of reconnect()

ASSUME ConstantsAssumption ==
  /\ {MaxSockets, MaxSends, MaxReconnects} \subseteq Nat
  /\ MaxSockets > 0

VARIABLES
  orderly,    \* whether the owner calls reconnect() only from its close handler
  sock,       \* every socket ever created: its readyState, and whether
              \* the four listeners of the client are attached to it
  current,    \* this.socket, 0 for null
  serverSocketStatus,
  latest,     \* whether the timer this.reconnectTimeout names is pending
  older,      \* pending timers no field names any more
  pendingPayloads,
  (* History, read by no guard but the bounds: *)
  sends,      \* payloads sent
  early,      \* payloads sent from the open handler
  wire,       \* payloads handed to an open socket, in that order
  reconnects, \* calls of reconnect()
  quit,       \* the owner called close() and has not called reconnect() since
  vouched     \* the socket whose message set serverSocketStatus last, or 0

clientVars == <<sock, current, serverSocketStatus, latest, older, pendingPayloads>>
vars == <<orderly, clientVars, sends, early, wire, reconnects, quit, vouched>>

Socket == [state : {"connecting", "open", "closing", "closed"}, hears : BOOLEAN]

Live(s) == sock[s].state # "closed"

NewSocket == [state |-> "connecting", hears |-> TRUE]

(* close() of the socket this.socket names, in the sockets ss. *)
CloseCurrent(ss) ==
  IF current # 0 /\ ss[current].state \in {"connecting", "open"}
  THEN [ss EXCEPT ![current].state = "closing"]
  ELSE ss

-----------------------------------------------------------------------------
(* Connecting *)

(* Mutant of Connect: the status of the last connection is kept. *)
ConnectKeepsStatus ==
  /\ Len(sock) < MaxSockets
  /\ sock' = Append(sock, NewSocket)
  /\ current' = Len(sock) + 1
  /\ UNCHANGED <<serverSocketStatus, vouched, pendingPayloads, sends, early, wire, reconnects, quit>>

Connect ==
  /\ Len(sock) < MaxSockets
  /\ sock' = Append(sock, NewSocket)
  /\ current' = Len(sock) + 1
  /\ serverSocketStatus' = "CONNECTING"
  /\ vouched' = 0
  /\ UNCHANGED <<pendingPayloads, sends, early, wire, reconnects, quit>>

(* Mutant of ReconnectTimer: an interval in place of a timeout. *)
ReconnectTimerRepeats ==
  /\ \/ latest /\ UNCHANGED <<latest, older>>
     \/ older > 0 /\ UNCHANGED <<latest, older>>
  /\ Connect

(* The callback of the setTimeout of reconnect(). *)
ReconnectTimer ==
  /\ \/ latest /\ latest' = FALSE /\ UNCHANGED older
     \/ older > 0 /\ older' = older - 1 /\ UNCHANGED latest
  /\ Connect

(* reconnect(timeout): the field forgets the timer it named. *)
ArmTimer ==
  /\ reconnects < MaxReconnects
  /\ reconnects' = reconnects + 1
  /\ older' = IF latest THEN older + 1 ELSE older
  /\ latest' = TRUE
  /\ quit' = FALSE

Reconnect ==
  /\ ~orderly
  /\ ArmTimer
  /\ UNCHANGED <<sock, current, serverSocketStatus, pendingPayloads, sends, early, wire, vouched>>

(* Mutant of Close: the pending timer is left running. *)
CloseKeepsTimer ==
  /\ quit' = TRUE
  /\ sock' = CloseCurrent(sock)
  /\ UNCHANGED <<latest, current, serverSocketStatus, older, pendingPayloads, sends, early, wire,
                 reconnects, vouched>>

(* close(): its promise, resolved by the close event, changes no state. *)
Close ==
  /\ quit' = TRUE
  /\ latest' = FALSE
  /\ sock' = CloseCurrent(sock)
  /\ UNCHANGED <<current, serverSocketStatus, older, pendingPayloads, sends, early, wire,
                 reconnects, vouched>>

-----------------------------------------------------------------------------
(* Sending *)

(* What sendPayload puts on the wire: nothing when this.socket is null, or *)
(* not open (send throws and the error is logged, or the browser discards).*)
SendPayloads(ss, payloads) ==
  IF current # 0 /\ ss[current].state = "open" THEN payloads ELSE <<>>

(* Mutant of Send: what cannot be sent now is given up. *)
SendOrDrop ==
  /\ sends < MaxSends
  /\ sends' = sends + 1
  /\ wire' = wire \o SendPayloads(sock, <<sends'>>)
  /\ UNCHANGED <<sock, current, serverSocketStatus, latest, older, pendingPayloads, early,
                 reconnects, quit, vouched>>

Send ==
  /\ sends < MaxSends
  /\ sends' = sends + 1
  /\ IF current = 0 \/ sock[current].state # "open"
     THEN pendingPayloads' = Append(pendingPayloads, sends') /\ UNCHANGED wire
     ELSE wire' = Append(wire, sends') /\ UNCHANGED pendingPayloads
  /\ UNCHANGED <<sock, current, serverSocketStatus, latest, older, early, reconnects, quit, vouched>>

(* Mutant of Flush: the queue is not emptied. *)
FlushKeepsQueue(ss, first, queue) ==
  /\ wire' = wire \o first \o SendPayloads(ss, queue)
  /\ pendingPayloads' = queue

(* flushPendingPayloads, after what the open handler itself put on the wire.*)
Flush(ss, first, queue) ==
  /\ wire' = wire \o first \o SendPayloads(ss, queue)
  /\ pendingPayloads' = <<>>

(* The open event: the owner's handler, which may send, then the flush.    *)
(* What the handler sends to a socket that is open overtakes the queue;    *)
(* otherwise it joins it.                                                  *)
OnOpen(s) ==
  LET opened == [sock EXCEPT ![s].state = "open"] IN
  /\ sock[s].state = "connecting"
  /\ sock' = opened
  /\ \/ /\ ~sock[s].hears
        /\ UNCHANGED <<sends, early, wire, pendingPayloads>>
     \/ /\ sock[s].hears
        /\ Flush(opened, <<>>, pendingPayloads)
        /\ UNCHANGED <<sends, early>>
     \/ /\ sock[s].hears /\ sends < MaxSends
        /\ sends' = sends + 1
        /\ IF current # 0 /\ opened[current].state = "open"
           THEN early' = early \cup {sends'} /\ Flush(opened, <<sends'>>, pendingPayloads)
           ELSE UNCHANGED early /\ Flush(opened, <<>>, Append(pendingPayloads, sends'))
  /\ UNCHANGED <<current, serverSocketStatus, latest, older, reconnects, quit, vouched>>

-----------------------------------------------------------------------------
(* Events of a socket *)

(* The connection closes, or fails: then an error event comes first, whose *)
(* handler closes this.socket.  The close handler removes the listeners of *)
(* this.socket, forgets it, and tells the owner, who may reconnect.        *)
OnClose(s) ==
  /\ Live(s)
  /\ IF sock[s].hears
     THEN /\ \E failed \in BOOLEAN :
               LET done == [sock EXCEPT ![s].state = "closed"]
                   ss == IF failed THEN CloseCurrent(done) ELSE done
               IN sock' = IF current = 0 THEN ss ELSE [ss EXCEPT ![current].hears = FALSE]
          /\ current' = 0
          /\ \/ UNCHANGED <<latest, older, reconnects, quit>>
             \/ ~quit /\ ArmTimer
     ELSE /\ sock' = [sock EXCEPT ![s].state = "closed"]
          /\ UNCHANGED <<current, latest, older, reconnects, quit>>
  /\ UNCHANGED <<serverSocketStatus, pendingPayloads, sends, early, wire, vouched>>

(* A frame that is no JSON, or an error of the server: this.socket closes. *)
OnBadMessage(s) ==
  /\ sock[s].state = "open" /\ sock[s].hears
  /\ sock' = CloseCurrent(sock)
  /\ UNCHANGED <<current, serverSocketStatus, latest, older, pendingPayloads, sends, early, wire,
                 reconnects, quit, vouched>>

(* A status message, whose status may be missing; any other message only   *)
(* goes to the owner's handler.                                            *)
OnStatus(s, status) ==
  /\ sock[s].state = "open" /\ sock[s].hears
  /\ status # "missing"
  /\ serverSocketStatus' = status
  /\ vouched' = s
  /\ UNCHANGED <<sock, current, latest, older, pendingPayloads, sends, early, wire, reconnects, quit>>

-----------------------------------------------------------------------------
(* The constructor connects. *)
Init ==
  /\ orderly \in BOOLEAN
  /\ sock = <<NewSocket>>
  /\ current = 1
  /\ serverSocketStatus = "CONNECTING"
  /\ latest = FALSE
  /\ older = 0
  /\ pendingPayloads = <<>>
  /\ sends = 0
  /\ early = {}
  /\ wire = <<>>
  /\ reconnects = 0
  /\ quit = FALSE
  /\ vouched = 0

Next ==
  /\ \/ ReconnectTimer \/ Reconnect \/ Close \/ Send
     \/ \E s \in DOMAIN sock :
          \/ OnOpen(s) \/ OnClose(s) \/ OnBadMessage(s)
          \/ \E status \in {"OPEN", "CLOSED", "missing"} : OnStatus(s, status)
  /\ UNCHANGED orderly

Spec == Init /\ [][Next]_vars

-----------------------------------------------------------------------------
(* Types: what each variable may hold. *)
TypeOK ==
  /\ orderly \in BOOLEAN
  /\ sock \in Seq(Socket)
  /\ current \in 0 .. Len(sock)
  /\ serverSocketStatus \in {"CONNECTING", "OPEN", "CLOSED"}
  /\ latest \in BOOLEAN
  /\ older \in Nat
  /\ pendingPayloads \in Seq(1 .. sends)
  /\ sends \in 0 .. MaxSends
  /\ early \subseteq 1 .. sends
  /\ wire \in Seq(1 .. sends)
  /\ reconnects \in 0 .. MaxReconnects
  /\ quit \in BOOLEAN
  /\ vouched \in 0 .. Len(sock)

(* The getter `status`. *)
Status ==
  IF serverSocketStatus # "OPEN" THEN serverSocketStatus
  ELSE IF current = 0 THEN "undefined" ELSE sock[current].state

(* An orderly owner has one connection, or one on its way, at a time.      *)
OneConnection ==
  orderly => Cardinality({s \in DOMAIN sock : Live(s)}) + older + (IF latest THEN 1 ELSE 0) <= 1

(* What was sent and is not lost, in the order it leaves in. *)
Handed == wire \o pendingPayloads

(* Payloads leave once each and in the order of the send() calls, whatever *)
(* closes and reopens between; those of the open handler may overtake.     *)
InOrderOnce ==
  \A i, j \in DOMAIN Handed : i < j =>
    /\ Handed[i] # Handed[j]
    /\ {Handed[i], Handed[j]} \cap early = {} => Handed[i] < Handed[j]

(* The comment in send(): "Either way the payload waits for the next open  *)
(* event".  No payload is dropped.                                         *)
NothingDropped ==
  1 .. sends = ToSet(wire) \cup ToSet(pendingPayloads)

(* An orderly owner loses nothing, whatever fails, closes and reopens.     *)
OrderlyDropsNothing ==
  orderly => NothingDropped

(* WebsocketClient.test.ts, "close() cancels a pending reconnect": after   *)
(* the close() of an orderly owner, and until its next reconnect(), no     *)
(* timer is left to connect, and no socket ever created is, or becomes,    *)
(* open again.  Another owner may have overwritten the field.              *)
CloseIsFinal ==
  orderly /\ quit =>
    /\ ~latest /\ older = 0
    /\ \A s \in DOMAIN sock : sock[s].state \in {"closing", "closed"}

(* An orderly owner reads "open" only on the word of the connection in use;*)
(* to another, or of the other statuses, nothing is promised.              *)
StatusIsCurrent ==
  orderly /\ Status = "open" => vouched = current
=============================================================================
