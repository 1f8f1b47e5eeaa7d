--------------------------- MODULE OutboundClients ---------------------------
(***************************************************************************)
(* WebsocketsClients: the sockets a backend opens to other services.       *)
(*                                                                         *)
(* The host connects one configuration, keeps the socket it was given and  *)
(* asks for a reconnection only from onClose, as the specification of the  *)
(* service does.  It may send and close at any moment.  The server accepts, *)
(* refuses, sends frames and hangs up as it likes.                         *)
(***************************************************************************)
EXTENDS Naturals, Sequences, FiniteSets

CONSTANTS
    MaxSockets,   \* bound: sockets ever opened
    MaxSends,     \* bound: messages the host sends, numbered in order
    MaxFrames     \* bound: frames the server sends

VARIABLES
    sockets,     \* the sockets opened so far, in order: what is known of each
    timers,      \* pending reconnection timers
    sends,       \* the messages of the host: where each was sent and what came of it
    wire,        \* what arrived at the server
    frames       \* frames of the server so far

vars == <<sockets, timers, sends, wire, frames>>

Opened == DOMAIN sockets
Live == {"connecting", "open", "closing"}
NewSocket == [state |-> "connecting", listening |-> TRUE, known |-> TRUE,
              closes |-> 0, heard |-> 0]

\* The host only ever holds the socket connect() returned to it: a reconnection
\* gives its socket to nobody
client == 1

Socket == [state : Live \cup {"closed"}, listening : BOOLEAN, known : BOOLEAN,
           closes : Nat, heard : Nat]
SentMessage == [socket : {client}, state : {"waiting", "late", "resolved", "rejected"}]

TypeOK ==
    /\ sockets \in Seq(Socket)
    /\ timers \in Nat
    /\ sends \in Seq(SentMessage) /\ Len(sends) <= MaxSends
    /\ wire \in Seq(1..MaxSends)
    /\ frames \in 0..MaxFrames

-----------------------------------------------------------------------------
(* connect *)

Connect ==
    /\ Len(sockets) < MaxSockets
    /\ sockets' = Append(sockets, NewSocket)

HostConnects ==
    /\ sockets = <<>> /\ Connect
    /\ UNCHANGED <<timers, sends, wire, frames>>

\* Sends that wait for the socket leave when it opens, also the ones whose
\* promise was rejected in the meantime
Waiting(s) == {m \in DOMAIN sends : sends[m].socket = s /\ sends[m].state \in {"waiting", "late"}}

\* Mutant of Flushed: the listeners of the waiting sends run last in, first out
FlushedBackwards(s) == [i \in 1..Cardinality(Waiting(s)) |->
    CHOOSE m \in Waiting(s) : Cardinality({k \in Waiting(s) : k >= m}) = i]

Flushed(s) == [i \in 1..Cardinality(Waiting(s)) |->
    CHOOSE m \in Waiting(s) : Cardinality({k \in Waiting(s) : k <= m}) = i]

Settle(ms, how) ==
    sends' = [m \in DOMAIN sends |->
        IF m \notin ms THEN sends[m]
        ELSE [sends[m] EXCEPT !.state = IF @ = "late" THEN "rejected" ELSE how]]

\* onOpen runs before the listeners of the waiting sends: when it throws the
\* socket is closing already and each of them gets an error
Open(s) ==
    /\ sockets[s].state = "connecting" /\ sockets[s].listening
    /\ \/ /\ sockets' = [sockets EXCEPT ![s].state = "open"]
          /\ wire' = wire \o Flushed(s)
          /\ Settle(Waiting(s), "resolved")
       \/ /\ sockets' = [sockets EXCEPT ![s].state = "closing"]
          /\ Settle(Waiting(s), "rejected")
          /\ UNCHANGED wire
    /\ UNCHANGED <<timers, frames>>

\* An error closes the socket; so does a frame that is no JSON, or that the
\* configuration takes for an error
Error(s) ==
    /\ sockets[s].state \in {"connecting", "open"}
    /\ sockets' = [sockets EXCEPT ![s].state = "closing"]
    /\ UNCHANGED <<timers, sends, wire, frames>>

\* Frames arrive until the socket is closed, also while it is closing
Message(s) ==
    /\ sockets[s].state \in {"open", "closing"} /\ sockets[s].listening
    /\ frames < MaxFrames /\ frames' = frames + 1
    /\ \/ sockets' = [sockets EXCEPT ![s].heard = @ + 1]
       \/ sockets' = [sockets EXCEPT ![s].state = "closing"]
       \/ UNCHANGED sockets
    /\ UNCHANGED <<timers, sends, wire>>

-----------------------------------------------------------------------------
(* onClose, reconnect, close *)

\* reconnect throws for a client whose configuration is gone; thrown in onClose,
\* the exception leaves the configuration of the closed socket in the map
ReconnectThrows == ~sockets[client].known

\* Mutant of OnClose: the configuration stays with the socket
OnCloseKept(s) ==
    LET called == sockets[s].known
        quiet == [sockets EXCEPT ![s].state = "closed", ![s].listening = FALSE,
                                 ![s].closes = @ + (IF called THEN 1 ELSE 0)]
    IN  /\ sockets' = quiet
        /\ IF called /\ ~ReconnectThrows THEN timers' \in {timers, timers + 1} ELSE UNCHANGED timers

OnClose(s) ==
    LET called == sockets[s].known
        quiet == [sockets EXCEPT ![s].state = "closed", ![s].listening = FALSE,
                                 ![s].closes = @ + (IF called THEN 1 ELSE 0)]
    IN  \/ /\ sockets' = [quiet EXCEPT ![s].known = FALSE]
           /\ IF called /\ ~ReconnectThrows THEN timers' \in {timers, timers + 1} ELSE UNCHANGED timers
        \/ /\ called /\ ReconnectThrows
           /\ sockets' = quiet /\ UNCHANGED timers

CloseEvent(s) ==
    /\ sockets[s].state \in Live /\ sockets[s].listening
    /\ OnClose(s)
    /\ UNCHANGED <<sends, wire, frames>>

\* The timer of a reconnection is never cleared: it is kept as an object, and
\* close() clears numbers only
Close ==
    /\ sockets # <<>>
    /\ IF sockets[client].state = "closed" THEN OnClose(client)
       ELSE sockets' = [sockets EXCEPT ![client].state = "closing"] /\ UNCHANGED timers
    /\ UNCHANGED <<sends, wire, frames>>

Reconnect ==
    /\ timers > 0 /\ timers' = timers - 1
    /\ Connect
    /\ UNCHANGED <<sends, wire, frames>>

-----------------------------------------------------------------------------
(* send *)

CanSend == sockets[client].state = "open"

Send ==
    /\ sockets # <<>> /\ Len(sends) < MaxSends
    /\ IF CanSend
       THEN \/ /\ sends' = Append(sends, [socket |-> client, state |-> "resolved"])
               /\ wire' = IF sockets[client].state = "open" THEN Append(wire, Len(sends) + 1) ELSE wire
            \/ /\ sends' = Append(sends, [socket |-> client, state |-> "rejected"])
               /\ UNCHANGED wire
       ELSE /\ sends' = Append(sends, [socket |-> client, state |-> "waiting"])
            /\ UNCHANGED wire
    /\ UNCHANGED <<sockets, timers, frames>>

\* After a second without a connection: the listener for it stays
Timeout(m) ==
    /\ sends[m].state = "waiting"
    /\ sends' = [sends EXCEPT ![m].state = "late"]
    /\ UNCHANGED <<sockets, timers, wire, frames>>

-----------------------------------------------------------------------------
Init ==
    /\ sockets = <<>>
    /\ timers = 0
    /\ sends = <<>>
    /\ wire = <<>>
    /\ frames = 0

Next ==
    \/ HostConnects \/ Close \/ Reconnect \/ Send
    \/ \E s \in Opened : Open(s) \/ Error(s) \/ Message(s) \/ CloseEvent(s)
    \/ \E m \in DOMAIN sends : Timeout(m)

-----------------------------------------------------------------------------
(* Properties *)

\* However often the host closes, the configuration it connected once has one
\* connection or one reconnection under way, and its onClose is called once for
\* a socket
OneConnection ==
    /\ Cardinality({s \in Opened : sockets[s].state \in Live}) + timers <= 1
    /\ \A s \in Opened : sockets[s].closes <= 1

\* Whatever is live is the only one, and no reconnection is pending then
OneUnderWay ==
    /\ timers <= 1
    /\ \A s, t \in Opened : sockets[s].state \in Live /\ sockets[t].state \in Live => s = t
    /\ (\E s \in Opened : sockets[s].state \in Live) \/ sockets = <<>> => timers = 0

\* A socket loses its listeners and its configuration when it closes; but one
\* that is not the client's keeps its configuration when reconnect throws
ClosesOnce ==
    \A s \in Opened :
        /\ sockets[s].state \in Live => sockets[s].listening /\ sockets[s].known /\ sockets[s].closes = 0
        /\ sockets[s].closes <= 1
        /\ s = client /\ sockets[s].state = "closed" => ~sockets[s].known

\* The client opens once: until then nothing arrives, and all that was sent waits
FlushesOnce ==
    /\ \A i \in DOMAIN wire : wire[i] <= Len(sends)
    /\ sockets = <<>> => sends = <<>> /\ wire = <<>>
    /\ sockets # <<>> /\ sockets[client].state = "connecting" =>
           wire = <<>> /\ \A m \in DOMAIN sends : sends[m].state \in {"waiting", "late"}

\* Messages arrive once and in the order they were sent in, and a promise that
\* resolved is a message that arrived
SendsAreOrdered ==
    /\ \A i, j \in DOMAIN wire : i < j => wire[i] < wire[j]
    /\ \A m \in DOMAIN sends : sends[m].state = "resolved" => \E i \in DOMAIN wire : wire[i] = m
=============================================================================
