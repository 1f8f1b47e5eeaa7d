------------------------ MODULE WebsocketClientProofs ------------------------
(***************************************************************************)
(* Proofs about WebsocketClient, for any number of sockets, payloads and   *)
(* reconnects.                                                             *)
(***************************************************************************)
EXTENDS WebsocketClient, FiniteSetTheorems, TLAPS

-----------------------------------------------------------------------------
(* Sequences and sets *)

LEMMA Concatenation ==
  ASSUME NEW S, NEW s \in Seq(S), NEW t \in Seq(S)
  PROVE  /\ s \o t \in Seq(S)
         /\ Len(s \o t) = Len(s) + Len(t)
         /\ \A i \in 1 .. Len(s) : (s \o t)[i] = s[i]
         /\ \A i \in 1 .. Len(t) : (s \o t)[Len(s) + i] = t[i]
         /\ <<>> \in Seq(S)
         /\ s \o <<>> = s
OBVIOUS

LEMMA Appending ==
  ASSUME NEW S, NEW s \in Seq(S), NEW x \in S
  PROVE  /\ Append(s, x) \in Seq(S)
         /\ Len(Append(s, x)) = Len(s) + 1
         /\ \A i \in 1 .. Len(s) : Append(s, x)[i] = s[i]
         /\ Append(s, x)[Len(s) + 1] = x
         /\ <<x>> \in Seq(S)
OBVIOUS

LEMMA WiderSequences ==
  ASSUME NEW S, NEW T, S \subseteq T, NEW s \in Seq(S)
  PROVE  s \in Seq(T)
OBVIOUS

LEMMA ToSetOfConcatenation ==
  ASSUME NEW S, NEW s \in Seq(S), NEW t \in Seq(S)
  PROVE  ToSet(s \o t) = ToSet(s) \cup ToSet(t)
<1>1. /\ Len(s) \in Nat /\ Len(t) \in Nat
      /\ DOMAIN s = 1 .. Len(s) /\ DOMAIN t = 1 .. Len(t)
      /\ DOMAIN (s \o t) = 1 .. Len(s) + Len(t)
  OBVIOUS
<1>2. /\ \A i \in 1 .. Len(s) : (s \o t)[i] = s[i]
      /\ \A i \in 1 .. Len(t) : (s \o t)[Len(s) + i] = t[i]
  BY Concatenation
<1>3. ASSUME NEW x \in ToSet(s \o t)
      PROVE  x \in ToSet(s) \cup ToSet(t)
  <2>1. PICK i \in 1 .. Len(s) + Len(t) : x = (s \o t)[i]
    BY <1>1 DEF ToSet
  <2>2. CASE i <= Len(s)
    BY <1>1, <1>2, <2>1, <2>2 DEF ToSet
  <2>3. CASE i > Len(s)
    <3>1. i - Len(s) \in 1 .. Len(t) /\ i = Len(s) + (i - Len(s))
      BY <1>1, <2>3
    <3>2. x = t[i - Len(s)]
      BY <1>2, <2>1, <3>1
    <3> QED BY <1>1, <3>1, <3>2 DEF ToSet
  <2> QED BY <1>1, <2>2, <2>3
<1>4. ToSet(s) \subseteq ToSet(s \o t)
  BY <1>1, <1>2 DEF ToSet
<1>5. ASSUME NEW x \in ToSet(t)
      PROVE  x \in ToSet(s \o t)
  <2>1. PICK i \in 1 .. Len(t) : x = t[i]
    BY <1>1 DEF ToSet
  <2>2. Len(s) + i \in 1 .. Len(s) + Len(t) /\ x = (s \o t)[Len(s) + i]
    BY <1>1, <1>2, <2>1
  <2> QED BY <1>1, <2>2 DEF ToSet
<1> QED BY <1>3, <1>4, <1>5

LEMMA ToSetOfShort ==
  /\ ToSet(<<>>) = {}
  /\ \A x : ToSet(<<x>>) = {x}
BY DEF ToSet

LEMMA ToSetOfAppend ==
  ASSUME NEW S, NEW s \in Seq(S), NEW x \in S
  PROVE  /\ s \o <<x>> \in Seq(S)
         /\ s \o <<x>> = Append(s, x)
         /\ ToSet(s \o <<x>>) = ToSet(s) \cup {x}
<1>1. <<x>> \in Seq(S) /\ s \o <<x>> \in Seq(S) /\ s \o <<x>> = Append(s, x)
  OBVIOUS
<1>2. ToSet(s \o <<x>>) = ToSet(s) \cup ToSet(<<x>>)
  BY <1>1, ToSetOfConcatenation, ZenonT(30)
<1>3. ToSet(<<x>>) = {x}
  BY ToSetOfShort, Zenon
<1> QED BY <1>1, <1>2, <1>3

(* A set without two different elements has at most one.                   *)
LEMMA AtMostOne ==
  ASSUME NEW S, \A p, q \in S : p = q
  PROVE  /\ Cardinality(S) \in {0, 1}
         /\ S = {} => Cardinality(S) = 0
<1>1. CASE S = {}
  BY <1>1, FS_EmptySet
<1>2. CASE S # {}
  <2>1. PICK p : S = {p}
    BY <1>2
  <2> QED BY <1>2, <2>1, FS_Singleton
<1> QED BY <1>1, <1>2

-----------------------------------------------------------------------------
(* Sockets *)

States == {"connecting", "open", "closing", "closed"}

WithState(ss, s, st) == [ss EXCEPT ![s].state = st]
WithHears(ss, s, h) == [ss EXCEPT ![s].hears = h]

LEMMA StatesListed == "open" \in States /\ "closing" \in States /\ "closed" \in States
BY DEF States

(* An event changes the state of one socket, or who hears it.              *)
LEMMA SocketState ==
  ASSUME NEW ss \in Seq(Socket), NEW s \in DOMAIN ss, NEW st \in States
  PROVE  LET q == WithState(ss, s, st)
         IN  /\ q \in Seq(Socket)
             /\ Len(q) = Len(ss)
             /\ \A t \in DOMAIN ss \ {s} : q[t] = ss[t]
             /\ q[s].state = st /\ q[s].hears = ss[s].hears
<1> DEFINE q == WithState(ss, s, st)
<1>1. /\ Len(ss) \in Nat /\ DOMAIN ss = 1 .. Len(ss)
      /\ ss \in [1 .. Len(ss) -> Socket] /\ ss[s] \in Socket
  OBVIOUS
<1>2. [ss[s] EXCEPT !.state = st] \in Socket
  BY <1>1 DEF Socket, States
<1>3. q \in [1 .. Len(ss) -> Socket] /\ q[s] = [ss[s] EXCEPT !.state = st]
  BY <1>1, <1>2 DEF WithState
<1>4. q \in Seq(Socket) /\ Len(q) = Len(ss)
  BY <1>1, <1>3
<1>5. q[s].state = st /\ q[s].hears = ss[s].hears
  BY <1>1, <1>3 DEF Socket
<1>6. \A t \in DOMAIN ss \ {s} : q[t] = ss[t]
  BY DEF WithState
<1> QED BY <1>4, <1>5, <1>6

LEMMA SocketHears ==
  ASSUME NEW ss \in Seq(Socket), NEW s \in DOMAIN ss, NEW h \in BOOLEAN
  PROVE  LET q == WithHears(ss, s, h)
         IN  /\ q \in Seq(Socket)
             /\ Len(q) = Len(ss)
             /\ \A t \in DOMAIN ss \ {s} : q[t] = ss[t]
             /\ q[s].state = ss[s].state
<1> DEFINE q == WithHears(ss, s, h)
<1>1. /\ Len(ss) \in Nat /\ DOMAIN ss = 1 .. Len(ss)
      /\ ss \in [1 .. Len(ss) -> Socket] /\ ss[s] \in Socket
  OBVIOUS
<1>2. [ss[s] EXCEPT !.hears = h] \in Socket
  BY <1>1 DEF Socket
<1>3. q \in [1 .. Len(ss) -> Socket] /\ q[s] = [ss[s] EXCEPT !.hears = h]
  BY <1>1, <1>2 DEF WithHears
<1>4. q \in Seq(Socket) /\ Len(q) = Len(ss)
  BY <1>1, <1>3
<1>5. q[s].state = ss[s].state
  BY <1>1, <1>3 DEF Socket
<1>6. \A t \in DOMAIN ss \ {s} : q[t] = ss[t]
  BY DEF WithHears
<1> QED BY <1>4, <1>5, <1>6

(* The socket in use may start to close: it closes no other, and none at   *)
(* once.                                                                   *)
LEMMA CloseCurrentEffect ==
  ASSUME NEW ss \in Seq(Socket), current \in 0 .. Len(ss)
  PROVE  /\ CloseCurrent(ss) \in Seq(Socket)
         /\ Len(CloseCurrent(ss)) = Len(ss)
         /\ \A s \in DOMAIN ss :
              /\ CloseCurrent(ss)[s].hears = ss[s].hears
              /\ CloseCurrent(ss)[s].state = "closed" <=> ss[s].state = "closed"
              /\ CloseCurrent(ss)[s].state = "open" => ss[s].state = "open"
         /\ current # 0 => CloseCurrent(ss)[current].state \in {"closing", "closed"}
<1>1. /\ Len(ss) \in Nat /\ DOMAIN ss = 1 .. Len(ss)
      /\ \A s \in DOMAIN ss : ss[s] \in Socket
  OBVIOUS
<1>2. CASE current # 0 /\ ss[current].state \in {"connecting", "open"}
  <2>1. current \in DOMAIN ss /\ CloseCurrent(ss) = WithState(ss, current, "closing")
    BY <1>1, <1>2 DEF CloseCurrent, WithState
  <2>2. /\ CloseCurrent(ss) \in Seq(Socket)
        /\ Len(CloseCurrent(ss)) = Len(ss)
        /\ \A t \in DOMAIN ss \ {current} : CloseCurrent(ss)[t] = ss[t]
        /\ CloseCurrent(ss)[current].state = "closing"
        /\ CloseCurrent(ss)[current].hears = ss[current].hears
    BY <2>1, SocketState, StatesListed
  <2> QED BY <1>2, <2>2
<1>3. CASE ~ (current # 0 /\ ss[current].state \in {"connecting", "open"})
  <2>1. CloseCurrent(ss) = ss
    BY <1>3 DEF CloseCurrent
  <2>2. current # 0 => ss[current].state \in {"closing", "closed"}
    BY <1>1, <1>3 DEF Socket
  <2> QED BY <2>1, <2>2
<1> QED BY <1>2, <1>3

(* The open event.                                                         *)
LEMMA OnOpenSockets ==
  ASSUME TypeOK, NEW s \in DOMAIN sock, OnOpen(s)
  PROVE  /\ sock' \in Seq(Socket)
         /\ Len(sock') = Len(sock) /\ DOMAIN sock' = DOMAIN sock
         /\ sock[s].state = "connecting" /\ sock'[s].state = "open"
         /\ \A t \in DOMAIN sock : sock'[t].hears = sock[t].hears
         /\ \A t \in DOMAIN sock : t # s => sock'[t] = sock[t]
<1>1. sock' = WithState(sock, s, "open") /\ sock[s].state = "connecting"
  BY DEF OnOpen, WithState
<1>2. sock \in Seq(Socket) /\ sock[s] \in Socket /\ DOMAIN sock = 1 .. Len(sock)
  BY DEF TypeOK
<1>3. /\ sock' \in Seq(Socket) /\ Len(sock') = Len(sock)
      /\ \A t \in DOMAIN sock \ {s} : sock'[t] = sock[t]
      /\ sock'[s].state = "open" /\ sock'[s].hears = sock[s].hears
  BY <1>1, <1>2, SocketState, StatesListed
<1>4. DOMAIN sock' = DOMAIN sock
  BY <1>2, <1>3
<1> QED BY <1>1, <1>2, <1>3, <1>4

(* The close event closes its own socket and no other.                     *)
LEMMA OnCloseSockets ==
  ASSUME TypeOK, NEW s \in DOMAIN sock, OnClose(s)
  PROVE  /\ sock' \in Seq(Socket)
         /\ Len(sock') = Len(sock) /\ DOMAIN sock' = DOMAIN sock
         /\ sock'[s].state = "closed"
         /\ \A t \in DOMAIN sock :
              /\ t # s => (sock'[t].state = "closed" <=> sock[t].state = "closed")
              /\ sock'[t].state = "open" => sock[t].state = "open"
              /\ t # current => sock'[t].hears = sock[t].hears
<1> SUFFICES /\ sock' \in Seq(Socket)
             /\ Len(sock') = Len(sock)
             /\ sock'[s].state = "closed"
             /\ \A t \in DOMAIN sock :
                  /\ t # s => (sock'[t].state = "closed" <=> sock[t].state = "closed")
                  /\ sock'[t].state = "open" => sock[t].state = "open"
                  /\ t # current => sock'[t].hears = sock[t].hears
  <2>1. sock \in Seq(Socket)
    BY DEF TypeOK
  <2>2. sock' \in Seq(Socket) /\ Len(sock') = Len(sock) => DOMAIN sock' = DOMAIN sock
    BY <2>1
  <2> QED BY <2>2
<1> DEFINE done == WithState(sock, s, "closed")
<1>1. sock \in Seq(Socket) /\ sock[s] \in Socket /\ DOMAIN sock = 1 .. Len(sock)
  BY DEF TypeOK
<1>2. /\ done \in Seq(Socket) /\ Len(done) = Len(sock) /\ DOMAIN done = DOMAIN sock
      /\ \A t \in DOMAIN sock \ {s} : done[t] = sock[t]
      /\ done[s].state = "closed" /\ done[s].hears = sock[s].hears
  BY <1>1, SocketState, StatesListed
<1>4. CASE ~ sock[s].hears
  BY <1>1, <1>2, <1>4 DEF OnClose, WithState
<1>5. CASE sock[s].hears
  <2>1. PICK ss : /\ ss \in {done, CloseCurrent(done)}
                  /\ sock' = IF current = 0 THEN ss ELSE WithHears(ss, current, FALSE)
    BY <1>5 DEF OnClose, WithState, WithHears
  <2>2. current \in 0 .. Len(done)
    BY <1>2 DEF TypeOK
  <2>3. /\ ss \in Seq(Socket) /\ Len(ss) = Len(sock) /\ DOMAIN ss = DOMAIN sock
        /\ \A t \in DOMAIN sock :
             /\ ss[t].hears = done[t].hears
             /\ ss[t].state = "closed" <=> done[t].state = "closed"
             /\ ss[t].state = "open" => done[t].state = "open"
    <3>1. CASE ss = done
      BY <1>2, <3>1
    <3>2. CASE ss = CloseCurrent(done)
      <4> HIDE DEF done
      <4>1. /\ CloseCurrent(done) \in Seq(Socket)
            /\ Len(CloseCurrent(done)) = Len(done)
            /\ \A t \in DOMAIN done :
                 /\ CloseCurrent(done)[t].hears = done[t].hears
                 /\ CloseCurrent(done)[t].state = "closed" <=> done[t].state = "closed"
                 /\ CloseCurrent(done)[t].state = "open" => done[t].state = "open"
        BY <1>2, <2>2, CloseCurrentEffect
      <4> QED BY <1>1, <1>2, <3>2, <4>1
    <3> QED BY <2>1, <3>1, <3>2
  <2> HIDE DEF done
  <2>4. CASE current = 0
    BY <1>2, <2>1, <2>3, <2>4
  <2>5. CASE current # 0
    <3>1. current \in DOMAIN ss /\ sock' = WithHears(ss, current, FALSE)
      BY <1>1, <2>1, <2>3, <2>5 DEF TypeOK
    <3>2. /\ sock' \in Seq(Socket) /\ Len(sock') = Len(ss)
          /\ \A t \in DOMAIN ss \ {current} : sock'[t] = ss[t]
          /\ sock'[current].state = ss[current].state
      BY <2>3, <3>1, SocketHears
    <3>3. \A t \in DOMAIN sock : sock'[t].state = ss[t].state
      BY <2>3, <3>2
    <3> QED BY <1>2, <2>3, <3>2, <3>3
  <2> QED BY <2>4, <2>5
<1> QED BY <1>4, <1>5

(* What the open event does to the payloads: all of the queue goes out, or *)
(* is lost, and a payload of the owner's handler goes first, or is lost    *)
(* with it.                                                                *)
InUse == current # 0 /\ sock'[current].state = "open"

OnOpenKeeps == UNCHANGED <<sends, early, wire, pendingPayloads>>

OnOpenFlushes ==
  /\ InUse /\ pendingPayloads' = <<>>
  /\ \/ wire' = wire \o pendingPayloads /\ UNCHANGED <<sends, early>>
     \/ /\ sends < MaxSends /\ sends' = sends + 1 /\ early' = early \cup {sends'}
        /\ wire' = (wire \o <<sends'>>) \o pendingPayloads

OnOpenDrops ==
  /\ ~ InUse /\ pendingPayloads' = <<>> /\ UNCHANGED <<early, wire>>
  /\ \/ UNCHANGED sends
     \/ sends < MaxSends /\ sends' = sends + 1

LEMMA OnOpenPayloads ==
  ASSUME TypeOK, NEW s \in DOMAIN sock, OnOpen(s)
  PROVE  IF sock[s].hears THEN OnOpenFlushes \/ OnOpenDrops ELSE OnOpenKeeps
<1>1. CASE ~ sock[s].hears
  BY <1>1 DEF OnOpen, OnOpenKeeps
<1>2. CASE sock[s].hears
  <2>1. sock' = [sock EXCEPT ![s].state = "open"]
    BY DEF OnOpen
  <2>2. \A payloads : SendPayloads(sock', payloads) = IF InUse THEN payloads ELSE <<>>
    BY DEF SendPayloads, InUse
  <2>3. \/ /\ Flush(sock', <<>>, pendingPayloads)
           /\ UNCHANGED <<sends, early>>
        \/ /\ sends < MaxSends /\ sends' = sends + 1
           /\ InUse /\ early' = early \cup {sends'} /\ Flush(sock', <<sends'>>, pendingPayloads)
        \/ /\ sends < MaxSends /\ sends' = sends + 1
           /\ ~ InUse /\ UNCHANGED early /\ Flush(sock', <<>>, Append(pendingPayloads, sends'))
    BY <1>2, <2>1 DEF OnOpen, InUse
  <2>4. /\ wire \o <<>> = wire /\ wire \o pendingPayloads = (wire \o <<>>) \o pendingPayloads
        /\ wire \in Seq(1 .. sends)
    <3>1. wire \in Seq(1 .. sends)
      BY DEF TypeOK
    <3> QED BY <3>1
  <2>5. CASE InUse
    BY <1>2, <2>2, <2>3, <2>4, <2>5 DEF Flush, OnOpenFlushes
  <2>6. CASE ~ InUse
    BY <1>2, <2>2, <2>3, <2>4, <2>6 DEF Flush, OnOpenDrops
  <2> QED BY <1>2, <2>5, <2>6
<1> QED BY <1>1, <1>2

-----------------------------------------------------------------------------
(* Types *)

(* A payload is numbered above all before it.                              *)
LEMMA NextPayload ==
  ASSUME TypeOK, sends < MaxSends, sends' = sends + 1
  PROVE  /\ sends' \in 1 .. sends' /\ sends' \in 0 .. MaxSends
         /\ 1 .. sends \subseteq 1 .. sends'
         /\ wire \in Seq(1 .. sends') /\ pendingPayloads \in Seq(1 .. sends')
         /\ <<sends'>> \in Seq(1 .. sends')
<1>1. MaxSends \in Nat /\ sends \in Nat /\ sends' \in Nat
  BY ConstantsAssumption DEF TypeOK
<1>2. 1 .. sends \subseteq 1 .. sends' /\ sends' \in 1 .. sends'
  BY <1>1
<1>3. wire \in Seq(1 .. sends') /\ pendingPayloads \in Seq(1 .. sends')
  BY <1>2, WiderSequences DEF TypeOK
<1> QED BY <1>1, <1>2, <1>3

LEMMA ArmTimerTypes ==
  ASSUME TypeOK, ArmTimer
  PROVE  latest' \in BOOLEAN /\ older' \in Nat /\ reconnects' \in 0 .. MaxReconnects /\ quit' \in BOOLEAN
<1>1. older \in Nat /\ reconnects \in 0 .. MaxReconnects /\ MaxReconnects \in Nat
  BY ConstantsAssumption DEF TypeOK
<1>2. reconnects' \in 0 .. MaxReconnects
  BY <1>1 DEF ArmTimer
<1>3. older' \in {older, older + 1}
  BY DEF ArmTimer
<1>4. older' \in Nat
  BY <1>1, <1>3
<1>5. latest' \in BOOLEAN /\ quit' \in BOOLEAN
  BY DEF ArmTimer
<1> QED BY <1>2, <1>4, <1>5

LEMMA TypeInit == Init => TypeOK
<1> SUFFICES ASSUME Init
             PROVE  TypeOK
  OBVIOUS
<1>1. <<NewSocket>> \in Seq(Socket) /\ Len(<<NewSocket>>) = 1
  BY DEF NewSocket, Socket
<1>2. wire \in Seq(1 .. sends) /\ pendingPayloads \in Seq(1 .. sends)
  BY DEF Init
<1>3. current \in 0 .. Len(sock) /\ vouched \in 0 .. Len(sock)
  BY <1>1 DEF Init
<1>4. sends \in 0 .. MaxSends /\ reconnects \in 0 .. MaxReconnects /\ older \in Nat
  BY ConstantsAssumption DEF Init
<1> QED BY <1>1, <1>2, <1>3, <1>4 DEF Init, TypeOK

LEMMA TypeStep == TypeOK /\ [Next]_vars => TypeOK'
<1> SUFFICES ASSUME TypeOK, [Next]_vars
             PROVE  TypeOK'
  OBVIOUS
<1>0. /\ sock \in Seq(Socket) /\ Len(sock) \in Nat /\ DOMAIN sock = 1 .. Len(sock)
      /\ current \in 0 .. Len(sock) /\ vouched \in 0 .. Len(sock)
      /\ wire \in Seq(1 .. sends) /\ pendingPayloads \in Seq(1 .. sends)
      /\ early \subseteq 1 .. sends /\ sends \in 0 .. MaxSends
  BY DEF TypeOK
<1>1. CASE ReconnectTimer /\ UNCHANGED orderly
  <2>1. NewSocket \in Socket
    BY DEF NewSocket, Socket
  <2>2. /\ sock' = Append(sock, NewSocket) /\ current' = Len(sock) + 1
        /\ serverSocketStatus' = "CONNECTING" /\ vouched' = 0
    BY <1>1 DEF ReconnectTimer, Connect
  <2>3. sock' \in Seq(Socket) /\ Len(sock') = Len(sock) + 1
    BY <1>0, <2>1, <2>2, Appending
  <2>4. latest' \in BOOLEAN /\ older' \in Nat
    <3>1. older \in Nat /\ latest \in BOOLEAN
      BY DEF TypeOK
    <3>2. CASE latest' = FALSE /\ UNCHANGED older
      BY <3>1, <3>2
    <3>3. CASE older > 0 /\ older' = older - 1 /\ UNCHANGED latest
      BY <3>1, <3>3
    <3> QED BY <1>1, <3>2, <3>3 DEF ReconnectTimer
  <2> QED BY <1>0, <1>1, <2>2, <2>3, <2>4 DEF ReconnectTimer, Connect, TypeOK
<1>2. CASE Reconnect /\ UNCHANGED orderly
  BY <1>2, ArmTimerTypes DEF Reconnect, TypeOK
<1>3. CASE Close /\ UNCHANGED orderly
  <2>1. sock' \in Seq(Socket) /\ Len(sock') = Len(sock)
    BY <1>0, <1>3, CloseCurrentEffect DEF Close
  <2> QED BY <1>3, <2>1 DEF Close, TypeOK
<1>4. CASE Send /\ UNCHANGED orderly
  <2>1. sends < MaxSends /\ sends' = sends + 1
    BY <1>4 DEF Send
  <2>2. Append(wire, sends') \in Seq(1 .. sends') /\ Append(pendingPayloads, sends') \in Seq(1 .. sends')
    BY <2>1, NextPayload, Appending
  <2>3. wire' \in Seq(1 .. sends') /\ pendingPayloads' \in Seq(1 .. sends')
    BY <1>4, <2>1, <2>2, NextPayload DEF Send
  <2>4. early' \subseteq 1 .. sends' /\ sends' \in 0 .. MaxSends
    BY <1>0, <1>4, <2>1, NextPayload DEF Send
  <2> QED BY <1>4, <2>3, <2>4 DEF Send, TypeOK
<1>5. ASSUME NEW s \in DOMAIN sock, OnOpen(s), UNCHANGED orderly
      PROVE  TypeOK'
  <2>1. sock' \in Seq(Socket) /\ Len(sock') = Len(sock)
    BY <1>5, OnOpenSockets
  <2>2. /\ wire' \in Seq(1 .. sends') /\ pendingPayloads' \in Seq(1 .. sends')
        /\ early' \subseteq 1 .. sends' /\ sends' \in 0 .. MaxSends
    <3>1. CASE OnOpenKeeps
      BY <1>0, <3>1 DEF OnOpenKeeps
    <3>2. CASE OnOpenFlushes
      <4>1. pendingPayloads' \in Seq(1 .. sends')
        BY <3>2 DEF OnOpenFlushes
      <4>2. CASE wire' = wire \o pendingPayloads /\ UNCHANGED <<sends, early>>
        BY <1>0, <4>1, <4>2, Concatenation
      <4>3. CASE /\ sends < MaxSends /\ sends' = sends + 1 /\ early' = early \cup {sends'}
                 /\ wire' = (wire \o <<sends'>>) \o pendingPayloads
        <5>1. wire \o <<sends'>> \in Seq(1 .. sends')
          BY <4>3, NextPayload, Concatenation
        <5>2. wire' \in Seq(1 .. sends')
          BY <4>3, <5>1, NextPayload, Concatenation
        <5> QED BY <1>0, <4>1, <4>3, <5>2, NextPayload
      <4> QED BY <3>2, <4>2, <4>3 DEF OnOpenFlushes
    <3>3. CASE OnOpenDrops
      BY <1>0, <3>3, NextPayload DEF OnOpenDrops
    <3> QED BY <1>5, <3>1, <3>2, <3>3, OnOpenPayloads
  <2> QED BY <1>5, <2>1, <2>2 DEF OnOpen, TypeOK
<1>6. ASSUME NEW s \in DOMAIN sock, OnClose(s), UNCHANGED orderly
      PROVE  TypeOK'
  <2>1. sock' \in Seq(Socket) /\ Len(sock') = Len(sock)
    BY <1>6, OnCloseSockets
  <2>2. /\ current' \in {0, current}
        /\ \/ UNCHANGED <<latest, older, reconnects, quit>>
           \/ ArmTimer
    BY <1>6 DEF OnClose
  <2>3. /\ latest' \in BOOLEAN /\ older' \in Nat
        /\ reconnects' \in 0 .. MaxReconnects /\ quit' \in BOOLEAN
    BY <2>2, ArmTimerTypes DEF TypeOK
  <2> QED BY <1>0, <1>6, <2>1, <2>2, <2>3 DEF OnClose, TypeOK
<1>7. ASSUME NEW s \in DOMAIN sock, OnBadMessage(s), UNCHANGED orderly
      PROVE  TypeOK'
  <2>1. sock' \in Seq(Socket) /\ Len(sock') = Len(sock)
    BY <1>0, <1>7, CloseCurrentEffect DEF OnBadMessage
  <2> QED BY <1>7, <2>1 DEF OnBadMessage, TypeOK
<1>8. ASSUME NEW s \in DOMAIN sock, NEW status \in {"OPEN", "CLOSED", "missing"},
             OnStatus(s, status), UNCHANGED orderly
      PROVE  TypeOK'
  BY <1>0, <1>8 DEF OnStatus, TypeOK
<1>9. CASE UNCHANGED vars
  BY <1>9 DEF vars, clientVars, TypeOK
<1> QED BY <1>1, <1>2, <1>3, <1>4, <1>5, <1>6, <1>7, <1>8, <1>9 DEF Next

(* Every variable keeps its type: what the client holds or has sent are    *)
(* payloads that were given to it.                                         *)
THEOREM TypeCorrect == Spec => []TypeOK
BY TypeInit, TypeStep, PTL DEF Spec

-----------------------------------------------------------------------------
(* Sockets and timers: the inductive invariant                             *)
(*                                                                         *)
(* OneConnection counts; what an event needs to know is which socket is    *)
(* the one left.  The handlers act on this.socket, so the invariant says   *)
(* that an orderly owner's live socket is this.socket, and that it still   *)
(* has its listeners: otherwise its close would go unheard.                *)

(* The socket in use still has the listeners of the client.                *)
CurrentIsHeard == current # 0 => sock[current].hears

(* An orderly owner has one socket at most that is not closed, the one in  *)
(* use, and no timer while there is one.                                   *)
OneAtATime ==
  orderly => /\ older = 0
             /\ \A s \in DOMAIN sock : Live(s) => s = current /\ ~latest

(* Its status, once it says OPEN, was said by the socket in use.           *)
OpenIsVouched ==
  orderly /\ serverSocketStatus = "OPEN" /\ current # 0 => vouched = current

SocketInv == TypeOK /\ CurrentIsHeard /\ OneAtATime /\ OpenIsVouched /\ CloseIsFinal

LEMMA SocketInvInit == Init => SocketInv
<1> SUFFICES ASSUME Init
             PROVE  SocketInv
  OBVIOUS
<1>1. sock = <<NewSocket>> /\ current = 1 /\ DOMAIN sock = {1} /\ sock[1].hears
  BY DEF Init, NewSocket
<1> QED BY <1>1, TypeInit
        DEF Init, SocketInv, CurrentIsHeard, OneAtATime, OpenIsVouched, CloseIsFinal

(* What close() does to the socket in use: it stays live until its event.  *)
LEMMA ClosingKeepsSockets ==
  ASSUME SocketInv, sock' = CloseCurrent(sock), UNCHANGED <<orderly, current, older>>,
         latest' => latest
  PROVE  CurrentIsHeard' /\ OneAtATime'
<1>1. /\ Len(sock') = Len(sock) /\ sock' \in Seq(Socket) /\ current \in 0 .. Len(sock)
      /\ DOMAIN sock = 1 .. Len(sock) /\ DOMAIN sock' = 1 .. Len(sock')
      /\ \A s \in DOMAIN sock :
           /\ sock'[s].hears = sock[s].hears
           /\ sock'[s].state = "closed" <=> sock[s].state = "closed"
  BY CloseCurrentEffect DEF SocketInv, TypeOK
<1>2. CurrentIsHeard'
  BY <1>1 DEF SocketInv, CurrentIsHeard
<1>3. OneAtATime'
  BY <1>1 DEF SocketInv, OneAtATime, Live
<1> QED BY <1>2, <1>3

LEMMA SocketInvStep == SocketInv /\ [Next]_vars => SocketInv'
<1> SUFFICES ASSUME SocketInv, [Next]_vars
             PROVE  SocketInv'
  OBVIOUS
<1>0. /\ sock \in Seq(Socket) /\ Len(sock) \in Nat /\ DOMAIN sock = 1 .. Len(sock)
      /\ current \in 0 .. Len(sock) /\ older \in Nat
      /\ TypeOK /\ CurrentIsHeard /\ OneAtATime /\ OpenIsVouched /\ CloseIsFinal
  BY DEF SocketInv, TypeOK
<1>a. TypeOK'
  BY <1>0, TypeStep
<1>1. CASE ReconnectTimer /\ UNCHANGED orderly
  <2>1. /\ sock' = Append(sock, NewSocket) /\ current' = Len(sock) + 1
        /\ serverSocketStatus' = "CONNECTING" /\ UNCHANGED quit
    BY <1>1 DEF ReconnectTimer, Connect
  <2>2. NewSocket \in Socket
    BY DEF NewSocket, Socket
  <2>3. /\ DOMAIN sock' = 1 .. Len(sock) + 1
        /\ \A s \in 1 .. Len(sock) : sock'[s] = sock[s]
        /\ sock'[Len(sock) + 1] = NewSocket
    BY <1>0, <2>1, <2>2, Appending
  <2>4. CurrentIsHeard'
    BY <2>1, <2>3 DEF CurrentIsHeard, NewSocket
  <2>5. ASSUME orderly
        PROVE  latest /\ ~ latest' /\ older' = 0 /\ older = 0
    BY <1>0, <1>1, <2>5 DEF ReconnectTimer, OneAtATime
  <2>6. OneAtATime'
    <3>1. ASSUME orderly, NEW s \in 1 .. Len(sock)
          PROVE  sock'[s].state = "closed"
      BY <1>0, <2>3, <2>5, <3>1 DEF OneAtATime, Live
    <3>2. ASSUME orderly', NEW s \in DOMAIN sock', Live(s)'
          PROVE  s = current' /\ ~ latest'
      <4>1. orderly
        BY <1>1, <3>2
      <4>2. s \notin 1 .. Len(sock)
        BY <3>1, <3>2, <4>1 DEF Live
      <4> QED BY <1>0, <2>1, <2>3, <2>5, <4>1, <4>2
    <3> QED BY <1>1, <2>5, <3>2 DEF OneAtATime
  <2>7. OpenIsVouched' /\ CloseIsFinal'
    BY <1>0, <1>1, <2>1, <2>5 DEF OpenIsVouched, CloseIsFinal
  <2> QED BY <1>a, <2>4, <2>6, <2>7 DEF SocketInv
<1>2. CASE Reconnect /\ UNCHANGED orderly
  BY <1>0, <1>a, <1>2
     DEF Reconnect, ArmTimer, SocketInv, CurrentIsHeard, OneAtATime, OpenIsVouched, CloseIsFinal
<1>3. CASE Close /\ UNCHANGED orderly
  <2>1. CurrentIsHeard' /\ OneAtATime'
    BY <1>0, <1>3, ClosingKeepsSockets DEF Close
  <2>2. OpenIsVouched'
    BY <1>0, <1>3 DEF Close, OpenIsVouched
  <2>3. CloseIsFinal'
    <3>1. /\ sock' \in Seq(Socket) /\ DOMAIN sock' = DOMAIN sock
          /\ \A s \in DOMAIN sock : sock'[s].state = "closed" <=> sock[s].state = "closed"
          /\ current # 0 => sock'[current].state \in {"closing", "closed"}
      BY <1>0, <1>3, CloseCurrentEffect DEF Close
    <3>2. ASSUME orderly, NEW s \in DOMAIN sock
          PROVE  sock'[s].state \in {"closing", "closed"}
      <4>1. CASE Live(s)
        BY <1>0, <3>1, <3>2, <4>1 DEF OneAtATime
      <4>2. CASE ~ Live(s)
        BY <3>1, <4>2 DEF Live
      <4> QED BY <4>1, <4>2
    <3>3. orderly => ~ latest' /\ older' = 0
      BY <1>0, <1>3 DEF Close, OneAtATime
    <3> QED BY <1>3, <3>1, <3>2, <3>3 DEF CloseIsFinal
  <2> QED BY <1>a, <2>1, <2>2, <2>3 DEF SocketInv
<1>4. CASE Send /\ UNCHANGED orderly
  BY <1>0, <1>a, <1>4
     DEF Send, SocketInv, CurrentIsHeard, OneAtATime, Live, OpenIsVouched, CloseIsFinal
<1>5. ASSUME NEW s \in DOMAIN sock, OnOpen(s), UNCHANGED orderly
      PROVE  SocketInv'
  <2>1. /\ DOMAIN sock' = DOMAIN sock
        /\ \A t \in DOMAIN sock : sock'[t].hears = sock[t].hears
        /\ \A t \in DOMAIN sock : sock'[t].state # "closed" => sock[t].state # "closed"
    <3>1. /\ DOMAIN sock' = DOMAIN sock /\ sock[s].state = "connecting"
          /\ \A t \in DOMAIN sock : sock'[t].hears = sock[t].hears
          /\ \A t \in DOMAIN sock : t # s => sock'[t] = sock[t]
      BY <1>0, <1>5, OnOpenSockets
    <3> QED BY <3>1
  <2>2. UNCHANGED <<current, serverSocketStatus, latest, older, quit, vouched, orderly>>
    BY <1>5 DEF OnOpen
  <2>3. CurrentIsHeard' /\ OneAtATime'
    BY <1>0, <2>1, <2>2 DEF CurrentIsHeard, OneAtATime, Live
  <2>4. OpenIsVouched' /\ ~ (orderly /\ quit)
    BY <1>0, <1>5, <2>2, OnOpenSockets DEF OpenIsVouched, CloseIsFinal
  <2> QED BY <1>a, <2>2, <2>3, <2>4 DEF SocketInv, CloseIsFinal
<1>6. ASSUME NEW s \in DOMAIN sock, OnClose(s), UNCHANGED orderly
      PROVE  SocketInv'
  <2>1. /\ DOMAIN sock' = DOMAIN sock
        /\ sock'[s].state = "closed"
        /\ \A t \in DOMAIN sock :
             /\ sock'[t].state # "closed" => t # s /\ sock[t].state # "closed"
             /\ t # current => sock'[t].hears = sock[t].hears
    <3>1. /\ DOMAIN sock' = DOMAIN sock
          /\ sock'[s].state = "closed"
          /\ \A t \in DOMAIN sock :
               /\ t # s => (sock'[t].state = "closed" <=> sock[t].state = "closed")
               /\ t # current => sock'[t].hears = sock[t].hears
      BY <1>0, <1>6, OnCloseSockets
    <3> QED BY <3>1
  <2>2. Live(s) /\ UNCHANGED <<serverSocketStatus, vouched>>
    BY <1>6 DEF OnClose
  <2>3. CASE sock[s].hears
    <3>1. /\ current' = 0
          /\ \/ UNCHANGED <<latest, older, quit>>
             \/ ArmTimer
      BY <1>6, <2>3 DEF OnClose
    <3>2. ASSUME orderly
          PROVE  /\ older' = 0
                 /\ \A t \in DOMAIN sock' : ~ Live(t)'
      <4>1. ~ latest /\ older = 0
        BY <1>0, <2>2, <3>2 DEF OneAtATime
      <4>2. older' = 0
        BY <3>1, <4>1 DEF ArmTimer
      <4>3. \A t \in DOMAIN sock' : ~ Live(t)'
        BY <1>0, <2>1, <2>2, <3>2 DEF OneAtATime, Live
      <4> QED BY <4>2, <4>3
    <3>3. CurrentIsHeard' /\ OneAtATime' /\ OpenIsVouched'
      BY <1>6, <3>1, <3>2 DEF CurrentIsHeard, OneAtATime, OpenIsVouched
    <3>4. CloseIsFinal'
      BY <1>0, <1>6, <3>1, <3>2 DEF CloseIsFinal, ArmTimer, Live
    <3> QED BY <1>a, <3>3, <3>4 DEF SocketInv
  <2>4. CASE ~ sock[s].hears
    <3>1. UNCHANGED <<current, latest, older, quit, orderly>>
      BY <1>6, <2>4 DEF OnClose
    <3>2. s # current
      BY <1>0, <2>4 DEF CurrentIsHeard
    <3>3. sock' = [sock EXCEPT ![s].state = "closed"]
      BY <1>6, <2>4 DEF OnClose
    <3>4. CurrentIsHeard'
      BY <1>0, <3>1, <3>2, <3>3 DEF CurrentIsHeard
    <3>5. OneAtATime'
      BY <1>0, <2>1, <3>1 DEF OneAtATime, Live
    <3>6. OpenIsVouched'
      BY <1>0, <2>2, <3>1 DEF OpenIsVouched
    <3>7. CloseIsFinal'
      <4>1. \A t \in DOMAIN sock : sock'[t].state \in {sock[t].state, "closed"}
        BY <1>0, <2>1, <3>3
      <4> QED BY <1>0, <2>1, <3>1, <4>1 DEF CloseIsFinal
    <3> QED BY <1>a, <3>4, <3>5, <3>6, <3>7 DEF SocketInv
  <2> QED BY <2>3, <2>4
<1>7. ASSUME NEW s \in DOMAIN sock, OnBadMessage(s), UNCHANGED orderly
      PROVE  SocketInv'
  <2>1. CurrentIsHeard' /\ OneAtATime'
    BY <1>0, <1>7, ClosingKeepsSockets DEF OnBadMessage
  <2>2. OpenIsVouched' /\ CloseIsFinal'
    BY <1>0, <1>7 DEF OnBadMessage, OpenIsVouched, CloseIsFinal
  <2> QED BY <1>a, <2>1, <2>2 DEF SocketInv
<1>8. ASSUME NEW s \in DOMAIN sock, NEW status \in {"OPEN", "CLOSED", "missing"},
             OnStatus(s, status), UNCHANGED orderly
      PROVE  SocketInv'
  <2>1. CurrentIsHeard' /\ OneAtATime' /\ CloseIsFinal'
    BY <1>0, <1>8 DEF OnStatus, CurrentIsHeard, OneAtATime, Live, CloseIsFinal
  <2>2. orderly => vouched' = current'
    BY <1>0, <1>8 DEF OnStatus, OneAtATime, Live
  <2>3. OpenIsVouched'
    BY <1>8, <2>2 DEF OpenIsVouched
  <2> QED BY <1>a, <2>1, <2>3 DEF SocketInv
<1>9. CASE UNCHANGED vars
  BY <1>0, <1>a, <1>9
     DEF vars, clientVars, SocketInv, CurrentIsHeard, OneAtATime, Live, OpenIsVouched, CloseIsFinal
<1> QED BY <1>1, <1>2, <1>3, <1>4, <1>5, <1>6, <1>7, <1>8, <1>9 DEF Next

LEMMA SocketInvSuffices == SocketInv => OneConnection /\ StatusIsCurrent
<1> SUFFICES ASSUME SocketInv
             PROVE  OneConnection /\ StatusIsCurrent
  OBVIOUS
<1>1. ASSUME orderly
      PROVE  Cardinality({s \in DOMAIN sock : Live(s)}) + older + (IF latest THEN 1 ELSE 0) <= 1
  <2> DEFINE live == {s \in DOMAIN sock : Live(s)}
  <2>1. /\ older = 0
        /\ \A s, t \in live : s = t
        /\ latest => live = {}
    BY <1>1 DEF SocketInv, OneAtATime
  <2>2. Cardinality(live) \in {0, 1} /\ (live = {} => Cardinality(live) = 0)
    BY <2>1, AtMostOne
  <2> DEFINE timer == IF latest THEN 1 ELSE 0
             count == Cardinality(live)
  <2>3. timer \in {0, 1} /\ (timer = 1 => live = {})
    BY <2>1
  <2>4. count \in {0, 1} /\ (timer = 1 => count = 0)
    BY <2>2, <2>3
  <2> HIDE DEF live, timer, count
  <2>5. count + older + timer <= 1
    BY <2>1, <2>3, <2>4
  <2> QED BY <2>5 DEF live, timer, count
<1>2. StatusIsCurrent
  <2>1. serverSocketStatus \in {"CONNECTING", "OPEN", "CLOSED"}
    BY DEF SocketInv, TypeOK
  <2>2. Status = "open" => serverSocketStatus = "OPEN" /\ current # 0
    BY <2>1 DEF Status
  <2> QED BY <2>2 DEF SocketInv, OpenIsVouched, StatusIsCurrent
<1> QED BY <1>1, <1>2 DEF OneConnection

LEMMA SocketInvAlways == Spec => []SocketInv
BY SocketInvInit, SocketInvStep, PTL DEF Spec

(* WebsocketClient's reconnect(), close() and the listeners it attaches:   *)
(* an owner that reconnects only from its close handler never has two      *)
(* connections, or a connection and a timer about to open another.         *)
THEOREM OneConnectionAtATime == Spec => []OneConnection
BY SocketInvAlways, SocketInvSuffices, PTL

(* WebsocketClient.close(): no timer of an orderly owner survives it, and  *)
(* its sockets close.                                                      *)
THEOREM ClosedStaysClosed == Spec => []CloseIsFinal
<1>1. SocketInv => CloseIsFinal
  BY DEF SocketInv
<1> QED BY <1>1, SocketInvAlways, PTL

(* The getter `status`: an orderly owner reads "open" only when the server *)
(* said so over the socket in use.                                         *)
THEOREM StatusIsOfTheSocket == Spec => []StatusIsCurrent
BY SocketInvAlways, SocketInvSuffices, PTL

-----------------------------------------------------------------------------
(* Payloads: the inductive invariant                                       *)
(*                                                                         *)
(* A payload sent over an open socket goes straight to the wire, ahead of  *)
(* whatever still waits: the order holds because nothing then waits.       *)

(* No queue waits while the socket in use is open.                         *)
OpenIsFlushed ==
  current # 0 /\ sock[current].state = "open" => pendingPayloads = <<>>

PayloadInv == SocketInv /\ OpenIsFlushed /\ InOrderOnce /\ OrderlyDropsNothing

LEMMA OpenIsFlushedStep == SocketInv /\ OpenIsFlushed /\ [Next]_vars => OpenIsFlushed'
<1> SUFFICES ASSUME SocketInv, OpenIsFlushed, [Next]_vars
             PROVE  OpenIsFlushed'
  OBVIOUS
<1>0. /\ sock \in Seq(Socket) /\ Len(sock) \in Nat /\ DOMAIN sock = 1 .. Len(sock)
      /\ current \in 0 .. Len(sock)
      /\ TypeOK /\ CurrentIsHeard
  BY DEF SocketInv, TypeOK
<1>1. CASE ReconnectTimer
  <2>1. sock' = Append(sock, NewSocket) /\ current' = Len(sock) + 1
    BY <1>1 DEF ReconnectTimer, Connect
  <2>2. NewSocket \in Socket /\ NewSocket.state = "connecting"
    BY DEF NewSocket, Socket
  <2>3. sock'[current'].state = "connecting"
    BY <1>0, <2>1, <2>2, Appending
  <2> QED BY <2>3 DEF OpenIsFlushed
<1>2. CASE Reconnect
  BY <1>2 DEF Reconnect, OpenIsFlushed
<1>3. CASE Send
  BY <1>3 DEF Send, OpenIsFlushed
<1>4. ASSUME sock' = CloseCurrent(sock), UNCHANGED <<current, pendingPayloads>>
      PROVE  OpenIsFlushed'
  <2>1. \A s \in DOMAIN sock : sock'[s].state = "open" => sock[s].state = "open"
    BY <1>0, <1>4, CloseCurrentEffect
  <2> QED BY <1>0, <1>4, <2>1 DEF OpenIsFlushed
<1>5. ASSUME NEW s \in DOMAIN sock, OnOpen(s)
      PROVE  OpenIsFlushed'
  <2>1. CASE sock[s].hears
    BY <1>0, <1>5, <2>1, OnOpenPayloads DEF OnOpenFlushes, OnOpenDrops, OpenIsFlushed
  <2>2. CASE ~ sock[s].hears
    <3>1. current # s
      BY <1>0, <2>2 DEF CurrentIsHeard
    <3>2. UNCHANGED <<pendingPayloads, current>>
      BY <1>5, <2>2 DEF OnOpen
    <3>3. \A t \in DOMAIN sock : t # s => sock'[t] = sock[t]
      BY <1>0, <1>5, OnOpenSockets
    <3> QED BY <1>0, <3>1, <3>2, <3>3 DEF OpenIsFlushed
  <2> QED BY <2>1, <2>2
<1>6. ASSUME NEW s \in DOMAIN sock, OnClose(s)
      PROVE  OpenIsFlushed'
  <2>1. current' \in {0, current} /\ UNCHANGED pendingPayloads
    BY <1>6 DEF OnClose
  <2>2. \A t \in DOMAIN sock : sock'[t].state = "open" => sock[t].state = "open"
    BY <1>0, <1>6, OnCloseSockets
  <2> QED BY <1>0, <2>1, <2>2 DEF OpenIsFlushed
<1>7. CASE Close \/ \E s \in DOMAIN sock : OnBadMessage(s)
  BY <1>4, <1>7 DEF Close, OnBadMessage
<1>8. ASSUME NEW s \in DOMAIN sock, NEW status, OnStatus(s, status)
      PROVE  OpenIsFlushed'
  BY <1>8 DEF OnStatus, OpenIsFlushed
<1>9. CASE UNCHANGED vars
  BY <1>9 DEF vars, clientVars, OpenIsFlushed
<1> QED BY <1>1, <1>2, <1>3, <1>5, <1>6, <1>7, <1>8, <1>9 DEF Next

(* The order of what was handed over, h, when e may overtake.              *)
Ordered(h, e) ==
  \A i, j \in DOMAIN h : i < j =>
    /\ h[i] # h[j]
    /\ {h[i], h[j]} \cap e = {} => h[i] < h[j]

(* A payload numbered above all others may follow them.                    *)
LEMMA OrderedAppend ==
  ASSUME NEW n \in Nat, NEW h \in Seq(1 .. n), NEW e, Ordered(h, e)
  PROVE  Ordered(Append(h, n + 1), e)
<1> DEFINE g == Append(h, n + 1)
<1>1. /\ Len(h) \in Nat /\ DOMAIN h = 1 .. Len(h) /\ DOMAIN g = 1 .. Len(h) + 1
      /\ \A i \in 1 .. Len(h) : g[i] = h[i] /\ h[i] \in 1 .. n
      /\ g[Len(h) + 1] = n + 1
  OBVIOUS
<1> HIDE DEF g
<1> SUFFICES ASSUME NEW i \in DOMAIN g, NEW j \in DOMAIN g, i < j
             PROVE  /\ g[i] # g[j]
                    /\ {g[i], g[j]} \cap e = {} => g[i] < g[j]
  BY DEF Ordered, g
<1>2. i \in 1 .. Len(h)
  BY <1>1
<1>3. CASE j \in 1 .. Len(h)
  BY <1>1, <1>2, <1>3 DEF Ordered
<1>4. CASE j = Len(h) + 1
  <2>1. g[i] \in 1 .. n /\ g[j] = n + 1
    BY <1>1, <1>2, <1>4
  <2> QED BY <2>1
<1> QED BY <1>1, <1>3, <1>4

(* What stays of an ordered sequence when its end is lost.                 *)
LEMMA OrderedPrefix ==
  ASSUME NEW S, NEW h \in Seq(S), NEW t \in Seq(S), NEW e, Ordered(h \o t, e)
  PROVE  Ordered(h, e)
<1>1. /\ Len(h) \in Nat /\ Len(t) \in Nat
      /\ DOMAIN h = 1 .. Len(h) /\ DOMAIN (h \o t) = 1 .. Len(h) + Len(t)
      /\ DOMAIN h \subseteq DOMAIN (h \o t)
  OBVIOUS
<1>2. \A i \in DOMAIN h : (h \o t)[i] = h[i]
  BY <1>1, Concatenation
<1> QED BY <1>1, <1>2 DEF Ordered

(* A payload of the open handler, numbered above all others, may come in   *)
(* between.                                                                *)
LEMMA OrderedInsert ==
  ASSUME NEW n \in Nat, NEW h \in Seq(1 .. n), NEW t \in Seq(1 .. n),
         NEW e, Ordered(h \o t, e)
  PROVE  Ordered((h \o <<n + 1>>) \o t, e \cup {n + 1})
<1> DEFINE old == h \o t
           new == (h \o <<n + 1>>) \o t
           m == Len(h) + 1
           Back(i) == IF i < m THEN i ELSE i - 1
<1>1. /\ Len(h) \in Nat /\ Len(t) \in Nat
      /\ DOMAIN old = 1 .. Len(h) + Len(t)
      /\ DOMAIN new = 1 .. m + Len(t)
      /\ \A i \in DOMAIN old : old[i] \in 1 .. n
      /\ new[m] = n + 1
  BY SMTT(30)
<1>2. \A i \in DOMAIN new \ {m} : Back(i) \in DOMAIN old /\ new[i] = old[Back(i)]
  BY SMTT(30)
<1>3. \A i, j \in DOMAIN new \ {m} : i < j => Back(i) < Back(j)
  BY <1>1
<1> HIDE DEF old, new, m, Back
<1> SUFFICES ASSUME NEW i \in DOMAIN new, NEW j \in DOMAIN new, i < j
             PROVE  /\ new[i] # new[j]
                    /\ {new[i], new[j]} \cap (e \cup {n + 1}) = {} => new[i] < new[j]
  BY DEF Ordered, new
<1>4. CASE i # m /\ j # m
  <2>1. /\ new[i] = old[Back(i)] /\ new[j] = old[Back(j)]
        /\ Back(i) \in DOMAIN old /\ Back(j) \in DOMAIN old /\ Back(i) < Back(j)
    BY <1>2, <1>3, <1>4
  <2>2. /\ old[Back(i)] # old[Back(j)]
        /\ {old[Back(i)], old[Back(j)]} \cap e = {} => old[Back(i)] < old[Back(j)]
    BY <2>1 DEF Ordered, old
  <2> QED BY <2>1, <2>2
<1>5. CASE i = m
  <2>1. j # m /\ new[i] = n + 1
    BY <1>1, <1>5
  <2>2. new[j] \in 1 .. n
    BY <1>1, <1>2, <2>1
  <2>3. new[i] # new[j]
    BY <2>1, <2>2
  <2> QED BY <2>1, <2>3
<1>6. CASE j = m
  <2>1. i # m /\ new[j] = n + 1
    BY <1>1, <1>6
  <2>2. new[i] \in 1 .. n
    BY <1>1, <1>2, <2>1
  <2>3. new[i] < new[j] /\ new[i] # new[j]
    BY <2>1, <2>2
  <2> QED BY <2>3
<1> QED BY <1>4, <1>5, <1>6

LEMMA AppendLast ==
  ASSUME NEW S, NEW h \in Seq(S), NEW t \in Seq(S), NEW x \in S
  PROVE  /\ h \o Append(t, x) = Append(h \o t, x)
         /\ Append(t, x) = t \o <<x>>
         /\ Append(h, x) \o <<>> = Append(h, x)
OBVIOUS

LEMMA InOrderOnceStep ==
  TypeOK /\ OpenIsFlushed /\ InOrderOnce /\ [Next]_vars => InOrderOnce'
<1> SUFFICES ASSUME TypeOK, OpenIsFlushed, InOrderOnce, [Next]_vars
             PROVE  InOrderOnce'
  OBVIOUS
<1>0. /\ wire \in Seq(1 .. sends) /\ pendingPayloads \in Seq(1 .. sends)
      /\ sends \in Nat /\ sends + 1 \in Nat /\ 1 .. sends \subseteq 1 .. sends + 1
      /\ Ordered(wire \o pendingPayloads, early)
  <2>1. wire \in Seq(1 .. sends) /\ pendingPayloads \in Seq(1 .. sends) /\ sends \in 0 .. MaxSends
    BY DEF TypeOK
  <2>2. sends \in Nat
    BY <2>1, ConstantsAssumption
  <2>3. sends + 1 \in Nat /\ 1 .. sends \subseteq 1 .. sends + 1
    BY <2>2
  <2>4. Ordered(wire \o pendingPayloads, early)
    BY DEF InOrderOnce, Handed, Ordered
  <2> QED BY <2>1, <2>2, <2>3, <2>4
<1>a. SUFFICES Ordered(wire' \o pendingPayloads', early')
  BY DEF InOrderOnce, Handed, Ordered
<1>1. CASE Send
  <2>1. sends' = sends + 1 /\ UNCHANGED early
    BY <1>1 DEF Send
  <2>2. wire' \o pendingPayloads' = Append(wire \o pendingPayloads, sends + 1)
    <3>1. CASE current = 0 \/ sock[current].state # "open"
      <4>1. UNCHANGED wire /\ pendingPayloads' = Append(pendingPayloads, sends + 1)
        BY <1>1, <2>1, <3>1 DEF Send
      <4>2. wire \in Seq(Nat) /\ pendingPayloads \in Seq(Nat)
        BY <1>0, WiderSequences
      <4> QED BY <1>0, <4>1, <4>2, AppendLast
    <3>2. CASE current # 0 /\ sock[current].state = "open"
      <4>1. pendingPayloads = <<>> /\ UNCHANGED pendingPayloads /\ wire' = Append(wire, sends + 1)
        BY <1>1, <2>1, <3>2 DEF Send, OpenIsFlushed
      <4>2. wire \o <<>> = wire /\ Append(wire, sends + 1) \o <<>> = Append(wire, sends + 1)
        BY <1>0
      <4> QED BY <4>1, <4>2
    <3> QED BY <3>1, <3>2
  <2>3. wire \o pendingPayloads \in Seq(1 .. sends)
    BY <1>0, Concatenation
  <2> QED BY <1>0, <2>1, <2>2, <2>3, OrderedAppend
<1>2. ASSUME NEW s \in DOMAIN sock, OnOpen(s)
      PROVE  Ordered(wire' \o pendingPayloads', early')
  <2>1. CASE OnOpenKeeps
    BY <1>0, <2>1 DEF OnOpenKeeps
  <2>2. CASE OnOpenDrops
    <3>1. wire' = wire /\ pendingPayloads' = <<>> /\ early' = early
      BY <2>2 DEF OnOpenDrops
    <3>2. wire \o <<>> = wire
      BY <1>0
    <3>3. Ordered(wire, early)
      BY <1>0, OrderedPrefix
    <3> QED BY <3>1, <3>2, <3>3
  <2>3. CASE OnOpenFlushes
    <3>1. pendingPayloads' = <<>>
      BY <2>3 DEF OnOpenFlushes
    <3>2. CASE wire' = wire \o pendingPayloads /\ UNCHANGED <<sends, early>>
      <4>1. wire \o pendingPayloads \in Seq(1 .. sends)
        BY <1>0, Concatenation
      <4>2. wire' \o <<>> = wire'
        BY <3>2, <4>1
      <4> QED BY <1>0, <3>1, <3>2, <4>2
    <3>3. CASE /\ sends' = sends + 1 /\ early' = early \cup {sends'}
               /\ wire' = (wire \o <<sends'>>) \o pendingPayloads
      <4>1. Ordered((wire \o <<sends + 1>>) \o pendingPayloads, early \cup {sends + 1})
        BY <1>0, OrderedInsert
      <4>2. /\ wire \in Seq(Nat) /\ pendingPayloads \in Seq(Nat)
            /\ <<sends + 1>> \in Seq(Nat)
        BY <1>0, WiderSequences
      <4>3. wire' \in Seq(Nat)
        BY <3>3, <4>2
      <4>4. wire' \o <<>> = wire'
        BY <4>3
      <4> QED BY <3>1, <3>3, <4>1, <4>4
    <3> QED BY <2>3, <3>2, <3>3 DEF OnOpenFlushes
  <2> QED BY <1>2, <2>1, <2>2, <2>3, OnOpenPayloads
<1>3. CASE UNCHANGED <<wire, pendingPayloads, early>>
  BY <1>0, <1>3
<1>4. CASE ReconnectTimer \/ Reconnect \/ Close
  BY <1>3, <1>4 DEF ReconnectTimer, Connect, Reconnect, Close
<1>5. CASE \E s \in DOMAIN sock : OnClose(s) \/ OnBadMessage(s) \/ \E status : OnStatus(s, status)
  BY <1>3, <1>5 DEF OnClose, OnBadMessage, OnStatus
<1>6. CASE UNCHANGED vars
  BY <1>3, <1>6 DEF vars, clientVars
<1> QED BY <1>1, <1>2, <1>4, <1>5, <1>6 DEF Next

LEMMA DropsNothingStep ==
  SocketInv /\ OrderlyDropsNothing /\ [Next]_vars => OrderlyDropsNothing'
<1> SUFFICES ASSUME SocketInv, OrderlyDropsNothing, [Next]_vars, orderly'
             PROVE  NothingDropped'
  BY DEF OrderlyDropsNothing
<1>0. /\ wire \in Seq(1 .. sends) /\ pendingPayloads \in Seq(1 .. sends)
      /\ wire \in Seq(Nat) /\ pendingPayloads \in Seq(Nat)
      /\ sends \in Nat /\ 1 .. sends + 1 = 1 .. sends \cup {sends + 1}
      /\ DOMAIN sock = 1 .. Len(sock)
      /\ TypeOK
  <2>1. /\ wire \in Seq(1 .. sends) /\ pendingPayloads \in Seq(1 .. sends)
        /\ sends \in 0 .. MaxSends /\ DOMAIN sock = 1 .. Len(sock)
    BY DEF SocketInv, TypeOK
  <2>2. sends \in Nat /\ 1 .. sends \subseteq Nat
    BY <2>1, ConstantsAssumption
  <2>3. wire \in Seq(Nat) /\ pendingPayloads \in Seq(Nat)
    BY <2>1, <2>2, WiderSequences
  <2>4. 1 .. sends + 1 = 1 .. sends \cup {sends + 1}
    BY <2>2
  <2>5. TypeOK
    BY DEF SocketInv
  <2> QED BY <2>1, <2>2, <2>3, <2>4, <2>5
<1>a. orderly
  BY DEF Next, vars
<1>b. 1 .. sends = ToSet(wire) \cup ToSet(pendingPayloads)
  BY <1>a DEF OrderlyDropsNothing, NothingDropped
<1>1. CASE Send
  <2>1. sends' = sends + 1 /\ sends + 1 \in Nat
    BY <1>0, <1>1 DEF Send
  <2>2. \/ UNCHANGED wire /\ pendingPayloads' = pendingPayloads \o <<sends + 1>>
        \/ UNCHANGED pendingPayloads /\ wire' = wire \o <<sends + 1>>
    <3>1. /\ pendingPayloads \o <<sends + 1>> = Append(pendingPayloads, sends + 1)
          /\ wire \o <<sends + 1>> = Append(wire, sends + 1)
      BY <1>0, <2>1, ToSetOfAppend
    <3> QED BY <1>1, <2>1, <3>1 DEF Send
  <2>3. /\ ToSet(wire \o <<sends + 1>>) = ToSet(wire) \cup {sends + 1}
        /\ ToSet(pendingPayloads \o <<sends + 1>>) = ToSet(pendingPayloads) \cup {sends + 1}
    BY <1>0, <2>1, ToSetOfAppend
  <2> QED BY <1>0, <1>b, <2>1, <2>2, <2>3 DEF NothingDropped
<1>2. ASSUME NEW s \in DOMAIN sock, OnOpen(s)
      PROVE  NothingDropped'
  <2>1. CASE OnOpenKeeps
    BY <1>b, <2>1 DEF OnOpenKeeps, NothingDropped
  <2>2. ~ OnOpenDrops
    <3>1. sock[s].state = "connecting" /\ sock'[s].state = "open" /\ current' = current
      BY <1>0, <1>2, OnOpenSockets DEF OnOpen
    <3>2. s = current
      BY <1>a, <3>1 DEF SocketInv, OneAtATime, Live
    <3>3. s # 0
      BY <1>0
    <3> QED BY <3>1, <3>2, <3>3 DEF InUse, OnOpenDrops
  <2>3. CASE OnOpenFlushes
    <3>1. ToSet(pendingPayloads') = {}
      BY <2>3, ToSetOfShort DEF OnOpenFlushes
    <3>2. CASE wire' = wire \o pendingPayloads /\ UNCHANGED <<sends, early>>
      <4>1. ToSet(wire') = ToSet(wire) \cup ToSet(pendingPayloads)
        BY <1>0, <3>2, ToSetOfConcatenation
      <4> QED BY <1>b, <3>1, <3>2, <4>1 DEF NothingDropped
    <3>3. CASE /\ sends' = sends + 1
               /\ wire' = (wire \o <<sends'>>) \o pendingPayloads
      <4>1. sends + 1 \in Nat
        BY <1>0
      <4>2. /\ wire \o <<sends + 1>> \in Seq(Nat)
            /\ ToSet(wire \o <<sends + 1>>) = ToSet(wire) \cup {sends + 1}
        BY <1>0, <4>1, ToSetOfAppend
      <4>3. ToSet(wire') = ToSet(wire \o <<sends + 1>>) \cup ToSet(pendingPayloads)
        <5>1. PICK g \in Seq(Nat) : g = wire \o <<sends + 1>>
          BY <4>2
        <5>2. ToSet(g \o pendingPayloads) = ToSet(g) \cup ToSet(pendingPayloads)
          BY <1>0, ToSetOfConcatenation
        <5> QED BY <3>3, <5>1, <5>2
      <4> QED BY <1>0, <1>b, <3>1, <3>3, <4>2, <4>3 DEF NothingDropped
    <3> QED BY <2>3, <3>2, <3>3 DEF OnOpenFlushes
  <2> QED BY <1>0, <1>2, <2>1, <2>2, <2>3, OnOpenPayloads
<1>3. CASE UNCHANGED <<wire, pendingPayloads, sends>>
  BY <1>b, <1>3 DEF NothingDropped
<1>4. CASE ReconnectTimer \/ Reconnect \/ Close
  BY <1>3, <1>4 DEF ReconnectTimer, Connect, Reconnect, Close
<1>5. CASE \E s \in DOMAIN sock : OnClose(s) \/ OnBadMessage(s) \/ \E status : OnStatus(s, status)
  BY <1>3, <1>5 DEF OnClose, OnBadMessage, OnStatus
<1>6. CASE UNCHANGED vars
  BY <1>3, <1>6 DEF vars, clientVars
<1> QED BY <1>1, <1>2, <1>4, <1>5, <1>6 DEF Next

LEMMA PayloadInvInit == Init => PayloadInv
<1> SUFFICES ASSUME Init
             PROVE  PayloadInv
  OBVIOUS
<1>1. wire \o pendingPayloads = <<>> /\ ToSet(wire) = {} /\ ToSet(pendingPayloads) = {}
  BY ToSetOfShort DEF Init
<1>2. InOrderOnce
  BY <1>1 DEF InOrderOnce, Handed
<1>3. OpenIsFlushed
  BY DEF Init, OpenIsFlushed
<1>4. OrderlyDropsNothing
  BY <1>1 DEF Init, OrderlyDropsNothing, NothingDropped
<1> QED BY <1>2, <1>3, <1>4, SocketInvInit DEF PayloadInv

LEMMA PayloadInvAlways == Spec => []PayloadInv
<1>1. PayloadInv /\ [Next]_vars => PayloadInv'
  <2>1. SocketInv => TypeOK
    BY DEF SocketInv
  <2> QED BY <2>1, SocketInvStep, OpenIsFlushedStep, InOrderOnceStep, DropsNothingStep
          DEF PayloadInv
<1> QED BY <1>1, PayloadInvInit, PTL DEF Spec

(* WebsocketClient's send() and flushPendingPayloads(): whatever closes    *)
(* and reopens, and whoever reconnects, payloads leave once each and in    *)
(* the order of the calls.                                                 *)
THEOREM PayloadsKeepOrder == Spec => []InOrderOnce
<1>1. PayloadInv => InOrderOnce
  BY DEF PayloadInv
<1> QED BY <1>1, PayloadInvAlways, PTL

(* send() queues what it cannot send: an orderly owner loses no payload.   *)
THEOREM NothingIsDropped == Spec => []OrderlyDropsNothing
<1>1. PayloadInv => OrderlyDropsNothing
  BY DEF PayloadInv
<1> QED BY <1>1, PayloadInvAlways, PTL
=============================================================================
