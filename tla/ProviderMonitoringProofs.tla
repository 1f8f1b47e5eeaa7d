---------------------- MODULE ProviderMonitoringProofs ----------------------
(***************************************************************************)
(* Proofs about ProviderMonitoring, for any providers, threshold, pauses,  *)
(* restarts, failed writes and edits, where no check outlives the interval *)
(* it was started by: at most one check is under way.                      *)
(***************************************************************************)
EXTENDS MCProviderMonitoring, FiniteSetTheorems, TLAPS

(* No check outlives the interval.  Without it the promise is false: two   *)
(* checks that overlap both find no period open and each opens one.        *)
OneCheck == \A c, d \in Checks : c = d

LEMMA OneCheckIsFinite ==
  ASSUME OneCheck
  PROVE  IsFiniteSet(Checks) /\ Cardinality(Checks) \in Nat
<1>1. CASE Checks = {}
  BY <1>1, FS_EmptySet
<1>2. CASE Checks # {}
  <2>1. PICK c \in Checks : Checks = {c}
    BY <1>2 DEF OneCheck
  <2> QED BY <2>1, FS_Singleton
<1> QED BY <1>1, <1>2

-----------------------------------------------------------------------------
(* The pauses *)

(* Every set of numbers that is not empty has a least one. *)
LEMMA LeastNumber ==
  ASSUME NEW S \in SUBSET Nat, S # {}
  PROVE  \E p \in S : \A q \in S : p <= q
<1> DEFINE Smaller == OpToRel(<, Nat)
<1>1. IsWellFoundedOn(Smaller, Nat)
  BY NatLessThanWellFounded, Zenon
<1>2. \A p, q \in Nat : q < p => <<q, p>> \in Smaller
  BY DEF OpToRel
<1> HIDE DEF Smaller
<1>3. PICK p \in S : \A q \in S : <<q, p>> \notin Smaller
  BY <1>1, WFMin, Zenon
<1>4. ASSUME NEW q \in S
      PROVE  p <= q
  <2>1. p \in Nat /\ q \in Nat
    OBVIOUS
  <2>2. ~ (q < p)
    BY <1>2, <1>3, <2>1
  <2> QED BY <2>1, <2>2
<1> QED BY <1>4

(* The numbers of a sequence have a bound: if not, take the shortest       *)
(* beginning of it that has none.                                          *)
LEMMA SequenceIsBounded ==
  ASSUME NEW s \in Seq(Nat)
  PROVE  \E n \in Nat : \A i \in DOMAIN s : s[i] <= n
<1> DEFINE BoundedTo(k) == \E n \in Nat : \A i \in DOMAIN s : i <= k => s[i] <= n
<1>0. Len(s) \in Nat /\ DOMAIN s = 1 .. Len(s) /\ \A i \in DOMAIN s : s[i] \in Nat
  OBVIOUS
<1>1. SUFFICES BoundedTo(Len(s))
  BY <1>0
<1>2. SUFFICES ASSUME ~ BoundedTo(Len(s))
               PROVE  FALSE
  OBVIOUS
<1>3. PICK k \in {j \in Nat : ~ BoundedTo(j)} : \A j \in {j \in Nat : ~ BoundedTo(j)} : k <= j
  <2>1. {j \in Nat : ~ BoundedTo(j)} \in SUBSET Nat /\ {j \in Nat : ~ BoundedTo(j)} # {}
    BY <1>0, <1>2
  <2> HIDE DEF BoundedTo
  <2> QED BY <2>1, LeastNumber
<1>4. k # 0
  <2>1. BoundedTo(0)
    BY <1>0
  <2> QED BY <2>1, <1>3
<1>5. BoundedTo(k - 1)
  <2> HIDE DEF BoundedTo
  <2> QED BY <1>3, <1>4
<1>6. PICK n \in Nat : \A i \in DOMAIN s : i <= k - 1 => s[i] <= n
  BY <1>5
<1>7. CASE k \in DOMAIN s
  <2>1. PICK x \in Nat : x = s[k]
    BY <1>0, <1>7
  <2>2. PICK m \in Nat : n <= m /\ x <= m
    <3>1. CASE n <= x
      <4> WITNESS x \in Nat
      <4> QED BY <3>1
    <3>2. CASE x <= n
      <4> WITNESS n \in Nat
      <4> QED BY <3>2
    <3> QED BY <3>1, <3>2
  <2>3. ASSUME NEW i \in DOMAIN s, i <= k
        PROVE  s[i] <= m
    <3>1. CASE i = k
      BY <2>1, <2>2, <3>1
    <3>2. CASE i # k
      <4>1. i \in Nat /\ k \in Nat /\ s[i] \in Nat
        BY <1>0
      <4>2. s[i] <= n
        BY <1>6, <2>3, <3>2, <4>1
      <4> QED BY <2>2, <4>1, <4>2
    <3> QED BY <3>1, <3>2
  <2> QED BY <1>3, <2>3
<1>8. CASE k \notin DOMAIN s
  <2>1. \A i \in DOMAIN s : i <= k => s[i] <= n
    BY <1>0, <1>3, <1>6, <1>8
  <2> QED BY <1>3, <2>1
<1> QED BY <1>7, <1>8

LEMMA PauseCapType == PauseCap \in Nat
<1> DEFINE s == exponentialBackoff
           Bound == {n \in Nat : \A i \in DOMAIN s : s[i] <= n}
<1>0. s \in Seq(Nat) /\ s # <<>>
  BY ConstantsAssumption
<1>1. DOMAIN s = 1 .. Len(s) /\ Len(s) \in Nat /\ 1 \in DOMAIN s /\ \A i \in DOMAIN s : s[i] \in Nat
  BY <1>0
<1>2. Bound \in SUBSET Nat /\ Bound # {}
  BY <1>0, SequenceIsBounded
<1>3. PICK n \in Bound : \A m \in Bound : n <= m
  <2> HIDE DEF Bound
  <2> QED BY <1>2, LeastNumber
<1>4. \E i \in DOMAIN s : s[i] = n
  <2> SUFFICES ASSUME \A i \in DOMAIN s : s[i] # n
               PROVE  FALSE
    OBVIOUS
  <2>1. \A i \in DOMAIN s : s[i] <= n - 1
    BY <1>1
  <2>2. n - 1 \in Bound
    BY <1>1, <2>1
  <2> QED BY <1>3, <2>2
<1>5. \E m \in {s[i] : i \in DOMAIN s} : \A i \in DOMAIN s : s[i] <= m
  BY <1>4
<1>6. PauseCap \in {s[i] : i \in DOMAIN s}
  BY <1>5 DEF PauseCap
<1> QED BY <1>1, <1>6

LEMMA AgeCapType == AgeCap \in Nat
<1>1. \A a, b \in Nat : a * b \in Nat
  OBVIOUS
<1>2. Threshold + 1 \in Nat /\ TicksPerSecond \in Nat
  BY ConstantsAssumption
<1> QED BY <1>1, <1>2 DEF AgeCap

LEMMA UptoType ==
  ASSUME NEW m \in Nat, NEW n \in 0 .. m
  PROVE  Upto(n, m) \in 0 .. m
BY DEF Upto
-----------------------------------------------------------------------------
(* What a check in progress holds *)

CheckTypes ==
  /\ check \in [Checks -> CheckState]
  /\ open \in [Providers -> SUBSET Ids]

LEMMA IdleType == Idle \in CheckState
BY AgeCapType DEF Idle, CheckState

LEMMA SettledType ==
  ASSUME NEW k \in CheckState
  PROVE  Settled(k) \in CheckState
BY IdleType DEF Settled

(* A check keeps its plan when its messages have been sent, and has none   *)
(* when it is over.                                                        *)
LEMMA SettledKeepsPlan ==
  ASSUME NEW k \in CheckState
  PROVE  \/ Settled(k) = k
         \/ Settled(k) = Idle /\ k.periods = "done"
BY DEF Settled

LEMMA PlanType ==
  ASSUME NEW c \in Checks, NEW found
  PROVE  Plan(c, found) \in [Providers -> {"keep", "open", "close"}]
BY DEF Plan

LEMMA MessagesType ==
  ASSUME NEW c \in Checks
  PROVE  Messages(c) \in [Providers -> {"nothing", "silent", "active"}]
BY DEF Messages

(* A failed send, a restart or an edit takes one from what remains of its  *)
(* bound.                                                                  *)
LEMMA SpendType ==
  ASSUME left \in [{"crashes", "failures", "edits"} -> Nat],
         NEW bound \in {"crashes", "failures", "edits"}, Spend(bound)
  PROVE  left' \in [{"crashes", "failures", "edits"} -> Nat]
BY DEF Spend

(* The journal after the messages of a check: the next pause is one that   *)
(* there is.                                                               *)
LEMMA JournalAfterType ==
  ASSUME TypeOK, NEW c \in Checks
  PROVE  JournalAfter(Messages(c)) \in [Providers -> Entry \cup {None}]
<1>1. exponentialBackoff \in Seq(Nat) /\ Len(exponentialBackoff) \in Nat
  BY ConstantsAssumption
<1>2. ASSUME NEW p \in Providers, Messages(c)[p] = "silent"
      PROVE  [attempts |-> journal[p].attempts + 1, since |-> 0] \in Entry
  <2>1. Due(p)
    BY <1>2 DEF Messages
  <2>2. journal[p] \in Entry \cup {None}
    BY DEF TypeOK
  <2>3. journal[p].attempts + 1 \in 0 .. Len(exponentialBackoff)
    <3>1. CASE journal[p] = None
      BY <1>1, <3>1 DEF None
    <3>2. CASE journal[p] # None
      BY <1>1, <2>1, <2>2, <3>2 DEF Due, Entry
    <3> QED BY <3>1, <3>2
  <2> QED BY <2>3, PauseCapType DEF Entry
<1>3. \A p \in Providers : journal[p] \in Entry \cup {None}
  BY DEF TypeOK
<1> QED BY <1>2, <1>3 DEF JournalAfter

-----------------------------------------------------------------------------
(* The table of periods *)

(* What a check is about to write still fits the table it has read: it     *)
(* opens a period where none is open, and closes the one that is.          *)
PlanIsCurrent ==
  \A c \in Checks : check[c].periods = "upsert" =>
    \A p \in Providers :
      /\ check[c].plan[p] = "open" => open[p] = {} /\ check[c].found[p] = 0
      /\ check[c].plan[p] = "close" => check[c].found[p] \in open[p]

AtMostOneOpen ==
  \A p \in Providers : \A i, j \in open[p] : i = j

MonitoringInv ==
  /\ TypeOK
  /\ PlanIsCurrent
  /\ AtMostOneOpen

LEMMA MonitoringInit == Init => MonitoringInv
<1> SUFFICES ASSUME Init
             PROVE  MonitoringInv
  OBVIOUS
<1>1. check \in [Checks -> CheckState]
  BY IdleType DEF Init
<1>2. \A c \in Checks : check[c].periods = "done"
  BY DEF Init, Idle
<1>3. left \in [{"crashes", "failures", "edits"} -> Nat]
  BY ConstantsAssumption DEF Init, Bounds
<1>4. TypeOK
  <2>1. age \in [Providers -> 0 .. AgeCap]
    BY AgeCapType DEF Init
  <2>2. journal \in [Providers -> Entry \cup {None}]
    BY DEF Init
  <2>3. {setting, up, interval} \subseteq BOOLEAN /\ warned \in [Providers -> BOOLEAN]
    BY DEF Init
  <2>4. /\ watched \subseteq Providers /\ open \in [Providers -> SUBSET Ids]
        /\ told \in [Providers -> {"nothing", "silent", "active"}]
    BY DEF Init
  <2> QED BY <1>1, <1>3, <2>1, <2>2, <2>3, <2>4 DEF TypeOK
<1> QED BY <1>2, <1>4 DEF Init, MonitoringInv, PlanIsCurrent, AtMostOneOpen

(* The identifier a new period gets is one that there is: the check has    *)
(* found nothing open for the provider.                                    *)
LEMMA FreshIdType ==
  ASSUME OneCheck, MonitoringInv, NEW c \in Checks, check[c].periods = "upsert",
         NEW p \in Providers, check[c].plan[p] = "open"
  PROVE  FreshId(p) \in Ids
<1>1. 1 \in Ids
  BY OneCheckIsFinite DEF Ids
<1>2. open[p] = {} /\ \A d \in Checks : check[d].found[p] = 0
  BY DEF OneCheck, MonitoringInv, PlanIsCurrent
<1>3. \E i \in Ids : i \notin open[p] /\ \A d \in Checks : check[d].found[p] # i
  BY <1>1, <1>2
<1> QED BY <1>3 DEF FreshId

(* Deleting nothing and adding one period to none leaves at most one.      *)
LEMMA UpsertStep ==
  ASSUME OneCheck, MonitoringInv, NEW c \in Checks, UpsertPeriods(c)
  PROVE  MonitoringInv'
<1>0. check[c] \in CheckState /\ check \in [Checks -> CheckState]
  BY DEF MonitoringInv, TypeOK
<1> DEFINE written == [check[c] EXCEPT !.periods = "done", !.plan = Idle.plan, !.found = Idle.found]
<1>1. check' = [check EXCEPT ![c] = Settled(written)] /\ check[c].periods = "upsert"
  BY DEF UpsertPeriods
<1>2. written \in CheckState /\ written.periods = "done"
  BY <1>0 DEF CheckState, Idle
<1> HIDE DEF written
<1>3. Settled(written) \in CheckState /\ Settled(written).periods = "done"
  BY <1>2, SettledType, SettledKeepsPlan DEF Idle
<1>4. PlanIsCurrent'
  BY <1>0, <1>1, <1>3 DEF OneCheck, PlanIsCurrent
<1>5. open' \in [Providers -> SUBSET Ids] /\ AtMostOneOpen'
  <2>1. CASE UNCHANGED open
    BY <2>1 DEF MonitoringInv, TypeOK, AtMostOneOpen
  <2>2. CASE open' = [p \in Providers |->
               CASE check[c].plan[p] = "open" -> open[p] \cup {FreshId(p)}
                 [] check[c].plan[p] = "close" -> open[p] \ {check[c].found[p]}
                 [] OTHER -> open[p]]
    <3>1. open \in [Providers -> SUBSET Ids]
      BY DEF MonitoringInv, TypeOK
    <3>2. ASSUME NEW p \in Providers
          PROVE  open'[p] \in SUBSET Ids /\ \A i, j \in open'[p] : i = j
      <4>1. CASE check[c].plan[p] = "open"
        <5>1. open'[p] = open[p] \cup {FreshId(p)} /\ open[p] = {}
          BY <1>1, <2>2, <4>1 DEF MonitoringInv, PlanIsCurrent
        <5>2. FreshId(p) \in Ids
          BY <1>1, <4>1, FreshIdType
        <5> QED BY <5>1, <5>2
      <4>2. CASE check[c].plan[p] # "open"
        <5>1. open'[p] \subseteq open[p]
          BY <2>2, <4>2
        <5> QED BY <3>1, <5>1 DEF MonitoringInv, AtMostOneOpen
      <4> QED BY <4>1, <4>2
    <3>3. DOMAIN open' = Providers /\ open' = [p \in Providers |-> open'[p]]
      BY <2>2
    <3> QED BY <3>2, <3>3 DEF AtMostOneOpen
  <2> QED BY <2>1, <2>2 DEF UpsertPeriods
<1>6. left' \in [{"crashes", "failures", "edits"} -> Nat]
  <2>1. left \in [{"crashes", "failures", "edits"} -> Nat]
    BY DEF MonitoringInv, TypeOK
  <2>2. UNCHANGED left \/ Spend("failures")
    BY DEF UpsertPeriods
  <2> QED BY <2>1, <2>2, SpendType
<1>7. TypeOK'
  BY <1>0, <1>1, <1>3, <1>5, <1>6 DEF UpsertPeriods, MonitoringInv, TypeOK, world, process, history
<1> QED BY <1>4, <1>5, <1>7 DEF MonitoringInv

LEMMA FindStep ==
  ASSUME OneCheck, MonitoringInv, NEW c \in Checks, FindPeriods(c)
  PROVE  MonitoringInv'
<1>0. check[c] \in CheckState /\ check \in [Checks -> CheckState]
  BY DEF MonitoringInv, TypeOK
<1>1. PICK found \in [Providers -> {0} \cup Ids] :
        /\ \A p \in Providers : IF open[p] = {} THEN found[p] = 0 ELSE found[p] \in open[p]
        /\ check' = [check EXCEPT ![c] = Settled([check[c] EXCEPT
             !.periods = IF \E p \in Providers : Plan(c, found)[p] # "keep" THEN "upsert" ELSE "done",
             !.plan = Plan(c, found),
             !.found = [p \in Providers |-> IF Plan(c, found)[p] = "close" THEN found[p] ELSE 0]])]
  BY DEF FindPeriods
<1> DEFINE planned == [check[c] EXCEPT
             !.periods = IF \E p \in Providers : Plan(c, found)[p] # "keep" THEN "upsert" ELSE "done",
             !.plan = Plan(c, found),
             !.found = [p \in Providers |-> IF Plan(c, found)[p] = "close" THEN found[p] ELSE 0]]
<1>2. /\ planned \in CheckState
      /\ planned.plan = Plan(c, found)
      /\ planned.found = [p \in Providers |-> IF Plan(c, found)[p] = "close" THEN found[p] ELSE 0]
  BY <1>0, <1>1, PlanType DEF CheckState
<1>3. check' = [check EXCEPT ![c] = Settled(planned)]
  BY <1>1
<1> HIDE DEF planned
<1>4. Settled(planned) \in CheckState
  BY <1>2, SettledType
<1>5. PlanIsCurrent'
  <2> SUFFICES ASSUME NEW d \in Checks, check'[d].periods = "upsert", NEW p \in Providers
               PROVE  /\ check'[d].plan[p] = "open" => open'[p] = {} /\ check'[d].found[p] = 0
                      /\ check'[d].plan[p] = "close" => check'[d].found[p] \in open'[p]
    BY DEF PlanIsCurrent
  <2>1. check'[d] = planned
    <3>1. check'[d] = Settled(planned)
      BY <1>0, <1>3 DEF OneCheck
    <3> QED BY <1>2, <3>1, SettledKeepsPlan DEF Idle
  <2>2. open' = open
    BY DEF FindPeriods
  <2>3. /\ Plan(c, found)[p] = "open" => found[p] = 0
        /\ Plan(c, found)[p] = "close" => found[p] # 0
    BY DEF Plan
  <2>4. found[p] = 0 => open[p] = {}
    <3>1. open[p] \in SUBSET Ids /\ 0 \notin Ids
      BY OneCheckIsFinite DEF MonitoringInv, TypeOK, Ids
    <3> QED BY <1>1, <3>1
  <2> QED BY <1>1, <1>2, <2>1, <2>2, <2>3, <2>4
<1>6. TypeOK'
  BY <1>0, <1>3, <1>4 DEF FindPeriods, MonitoringInv, TypeOK, world, process, history
<1> QED BY <1>5, <1>6 DEF FindPeriods, MonitoringInv, AtMostOneOpen

(* The steps that neither read nor write the table leave the plan of a     *)
(* check as it is, or end the check.                                       *)
LEMMA PlanIsKept ==
  ASSUME MonitoringInv, UNCHANGED open,
         \A c \in Checks :
           \/ check'[c].periods # "upsert"
           \/ /\ check'[c].periods = check[c].periods
              /\ check'[c].plan = check[c].plan
              /\ check'[c].found = check[c].found
  PROVE  PlanIsCurrent' /\ AtMostOneOpen'
BY DEF MonitoringInv, PlanIsCurrent, AtMostOneOpen

LEMMA SendStep ==
  ASSUME OneCheck, MonitoringInv, NEW c \in Checks, SendNotifications(c)
  PROVE  MonitoringInv'
<1>0. check[c] \in CheckState /\ check \in [Checks -> CheckState]
  BY DEF MonitoringInv, TypeOK
<1>1. \E k \in CheckState :
        /\ check' = [check EXCEPT ![c] = k]
        /\ \/ k.periods = check[c].periods /\ k.plan = check[c].plan /\ k.found = check[c].found
           \/ k.periods # "upsert"
  <2>1. CASE setting
    <3> DEFINE k == [check[c] EXCEPT !.messages = "send", !.send = Messages(c)]
    <3>1. check' = [check EXCEPT ![c] = k]
      BY <1>0, <2>1 DEF SendNotifications
    <3>2. k \in CheckState
      BY <1>0, MessagesType DEF CheckState
    <3>3. k.periods = check[c].periods /\ k.plan = check[c].plan /\ k.found = check[c].found
      BY <1>0 DEF CheckState
    <3> HIDE DEF k
    <3> QED BY <3>1, <3>2, <3>3
  <2>2. CASE ~setting
    <3> DEFINE k == [check[c] EXCEPT !.messages = "done"]
    <3>1. check' = [check EXCEPT ![c] = Settled(k)]
      BY <2>2 DEF SendNotifications
    <3>2. k \in CheckState /\ k.periods = check[c].periods /\ k.plan = check[c].plan
             /\ k.found = check[c].found
      BY <1>0 DEF CheckState
    <3> HIDE DEF k
    <3>3. Settled(k) \in CheckState /\ (Settled(k) = k \/ Settled(k).periods # "upsert")
      BY <3>2, SettledType, SettledKeepsPlan DEF Idle
    <3> QED BY <3>1, <3>2, <3>3
  <2> QED BY <2>1, <2>2
<1>2. UNCHANGED <<world, open, process, left, told>>
  BY DEF SendNotifications
<1>3. PlanIsCurrent' /\ AtMostOneOpen'
  BY <1>0, <1>1, <1>2, PlanIsKept
<1>4. journal' \in [Providers -> Entry \cup {None}]
  <2>1. UNCHANGED journal \/ journal' = JournalAfter(Messages(c))
    BY DEF SendNotifications
  <2>2. TypeOK
    BY DEF MonitoringInv
  <2>3. CASE UNCHANGED journal
    BY <2>2, <2>3 DEF TypeOK
  <2>4. CASE journal' = JournalAfter(Messages(c))
    BY <2>2, <2>4, JournalAfterType
  <2> QED BY <2>1, <2>3, <2>4
<1>5. warned' \in [Providers -> BOOLEAN]
  BY DEF SendNotifications
<1>6. check' \in [Checks -> CheckState]
  BY <1>0, <1>1
<1>7. TypeOK'
  BY <1>2, <1>4, <1>5, <1>6 DEF MonitoringInv, TypeOK, world, process
<1> QED BY <1>3, <1>7 DEF MonitoringInv

LEMMA DeliverStep ==
  ASSUME OneCheck, MonitoringInv, NEW c \in Checks, NEW p \in Providers, Deliver(c, p)
  PROVE  MonitoringInv'
<1>0. check[c] \in CheckState /\ check \in [Checks -> CheckState]
  BY DEF MonitoringInv, TypeOK
<1> DEFINE k == [check[c] EXCEPT !.send = [@ EXCEPT ![p] = "nothing"]]
<1>1. check' = [check EXCEPT ![c] = k]
  BY <1>0 DEF Deliver, CheckState
<1>2. k \in CheckState /\ k.periods = check[c].periods /\ k.plan = check[c].plan
        /\ k.found = check[c].found
  BY <1>0 DEF CheckState
<1> HIDE DEF k
<1>3. UNCHANGED <<world, open, process, journal>>
  BY DEF Deliver
<1>4. PlanIsCurrent' /\ AtMostOneOpen'
  BY <1>0, <1>1, <1>2, <1>3, PlanIsKept
<1>5. left' \in [{"crashes", "failures", "edits"} -> Nat]
  <2>1. left \in [{"crashes", "failures", "edits"} -> Nat]
    BY DEF MonitoringInv, TypeOK
  <2>2. UNCHANGED left \/ Spend("failures")
    BY DEF Deliver
  <2> QED BY <2>1, <2>2, SpendType
<1>6. told' \in [Providers -> {"nothing", "silent", "active"}]
  <2>1. told \in [Providers -> {"nothing", "silent", "active"}]
    BY DEF MonitoringInv, TypeOK
  <2>2. check[c].send[p] \in {"nothing", "silent", "active"}
    BY <1>0 DEF CheckState
  <2>3. UNCHANGED told \/ told' = [told EXCEPT ![p] = check[c].send[p]]
    BY DEF Deliver, history
  <2> QED BY <2>1, <2>2, <2>3
<1>7. warned' \in [Providers -> BOOLEAN]
  <2>1. warned \in [Providers -> BOOLEAN]
    BY DEF MonitoringInv, TypeOK
  <2>2. \/ UNCHANGED warned
        \/ warned' = [warned EXCEPT ![p] = @ \/ check[c].send[p] = "silent"]
    BY DEF Deliver, history
  <2>3. (warned[p] \/ check[c].send[p] = "silent") \in BOOLEAN
    OBVIOUS
  <2> QED BY <2>1, <2>2, <2>3
<1>8. check' \in [Checks -> CheckState]
  BY <1>0, <1>1, <1>2
<1>9. TypeOK'
  BY <1>3, <1>5, <1>6, <1>7, <1>8 DEF MonitoringInv, TypeOK, world, process
<1> QED BY <1>4, <1>9 DEF MonitoringInv

LEMMA EndStep ==
  ASSUME OneCheck, MonitoringInv, NEW c \in Checks, EndMessages(c)
  PROVE  MonitoringInv'
<1>0. check[c] \in CheckState /\ check \in [Checks -> CheckState]
  BY DEF MonitoringInv, TypeOK
<1> DEFINE k == [check[c] EXCEPT !.messages = "done"]
<1>1. check' = [check EXCEPT ![c] = Settled(k)]
  BY DEF EndMessages
<1>2. k \in CheckState /\ k.periods = check[c].periods /\ k.plan = check[c].plan
        /\ k.found = check[c].found
  BY <1>0 DEF CheckState
<1> HIDE DEF k
<1>3. Settled(k) \in CheckState /\ (Settled(k) = k \/ Settled(k).periods # "upsert")
  BY <1>2, SettledType, SettledKeepsPlan DEF Idle
<1>4. UNCHANGED <<world, open, process, journal, left, history>>
  BY DEF EndMessages
<1>5. PlanIsCurrent' /\ AtMostOneOpen'
  BY <1>0, <1>1, <1>2, <1>3, <1>4, PlanIsKept
<1>6. check' \in [Checks -> CheckState]
  BY <1>0, <1>1, <1>3
<1>7. TypeOK'
  BY <1>4, <1>6 DEF MonitoringInv, TypeOK, world, process, history
<1> QED BY <1>5, <1>7 DEF MonitoringInv

LEMMA StartStep ==
  ASSUME OneCheck, MonitoringInv, NEW c \in Checks, StartCheck(c)
  PROVE  MonitoringInv'
<1>0. check \in [Checks -> CheckState] /\ watched \subseteq Providers /\ age \in [Providers -> 0 .. AgeCap]
  BY DEF MonitoringInv, TypeOK
<1> DEFINE k == [Idle EXCEPT !.periods = "find", !.messages = "setting",
                             !.providers = watched, !.age = age]
<1>1. check' = [check EXCEPT ![c] = k]
  BY DEF StartCheck
<1>2. k \in CheckState /\ k.periods = "find"
  BY <1>0, IdleType DEF CheckState, Idle
<1> HIDE DEF k
<1>3. UNCHANGED <<world, open, process, journal, left, history>>
  BY DEF StartCheck
<1>4. PlanIsCurrent' /\ AtMostOneOpen'
  BY <1>0, <1>1, <1>2, <1>3, PlanIsKept
<1>5. check' \in [Checks -> CheckState]
  BY <1>0, <1>1, <1>2
<1>6. TypeOK'
  BY <1>3, <1>5 DEF MonitoringInv, TypeOK, world, process, history
<1> QED BY <1>4, <1>6 DEF MonitoringInv

LEMMA TickStep ==
  ASSUME MonitoringInv, Tick
  PROVE  MonitoringInv'
<1>0. /\ check \in [Checks -> CheckState] /\ age \in [Providers -> 0 .. AgeCap]
      /\ journal \in [Providers -> Entry \cup {None}]
  BY DEF MonitoringInv, TypeOK
<1>1. age' \in [Providers -> 0 .. AgeCap]
  BY <1>0, AgeCapType, UptoType DEF Tick
<1>2. journal' \in [Providers -> Entry \cup {None}]
  <2>1. ASSUME NEW p \in Providers, journal[p] # None
        PROVE  [journal[p] EXCEPT !.since = Upto(@, PauseCap)] \in Entry
    <3>1. journal[p] \in Entry /\ journal[p].since \in 0 .. PauseCap
      BY <1>0, <2>1 DEF Entry
    <3>2. Upto(journal[p].since, PauseCap) \in 0 .. PauseCap
      BY <3>1, PauseCapType, UptoType
    <3> QED BY <3>1, <3>2 DEF Entry
  <2> QED BY <2>1 DEF Tick
<1>3. ASSUME NEW c \in Checks
      PROVE  /\ check'[c] \in CheckState
             /\ check'[c].periods = check[c].periods
             /\ check'[c].plan = check[c].plan
             /\ check'[c].found = check[c].found
  <2> DEFINE older == [p \in Providers |->
               IF p \in check[c].providers THEN Upto(check[c].age[p], AgeCap) ELSE 0]
  <2>1. older \in [Providers -> 0 .. AgeCap]
    BY <1>0, AgeCapType, UptoType DEF CheckState
  <2>2. check'[c] = [check[c] EXCEPT !.age = older]
    BY DEF Tick
  <2> HIDE DEF older
  <2>3. PICK k \in CheckState : k = check[c]
    BY <1>0
  <2>4. /\ [k EXCEPT !.age = older] \in CheckState
        /\ [k EXCEPT !.age = older].periods = k.periods
        /\ [k EXCEPT !.age = older].plan = k.plan
        /\ [k EXCEPT !.age = older].found = k.found
    BY <2>1 DEF CheckState
  <2> QED BY <2>2, <2>3, <2>4
<1>4. check' \in [Checks -> CheckState]
  <2>1. DOMAIN check' = Checks /\ check' = [c \in Checks |-> check'[c]]
    BY DEF Tick
  <2> QED BY <1>3, <2>1
<1>5. UNCHANGED <<setting, watched, open, process, left, history>>
  BY DEF Tick
<1>6. PlanIsCurrent' /\ AtMostOneOpen'
  BY <1>3, <1>5, PlanIsKept
<1>7. TypeOK'
  BY <1>1, <1>2, <1>4, <1>5 DEF MonitoringInv, TypeOK, process, history
<1> QED BY <1>6, <1>7 DEF MonitoringInv

(* A restart forgets the checks under way and what they were to write. *)
LEMMA StopStep ==
  ASSUME MonitoringInv, Stop
  PROVE  MonitoringInv'
<1>1. check' \in [Checks -> CheckState] /\ \A c \in Checks : check'[c].periods = "done"
  BY IdleType DEF Stop, Idle
<1>2. UNCHANGED <<world, open, history>> /\ up' = FALSE /\ interval' = FALSE
  BY DEF Stop
<1>3. PlanIsCurrent' /\ AtMostOneOpen'
  BY <1>1, <1>2, PlanIsKept
<1>4. left' \in [{"crashes", "failures", "edits"} -> Nat]
  BY SpendType DEF Stop, MonitoringInv, TypeOK
<1>5. journal' \in [Providers -> Entry \cup {None}]
  BY DEF Stop
<1>6. TypeOK'
  BY <1>1, <1>2, <1>4, <1>5 DEF MonitoringInv, TypeOK, world, history
<1> QED BY <1>3, <1>6 DEF MonitoringInv

(* The steps of the world around the checks. *)
LEMMA WorldStep ==
  ASSUME MonitoringInv,
         OnModuleInit \/ Toggle \/ \E p \in Providers : Quote(p) \/ EditThreshold(p)
  PROVE  MonitoringInv'
<1>0. TypeOK
  BY DEF MonitoringInv
<1>1. CASE OnModuleInit
  <2>1. TypeOK'
    BY <1>0, <1>1 DEF OnModuleInit, TypeOK, world, history
  <2>2. PlanIsCurrent' /\ AtMostOneOpen'
    BY <1>1, PlanIsKept DEF OnModuleInit
  <2> QED BY <2>1, <2>2 DEF MonitoringInv
<1>2. CASE Toggle
  <2>1. left' \in [{"crashes", "failures", "edits"} -> Nat]
    BY <1>0, <1>2, SpendType DEF Toggle, TypeOK
  <2>2. TypeOK'
    BY <1>0, <1>2, <2>1 DEF Toggle, TypeOK, process, history
  <2>3. PlanIsCurrent' /\ AtMostOneOpen'
    BY <1>2, PlanIsKept DEF Toggle
  <2> QED BY <2>2, <2>3 DEF MonitoringInv
<1>3. ASSUME NEW p \in Providers, Quote(p)
      PROVE  MonitoringInv'
  <2>1. age' \in [Providers -> 0 .. AgeCap]
    BY <1>0, <1>3, AgeCapType DEF Quote, TypeOK
  <2>2. TypeOK'
    BY <1>0, <1>3, <2>1 DEF Quote, TypeOK, process, history
  <2>3. PlanIsCurrent' /\ AtMostOneOpen'
    BY <1>3, PlanIsKept DEF Quote
  <2> QED BY <2>2, <2>3 DEF MonitoringInv
<1>4. ASSUME NEW p \in Providers, EditThreshold(p)
      PROVE  MonitoringInv'
  <2>1. left' \in [{"crashes", "failures", "edits"} -> Nat]
    BY <1>0, <1>4, SpendType DEF EditThreshold, TypeOK
  <2>2. watched' \subseteq Providers
    BY <1>0, <1>4 DEF EditThreshold, TypeOK
  <2>3. TypeOK'
    BY <1>0, <1>4, <2>1, <2>2 DEF EditThreshold, TypeOK, process, history
  <2>4. PlanIsCurrent' /\ AtMostOneOpen'
    BY <1>4, PlanIsKept DEF EditThreshold
  <2> QED BY <2>3, <2>4 DEF MonitoringInv
<1> QED BY <1>1, <1>2, <1>3, <1>4

LEMMA MonitoringStep ==
  ASSUME OneCheck
  PROVE  MonitoringInv /\ [Next]_vars => MonitoringInv'
<1> SUFFICES ASSUME MonitoringInv, [Next]_vars
             PROVE  MonitoringInv'
  OBVIOUS
<1>1. CASE UNCHANGED vars
  BY <1>1 DEF vars, MonitoringInv, TypeOK, PlanIsCurrent, AtMostOneOpen
<1>2. CASE Next
  BY <1>2, StartStep, FindStep, UpsertStep, SendStep, EndStep, DeliverStep, TickStep, StopStep,
     WorldStep DEF Next, Step
<1> QED BY <1>1, <1>2

(* The variables are well typed in every reachable state, where no check   *)
(* outlives the interval.  (ProviderMonitoringService)                     *)
THEOREM TypeCorrect ==
  ASSUME OneCheck
  PROVE  Spec => []TypeOK
<1>1. MonitoringInv => TypeOK
  BY DEF MonitoringInv
<1> QED BY <1>1, MonitoringInit, MonitoringStep, PTL DEF Spec

-----------------------------------------------------------------------------
(* The promise *)

LEMMA AtMostOneCounts ==
  ASSUME MonitoringInv
  PROVE  OneOpenPeriod
<1> SUFFICES ASSUME NEW p \in Providers
             PROVE  Cardinality(open[p]) <= 1
  BY DEF OneOpenPeriod
<1>1. CASE open[p] = {}
  BY <1>1, FS_EmptySet
<1>2. CASE open[p] # {}
  <2>1. PICK i \in open[p] : open[p] = {i}
    BY <1>2 DEF MonitoringInv, AtMostOneOpen
  <2> QED BY <2>1, FS_Singleton
<1> QED BY <1>1, <1>2

(* The instances that are checked include one where two checks overlap: it *)
(* is left alone.                                                          *)
MonitoringInvAlone == scope = "alone" => MonitoringInv

LEMMA MonitoringInvAloneInit == MCInit => MonitoringInvAlone
BY MonitoringInit DEF MCInit, MonitoringInvAlone

LEMMA MonitoringInvAloneStep ==
  ASSUME OneCheck
  PROVE  MonitoringInvAlone /\ [MCNext]_<<vars, scope>> => MonitoringInvAlone'
<1> SUFFICES ASSUME MonitoringInvAlone, [MCNext]_<<vars, scope>>, scope' = "alone"
             PROVE  MonitoringInv'
  BY DEF MonitoringInvAlone
<1>1. scope = "alone" /\ [Next]_vars
  BY DEF MCNext
<1> QED BY <1>1, MonitoringStep DEF MonitoringInvAlone

(* While no check outlives the interval, no sequence of restarts, failed   *)
(* writes, edited thresholds and quotes leaves a provider with two open    *)
(* periods: what a check decided on when it read the table still holds     *)
(* when it writes.  (ProviderMonitoringService.updateProblematicPeriods)   *)
THEOREM OnePeriodAtATime ==
  ASSUME OneCheck
  PROVE  MCSpec => []OneOpenPeriodAlone
<1>1. MonitoringInvAlone => OneOpenPeriodAlone
  BY AtMostOneCounts DEF MonitoringInvAlone, OneOpenPeriodAlone
<1> QED BY <1>1, MonitoringInvAloneInit, MonitoringInvAloneStep, PTL DEF MCSpec
=============================================================================
