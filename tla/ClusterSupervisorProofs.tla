----------------------- MODULE ClusterSupervisorProofs -----------------------
(***************************************************************************)
(* Proofs about ClusterSupervisor, for any finite set of workers and any   *)
(* number of crashes, kills, commands and edits.                           *)
(***************************************************************************)
EXTENDS ClusterSupervisor, FiniteSetTheorems, WellFoundedInduction, TLAPS

-----------------------------------------------------------------------------
(* Sets and sequences *)

(* The loop over the configured workers meets each of them once.           *)
LEMMA SetToSeqEnumerates ==
  ASSUME NEW S, IsFiniteSet(S)
  PROVE  /\ SetToSeq(S) \in Seq(S)
         /\ \A i, j \in 1 .. Len(SetToSeq(S)) : SetToSeq(S)[i] = SetToSeq(S)[j] => i = j
<1> DEFINE n == Cardinality(S)
<1>1. n \in Nat /\ ExistsBijection(1 .. n, S)
  BY FS_CardinalityType
<1>2. \E f \in [1 .. n -> S] : IsInjective(f)
  BY <1>1 DEF ExistsBijection, Bijection, Injection
<1>3. SetToSeq(S) \in [1 .. n -> S] /\ IsInjective(SetToSeq(S))
  BY <1>2 DEF SetToSeq
<1>4. SetToSeq(S) \in Seq(S) /\ Len(SetToSeq(S)) = n
  BY <1>1, <1>3
<1> QED BY <1>3, <1>4 DEF IsInjective

LEMMA Concatenation ==
  ASSUME NEW S, NEW s \in Seq(S), NEW t \in Seq(S)
  PROVE  /\ s \o t \in Seq(S)
         /\ Len(s \o t) = Len(s) + Len(t)
         /\ \A i \in 1 .. Len(s) : (s \o t)[i] = s[i]
         /\ \A i \in 1 .. Len(t) : (s \o t)[Len(s) + i] = t[i]
OBVIOUS

(* A set without two different elements has at most one.                   *)
LEMMA AtMostOne ==
  ASSUME NEW S, \A p, q \in S : p = q
  PROVE  /\ Cardinality(S) \in {0, 1}
         /\ S = {} => Cardinality(S) = 0
<1>1. CASE S = {}
  BY <1>1, FS_EmptySet
<1>2. CASE S # {}
  <2>1. PICK p : S = {p}
    BY <1>2
  <2> QED BY <1>2, <2>1, FS_Singleton
<1> QED BY <1>1, <1>2

-----------------------------------------------------------------------------
(* Types *)

LEMMA NewProcessType ==
  ASSUME NEW w \in Workers
  PROVE  NewProcess(w) \in Process
BY DEF NewProcess, Process

(* What befalls one process leaves a sequence of as many processes.        *)
LEMMA ProcessChanges ==
  ASSUME NEW ps \in Seq(Process), NEW p \in DOMAIN ps, NEW q \in Process
  PROVE  /\ [ps EXCEPT ![p] = q] \in Seq(Process)
         /\ Len([ps EXCEPT ![p] = q]) = Len(ps)
<1>1. Len(ps) \in Nat /\ DOMAIN ps = 1 .. Len(ps) /\ ps \in [1 .. Len(ps) -> Process]
  OBVIOUS
<1>2. [ps EXCEPT ![p] = q] \in [1 .. Len(ps) -> Process]
  BY <1>1
<1> QED BY <1>1, <1>2

LEMMA NewProcesses ==
  ASSUME NEW ws \in Seq(Workers)
  PROVE  LET forked == [i \in DOMAIN ws |-> NewProcess(ws[i])]
         IN  /\ forked \in Seq(Process)
             /\ Len(forked) = Len(ws)
             /\ \A i \in 1 .. Len(ws) : forked[i] = NewProcess(ws[i])
<1> DEFINE forked == [i \in DOMAIN ws |-> NewProcess(ws[i])]
<1>1. \A i \in DOMAIN ws : NewProcess(ws[i]) \in Process
  BY NewProcessType
<1>2. Len(ws) \in Nat /\ DOMAIN ws = 1 .. Len(ws)
  OBVIOUS
<1>3. forked \in [1 .. Len(ws) -> Process]
  BY <1>1, <1>2
<1>4. forked \in Seq(Process)
  BY <1>2, <1>3
<1>5. Len(forked) = Len(ws)
  BY <1>2, <1>3, <1>4
<1> QED BY <1>2, <1>4, <1>5

(* The processes the first boot forks: one of each configured worker.      *)
LEMMA BootedProcesses ==
  ASSUME TypeOK, RunClusters
  PROVE  \E ws \in Seq(Workers) :
           /\ \A i, j \in 1 .. Len(ws) : ws[i] = ws[j] => i = j
           /\ proc' \in Seq(Process)
           /\ Len(proc') = Len(proc) + Len(ws)
           /\ \A p \in 1 .. Len(proc) : proc'[p] = proc[p]
           /\ \A i \in 1 .. Len(ws) : proc'[Len(proc) + i] = NewProcess(ws[i])
<1>1. IsFiniteSet(configured)
  BY ConstantsAssumption, FS_Subset DEF TypeOK
<1>2. PICK ws \in Seq(Workers) :
        /\ \A i, j \in 1 .. Len(ws) : ws[i] = ws[j] => i = j
        /\ ws = SetToSeq(configured)
  <2>1. SetToSeq(configured) \in Seq(Workers)
    BY <1>1, SetToSeqEnumerates DEF TypeOK
  <2> QED BY <1>1, <2>1, SetToSeqEnumerates
<1>3. PICK forked \in Seq(Process) :
        /\ Len(forked) = Len(ws)
        /\ \A i \in 1 .. Len(ws) : forked[i] = NewProcess(ws[i])
        /\ forked = [i \in DOMAIN ws |-> NewProcess(ws[i])]
  BY NewProcesses
<1>4. proc' = proc \o forked
  BY <1>2, <1>3 DEF RunClusters
<1>5. proc \in Seq(Process)
  BY DEF TypeOK
<1>6. /\ proc' \in Seq(Process)
      /\ Len(proc') = Len(proc) + Len(forked)
      /\ \A p \in 1 .. Len(proc) : proc'[p] = proc[p]
      /\ \A i \in 1 .. Len(forked) : proc'[Len(proc) + i] = forked[i]
  BY <1>4, <1>5, Concatenation
<1>7. \A i \in 1 .. Len(ws) : proc'[Len(proc) + i] = NewProcess(ws[i])
  BY <1>3, <1>6
<1> WITNESS ws \in Seq(Workers)
<1> QED BY <1>2, <1>3, <1>6, <1>7

(* A worker process is killed, dies, listens or is forgotten: each changes *)
(* fields of one process.                                                  *)
LEMMA ProcessFields ==
  ASSUME proc \in Seq(Process), NEW p \in DOMAIN proc,
         NEW s \in {"up", "listening", "dead", "gone"},
         NEW k \in SUBSET {"SIGTERM", "SIGKILL"},
         NEW g \in {"none", "SIGKILL"}
  PROVE  /\ [proc EXCEPT ![p].state = s] \in Seq(Process)
         /\ [proc EXCEPT ![p].kill = k] \in Seq(Process)
         /\ [proc EXCEPT ![p].state = s, ![p].signal = g] \in Seq(Process)
<1>1. proc[p] \in Process
  OBVIOUS
<1>2. /\ [proc[p] EXCEPT !.state = s] \in Process
      /\ [proc[p] EXCEPT !.kill = k] \in Process
      /\ [proc[p] EXCEPT !.state = s, !.signal = g] \in Process
  BY <1>1 DEF Process
<1>3. [proc EXCEPT ![p].state = s, ![p].signal = g]
        = [proc EXCEPT ![p] = [proc[p] EXCEPT !.state = s, !.signal = g]]
  BY <1>1
<1> QED BY <1>2, <1>3, ProcessChanges

LEMMA SpendType ==
  ASSUME TypeOK, NEW bound \in {"crashes", "oomKills", "commands", "edits"}, Spend(bound)
  PROVE  left' \in [{"crashes", "oomKills", "commands", "edits"} -> Nat]
BY DEF Spend, TypeOK

LEMMA LeastNumber ==
  ASSUME NEW S \in SUBSET Nat, S # {}
  PROVE  \E p \in S : \A q \in S : p <= q
<1> DEFINE Smaller == OpToRel(<, Nat)
<1>1. IsWellFoundedOn(Smaller, Nat)
  BY NatLessThanWellFounded, Zenon
<1>2. \A p, q \in Nat : q < p => <<q, p>> \in Smaller
  BY DEF OpToRel
<1> HIDE DEF Smaller
<1>3. PICK p \in S : \A q \in S : <<q, p>> \notin Smaller
  BY <1>1, WFMin, Zenon
<1>4. ASSUME NEW q \in S
      PROVE  p <= q
  <2>1. p \in Nat /\ q \in Nat
    OBVIOUS
  <2>2. ~ (q < p)
    BY <1>2, <1>3, <2>1
  <2> QED BY <2>1, <2>2
<1> QED BY <1>4

LEMMA FirstDescriptorType ==
  ASSUME TypeOK, NEW w \in Workers, Descriptors(w) # {}
  PROVE  FirstDescriptor(w) \in Descriptors(w)
<1>1. Descriptors(w) \in SUBSET Nat
  BY DEF Descriptors, InMap, TypeOK
<1>2. \E p \in Descriptors(w) : \A q \in Descriptors(w) : p <= q
  BY <1>1, LeastNumber
<1> QED BY <1>2 DEF FirstDescriptor

LEMMA TypeStep == TypeOK /\ [Next]_vars => TypeOK'
<1> SUFFICES ASSUME TypeOK, [Next]_vars
             PROVE  TypeOK'
  OBVIOUS
<1>0. proc \in Seq(Process) /\ \A p \in DOMAIN proc : proc[p] \in Process
  BY DEF TypeOK
<1>1. CASE RunClusters
  <2>1. proc' \in Seq(Process)
    BY <1>1, BootedProcesses
  <2> QED BY <1>1, <2>1 DEF RunClusters, TypeOK, history
<1>2. ASSUME NEW w \in Workers, StartWorker(w)
      PROVE  TypeOK'
  <2>1. proc' \in Seq(Process)
    BY <1>0, <1>2, NewProcessType DEF StartWorker, RunWorker
  <2>2. starting' \in [Workers -> Nat]
    BY <1>2 DEF StartWorker, TypeOK
  <2> QED BY <1>2, <2>1, <2>2 DEF StartWorker, TypeOK, history
<1>3. ASSUME NEW w \in Workers, RestartTimer(w)
      PROVE  TypeOK'
  BY <1>3, SMTT(30) DEF RestartTimer, TypeOK, history
<1>4. ASSUME NEW w \in Workers, SwitchOn(w) \/ SwitchOff(w)
      PROVE  TypeOK'
  <2>1. ASSUME NEW signal \in {"SIGTERM", "SIGKILL"}, Descriptors(w) # {},
               Kill(FirstDescriptor(w), signal)
        PROVE  proc' \in Seq(Process)
    <3> DEFINE p == FirstDescriptor(w)
    <3>1. p \in DOMAIN proc
      BY <2>1, FirstDescriptorType DEF Descriptors, InMap
    <3>2. proc[p].kill \cup {signal} \in SUBSET {"SIGTERM", "SIGKILL"}
      BY <1>0, <3>1 DEF Process
    <3>3. proc' = [proc EXCEPT ![p].kill = proc[p].kill \cup {signal}]
      BY <2>1 DEF Kill
    <3> QED BY <1>0, <3>1, <3>2, <3>3, ProcessFields
  <2>2. proc' \in Seq(Process)
    BY <1>0, <1>4, <2>1 DEF SwitchOn, SwitchOff
  <2>3. left' \in [{"crashes", "oomKills", "commands", "edits"} -> Nat]
    BY <1>4, SpendType DEF SwitchOn, SwitchOff
  <2>4. last' \in [Workers -> [state : BOOLEAN, forks : Nat]]
    <3>1. /\ [state |-> TRUE, forks |-> Len(proc)] \in [state : BOOLEAN, forks : Nat]
          /\ [state |-> FALSE, forks |-> Len(proc)] \in [state : BOOLEAN, forks : Nat]
      BY <1>0
    <3> QED BY <1>4, <3>1 DEF SwitchOn, SwitchOff, TypeOK
  <2>5. starting' \in [Workers -> Nat] /\ forced' \subseteq Workers /\ stopped' \subseteq Workers
    BY <1>4 DEF SwitchOn, SwitchOff, TypeOK
  <2> QED BY <1>4, <2>2, <2>3, <2>4, <2>5 DEF SwitchOn, SwitchOff, TypeOK
<1>5. ASSUME NEW w \in Workers, Configure(w)
      PROVE  TypeOK'
  <2>1. left' \in [{"crashes", "oomKills", "commands", "edits"} -> Nat]
    BY <1>5, SpendType DEF Configure
  <2> QED BY <1>5, <2>1 DEF Configure, TypeOK, history
<1>6. ASSUME NEW p \in DOMAIN proc, HandleExit(p)
      PROVE  TypeOK'
  <2>1. proc' \in Seq(Process)
    BY <1>0, <1>6, ProcessFields DEF HandleExit
  <2>2. proc[p].worker \in Workers
    BY <1>0 DEF Process
  <2>3. delayed' \in [Workers -> Nat] /\ starting' \in [Workers -> Nat]
    <3> DEFINE restart == IF proc[p].signal = "SIGKILL" THEN 0 ELSE 1
    <3>1. restart \in Nat
      OBVIOUS
    <3>2. \/ delayed' = [delayed EXCEPT ![proc[p].worker] = @ + restart] /\ starting' = starting
          \/ starting' = [starting EXCEPT ![proc[p].worker] = @ + restart] /\ delayed' = delayed
      BY <1>6 DEF HandleExit
    <3> HIDE DEF restart
    <3>3. delayed \in [Workers -> Nat] /\ starting \in [Workers -> Nat]
      BY DEF TypeOK
    <3>4. CASE delayed' = [delayed EXCEPT ![proc[p].worker] = @ + restart] /\ starting' = starting
      BY <2>2, <3>1, <3>3, <3>4
    <3>5. CASE starting' = [starting EXCEPT ![proc[p].worker] = @ + restart] /\ delayed' = delayed
      BY <2>2, <3>1, <3>3, <3>5
    <3> QED BY <3>2, <3>4, <3>5
  <2> QED BY <1>6, <2>1, <2>3 DEF HandleExit, TypeOK, history
<1>7. ASSUME NEW p \in DOMAIN proc, Listen(p)
      PROVE  TypeOK'
  <2>1. proc' \in Seq(Process)
    BY <1>0, <1>7, ProcessFields DEF Listen
  <2> QED BY <1>7, <2>1 DEF Listen, TypeOK, history
<1>8. ASSUME NEW p \in DOMAIN proc, Terminated(p) \/ Crash(p) \/ OomKill(p)
      PROVE  TypeOK'
  <2>1. proc' \in Seq(Process)
    BY <1>0, <1>8, ProcessFields DEF Terminated, Crash, OomKill, Dies
  <2>2. left' \in [{"crashes", "oomKills", "commands", "edits"} -> Nat]
    BY <1>8, SpendType DEF Terminated, Crash, OomKill, TypeOK
  <2> QED BY <1>8, <2>1, <2>2 DEF Terminated, Crash, OomKill, Dies, TypeOK, history
<1>9. CASE UNCHANGED vars
  BY <1>9 DEF vars, history, TypeOK
<1> QED BY <1>1, <1>2, <1>3, <1>4, <1>5, <1>6, <1>7, <1>8, <1>9 DEF Next

LEMMA TypeInit == Init => TypeOK
<1> SUFFICES ASSUME Init
             PROVE  TypeOK
  OBVIOUS
<1>1. left \in [{"crashes", "oomKills", "commands", "edits"} -> Nat]
  BY ConstantsAssumption DEF Init
<1>2. last \in [Workers -> [state : BOOLEAN, forks : Nat]]
  BY DEF Init
<1>3. proc \in Seq(Process)
  BY DEF Init
<1> QED BY <1>1, <1>2, <1>3 DEF Init, TypeOK

(* Every variable keeps its type: a restart is never taken back twice, and *)
(* every process belongs to a worker that once was configured.             *)
THEOREM TypeCorrect == Spec => []TypeOK
BY TypeInit, TypeStep, PTL DEF Spec

-----------------------------------------------------------------------------
(* No duplicates: the inductive invariant                                  *)
(*                                                                         *)
(* RestartNeverDuplicates is not inductive: the first boot forks every     *)
(* configured worker whatever already runs, so the invariant also says     *)
(* that before it nothing runs which no command started.  The sum of the   *)
(* cardinality is taken apart into the places a worker can be in: in the   *)
(* map, behind the delay, or waiting for its settings.                     *)

Pending(w) == delayed[w] + starting[w]

(* Of a worker that no command started there is at most one.               *)
OneOfEach ==
  \A w \in Workers \ forced :
    /\ \A p, q \in Descriptors(w) : p = q
    /\ Pending(w) <= 1
    /\ Descriptors(w) # {} => Pending(w) = 0
    /\ ~booted => Descriptors(w) = {} /\ Pending(w) = 0

SupervisorInv == TypeOK /\ OneOfEach

(* What happens to a process before its exit is handled leaves it in the   *)
(* map.                                                                    *)
LEMMA MapIsKept ==
  ASSUME DOMAIN proc' = DOMAIN proc,
         \A p \in DOMAIN proc :
           /\ proc'[p].worker = proc[p].worker
           /\ proc'[p].state = "gone" <=> proc[p].state = "gone"
  PROVE  \A w \in Workers : Descriptors(w)' = Descriptors(w)
BY DEF Descriptors, InMap

LEMMA KeptMapKeepsOne ==
  ASSUME OneOfEach, \A w \in Workers : Descriptors(w)' = Descriptors(w),
         UNCHANGED <<booted, delayed, starting>>, forced \subseteq forced'
  PROVE  OneOfEach'
BY DEF OneOfEach, Pending

LEMMA OneOfEachStep == SupervisorInv /\ [Next]_vars => OneOfEach'
<1> SUFFICES ASSUME SupervisorInv, [Next]_vars
             PROVE  OneOfEach'
  OBVIOUS
<1>0. /\ proc \in Seq(Process)
      /\ \A p \in DOMAIN proc : proc[p] \in Process
      /\ Len(proc) \in Nat /\ DOMAIN proc = 1 .. Len(proc)
      /\ delayed \in [Workers -> Nat] /\ starting \in [Workers -> Nat]
      /\ TypeOK /\ OneOfEach
  BY DEF SupervisorInv, TypeOK
<1>1. CASE RunClusters
  <2>1. PICK ws \in Seq(Workers) :
          /\ \A i, j \in 1 .. Len(ws) : ws[i] = ws[j] => i = j
          /\ proc' \in Seq(Process)
          /\ Len(proc') = Len(proc) + Len(ws)
          /\ \A p \in 1 .. Len(proc) : proc'[p] = proc[p]
          /\ \A i \in 1 .. Len(ws) : proc'[Len(proc) + i] = NewProcess(ws[i])
    BY <1>0, <1>1, BootedProcesses
  <2>2. /\ Len(ws) \in Nat
        /\ DOMAIN proc' = 1 .. Len(proc) + Len(ws)
    BY <1>0, <2>1
  <2> SUFFICES ASSUME NEW w \in Workers \ forced
               PROVE  /\ \A p, q \in Descriptors(w)' : p = q
                      /\ Pending(w)' = 0
                      /\ booted'
    BY <1>1 DEF RunClusters, history, OneOfEach, Pending
  <2>3. Descriptors(w) = {} /\ Pending(w) = 0
    BY <1>0, <1>1 DEF RunClusters, OneOfEach
  <2>4. ASSUME NEW p \in Descriptors(w)'
        PROVE  p - Len(proc) \in 1 .. Len(ws) /\ ws[p - Len(proc)] = w /\ p \in Nat
    <3>1. p \in 1 .. Len(proc) + Len(ws) /\ proc'[p].worker = w /\ proc'[p].state # "gone"
      BY <2>2 DEF Descriptors, InMap
    <3>2. p \notin 1 .. Len(proc)
      <4>1. SUFFICES ASSUME p \in 1 .. Len(proc)
                     PROVE  FALSE
        OBVIOUS
      <4>2. p \in Descriptors(w)
        BY <1>0, <2>1, <3>1, <4>1 DEF Descriptors, InMap
      <4> QED BY <2>3, <4>2
    <3>3. p - Len(proc) \in 1 .. Len(ws) /\ p = Len(proc) + (p - Len(proc))
      BY <1>0, <2>2, <3>1, <3>2
    <3>4. proc'[p] = NewProcess(ws[p - Len(proc)])
      BY <2>1, <3>3
    <3> QED BY <3>1, <3>3, <3>4 DEF NewProcess
  <2>5. \A p, q \in Descriptors(w)' : p = q
    <3> SUFFICES ASSUME NEW p \in Descriptors(w)', NEW q \in Descriptors(w)'
                 PROVE  p = q
      OBVIOUS
    <3>1. p - Len(proc) = q - Len(proc) /\ p \in Nat /\ q \in Nat
      BY <2>1, <2>4
    <3> QED BY <1>0, <3>1
  <2> QED BY <1>1, <2>3, <2>5 DEF RunClusters, Pending
<1>2. ASSUME NEW w \in Workers, StartWorker(w)
      PROVE  OneOfEach'
  <2>1. CASE w \in configured
    <3>1. proc' = Append(proc, NewProcess(w)) /\ DOMAIN proc' = 1 .. Len(proc) + 1
      BY <1>0, <1>2, <2>1 DEF StartWorker, RunWorker
    <3>2. \A v \in Workers \ {w} : Descriptors(v)' = Descriptors(v)
      BY <1>0, <3>1 DEF Descriptors, InMap, NewProcess
    <3>3. Descriptors(w)' \subseteq Descriptors(w) \cup {Len(proc) + 1}
      BY <1>0, <3>1 DEF Descriptors, InMap
    <3>4. starting' = [starting EXCEPT ![w] = @ - 1] /\ starting[w] > 0
      BY <1>2 DEF StartWorker
    <3>5. UNCHANGED <<delayed, booted, forced>>
      BY <1>2 DEF StartWorker, history
    <3>6. ASSUME w \notin forced
          PROVE  Descriptors(w) = {} /\ Pending(w)' = 0 /\ booted
      BY <1>0, <3>4, <3>5, <3>6 DEF OneOfEach, Pending
    <3>7. \A v \in Workers \ {w} : Pending(v)' = Pending(v)
      BY <1>0, <3>4, <3>5 DEF Pending
    <3> QED BY <1>0, <3>2, <3>3, <3>5, <3>6, <3>7 DEF OneOfEach
  <2>2. CASE w \notin configured
    <3>1. UNCHANGED proc
      BY <1>2, <2>2 DEF StartWorker
    <3>2. \A v \in Workers : Descriptors(v)' = Descriptors(v)
      BY <3>1, MapIsKept
    <3>3. \A v \in Workers : Pending(v)' \in Nat /\ Pending(v) \in Nat /\ Pending(v)' <= Pending(v)
      BY <1>0, <1>2 DEF StartWorker, Pending
    <3>4. UNCHANGED <<booted, forced>>
      BY <1>2 DEF StartWorker, history
    <3> QED BY <1>0, <3>2, <3>3, <3>4 DEF OneOfEach
  <2> QED BY <2>1, <2>2
<1>3. ASSUME NEW w \in Workers, RestartTimer(w)
      PROVE  OneOfEach'
  <2>1. \A v \in Workers : Descriptors(v)' = Descriptors(v)
    BY <1>3, MapIsKept DEF RestartTimer
  <2>2. \A v \in Workers : Pending(v)' = Pending(v)
    BY <1>0, <1>3 DEF RestartTimer, Pending
  <2> QED BY <1>0, <1>3, <2>1, <2>2 DEF RestartTimer, history, OneOfEach
<1>4. ASSUME NEW w \in Workers, SwitchOn(w) \/ SwitchOff(w)
      PROVE  OneOfEach'
  <2>1. ASSUME NEW signal, Descriptors(w) # {}, Kill(FirstDescriptor(w), signal)
        PROVE  \A v \in Workers : Descriptors(v)' = Descriptors(v)
    <3>1. FirstDescriptor(w) \in DOMAIN proc
      BY <1>0, <2>1, FirstDescriptorType DEF Descriptors, InMap
    <3> QED BY <1>0, <2>1, <3>1, MapIsKept DEF Kill, Process
  <2>2. \A v \in Workers : Descriptors(v)' = Descriptors(v)
    BY <1>4, <2>1, MapIsKept DEF SwitchOn, SwitchOff
  <2>3. \A v \in Workers \ forced' : delayed'[v] = delayed[v] /\ starting'[v] = starting[v]
    BY <1>0, <1>4 DEF SwitchOn, SwitchOff
  <2>4. booted' = booted /\ forced \subseteq forced'
    BY <1>4 DEF SwitchOn, SwitchOff
  <2> QED BY <1>0, <2>2, <2>3, <2>4 DEF OneOfEach, Pending
<1>5. ASSUME NEW w \in Workers, Configure(w)
      PROVE  OneOfEach'
  BY <1>0, <1>5, MapIsKept, KeptMapKeepsOne DEF Configure, history
<1>6. ASSUME NEW p \in DOMAIN proc, HandleExit(p)
      PROVE  OneOfEach'
  <2>1. PICK w \in Workers : w = proc[p].worker
    BY <1>0, <1>6 DEF Process
  <2>2. p \in Descriptors(w)
    BY <1>0, <1>6, <2>1 DEF HandleExit, Descriptors, InMap
  <2>3. \A v \in Workers : Descriptors(v)' = Descriptors(v) \ {p}
    BY <1>0, <1>6 DEF HandleExit, Process, Descriptors, InMap
  <2>4. UNCHANGED <<booted, forced>>
    BY <1>6 DEF HandleExit, history
  <2>5. PICK restart \in 0 .. 1 :
          \/ delayed' = [delayed EXCEPT ![w] = @ + restart] /\ starting' = starting
          \/ starting' = [starting EXCEPT ![w] = @ + restart] /\ delayed' = delayed
    BY <1>6, <2>1 DEF HandleExit
  <2>6. delayed[w] \in Nat /\ starting[w] \in Nat
    BY <1>0, <2>1
  <2>7. Pending(w)' = Pending(w) + restart
    <3>1. CASE delayed' = [delayed EXCEPT ![w] = @ + restart] /\ starting' = starting
      BY <1>0, <2>6, <3>1 DEF Pending
    <3>2. CASE starting' = [starting EXCEPT ![w] = @ + restart] /\ delayed' = delayed
      BY <1>0, <2>6, <3>2 DEF Pending
    <3> QED BY <2>5, <3>1, <3>2
  <2>8. \A v \in Workers \ {w} : Pending(v)' = Pending(v)
    BY <1>0, <2>5 DEF Pending
  <2>9. ASSUME w \notin forced
        PROVE  Pending(w)' <= 1 /\ Descriptors(w)' = {} /\ booted
    <3>1. /\ \A q \in Descriptors(w) : q = p
          /\ Pending(w) = 0
          /\ booted
      BY <1>0, <2>1, <2>2, <2>9 DEF OneOfEach
    <3> QED BY <2>1, <2>3, <2>7, <3>1
  <2> QED BY <1>0, <2>3, <2>4, <2>8, <2>9 DEF OneOfEach
<1>7. ASSUME NEW p \in DOMAIN proc, Listen(p)
      PROVE  OneOfEach'
  <2>1. \A w \in Workers : Descriptors(w)' = Descriptors(w)
    BY <1>0, <1>7, MapIsKept DEF Listen, Process
  <2> QED BY <1>0, <1>7, <2>1, KeptMapKeepsOne DEF Listen, history
<1>8. ASSUME NEW p \in DOMAIN proc, Terminated(p) \/ Crash(p) \/ OomKill(p)
      PROVE  OneOfEach'
  <2>1. ASSUME NEW signal, Dies(p, signal)
        PROVE  \A w \in Workers : Descriptors(w)' = Descriptors(w)
    <3>1. proc' = [proc EXCEPT ![p] = [proc[p] EXCEPT !.state = "dead", !.signal = signal]]
      BY <1>0, <2>1 DEF Dies
    <3>2. proc[p].state # "gone" /\ proc[p] \in Process
      BY <1>0, <2>1 DEF Dies, Alive
    <3> QED BY <1>0, <3>1, <3>2, MapIsKept DEF Process
  <2>2. \A w \in Workers : Descriptors(w)' = Descriptors(w)
    BY <1>8, <2>1 DEF Terminated, Crash, OomKill
  <2>3. UNCHANGED <<booted, delayed, starting, forced>>
    BY <1>8 DEF Terminated, Crash, OomKill, Dies, history
  <2> QED BY <1>0, <2>2, <2>3, KeptMapKeepsOne
<1>9. CASE UNCHANGED vars
  BY <1>0, <1>9, MapIsKept, KeptMapKeepsOne DEF vars, history
<1> QED BY <1>1, <1>2, <1>3, <1>4, <1>5, <1>6, <1>7, <1>8, <1>9 DEF Next

LEMMA SupervisorInvInit == Init => SupervisorInv
<1>1. Init => OneOfEach
  BY DEF Init, OneOfEach, Pending, Descriptors, InMap
<1> QED BY <1>1, TypeInit DEF SupervisorInv

LEMMA SupervisorInvStep == SupervisorInv /\ [Next]_vars => SupervisorInv'
BY TypeStep, OneOfEachStep DEF SupervisorInv

LEMMA OneOfEachSuffices == SupervisorInv => RestartNeverDuplicates
<1> SUFFICES ASSUME SupervisorInv, NEW w \in Workers \ forced
             PROVE  Cardinality(Descriptors(w)) + delayed[w] + starting[w] <= 1
  BY DEF RestartNeverDuplicates
<1>1. delayed[w] \in Nat /\ starting[w] \in Nat
  BY DEF SupervisorInv, TypeOK
<1>2. /\ Cardinality(Descriptors(w)) \in {0, 1}
      /\ Descriptors(w) = {} => Cardinality(Descriptors(w)) = 0
  BY AtMostOne DEF SupervisorInv, OneOfEach
<1>3. /\ delayed[w] + starting[w] <= 1
      /\ Descriptors(w) # {} => delayed[w] + starting[w] = 0
  BY DEF SupervisorInv, OneOfEach, Pending
<1> QED BY <1>1, <1>2, <1>3

(* ClusterService's exit handler, its timers and startWorker: whatever     *)
(* crashes, kills, commands and changes of the settings come, of a worker  *)
(* never switched on while it was in no map there is at most one process,  *)
(* or one restart on its way.                                              *)
THEOREM SupervisorNeverDuplicates == Spec => []RestartNeverDuplicates
BY SupervisorInvInit, SupervisorInvStep, OneOfEachSuffices, PTL DEF Spec
=============================================================================
