-------------------------- MODULE ClusterSupervisor --------------------------
(***************************************************************************)
(* ClusterService of common-backend: the primary process forks one worker  *)
(* process per configured worker, forks it again when it exits, and starts *)
(* or stops workers on command.                                            *)
(*                                                                         *)
(* A worker process dies on its own; the primary learns of it in an `exit` *)
(* event, later.  Until that event the process is still in the map of the  *)
(* cluster, and between the event and the next fork (the restart delay,    *)
(* then two awaited calls for the settings) the worker is in no map at     *)
(* all.  One registered cluster is modelled: clusters share nothing.       *)
(***************************************************************************)
EXTENDS Integers, Sequences, FiniteSets, SequencesExt

CONSTANTS
  Workers,       \* workerIds
  RestartDelay,  \* whether clusterSettings.restartDelay is defined
  MaxCrashes,    \* bound: processes that exit by themselves
  MaxOomKills,   \* bound: processes killed with SIGKILL by something else
  MaxCommands,   \* bound: calls of setWorkerState
  MaxEdits       \* bound: changes of the configured workers

ASSUME ConstantsAssumption ==
  /\ IsFiniteSet(Workers)
  /\ RestartDelay \in BOOLEAN
  /\ {MaxCrashes, MaxOomKills, MaxCommands, MaxEdits} \subseteq Nat

VARIABLES
  configured,  \* the workers getWorkersSettings() returns
  booted,      \* runClusters has run
  proc,        \* every process ever forked; its index is Worker['id']
  delayed,     \* worker -> pending restart timers
  starting,    \* worker -> startWorker calls awaiting the settings
  left,        \* what remains of each bound
  (* History, read by no guard: *)
  stopped,     \* workers ever told to stop
  forced,      \* workers started by command while in no map
  last         \* worker -> the last command and how many forks preceded it

vars == <<configured, booted, proc, delayed, starting, left, stopped, forced, last>>
history == <<stopped, forced, last>>

Process == [worker : Workers, state : {"up", "listening", "dead", "gone"},
            kill : SUBSET {"SIGTERM", "SIGKILL"},
            signal : {"none", "SIGKILL"}]

Alive(p) == proc[p].state \in {"up", "listening"}

(* workersByClusters.get(cluster): a process leaves it in the exit handler. *)
InMap == {p \in DOMAIN proc : proc[p].state # "gone"}
Descriptors(w) == {p \in InMap : proc[p].worker = w}

Spend(bound) == left[bound] > 0 /\ left' = [left EXCEPT ![bound] = @ - 1]

-----------------------------------------------------------------------------
(* Forking *)

NewProcess(w) == [worker |-> w, state |-> "up", kill |-> {}, signal |-> "none"]

RunWorker(w) == proc' = Append(proc, NewProcess(w))

(* onApplicationBootstrap -> runClusters -> runCluster: forks every        *)
(* configured worker in one synchronous loop, whatever already runs.       *)
RunClusters ==
  /\ ~booted
  /\ booted' = TRUE
  /\ LET ws == SetToSeq(configured)
     IN proc' = proc \o [i \in DOMAIN ws |-> NewProcess(ws[i])]
  /\ UNCHANGED <<configured, delayed, starting, left, history>>

(* startWorker once the settings have arrived: no settings, no worker; the *)
(* caller only logs the error.                                             *)
StartWorker(w) ==
  /\ starting[w] > 0
  /\ starting' = [starting EXCEPT ![w] = @ - 1]
  /\ IF w \in configured THEN RunWorker(w) ELSE UNCHANGED proc
  /\ UNCHANGED <<configured, booted, delayed, left, history>>

(* The setTimeout of restartDelay milliseconds. *)
RestartTimer(w) ==
  /\ delayed[w] > 0
  /\ delayed' = [delayed EXCEPT ![w] = @ - 1]
  /\ starting' = [starting EXCEPT ![w] = @ + 1]
  /\ UNCHANGED <<configured, booted, proc, left, history>>

(* Mutant of HandleExit: the stop signal is not told apart.                *)
HandleExitAlwaysRestart(p) ==
  LET w == proc[p].worker IN
  /\ proc[p].state = "dead"
  /\ proc' = [proc EXCEPT ![p].state = "gone"]
  /\ starting' = [starting EXCEPT ![w] = @ + 1]
  /\ delayed' = [delayed EXCEPT ![w] = @ + 1]
  /\ UNCHANGED <<configured, booted, left, history>>

(* Mutant of HandleExit: the timer is armed but its restart is dropped.    *)
HandleExitForgets(p) ==
  /\ proc[p].state = "dead"
  /\ proc' = [proc EXCEPT ![p].state = "gone"]
  /\ UNCHANGED <<configured, booted, starting, delayed, left, history>>

(* workerProcess.on('exit'): SIGKILL is taken for a stop; any other end is *)
(* followed by a restart, at once or after the delay.                      *)
HandleExit(p) ==
  LET w == proc[p].worker
      restart == IF proc[p].signal = "SIGKILL" THEN 0 ELSE 1
  IN
  /\ proc[p].state = "dead"
  /\ proc' = [proc EXCEPT ![p].state = "gone"]
  /\ IF RestartDelay
     THEN delayed' = [delayed EXCEPT ![w] = @ + restart] /\ UNCHANGED starting
     ELSE starting' = [starting EXCEPT ![w] = @ + restart] /\ UNCHANGED delayed
  /\ UNCHANGED <<configured, booted, left, history>>

-----------------------------------------------------------------------------
(* Commands *)

(* worker.kill(signal): without effect on a process that is already dead. *)
Kill(p, signal) == proc' = [proc EXCEPT ![p].kill = @ \cup {signal}]

(* The first of Array.from(workers.values()) with this workerId: a Map     *)
(* iterates in insertion order, and ids only grow.                         *)
FirstDescriptor(w) ==
  CHOOSE p \in Descriptors(w) : \A q \in Descriptors(w) : p <= q

(* setWorkerState(cluster, workerId, true) *)
SwitchOn(w) ==
  /\ Spend("commands")
  /\ IF Descriptors(w) = {}
     THEN /\ starting' = [starting EXCEPT ![w] = @ + 1]
          /\ forced' = forced \cup {w}
          /\ UNCHANGED proc
     ELSE /\ Kill(FirstDescriptor(w), "SIGTERM")
          /\ UNCHANGED <<starting, forced>>
  /\ last' = [last EXCEPT ![w] = [state |-> TRUE, forks |-> Len(proc)]]
  /\ UNCHANGED <<configured, booted, delayed, stopped>>

(* setWorkerState(cluster, workerId, false) *)
SwitchOff(w) ==
  /\ Spend("commands")
  /\ IF Descriptors(w) = {}
     THEN UNCHANGED proc
     ELSE Kill(FirstDescriptor(w), "SIGKILL")
  /\ stopped' = stopped \cup {w}
  /\ last' = [last EXCEPT ![w] = [state |-> FALSE, forks |-> Len(proc)]]
  /\ UNCHANGED <<configured, booted, delayed, starting, forced>>

(* The owner of the ClusterInterface adds or removes a worker's settings.  *)
Configure(w) ==
  /\ Spend("edits")
  /\ configured' = IF w \in configured THEN configured \ {w} ELSE configured \cup {w}
  /\ UNCHANGED <<booted, proc, delayed, starting, history>>

-----------------------------------------------------------------------------
(* The worker processes and the operating system *)

Listen(p) ==
  /\ proc[p].state = "up"
  /\ proc' = [proc EXCEPT ![p].state = "listening"]
  /\ UNCHANGED <<configured, booted, delayed, starting, left, history>>

Dies(p, signal) ==
  /\ Alive(p)
  /\ proc' = [proc EXCEPT ![p].state = "dead", ![p].signal = signal]
  /\ UNCHANGED <<configured, booted, delayed, starting, history>>

(* A signal sent earlier takes effect. *)
Terminated(p) ==
  /\ \/ "SIGTERM" \in proc[p].kill /\ Dies(p, "none")
     \/ "SIGKILL" \in proc[p].kill /\ Dies(p, "SIGKILL")
  /\ UNCHANGED left

Crash(p) == Dies(p, "none") /\ Spend("crashes")

OomKill(p) == Dies(p, "SIGKILL") /\ Spend("oomKills")

-----------------------------------------------------------------------------
Init ==
  /\ configured = Workers
  /\ booted = FALSE
  /\ proc = <<>>
  /\ delayed = [w \in Workers |-> 0]
  /\ starting = [w \in Workers |-> 0]
  /\ left = [crashes |-> MaxCrashes, oomKills |-> MaxOomKills,
             commands |-> MaxCommands, edits |-> MaxEdits]
  /\ stopped = {}
  /\ forced = {}
  /\ last = [w \in Workers |-> [state |-> TRUE, forks |-> 0]]

Next ==
  \/ RunClusters
  \/ \E w \in Workers :
       StartWorker(w) \/ RestartTimer(w) \/ SwitchOn(w) \/ SwitchOff(w) \/ Configure(w)
  \/ \E p \in DOMAIN proc :
       HandleExit(p) \/ Listen(p) \/ Terminated(p) \/ Crash(p) \/ OomKill(p)

Spec == Init /\ [][Next]_vars

(* The event loop of the primary runs every callback it has queued, and a  *)
(* process that is signalled dies.                                         *)
ForkIds == 1 .. (2 * Cardinality(Workers) + MaxCrashes + MaxCommands)

Fairness ==
  /\ WF_vars(RunClusters)
  /\ \A w \in Workers : WF_vars(StartWorker(w)) /\ WF_vars(RestartTimer(w))
  /\ \A p \in ForkIds :
       /\ WF_vars(p \in DOMAIN proc /\ HandleExit(p))
       /\ WF_vars(p \in DOMAIN proc /\ Listen(p))
       /\ WF_vars(p \in DOMAIN proc /\ Terminated(p))

FairSpec == Spec /\ Fairness

-----------------------------------------------------------------------------
(* Types: what each variable may hold. *)
TypeOK ==
  /\ configured \subseteq Workers
  /\ booted \in BOOLEAN
  /\ proc \in Seq(Process)
  /\ delayed \in [Workers -> Nat]
  /\ starting \in [Workers -> Nat]
  /\ left \in [{"crashes", "oomKills", "commands", "edits"} -> Nat]
  /\ stopped \subseteq Workers
  /\ forced \subseteq Workers
  /\ last \in [Workers -> [state : BOOLEAN, forks : Nat]]

(* The supervisor never makes two of one by itself: crashes, updates and   *)
(* stops in any order leave at most one process, or one restart on its     *)
(* way, of a worker that was never switched on while it was in no map.     *)
RestartNeverDuplicates ==
  \A w \in Workers \ forced :
    Cardinality(Descriptors(w)) + delayed[w] + starting[w] <= 1

(* Somebody stopped w, killed it from outside or edited the settings. *)
Disturbed(w) ==
  \/ w \in stopped
  \/ \E p \in DOMAIN proc : proc[p].worker = w /\ proc[p].signal = "SIGKILL"
  \/ left.edits < MaxEdits

(* README.md of common-backend, "auto-restart on exit": a configured       *)
(* worker that nobody stops is always, sooner or later, listening again,   *)
(* whatever crashes and updates it goes through.                           *)
KeepsRunning ==
  \A w \in Workers :
    booted ~> (Disturbed(w) \/ \E p \in DOMAIN proc :
                                 proc[p].worker = w /\ proc[p].state = "listening")

(* README.md of common-backend, "runtime start/stop of individual          *)
(* workers": once the workers run, a worker that is told to stop is not    *)
(* forked again before it is told to start.                                *)
StopIsFinal ==
  \A w \in Workers : ~last[w].state /\ last[w].forks > 0 =>
    \A p \in DOMAIN proc : p > last[w].forks => proc[p].worker # w
=============================================================================
