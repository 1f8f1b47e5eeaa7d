------------------------ MODULE MCProviderMonitoring ------------------------
(* Model-checking instances of ProviderMonitoring: checks one after the    *)
(* other, with pauses of one and two ticks in place of 299, 599, 1799 and  *)
(* 3599 seconds, restarts, failures and edits; or two checks at once, with *)
(* nothing else going wrong.                                               *)
EXTENDS ProviderMonitoring

TwoPauses == <<1, 2>>

VARIABLE scope

Overlap ==
  INSTANCE ProviderMonitoring WITH
    TicksPerSecond <- 1, exponentialBackoff <- <<0>>, Checks <- {1, 2},
    MaxCrashes <- 0, MaxFailures <- 0, MaxEdits <- 0

MCInit ==
  \/ scope = "alone" /\ Init
  \/ scope = "overlap" /\ Overlap!Init

MCNext ==
  /\ UNCHANGED scope
  /\ \/ scope = "alone" /\ Next
     \/ scope = "overlap" /\ Overlap!Next

Alone(c) == scope = "alone" /\ c \in Checks
Start(c) ==
  \/ Alone(c) /\ StartCheck(c)
  \/ scope = "overlap" /\ Overlap!StartCheck(c)
Update(c) ==
  \/ Alone(c) /\ (FindPeriods(c) \/ UpsertPeriods(c))
  \/ scope = "overlap" /\ (Overlap!FindPeriods(c) \/ Overlap!UpsertPeriods(c))
Send(c) ==
  \/ Alone(c) /\ (SendNotifications(c) \/ EndMessages(c) \/ \E p \in Providers : Deliver(c, p))
  \/ /\ scope = "overlap"
     /\ Overlap!SendNotifications(c) \/ Overlap!EndMessages(c) \/ \E p \in Providers : Overlap!Deliver(c, p)
Pass ==
  \/ scope = "alone" /\ Tick
  \/ scope = "overlap" /\ Overlap!Tick

(* The fairness of FairSpec, for either instance. *)
MCSpec ==
  /\ MCInit /\ [][MCNext]_<<vars, scope>>
  /\ WF_vars(OnModuleInit) /\ WF_vars(Pass)
  /\ \A c \in {1, 2} : WF_vars(Start(c)) /\ WF_vars(Update(c)) /\ WF_vars(Send(c))

(* OneOpenPeriod, where no check outlives the interval.                    *)
(* (ProviderMonitoringService.updateProblematicPeriods)                    *)
OneOpenPeriodAlone == scope = "alone" => OneOpenPeriod

(* PeriodsFollowQuotes, where checks overlap.                              *)
(* (ProviderMonitoringService.checkProviderActivity)                       *)
PeriodsFollowQuotesOverlap ==
  \A p \in Providers :
    /\ <>[](scope = "overlap" /\ Overlap!Quiet(p)) => <>[](open[p] # {})
    /\ <>[](scope = "overlap" /\ Overlap!Quoting(p)) => <>[](open[p] = {})

(* SilenceIsTold and RecoveryIsTold, where no check outlives the interval. *)
(* (ProviderMonitoringService.sendNotifications)                           *)
SilenceIsToldAlone ==
  \A p \in Providers :
    <>[](scope = "alone" /\ Quiet(p) /\ setting /\ left.edits = MaxEdits) => <>[]warned[p]
RecoveryIsToldAlone ==
  \A p \in Providers :
    <>[](scope = "alone" /\ Quoting(p) /\ setting /\ left = Bounds) => <>[](told[p] # "silent")
=============================================================================
