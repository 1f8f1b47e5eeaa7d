---------------------------- MODULE ConnectionCheck ----------------------------
(***************************************************************************)
(* The test button of common-frontend (useCheckConnection): it asks for a  *)
(* verdict, shows it, and takes it down three seconds later.               *)
(***************************************************************************)
EXTENDS Integers

CONSTANTS
  Shown,        \* how long a verdict stays: 3000 ms
  MaxChecks,    \* bound: clicks
  None

VARIABLES
  loading,
  error,        \* the icon: "none", "check" or "warning"
  timers,       \* timeouts set, and how long they have yet
  timer,        \* the timeout that the next click clears, or None
  verdict,      \* history: the answer of the last request, or None
  age,          \* history: how long it has been there
  checks

vars == <<loading, error, timers, timer, verdict, age, checks>>

(* Mutant of CheckConnection: the timeout is left running. *)
CheckConnectionTimed ==
  /\ ~loading /\ checks < MaxChecks /\ checks' = checks + 1
  /\ timer' = None
  /\ loading' = TRUE
  /\ error' = "check"
  /\ verdict' = None /\ age' = 0
  /\ UNCHANGED timers

(* checkConnection; a button that is loading takes no click.  The icon of  *)
(* success is there behind the spinner.                                    *)
CheckConnection ==
  /\ ~loading /\ checks < MaxChecks /\ checks' = checks + 1
  /\ timers' = [n \in DOMAIN timers \ {timer} |-> timers[n]]
  /\ timer' = None
  /\ loading' = TRUE
  /\ error' = "check"
  /\ verdict' = None /\ age' = 0

(* finally: the n-th check sets the n-th timeout. *)
Finally ==
  /\ loading' = FALSE
  /\ timers' = [n \in DOMAIN timers \cup {checks} |-> IF n = checks THEN Shown ELSE timers[n]]
  /\ timer' = checks
  /\ age' = 0
  /\ UNCHANGED checks

Answered ==
  /\ loading
  /\ verdict' \in {"check", "warning"}
  /\ error' = verdict'
  /\ Finally

(* catch: the request has thrown, and the icon stays. *)
Thrown ==
  /\ loading
  /\ verdict' = "thrown"
  /\ UNCHANGED error
  /\ Finally

Fires(n) ==
  /\ timers[n] = 0
  /\ error' = "none"
  /\ timers' = [m \in DOMAIN timers \ {n} |-> timers[m]]
  /\ UNCHANGED <<loading, timer, verdict, age, checks>>

Tick ==
  /\ timers # <<>> /\ \A n \in DOMAIN timers : timers[n] > 0
  /\ timers' = [n \in DOMAIN timers |-> timers[n] - 1]
  /\ age' = age + 1
  /\ UNCHANGED <<loading, error, timer, verdict, checks>>

Init ==
  /\ loading = FALSE /\ error = "none"
  /\ timers = <<>> /\ timer = None
  /\ verdict = None /\ age = 0 /\ checks = 0

Next ==
  \/ CheckConnection \/ Answered \/ Thrown \/ Tick
  \/ \E n \in DOMAIN timers : Fires(n)

Spec == Init /\ [][Next]_vars

(* A verdict is shown for three seconds from when it came, whatever checks *)
(* came before it; unless its request has thrown.                          *)
(* (the timer of useCheckConnection)                                       *)
VerdictStays == ~loading /\ age < Shown /\ verdict \in {"check", "warning"} => error = verdict

(* One timeout at most is set, that of the verdict in sight: what it has   *)
(* left and the age of the verdict make the time it is to be shown.        *)
TimerOfItsVerdict ==
  /\ DOMAIN timers \subseteq {timer}
  /\ loading => DOMAIN timers = {}
  /\ age \in Nat /\ \A n \in DOMAIN timers : timers[n] \in Nat
  /\ ~loading /\ verdict \in {"check", "warning"} =>
       IF DOMAIN timers = {} THEN age >= Shown
       ELSE error = verdict /\ \A n \in DOMAIN timers : timers[n] + age = Shown
=============================================================================
