---------------------------- MODULE LossyCounters ----------------------------
(***************************************************************************)
(* What the statistics modules of liquidity-monitor-backend promise of     *)
(* their counters: what is counted in memory is stored once, is lost only  *)
(* to a fault, and leaves the store only as time passes.                   *)
(***************************************************************************)
EXTENDS Integers

CONSTANT Keys

VARIABLES
  counted,  \* how much was ever counted, over all keys
  pending,  \* key -> counted and not stored
  stored,   \* key -> stored and recent enough to be kept
  faults,   \* changes with every failed save and every end of the process
  now

vars == <<counted, pending, stored, faults, now>>

Idle(k) == pending'[k] = pending[k] /\ stored'[k] = stored[k]

Count(k) ==
  /\ counted' = counted + 1
  /\ pending'[k] = pending[k] + 1 /\ stored'[k] = stored[k]

Store(k) == stored'[k] > stored[k] /\ stored'[k] + pending'[k] = stored[k] + pending[k]

Lose(k) == pending'[k] < pending[k] /\ stored'[k] = stored[k] /\ faults' # faults

Expire(k) == stored'[k] < stored[k] /\ pending'[k] = pending[k] /\ now' > now

Init ==
  /\ counted = 0
  /\ pending = [k \in Keys |-> 0]
  /\ stored = [k \in Keys |-> 0]

Next == \A k \in Keys : Idle(k) \/ Count(k) \/ Store(k) \/ Lose(k) \/ Expire(k)

Spec == Init /\ [][Next]_vars
=============================================================================
