--------------------------- MODULE MCAuthSessions ---------------------------
(* Model-checking instances of AuthSessions: several users while time      *)
(* stands, or one user while it passes.                                    *)
EXTENDS AuthSessions, TLC

CONSTANTS root, OneUserMaxTime

VARIABLE scope

OneUser == INSTANCE AuthSessions WITH Users <- {root}, MaxTime <- OneUserMaxTime

MCInit ==
  \/ scope = "users" /\ Init
  \/ scope = "time" /\ OneUser!Init

MCNext ==
  /\ UNCHANGED scope
  /\ \/ scope = "users" /\ Next
     \/ scope = "time" /\ OneUser!Next

MCSpec == MCInit /\ [][MCNext]_<<vars, scope>>

Symmetry == Permutations(Requests)
=============================================================================
