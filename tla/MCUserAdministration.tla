------------------------ MODULE MCUserAdministration ------------------------
(* Model-checking instance of UserAdministration. *)
EXTENDS UserAdministration
=============================================================================
