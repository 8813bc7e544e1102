------------------------- MODULE MCBootstrapRecovery -------------------------
(* Small instances of BootstrapRecovery. *)
EXTENDS BootstrapRecovery
==============================================================================
