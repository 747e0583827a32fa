------------------------------ MODULE MCPoller ------------------------------
(* Small instances of Poller for TLC.                                      *)
EXTENDS Poller

=============================================================================
