-------------------------- MODULE MCContextSwitch --------------------------
(* ContextSwitch with the values of context_switch.cfg: three threads.      *)
EXTENDS ContextSwitch
=============================================================================
