----------------------------- MODULE MCNotifyBus -----------------------------
(* NotifyBus for TLC: see the notify_*.cfg files for the bounds.           *)
EXTENDS NotifyBus
=============================================================================
