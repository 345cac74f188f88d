---------------------------- MODULE MCSignalQueue ----------------------------
(* Small instances of SignalQueue: two alerts in the queue, or an alert next  *)
(* to an operator's entry and a close.                                        *)
EXTENDS SignalQueue
=============================================================================
