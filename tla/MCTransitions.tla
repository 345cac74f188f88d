---------------------------- MODULE MCTransitions ----------------------------
(* Small instances of Transitions: which level triggers which transition.     *)
EXTENDS Transitions

BreakevenThenTrail ==
  <<[after |-> 1, action |-> "MOVE_STOP_TO_BREAKEVEN"],
    [after |-> 2, action |-> "TRAIL_FRESH_BID"]>>

\* All stops placed, or one of them skipped or in doubt.
OneStopAstray ==
  {<<"SUBMITTED", "SUBMITTED", "SUBMITTED">>,
   <<"SUBMITTED", "SKIPPED_ZERO_ALLOCATION", "SUBMITTED">>,
   <<"SUBMITTED", "SUBMITTED", "SUBMISSION_UNKNOWN">>}
=============================================================================
