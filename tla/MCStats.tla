------------------------------- MODULE MCStats -------------------------------
(***************************************************************************)
(* Stats on small instances: two genres are counted of each track and two  *)
(* are shown. The answers have a tie, a genre that only a third place      *)
(* would count, and more genres than are shown.                            *)
(***************************************************************************)
EXTENDS Stats

MCTracks ==
    { << <<"rock">>, <<"jazz", "rock", "folk">> >>,
      << <<"folk", "jazz", "rock">>, <<"jazz">>, <<"folk", "rock">> >> }
=============================================================================
