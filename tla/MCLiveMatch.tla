---------------------------- MODULE MCLiveMatch ----------------------------
(* Model values for the model checking of LiveMatch.                       *)
EXTENDS LiveMatch

CONSTANTS ann, bob, bot, bot2, play
=============================================================================
