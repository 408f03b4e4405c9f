--------------------------- MODULE MCMatchSession ---------------------------
(* Model values for the model checking of MatchSession.                    *)
EXTENDS MatchSession

CONSTANTS kept, fresh, slot
=============================================================================
