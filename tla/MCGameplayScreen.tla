--------------------------- MODULE MCGameplayScreen ---------------------------
(* Values for the model checking of GameplayScreen: two people, one of whom *)
(* buys two parts from suppliers that depend on the part, and an AI role.   *)
EXTENDS GameplayScreen, TLC

MCRoleOrder == <<"procurement", "production", "sales">>
MCHumans == {"procurement", "sales"}
MCCallingRoles == {"production"}
MCPartIDs == <<"housing", "seal">>
MCSuppliersOf == ("housing" :> <<"forgeco", "valuecast">>) @@ ("seal" :> <<"sealworks">>)
MCProductIDs == <<"pump">>
MCWorkstationIDs == <<"assembly">>
MCActiveTargets == [i \in 1..5 |-> "7"]
MCTexts == {"", "x", "7"}
MCNumbers == {"7"}
MCAttempts == {1, 2}
MCStrides == {-3, -1, 1, 3}
MCLookupSizes == ("suppliers" :> 2) @@ ("routes" :> 1) @@ ("bom" :> 0) @@ ("demand" :> 2)
MCOpeningLog == <<[role |-> "production", round |-> 2, attempt |-> 1]>>

(* The lookup, the inspector, the spinner and the forms do not act on each  *)
(* other, so that each is explored while the others are as at the start; of *)
(* the forms one is filled in at a time, and is so while it is looked at.   *)
LookupTouched == lookup # [active |-> "suppliers", index |-> [v \in LookupViews |-> 0]]
Inspecting == log # OpeningLog \/ debugExpanded # << >> \/ debugSelected # << >>
Spinning == ticks.stale > 0 \/ waiting
OpenDrafts == {role \in DOMAIN drafts : drafts[role].stage # "submitted"}
Written == {role \in DOMAIN drafts : drafts[role].form.values # SeedValues(role, accepted[role])}
TwoRows == {role \in DOMAIN drafts : Len(drafts[role].form.values[1]) = 2}
(* the actions of the round before, without orders, sent once more          *)
Unchanged ==
  \A role \in DOMAIN drafts : drafts[role].form = NewForm(role, <<<< >>, "x">>)
Resent == round = 2 /\ Locked /\ Unchanged
BlankRow(row) == \A c \in DOMAIN row : row[c] = Blank
Bound ==
  /\ \A role \in TwoRows :
       /\ round = 1 /\ pane = "history" /\ DOMAIN drafts = {role}
       /\ \E i \in 1..2 : BlankRow(drafts[role].form.values[1][i])
  /\ LookupTouched => drafts = << >> /\ ~Inspecting /\ ~Spinning
  /\ Inspecting => /\ drafts = << >> \/ Resent
                   /\ round > 1 => accepted["procurement"][1] = << >>
                   /\ drafts # << >> => log = OpeningLog
                   /\ ~Spinning /\ Cardinality(DOMAIN debugExpanded) <= 2
  /\ Spinning => Written = {}
  /\ Cardinality(OpenDrafts) <= 1
  /\ round > 1 => /\ accepted["sales"] = <<<< >>, "x">> /\ accepted["procurement"][2] = "x"
                  /\ DOMAIN drafts \subseteq {"procurement"} \/ Unchanged
  /\ round > 2 => drafts = << >> /\ ~LookupTouched /\ ~Spinning
  /\ Inspecting \/ Written # {} =>
       /\ workspace \in {"action", "feed"} \cup (IF Inspecting THEN {"debug"} ELSE {})
       /\ pane \in {"departments", "history"}
=============================================================================
