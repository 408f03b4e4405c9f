--------------------------- MODULE GameplayScreen ---------------------------
(***************************************************************************)
(* The gameplay screen (internal/adapters/tui): one message loop that is   *)
(* fed with key strokes, with the states of the match and with the ticks   *)
(* of a spinner, and that routes every key, by what is on the screen, to   *)
(* the scenario lookup, the action form, the inspector or the screen.      *)
(*                                                                         *)
(* The states of the match arrive in order here; what happens when they do *)
(* not is LiveMatch's matter.  Layout and scrolling are left out.          *)
(* Definitions marked "Mutant" are as in CashLedger.                       *)
(***************************************************************************)
EXTENDS ActionForm, Inspector, Subsequences, FiniteSets

CONSTANTS
  RoleOrder,    \* the role assignments of the match, in their order
  Humans,       \* the roles played on this screen
  LookupSizes,  \* entries of each view of the scenario lookup
  OpeningLog,   \* calls of matches played before in this session
  HistoryLimit, \* rounds the history of a state retains (10 in the code)
  MaxRound,     \* bound: rounds shown
  MaxRows,      \* bound: rows of a table
  MaxStale      \* bound: ticks of stopped spinners still to come

ASSUME ScreenAssumption ==
  /\ RoleOrder \in Seq(RoleIDs) \ {<< >>} /\ Humans \subseteq ToSet(RoleOrder)
  /\ CallingRoles = ToSet(RoleOrder) \ Humans
  /\ "suppliers" \in DOMAIN LookupSizes /\ LookupSizes \in [DOMAIN LookupSizes -> Nat]
  /\ OpeningLog \in Seq(CallRecords) /\ Len(OpeningLog) <= LogSize
  /\ HistoryLimit \in Nat \ {0} /\ MaxRound \in Nat

Workspaces == <<"action", "lookup", "report", "feed", "archive", "debug">>
Panes == <<"departments", "history", "status", "commands">>
LookupViews == DOMAIN LookupSizes

VARIABLES
  round,        \* CurrentRound of the state shown, 0 until one is loaded
  accepted,     \* the values of each human role's last accepted action
  waiting,      \* the state says that an AI role waits for its provider
  workspace, pane, lookup,
  selectedRole, \* index into RoleOrder
  drafts,       \* the drafts that have been touched: [stage, form]
  sent,         \* what the submit hook has taken since the round was loaded
  ticks,        \* spinner ticks to come: of this generation, of earlier ones
  spinnerActive,
  exit          \* why the program left the screen, "none" while it is shown

matchVars == <<round, accepted, waiting>>
viewVars == <<workspace, pane, selectedRole>>
formVars == <<drafts, sent>>
spinnerVars == <<ticks, spinnerActive>>
vars == <<matchVars, viewVars, lookup, formVars, spinnerVars, debugVars, exit>>

Running == exit = "none"
SelectedRole == RoleOrder[selectedRole]

(* History.RecentRounds of the state of round r: the last rounds resolved, *)
(* as many as appendRecentRound leaves                                     *)
RecentRounds(r) ==
  LET kept == Min({HistoryLimit, r - 1})
  IN  [i \in 1 .. kept |-> r - 1 - kept + i]

(* what the inspector shows: the rounds of the history, and the calls of   *)
(* the selected role, whichever match they were made for                   *)
ShownTo(role, r) ==
  IF r = 0 THEN [rounds |-> << >>, calls |-> << >>]
  ELSE [rounds |-> RecentRounds(r),
        calls |-> Subsequence(log, {i \in DOMAIN log : log[i].role = role})]
Shown == ShownTo(SelectedRole, round)

Init ==
  /\ round = 0 /\ accepted = [role \in Humans |-> << >>] /\ waiting = FALSE
  /\ workspace = "action" /\ pane = "departments" /\ selectedRole = 1
  /\ lookup = [active |-> "suppliers", index |-> [v \in LookupViews |-> 0]]
  /\ drafts = << >> /\ sent = << >>
  /\ ticks = [live |-> 0, stale |-> 0] /\ spinnerActive = FALSE
  /\ log = OpeningLog /\ debugSelected = << >> /\ debugExpanded = << >>
  /\ exit = "none"

-----------------------------------------------------------------------------
(* The drafts.                                                             *)

Draft(role) ==
  IF role \in DOMAIN drafts THEN drafts[role]
  ELSE [stage |-> "editing", form |-> NewForm(role, SeedValues(role, accepted[role]))]

Submitted(role) == role \in DOMAIN drafts /\ drafts[role].stage = "submitted"

(* the form takes the keys                                                 *)
InForm ==
  /\ Running /\ round > 0 /\ workspace = "action" /\ pane = "history"
  /\ SelectedRole \in Humans /\ ~Submitted(SelectedRole)

Current == Draft(SelectedRole)
Editing == InForm /\ Current.form.editing
Browsing == InForm /\ ~Current.form.editing

(* Mutant: the form only takes the keys it knows.                          *)
SwallowsNothing == FALSE

(* while a value is edited, every other key is swallowed, q and ctrl+c too *)
Swallows == Editing

Draw(draft) ==
  drafts' = [role \in DOMAIN drafts \cup {SelectedRole} |->
               IF role = SelectedRole THEN draft ELSE drafts[role]]
Redraw(form) == Draw([Current EXCEPT !.form = form])
FormUnchanged == UNCHANGED <<matchVars, viewVars, lookup, sent, spinnerVars, debugVars, exit>>

MoveInForm ==
  /\ Browsing
  /\ \E move \in {MoveUp(Current.form), MoveDown(Current.form),
                  MoveLeft(Current.form), MoveRight(Current.form)} : Redraw(move)
  /\ FormUnchanged

AddTableRow ==
  /\ Browsing /\ IsTable(Current.form) /\ Len(Rows(Current.form)) < MaxRows
  /\ Redraw(AddRow(Current.form))
  /\ FormUnchanged

RemoveTableRow ==
  /\ Browsing /\ CanRemoveRow(Current.form)
  /\ Redraw(RemoveRow(Current.form))
  /\ FormUnchanged

BeginEditing == Browsing /\ Redraw(BeginEdit(Current.form)) /\ FormUnchanged

Edit ==
  /\ Editing
  /\ \/ Redraw(CancelEdit(Current.form))
     \/ Redraw(CommitEdit(Current.form))
     \/ IsChoice(Current.form) /\ \E d \in {-1, 1} : Redraw(CycleEditingChoice(Current.form, d))
     \/ ~IsChoice(Current.form) /\ \E text \in Texts : Redraw(TypeText(Current.form, text))
  /\ FormUnchanged

(* a draft that is not valid stays in the stage it was in                  *)
Review ==
  /\ Browsing
  /\ Draw(IF Submittable(Current.form) THEN [Current EXCEPT !.stage = "review"] ELSE Current)
  /\ FormUnchanged

BackToEditing ==
  /\ Browsing /\ Current.stage = "review"
  /\ Draw([Current EXCEPT !.stage = "editing"])
  /\ FormUnchanged

(* the human roles after the selected one, in turn, that are still open    *)
NextPending(submitted) ==
  LET n == Len(RoleOrder)
      index(step) == ((selectedRole - 1 + step) % n) + 1
      open == {step \in 1..n : LET role == RoleOrder[index(step)]
                               IN  role \in Humans \ {submitted} /\ ~Submitted(role)}
  IN  IF open = {} THEN 0 ELSE index(Min(open))

AdvanceAfterSubmission ==
  LET next == NextPending(SelectedRole)
  IN  IF next > 0 THEN selectedRole' = next /\ workspace' = "action"
      ELSE workspace' = "feed" /\ UNCHANGED selectedRole

(* the draft is checked again; the hook (Submit of the live match) may     *)
(* refuse it, and then nothing changes                                     *)
Submit ==
  /\ Browsing /\ Current.stage = "review"
  /\ \/ /\ Draw(Current)
        /\ UNCHANGED <<viewVars, sent>>
     \/ /\ Submittable(Current.form)
        /\ Draw([Current EXCEPT !.stage = "submitted"])
        /\ sent' = Append(sent, [role |-> SelectedRole, round |-> round,
                                 values |-> Current.form.values])
        /\ AdvanceAfterSubmission
        /\ UNCHANGED pane
  /\ UNCHANGED <<matchVars, lookup, spinnerVars, debugVars, exit>>

-----------------------------------------------------------------------------
(* The scenario lookup.                                                    *)

InLookup == Running /\ workspace = "lookup" /\ pane = "history"

(* Mutant: the index is not taken around.                                  *)
StepIndex(i, total, delta) == i + delta

Clamped(i, total) == Max({0, Min({i, total - 1})})
CycleIndex(i, total, delta) ==
  IF total = 0 THEN 0 ELSE (Clamped(i, total) + delta + total) % total

LookupKey ==
  /\ InLookup
  /\ \/ \E view \in LookupViews : lookup' = [lookup EXCEPT !.active = view]
     \/ \E delta \in {-1, 1} :
          lookup' = [lookup EXCEPT !.index[lookup.active] =
                       CycleIndex(@, LookupSizes[lookup.active], delta)]
  /\ UNCHANGED <<matchVars, viewVars, formVars, spinnerVars, debugVars, exit>>

-----------------------------------------------------------------------------
(* The inspector.                                                          *)

InInspector == Running /\ workspace = "debug" /\ pane = "history"

(* Mutant: only a selection that was never made is settled.                *)
SelectFirstOnly(onScreen, role, r) ==
  /\ debugSelected' = IF onScreen /\ debugSelected = << >>
                      THEN Ensured(Visible(ShownTo(role, r), debugExpanded), debugSelected)
                      ELSE debugSelected
  /\ UNCHANGED <<log, debugExpanded>>

(* ensureDebugSelection, which does nothing unless the tree is on screen   *)
EnsureSelection(onScreen, role, r) ==
  /\ debugSelected' = IF onScreen
                      THEN Ensured(Visible(ShownTo(role, r), debugExpanded), debugSelected)
                      ELSE debugSelected
  /\ UNCHANGED <<log, debugExpanded>>

(* A key of the inspector, or one it lets pass: every key pressed in it    *)
(* settles the selection first, those that follow below too.               *)
SettleSelection == EnsureSelection(InInspector, SelectedRole, round)

InspectorKey ==
  /\ InInspector
  /\ \/ SettleSelection
     \/ \E delta \in Strides : MoveSelection(Shown, delta)
     \/ SelectEdge(Shown)
     \/ ExpandSelection(Shown)
     \/ CollapseSelection(Shown)
  /\ UNCHANGED <<matchVars, viewVars, lookup, formVars, spinnerVars, exit>>

(* the goroutine of an AI role records a call                              *)
RecordCall ==
  /\ Running /\ round > 0
  /\ \E role \in CallingRoles, attempt \in Attempts :
       log' = Appended([role |-> role, round |-> round, attempt |-> attempt])
  /\ UNCHANGED <<matchVars, viewVars, lookup, formVars, spinnerVars, debugSelected,
                 debugExpanded, exit>>

-----------------------------------------------------------------------------
(* The keys of the screen.                                                 *)

Around(i, delta, n) == ((i - 1 + delta + n) % n) + 1
Position(seq, x) == CHOOSE i \in DOMAIN seq : seq[i] = x

GlobalKeys == Running /\ ~Swallows

TabKey ==
  /\ GlobalKeys
  /\ \E delta \in {-1, 1} : pane' = Panes[Around(Position(Panes, pane), delta, Len(Panes))]
  /\ SettleSelection
  /\ UNCHANGED <<matchVars, workspace, selectedRole, lookup, formVars, spinnerVars, exit>>

(* every workspace has a key, D for the inspector wherever d is another's  *)
WorkspaceKey ==
  /\ GlobalKeys
  /\ \E chosen \in ToSet(Workspaces) \ {workspace} : workspace' = chosen
  /\ EnsureSelection(InInspector \/ workspace' = "debug", SelectedRole, round)
  /\ UNCHANGED <<matchVars, pane, selectedRole, lookup, formVars, spinnerVars, exit>>

RoleKey ==
  /\ GlobalKeys /\ pane = "departments" /\ round > 0
  /\ \E delta \in {-1, 1} : selectedRole' = Around(selectedRole, delta, Len(RoleOrder))
  /\ EnsureSelection(workspace = "debug", RoleOrder[selectedRole'], round)
  /\ UNCHANGED <<matchVars, workspace, pane, lookup, formVars, spinnerVars, exit>>

QuitKey ==
  /\ GlobalKeys
  /\ exit' \in {"quit", "menu"}
  /\ SettleSelection
  /\ UNCHANGED <<matchVars, viewVars, lookup, formVars, spinnerVars>>

-----------------------------------------------------------------------------
(* The states of the match, and the spinner.                               *)

(* Mutant: the generation stays when the spinner stops.                    *)
KeepGeneration(t) == t

NewGeneration(t) == [live |-> 0, stale |-> t.stale + t.live]

SpinFor(waits) ==
  /\ spinnerActive' = waits
  /\ ticks' = CASE waits /\ spinnerActive -> ticks
                [] waits /\ ~spinnerActive -> [NewGeneration(ticks) EXCEPT !.live = @ + 1]
                [] OTHER -> NewGeneration(ticks)

Locked == \A role \in Humans : Submitted(role)

(* A state is loaded: of the round shown, or of the next one, which exists *)
(* once every human role has sent its action.                              *)
LoadState ==
  /\ Running /\ ticks.stale < MaxStale
  /\ \/ UNCHANGED <<round, accepted, formVars>> /\ round > 0
     \/ /\ round < MaxRound /\ (round > 0 => Locked)
        /\ round' = round + 1
        /\ accepted' = [role \in Humans |->
             IF round = 0 THEN << >> ELSE drafts[role].form.values]
        /\ drafts' = << >> /\ sent' = << >>
  /\ waiting' \in BOOLEAN /\ (waiting' => CallingRoles # {})
  /\ SpinFor(waiting')
  /\ EnsureSelection(workspace = "debug", SelectedRole, round')
  /\ UNCHANGED <<viewVars, lookup, exit>>

SpinnerTick ==
  /\ Running
  /\ \/ /\ ticks.stale > 0
        /\ ticks' = [ticks EXCEPT !.stale = @ - 1]
        /\ UNCHANGED spinnerActive
     \/ /\ ticks.live > 0
        /\ IF waiting THEN UNCHANGED spinnerVars
           ELSE ticks' = [ticks EXCEPT !.live = @ - 1] /\ spinnerActive' = FALSE
  /\ UNCHANGED <<matchVars, viewVars, lookup, formVars, debugVars, exit>>

Left == ~Running /\ UNCHANGED vars

Next ==
  \/ MoveInForm \/ AddTableRow \/ RemoveTableRow \/ BeginEditing \/ Edit
  \/ Review \/ BackToEditing \/ Submit
  \/ LookupKey \/ InspectorKey \/ RecordCall
  \/ TabKey \/ WorkspaceKey \/ RoleKey \/ QuitKey
  \/ LoadState \/ SpinnerTick \/ Left

Spec == Init /\ [][Next]_vars

-----------------------------------------------------------------------------
(* Every variable has its type, and every index of the lookup names an     *)
(* entry of its view, so that clampIndex never corrects one.               *)
TypeOK ==
  /\ round \in 0..MaxRound /\ waiting \in BOOLEAN
  /\ workspace \in ToSet(Workspaces) /\ pane \in ToSet(Panes)
  /\ selectedRole \in DOMAIN RoleOrder
  /\ lookup.active \in LookupViews
  /\ \A v \in LookupViews : lookup.index[v] \in 0..Max({0, LookupSizes[v] - 1})
  /\ DOMAIN drafts \subseteq Humans
  /\ \A role \in DOMAIN drafts : drafts[role].stage \in {"editing", "review", "submitted"}
  /\ ToSet(log) \subseteq CallRecords /\ Len(log) <= LogSize
  /\ \A id \in DOMAIN debugExpanded : debugExpanded[id] \in BOOLEAN
  /\ exit \in {"none", "quit", "menu"}

(* However rows are added, removed and left half filled, the cursor of a   *)
(* form is on a field and a cell of it, and a value is edited only where   *)
(* there is a cell to write it to: BeginEdit and CommitEdit index the rows *)
(* of the table with the cursor.                                           *)
CursorOnForm == \A role \in DOMAIN drafts : CursorInside(drafts[role].form)

(* A value being edited is on the screen, in a form that is not locked:    *)
(* no key, no state of the match and no submission of another role takes   *)
(* the screen away from it, and so the keys typed go where they are shown. *)
EditingIsOnScreen ==
  \A role \in DOMAIN drafts :
    drafts[role].form.editing =>
      /\ role = SelectedRole /\ workspace = "action" /\ pane = "history"
      /\ drafts[role].stage # "submitted"

(* Orders name a supplier of their part, releases and capacity a product   *)
(* and a workstation, every number is one, and there is a comment,         *)
(* whatever was changed after the draft was reviewed.                      *)
Sendable(role, values) ==
  /\ Last(values) # Blank
  /\ role = "procurement" =>
       \A i \in DOMAIN values[1] :
         LET order == values[1][i]
         IN  /\ order[1] \in ToSet(PartIDs) /\ order[2] \in ToSet(SuppliersOf[order[1]])
             /\ order[3] \in Numbers
  /\ role = "production" =>
       /\ \A i \in DOMAIN values[1] :
            values[1][i][1] \in ToSet(ProductIDs) /\ values[1][i][2] \in Numbers
       /\ \A i \in DOMAIN values[2] :
            /\ values[2][i][1] \in ToSet(WorkstationIDs)
            /\ values[2][i][2] \in ToSet(ProductIDs) /\ values[2][i][3] \in Numbers
       /\ \A i \in DOMAIN values[3] :
            values[3][i][1] \in ToSet(WorkstationIDs) /\ values[3][i][2] \in Numbers
  /\ role = "sales" =>
       \A i \in DOMAIN values[1] :
         values[1][i][1] \in ToSet(ProductIDs) /\ values[1][i][2] \in Numbers
  /\ role = "finance" => \A i \in 1..5 : values[i] \in Numbers

(* While a round is on the screen, the match gets one action of each role, *)
(* for that round and one it can act on, and it is the one the locked form *)
(* still shows.                                                            *)
SentActionsFitTheRound ==
  /\ \A i, j \in DOMAIN sent : sent[i].role = sent[j].role => i = j
  /\ {sent[i].role : i \in DOMAIN sent} = {role \in Humans : Submitted(role)}
  /\ \A i \in DOMAIN sent :
       /\ sent[i].round = round
       /\ sent[i].values = drafts[sent[i].role].form.values
       /\ Sendable(sent[i].role, sent[i].values)

(* One chain of ticks turns the spinner while a provider is waited for,    *)
(* and none when not, however often that changes between two ticks.        *)
OneTickChain == ticks.live = (IF waiting THEN 1 ELSE 0)

(* However the tree is unfolded and folded, moved in and shown for another *)
(* role, no node above the selected one is folded; and while the inspector *)
(* is on the screen a round selected is one the history still retains: it  *)
(* may leave the history while the user is elsewhere, and is replaced on   *)
(* the way back.  Of what the tree consists of, calls alone can leave it   *)
(* unnoticed, pushed out of the log by others that are recorded.           *)
SelectionIsDrawn ==
  /\ \A n \in 1 .. Len(debugSelected) - 1 : Expanded(debugExpanded, SubSeq(debugSelected, 1, n))
  /\ workspace = "debug" /\ Len(debugSelected) > 1 /\ debugSelected[1] = "inspection" =>
       debugSelected[2] \in ToSet(Shown.rounds)

=============================================================================
