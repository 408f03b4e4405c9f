------------------------------- MODULE Inspector -------------------------------
(***************************************************************************)
(* The debug workspace (internal/adapters/tui/debug_tree.go): a tree of    *)
(* the retained rounds and of the AI calls recorded for the selected role, *)
(* with a selection and an expansion that are kept by node id while the    *)
(* tree under them changes: the log (internal/app/debug_log.go) is written *)
(* by the goroutines of the AI roles and drops its oldest record when full.*)
(*                                                                         *)
(* A node id is the path to the node.  A call is identified by its round   *)
(* and its attempt, so a round played again after a restart repeats ids.   *)
(***************************************************************************)
EXTENDS Integers, Sequences, FiniteSets, SequencesExt

CONSTANTS
  CallingRoles,  \* the roles whose calls are recorded
  Attempts,      \* attempts of a role in a round
  LogSize,       \* records the log retains
  Strides        \* how far a key or a turn of the wheel moves the selection

ASSUME LogAssumption ==
  LogSize \in Nat \ {0} /\ Attempts \subseteq Nat /\ Strides \subseteq Int

VARIABLES
  log,            \* DebugLog.records: [role, round, attempt], oldest first
  debugSelected,  \* id of the selected node, << >> when there is none
  debugExpanded   \* the nodes expanded or collapsed by hand

debugVars == <<log, debugSelected, debugExpanded>>

CallRecords == [role : CallingRoles, round : Nat, attempt : Attempts]

(* Mutant: the full log drops what was recorded last.                      *)
AppendDroppingNewest(record) == SubSeq(Append(log, record), 1, LogSize)

(* DebugLog.Append                                                         *)
Appended(record) ==
  LET all == Append(log, record)
  IN  SubSeq(all, Len(all) - Min({LogSize, Len(all)}) + 1, Len(all))

-----------------------------------------------------------------------------
(* The tree of what the screen shows: shown.rounds are the retained rounds,*)
(* oldest first, shown.calls the records of the selected role.             *)

(* the calls of a set of places, by the attempt that made them             *)
EarlierCall(calls, i, j) ==
  calls[i].attempt < calls[j].attempt \/ (calls[i].attempt = calls[j].attempt /\ i < j)
AttemptsIn(calls, r) ==
  LET ofRound == {i \in DOMAIN calls : calls[i].round = r}
      kth(k) == CHOOSE i \in ofRound :
                  Cardinality({j \in ofRound : EarlierCall(calls, j, i)}) = k - 1
  IN  [k \in 1 .. Cardinality(ofRound) |-> calls[kth(k)].attempt]

RoundsOf(calls) == {calls[i].round : i \in DOMAIN calls}
NewestFirst(rounds) ==
  [k \in 1 .. Cardinality(rounds) |->
     CHOOSE r \in rounds : Cardinality({q \in rounds : q > r}) = k - 1]

Under(id, names) == [i \in DOMAIN names |-> Append(id, names[i])]

Children(shown, id) ==
  CASE id = << >> ->
         (IF shown.rounds = << >> THEN << >> ELSE <<<<"inspection">>>>) \o
         (IF shown.calls = << >> THEN << >> ELSE <<<<"traces">>>>)
    [] id = <<"inspection">> -> Under(id, Reverse(shown.rounds))
    [] id = <<"traces">> -> Under(id, NewestFirst(RoundsOf(shown.calls)))
    [] Len(id) = 2 /\ id[1] = "inspection" ->
         Under(id, <<"action", "state", "timeline">>)
    [] Len(id) = 2 /\ id[1] = "traces" -> Under(id, AttemptsIn(shown.calls, id[2]))
    [] Len(id) = 3 /\ id[1] = "traces" ->
         Under(id, <<"status", "request", "response">>)
    [] Len(id) = 4 /\ id[4] \in {"request", "response"} -> Under(id, <<"detail">>)
    [] OTHER -> << >>

(* until it is touched, a node is expanded down to the second level        *)
Expanded(expanded, id) ==
  IF id \in DOMAIN expanded THEN expanded[id] ELSE Len(id) <= 2

(* flattenDebugNodes, one node at a time: what is drawn below a node comes *)
(* before the nodes that follow it                                         *)
Visit(shown, expanded, walk) ==
  IF walk.todo = << >> THEN walk
  ELSE LET id == Head(walk.todo)
           below == IF Expanded(expanded, id) THEN Children(shown, id) ELSE << >>
       IN  [drawn |-> Append(walk.drawn, id), todo |-> below \o Tail(walk.todo)]

(* no tree of these rounds and calls has more nodes                        *)
Nodes(shown) == 2 + 4 * Len(shown.rounds) + 7 * Len(shown.calls)

Lines(shown, expanded) ==
  LET walk[n \in 0 .. Nodes(shown)] ==
        IF n = 0 THEN [drawn |-> << >>, todo |-> Children(shown, << >>)]
        ELSE Visit(shown, expanded, walk[n - 1])
  IN  walk

Visible(shown, expanded) == Lines(shown, expanded)[Nodes(shown)].drawn

(* debugSelectionIndex: of equal ids the first one counts, and a selection *)
(* that is gone counts as the first line                                   *)
LineOf(visible, id) ==
  LET at == {i \in DOMAIN visible : visible[i] = id}
  IN  IF at = {} THEN 1 ELSE Min(at)

(* ensureDebugSelection                                                    *)
Ensured(visible, id) ==
  IF visible = << >> THEN << >> ELSE visible[LineOf(visible, id)]

Stepped(visible, id, delta) ==
  IF visible = << >> THEN << >>
  ELSE visible[Max({1, Min({LineOf(visible, id) + delta, Len(visible)})})]

-----------------------------------------------------------------------------
(* Keys of the inspector.                                                  *)

MoveSelection(shown, delta) ==
  /\ debugSelected' = Stepped(Visible(shown, debugExpanded), debugSelected, delta)
  /\ UNCHANGED <<log, debugExpanded>>

SelectEdge(shown) ==
  LET visible == Visible(shown, debugExpanded)
  IN  /\ debugSelected' \in IF visible = << >> THEN {<< >>}
                            ELSE {Head(visible), Last(visible)}
      /\ UNCHANGED <<log, debugExpanded>>

Marked(id, open) ==
  [node \in DOMAIN debugExpanded \cup {id} |-> IF node = id THEN open ELSE debugExpanded[node]]
Opened(id) == Marked(id, TRUE)
Closed(id) == Marked(id, FALSE)

ExpandSelection(shown) ==
  LET id == Ensured(Visible(shown, debugExpanded), debugSelected)
  IN  /\ IF id = << >> \/ Children(shown, id) = << >>
         THEN debugSelected' = id /\ UNCHANGED debugExpanded
         ELSE /\ debugExpanded' = Opened(id)
              /\ debugSelected' = Head(Children(shown, id))
      /\ UNCHANGED log

(* Mutant: a leaf collapses its parent and keeps the selection.            *)
CollapseUnderSelection(id) ==
  /\ debugExpanded' = Closed(Front(id))
  /\ debugSelected' = id

CollapseParent(id) ==
  /\ debugExpanded' = Closed(Front(id))
  /\ debugSelected' = Front(id)

(* esc closes the node that was expanded by hand, or else the parent, and  *)
(* moves up to the parent in either case                                   *)
CollapseSelection(shown) ==
  LET id == Ensured(Visible(shown, debugExpanded), debugSelected)
      byHand == Children(shown, id) # << >> /\ id \in DOMAIN debugExpanded
                  /\ debugExpanded[id]
  IN  /\ CASE id = << >> -> debugSelected' = id /\ UNCHANGED debugExpanded
           [] byHand -> /\ debugExpanded' = Closed(id)
                        /\ debugSelected' = IF Len(id) > 1 THEN Front(id) ELSE id
           [] ~byHand /\ Len(id) > 1 -> CollapseParent(id)
           [] OTHER -> debugSelected' = id /\ UNCHANGED debugExpanded
      /\ UNCHANGED log

=============================================================================
