------------------------------ MODULE ActionForm ------------------------------
(***************************************************************************)
(* The form in which a player writes the action of a round                 *)
(* (internal/adapters/tui/form_editor.go), the schema it is built from and *)
(* the checks a filled form has to pass (internal/actionschema,            *)
(* action_entry.go).                                                       *)
(*                                                                         *)
(* A form has fields; a field is a line of text, a number, or a table of   *)
(* rows whose columns are numbers or choices.  The choices of a column may *)
(* depend on another cell of the row: the suppliers offered are those of   *)
(* the row's part.  Texts stands for what can be typed: Blank is any text  *)
(* that is empty or only spaces, Numbers what parses as a non-negative     *)
(* number.  Rows and columns are counted from 1.                           *)
(***************************************************************************)
EXTENDS Integers, Sequences, SequencesExt

CONSTANTS
  PartIDs, ProductIDs, WorkstationIDs,  \* of the scenario, in its order
  SuppliersOf,   \* the suppliers of a part, its default supplier first
  ActiveTargets, \* the five targets of the state, as text
  Texts,         \* what a player may type
  Numbers        \* the texts parseNonNegativeInt accepts

Blank == ""

ASSUME TextAssumption ==
  /\ Blank \in Texts /\ Numbers \subseteq Texts \ {Blank}
  /\ ActiveTargets \in Seq(Numbers) /\ Len(ActiveTargets) = 5

-----------------------------------------------------------------------------
(* The schema of each role.                                                *)

Choice(options) == [kind |-> "choice", dependsOn |-> 0, options |-> options]
DependentChoice(on, options) == [kind |-> "choice", dependsOn |-> on, options |-> options]
Integer == [kind |-> "integer", dependsOn |-> 0, options |-> << >>]

Table(columns) == [kind |-> "rows", columns |-> columns]
integerField == [kind |-> "integer", columns |-> << >>]
commentaryField == [kind |-> "text", columns |-> << >>]

procurementSchema ==
  <<Table(<<Choice(PartIDs), DependentChoice(1, SuppliersOf), Integer>>), commentaryField>>

(* releases, capacity allocation, overtime                                 *)
productionSchema ==
  <<Table(<<Choice(ProductIDs), Integer>>),
    Table(<<Choice(WorkstationIDs), Choice(ProductIDs), Integer>>),
    Table(<<Choice(WorkstationIDs), Integer>>),
    commentaryField>>

salesSchema == <<Table(<<Choice(ProductIDs), Integer>>), commentaryField>>

financeSchema == [i \in 1..6 |-> IF i <= 5 THEN integerField ELSE commentaryField]

Schema ==
  [procurement |-> procurementSchema, production |-> productionSchema,
   sales |-> salesSchema, finance |-> financeSchema]

RoleIDs == DOMAIN Schema

(* the choices of a column: a fixed list, or that of the cell it depends on*)
OptionsOf(column, row) ==
  IF column.dependsOn = 0 THEN column.options
  ELSE LET key == row[column.dependsOn]
       IN  IF key \in DOMAIN column.options THEN column.options[key] ELSE << >>

(* newActionFormModel, and the values a form is opened with: those of the  *)
(* role's last accepted action, for finance else the active targets        *)
EmptyValues(role) ==
  [i \in DOMAIN Schema[role] |-> IF Schema[role][i].kind = "rows" THEN << >> ELSE Blank]

SeedValues(role, accepted) ==
  CASE accepted # << >> -> accepted
    [] accepted = << >> /\ role = "finance" -> Append(ActiveTargets, Blank)
    [] OTHER -> EmptyValues(role)

NewForm(role, values) ==
  [role |-> role, values |-> values, field |-> 1, row |-> 1, col |-> 1,
   editing |-> FALSE, buffer |-> Blank]

Field(f) == Schema[f.role][f.field]
IsTable(f) == Field(f).kind = "rows"
Rows(f) == f.values[f.field]
Column(f) == Field(f).columns[f.col]

-----------------------------------------------------------------------------
(* Moving the cursor.                                                      *)

FocusField(f, i) ==
  [f EXCEPT !.field = i, !.row = 1, !.col = 1, !.editing = FALSE, !.buffer = Blank]

MoveUp(f) ==
  CASE IsTable(f) /\ f.row > 1 -> [f EXCEPT !.row = @ - 1]
    [] ~(IsTable(f) /\ f.row > 1) /\ f.field > 1 -> FocusField(f, f.field - 1)
    [] OTHER -> f

FieldBelow(f) == IF f.field < Len(Schema[f.role]) THEN FocusField(f, f.field + 1) ELSE f

MoveDown(f) ==
  IF IsTable(f) /\ f.row < Len(Rows(f)) THEN [f EXCEPT !.row = @ + 1]
  ELSE FieldBelow(f)

MoveLeft(f) == IF IsTable(f) /\ f.col > 1 THEN [f EXCEPT !.col = @ - 1] ELSE f

MoveRight(f) ==
  IF IsTable(f) /\ f.col < Len(Field(f).columns) THEN [f EXCEPT !.col = @ + 1] ELSE f

AddRow(f) ==
  [f EXCEPT !.values[f.field] = Append(@, [c \in DOMAIN Field(f).columns |-> Blank]),
            !.row = Len(Rows(f)) + 1,
            !.col = 1]

CanRemoveRow(f) == IsTable(f) /\ f.row <= Len(Rows(f))

(* Mutant: the cursor stays where the last row was.                        *)
RemoveRowOnly(f) == [f EXCEPT !.values[f.field] = RemoveAt(@, f.row)]

RemoveRow(f) ==
  [f EXCEPT !.values[f.field] = RemoveAt(@, f.row),
            !.row = IF @ = Len(Rows(f)) /\ @ > 1 THEN @ - 1 ELSE @]

-----------------------------------------------------------------------------
(* Editing the cell under the cursor.                                      *)

Cell(f) == IF IsTable(f) THEN Rows(f)[f.row][f.col] ELSE f.values[f.field]

IsChoice(f) == IsTable(f) /\ Column(f).kind = "choice"
EditingChoice(f) == f.editing /\ IsChoice(f)
OfferedOptions(f) == OptionsOf(Column(f), Rows(f)[f.row])

InitialChoice(options, current) ==
  IF current # Blank THEN current
  ELSE IF options = << >> THEN Blank ELSE Head(options)

(* an empty table gets its first row by editing it: the cursor goes to the *)
(* row's first cell, the text it starts from is that of the column before  *)
BeginEdit(f) ==
  LET g == IF IsTable(f) /\ Rows(f) = << >> THEN AddRow(f) ELSE f
      cell == [g EXCEPT !.col = f.col]
  IN  [g EXCEPT !.editing = TRUE,
                !.buffer = IF IsChoice(f) THEN InitialChoice(OfferedOptions(cell), Cell(cell))
                           ELSE Cell(cell)]

CancelEdit(f) == [f EXCEPT !.editing = FALSE, !.buffer = Blank]

AdvanceAfterCommit(f) ==
  CASE IsTable(f) /\ f.col < Len(Field(f).columns) -> [f EXCEPT !.col = @ + 1]
    [] IsTable(f) /\ f.col = Len(Field(f).columns) /\ f.row < Len(Rows(f)) ->
         [f EXCEPT !.row = @ + 1, !.col = 1]
    [] ~IsTable(f) -> FieldBelow(f)
    [] OTHER -> f

CommitEdit(f) ==
  LET stored == IF IsTable(f)
                THEN [f EXCEPT !.values[f.field][f.row][f.col] = f.buffer]
                ELSE [f EXCEPT !.values[f.field] = f.buffer]
  IN  AdvanceAfterCommit(CancelEdit(stored))

(* typing and backspace turn what is typed into another text               *)
TypeText(f, text) == [f EXCEPT !.buffer = text]

(* a value that is not among the options counts as the first of them       *)
Cycled(options, current, delta) ==
  CASE options = << >> -> current
    [] options # << >> /\ current = Blank ->
         IF delta < 0 THEN Last(options) ELSE Head(options)
    [] OTHER ->
         LET at == {i \in DOMAIN options : options[i] = current}
             i == IF at = {} THEN 1 ELSE CHOOSE j \in at : \A k \in at : j <= k
         IN  options[((i - 1 + delta + Len(options)) % Len(options)) + 1]

CycleEditingChoice(f, delta) == [f EXCEPT !.buffer = Cycled(OfferedOptions(f), @, delta)]

-----------------------------------------------------------------------------
(* From a form to an action: the parse of its texts, then the checks of    *)
(* ValidateRoleAction against the schema.                                  *)

ParsesAs(kind, text) ==
  CASE kind = "integer" -> text \in Numbers
    [] OTHER -> text # Blank

Parses(f) ==
  \A i \in DOMAIN Schema[f.role] :
    LET field == Schema[f.role][i]
    IN  IF field.kind # "rows" THEN ParsesAs(field.kind, f.values[i])
        ELSE \A r \in DOMAIN f.values[i] : \A c \in DOMAIN field.columns :
               ParsesAs(field.columns[c].kind, f.values[i][r][c])

ChoicesAllowed(role, values) ==
  \A i \in DOMAIN Schema[role] :
    Schema[role][i].kind = "rows" =>
      \A r \in DOMAIN values[i] : \A c \in DOMAIN Schema[role][i].columns :
        LET column == Schema[role][i].columns[c]
        IN  column.kind = "choice" =>
              values[i][r][c] \in ToSet(OptionsOf(column, values[i][r]))

(* Mutant: the checks are left to the choices the form offers.             *)
TrustTheForm(role, values) == TRUE

ValidRoleAction(role, values) == ChoicesAllowed(role, values)

Submittable(f) == Parses(f) /\ ValidRoleAction(f.role, f.values)

(* The cursor is on a field of the schema and on a row and a column of it; *)
(* an empty table shows one row to write in.  Anything else is an index    *)
(* out of range in BeginEdit, CommitEdit or the drawing of the table.      *)
CursorInside(f) ==
  /\ f.field \in DOMAIN Schema[f.role]
  /\ IF IsTable(f)
     THEN /\ f.col \in DOMAIN Field(f).columns
          /\ f.row \in DOMAIN Rows(f) \/ (f.row = 1 /\ Rows(f) = << >> /\ ~f.editing)
     ELSE f.row = 1 /\ f.col = 1

=============================================================================
