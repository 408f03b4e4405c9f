------------------------ MODULE GameplayScreenProofs ------------------------
(***************************************************************************)
(* Theorems about the gameplay screen: the cursor of a form, the value     *)
(* being edited, the actions sent, the spinner and the selection of the    *)
(* inspector, for any match, any text and any log.                         *)
(***************************************************************************)
EXTENDS GameplayScreen, SumTheorems, SequenceTheorems

-----------------------------------------------------------------------------
(* Lists, of whatever elements.                                            *)

IsList(s) == \E S : s \in Seq(S)

(* A list is a function from 1 .. its length.                              *)
LEMMA ListShape ==
  ASSUME NEW s, IsList(s)
  PROVE  Len(s) \in Nat /\ DOMAIN s = 1 .. Len(s) /\ (s = << >> <=> Len(s) = 0)
BY DEF IsList

(* A function from 1 .. n is a list of n elements.                         *)
LEMMA ListOfFunction ==
  ASSUME NEW n \in Nat, NEW s, s = [i \in 1 .. n |-> s[i]]
  PROVE  IsList(s) /\ Len(s) = n
<1> DEFINE S == {s[i] : i \in 1 .. n}
<1>1. \A i \in 1 .. n : s[i] \in S
  OBVIOUS
<1> HIDE DEF S
<1>2. [i \in 1 .. n |-> s[i]] \in Seq(S)
  BY <1>1
<1>3. s \in Seq(S)
  BY <1>2
<1>4. DOMAIN s = 1 .. n
  OBVIOUS
<1> QED
  BY <1>3, <1>4 DEF IsList

(* Appending an element.                                                   *)
LEMMA ListAppend ==
  ASSUME NEW s, IsList(s), NEW x
  PROVE  /\ IsList(Append(s, x)) /\ Len(Append(s, x)) = Len(s) + 1
         /\ \A i \in DOMAIN s : Append(s, x)[i] = s[i]
         /\ Append(s, x)[Len(s) + 1] = x
<1>1. PICK S : s \in Seq(S)
  BY DEF IsList
<1> DEFINE T == S \cup {x}
<1>2. s \in Seq(T) /\ x \in T
  BY <1>1
<1> HIDE DEF T
<1>3. Append(s, x) \in Seq(T)
  BY <1>2
<1> QED
  BY <1>2, <1>3 DEF IsList

(* Two lists, one after the other.                                         *)
LEMMA ListConcat ==
  ASSUME NEW s, IsList(s), NEW t, IsList(t)
  PROVE  /\ IsList(s \o t) /\ Len(s \o t) = Len(s) + Len(t)
         /\ \A i \in DOMAIN s : (s \o t)[i] = s[i]
         /\ \A i \in DOMAIN t : (s \o t)[Len(s) + i] = t[i]
         /\ \A i \in DOMAIN (s \o t) :
              (\E j \in DOMAIN s : (s \o t)[i] = s[j]) \/ (\E j \in DOMAIN t : (s \o t)[i] = t[j])
<1>1. PICK S : s \in Seq(S)
  BY DEF IsList
<1>2. PICK T : t \in Seq(T)
  BY DEF IsList
<1> DEFINE U == S \cup T
<1>3. s \in Seq(U) /\ t \in Seq(U)
  BY <1>1, <1>2
<1> HIDE DEF U
<1>4. s \o t \in Seq(U) /\ Len(s \o t) = Len(s) + Len(t)
  BY <1>3
<1>5. /\ \A i \in DOMAIN s : (s \o t)[i] = s[i]
      /\ \A i \in DOMAIN t : (s \o t)[Len(s) + i] = t[i]
  BY <1>3
<1>6. ASSUME NEW i \in DOMAIN (s \o t)
      PROVE  (\E j \in DOMAIN s : (s \o t)[i] = s[j]) \/ (\E j \in DOMAIN t : (s \o t)[i] = t[j])
  <2>1. DOMAIN (s \o t) = 1 .. (Len(s) + Len(t)) /\ DOMAIN s = 1 .. Len(s) /\ DOMAIN t = 1 .. Len(t)
        /\ Len(s) \in Nat /\ Len(t) \in Nat
    BY <1>3, <1>4
  <2>2. CASE i \in DOMAIN s
    BY <1>5, <2>2
  <2>3. CASE i \notin DOMAIN s
    <3>1. (i - Len(s)) \in DOMAIN t /\ Len(s) + (i - Len(s)) = i
      BY <2>1, <2>3
    <3> QED
      BY <1>5, <3>1
  <2> QED
    BY <2>2, <2>3
<1> QED
  BY <1>4, <1>5, <1>6 DEF IsList

(* Leaving out the first element.                                          *)
LEMMA ListTail ==
  ASSUME NEW s, IsList(s), s # << >>
  PROVE  /\ Head(s) = s[1] /\ 1 \in DOMAIN s
         /\ IsList(Tail(s)) /\ Len(Tail(s)) = Len(s) - 1
         /\ \A i \in DOMAIN Tail(s) : i + 1 \in DOMAIN s /\ Tail(s)[i] = s[i + 1]
<1>1. PICK S : s \in Seq(S)
  BY DEF IsList
<1>2. Tail(s) \in Seq(S) /\ Len(Tail(s)) = Len(s) - 1 /\ Len(s) \in Nat \ {0}
  BY <1>1
<1> QED
  BY <1>1, <1>2 DEF IsList

(* A list from which one element is removed.                               *)
LEMMA ListRemove ==
  ASSUME NEW s, IsList(s), NEW i \in DOMAIN s
  PROVE  IsList(RemoveAt(s, i)) /\ Len(RemoveAt(s, i)) = Len(s) - 1
<1>1. PICK S : s \in Seq(S)
  BY DEF IsList
<1>2. i \in 1 .. Len(s) /\ Len(s) \in Nat
  BY <1>1
<1>3. SubSeq(s, 1, i - 1) \in Seq(S) /\ Len(SubSeq(s, 1, i - 1)) = i - 1
  BY <1>1, <1>2
<1>4. SubSeq(s, i + 1, Len(s)) \in Seq(S) /\ Len(SubSeq(s, i + 1, Len(s))) = Len(s) - i
  BY <1>1, <1>2
<1> DEFINE a == SubSeq(s, 1, i - 1)
           b == SubSeq(s, i + 1, Len(s))
<1> HIDE DEF a, b
<1>5. a \o b \in Seq(S) /\ Len(a \o b) = Len(a) + Len(b)
  BY <1>3, <1>4 DEF a, b
<1>6. RemoveAt(s, i) = a \o b
  BY DEF RemoveAt, a, b
<1>7. Len(a) = i - 1 /\ Len(b) = Len(s) - i
  BY <1>3, <1>4 DEF a, b
<1>8. Len(a \o b) = Len(s) - 1
  BY <1>2, <1>5, <1>7
<1> QED
  BY <1>5, <1>6, <1>8 DEF IsList

-----------------------------------------------------------------------------
(* The schema: every role has fields, and every table has columns.         *)

Kinds == {"rows", "integer", "text"}

SchemaShape(role) ==
  /\ Len(Schema[role]) \in Nat \ {0} /\ DOMAIN Schema[role] = 1 .. Len(Schema[role])
  /\ IsList(Schema[role])
  /\ \A i \in DOMAIN Schema[role] :
       /\ Schema[role][i].kind \in Kinds
       /\ Schema[role][i].kind = "rows" =>
            /\ Len(Schema[role][i].columns) \in Nat \ {0}
            /\ DOMAIN Schema[role][i].columns = 1 .. Len(Schema[role][i].columns)

(* The roles are those the schema has.                                     *)
LEMMA Roles == RoleIDs = {"procurement", "production", "sales", "finance"}
BY DEF RoleIDs, Schema

(* Two fields in a list.                                                   *)
LEMMA ListOfTwo ==
  \A a, b : IsList(<<a, b>>) /\ Len(<<a, b>>) = 2 /\ DOMAIN <<a, b>> = 1 .. 2
<1> TAKE a, b
<1>1. <<a, b>> \in Seq({a, b})
  OBVIOUS
<1>2. IsList(<<a, b>>)
  <2>1. \E S : <<a, b>> \in Seq(S)
    BY <1>1
  <2> QED
    BY <2>1 DEF IsList
<1>3. Len(<<a, b>>) = 2 /\ DOMAIN <<a, b>> = 1 .. 2
  OBVIOUS
<1> QED
  BY <1>2, <1>3

(* Four fields in a list.                                                  *)
LEMMA ListOfFour ==
  \A a, b, c, d :
    IsList(<<a, b, c, d>>) /\ Len(<<a, b, c, d>>) = 4 /\ DOMAIN <<a, b, c, d>> = 1 .. 4
<1> TAKE a, b, c, d
<1>1. <<a, b, c, d>> \in Seq({a, b, c, d})
  OBVIOUS
<1>2. IsList(<<a, b, c, d>>)
  <2>1. \E S : <<a, b, c, d>> \in Seq(S)
    BY <1>1
  <2> QED
    BY <2>1 DEF IsList
<1>3. Len(<<a, b, c, d>>) = 4 /\ DOMAIN <<a, b, c, d>> = 1 .. 4
  OBVIOUS
<1> QED
  BY <1>2, <1>3

(* Every role's schema has that shape.                                     *)
LEMMA SchemaFits == ASSUME NEW role \in RoleIDs PROVE SchemaShape(role)
<1>1. \A columns, a, b, c :
        /\ Table(columns).kind = "rows" /\ Table(columns).columns = columns
        /\ Len(<<a>>) = 1 /\ DOMAIN <<a>> = 1 .. 1
        /\ Len(<<a, b>>) = 2 /\ DOMAIN <<a, b>> = 1 .. 2
        /\ Len(<<a, b, c>>) = 3 /\ DOMAIN <<a, b, c>> = 1 .. 3
  BY DEF Table
<1>2. /\ integerField.kind = "integer" /\ commentaryField.kind = "text"
  BY DEF integerField, commentaryField
<1>3. CASE role = "procurement"
  <2>1. Schema[role] = procurementSchema
    BY <1>3 DEF Schema
  <2>2. IsList(procurementSchema) /\ Len(procurementSchema) = 2 /\ DOMAIN procurementSchema = 1 .. 2
    BY ListOfTwo DEF procurementSchema
  <2>3. /\ procurementSchema[1] = Table(<<Choice(PartIDs), DependentChoice(1, SuppliersOf), Integer>>)
        /\ procurementSchema[2] = commentaryField
    BY DEF procurementSchema
  <2> QED
    BY <1>1, <1>2, <2>1, <2>2, <2>3 DEF SchemaShape, Kinds
<1>4. CASE role = "production"
  <2>1. Schema[role] = productionSchema
    BY <1>4 DEF Schema
  <2>2. IsList(productionSchema) /\ Len(productionSchema) = 4 /\ DOMAIN productionSchema = 1 .. 4
    BY ListOfFour DEF productionSchema
  <2>3. /\ productionSchema[1] = Table(<<Choice(ProductIDs), Integer>>)
        /\ productionSchema[2] = Table(<<Choice(WorkstationIDs), Choice(ProductIDs), Integer>>)
        /\ productionSchema[3] = Table(<<Choice(WorkstationIDs), Integer>>)
        /\ productionSchema[4] = commentaryField
    BY DEF productionSchema
  <2>4. \A i \in {1, 2, 3} :
          /\ Schema[role][i].kind = "rows"
          /\ Len(Schema[role][i].columns) \in Nat \ {0}
          /\ DOMAIN Schema[role][i].columns = 1 .. Len(Schema[role][i].columns)
    BY <1>1, <2>1, <2>3
  <2>5. Schema[role][4].kind = "text" /\ 1 .. 4 = {1, 2, 3} \cup {4}
    BY <1>2, <2>1, <2>3
  <2> QED
    BY <2>1, <2>2, <2>4, <2>5 DEF SchemaShape, Kinds
<1>5. CASE role = "sales"
  <2>1. Schema[role] = salesSchema
    BY <1>5 DEF Schema
  <2>2. IsList(salesSchema) /\ Len(salesSchema) = 2 /\ DOMAIN salesSchema = 1 .. 2
    BY ListOfTwo DEF salesSchema
  <2>3. /\ salesSchema[1] = Table(<<Choice(ProductIDs), Integer>>)
        /\ salesSchema[2] = commentaryField
    BY DEF salesSchema
  <2> QED
    BY <1>1, <1>2, <2>1, <2>2, <2>3 DEF SchemaShape, Kinds
<1>6. CASE role = "finance"
  <2>1. Schema[role] = financeSchema
    BY <1>6 DEF Schema
  <2>2. financeSchema = [i \in 1 .. 6 |-> financeSchema[i]]
    BY DEF financeSchema
  <2>3. IsList(financeSchema) /\ Len(financeSchema) = 6 /\ DOMAIN financeSchema = 1 .. 6
    BY <2>2, ListOfFunction DEF financeSchema
  <2>4. \A i \in 1 .. 6 : financeSchema[i] \in {integerField, commentaryField}
    BY DEF financeSchema
  <2> QED
    BY <1>1, <1>2, <2>1, <2>3, <2>4 DEF SchemaShape, Kinds
<1> QED
  BY <1>3, <1>4, <1>5, <1>6, Roles

-----------------------------------------------------------------------------
(* A form: its values fit the schema, and its cursor is on them.           *)

IsForm(f) ==
  f = [role |-> f.role, values |-> f.values, field |-> f.field, row |-> f.row, col |-> f.col,
       editing |-> f.editing, buffer |-> f.buffer]

IsRows(role, i) == Schema[role][i].kind = "rows"
Width(role, i) == Len(Schema[role][i].columns)

ValuesFit(role, values) ==
  /\ IsList(values) /\ DOMAIN values = DOMAIN Schema[role]
  /\ \A i \in DOMAIN values : IsRows(role, i) => IsList(values[i])

(* CursorInside, without the form around it.                               *)
Inside(role, values, field, row, col, editing) ==
  /\ field \in DOMAIN Schema[role]
  /\ IsRows(role, field) =>
       /\ col \in 1 .. Width(role, field)
       /\ \/ row \in 1 .. Len(values[field])
          \/ row = 1 /\ Len(values[field]) = 0 /\ ~editing
  /\ ~IsRows(role, field) => row = 1 /\ col = 1

FormFits(role, f) ==
  /\ IsForm(f) /\ f.role = role /\ f.editing \in BOOLEAN
  /\ ValuesFit(role, f.values) /\ CursorInside(f)

(* What the operations of the editor read of a form that fits.             *)
LEMMA FormParts ==
  ASSUME NEW role \in RoleIDs, NEW f, FormFits(role, f)
  PROVE  /\ IsTable(f) <=> IsRows(role, f.field)
         /\ Field(f) = Schema[role][f.field] /\ Rows(f) = f.values[f.field]
         /\ Len(Field(f).columns) = Width(role, f.field)
         /\ IsRows(role, f.field) => Width(role, f.field) \in Nat \ {0}
         /\ IsRows(role, f.field) => IsList(Rows(f)) /\ Len(Rows(f)) \in Nat
         /\ f.field \in 1 .. Len(Schema[role]) /\ Len(Schema[role]) \in Nat
         /\ DOMAIN f.values = 1 .. Len(Schema[role])
         /\ Inside(role, f.values, f.field, f.row, f.col, f.editing)
<1>1. SchemaShape(role)
  BY SchemaFits
<1>2. Field(f) = Schema[role][f.field] /\ Rows(f) = f.values[f.field]
      /\ (IsTable(f) <=> IsRows(role, f.field))
      /\ Len(Field(f).columns) = Width(role, f.field)
  BY DEF FormFits, Field, Rows, IsTable, IsRows, Width
<1>3. f.field \in DOMAIN Schema[role] /\ f.field \in 1 .. Len(Schema[role])
  BY <1>1 DEF FormFits, CursorInside, SchemaShape
<1>4. IsRows(role, f.field) =>
        Width(role, f.field) \in Nat \ {0}
        /\ DOMAIN Field(f).columns = 1 .. Width(role, f.field)
  BY <1>1, <1>2, <1>3 DEF SchemaShape, IsRows, Width
<1>5. IsRows(role, f.field) => IsList(Rows(f))
  BY <1>2, <1>3 DEF FormFits, ValuesFit
<1>6. IsRows(role, f.field) =>
        Len(Rows(f)) \in Nat /\ DOMAIN Rows(f) = 1 .. Len(Rows(f))
        /\ (Rows(f) = << >> <=> Len(Rows(f)) = 0)
  BY <1>5, ListShape
<1>7. Inside(role, f.values, f.field, f.row, f.col, f.editing)
  BY <1>2, <1>3, <1>4, <1>6 DEF FormFits, CursorInside, Inside
<1>8. DOMAIN f.values = 1 .. Len(Schema[role]) /\ Len(Schema[role]) \in Nat
  BY <1>1 DEF FormFits, ValuesFit, SchemaShape
<1> QED
  BY <1>2, <1>3, <1>4, <1>5, <1>6, <1>7, <1>8

(* A form made of parts that fit fits.                                     *)
LEMMA FormFrom ==
  ASSUME NEW role \in RoleIDs, NEW f, IsForm(f), f.role = role, f.editing \in BOOLEAN,
         ValuesFit(role, f.values),
         Inside(role, f.values, f.field, f.row, f.col, f.editing)
  PROVE  FormFits(role, f)
<1>1. SchemaShape(role)
  BY SchemaFits
<1>2. Field(f) = Schema[role][f.field] /\ Rows(f) = f.values[f.field]
      /\ (IsTable(f) <=> IsRows(role, f.field))
  BY DEF Field, Rows, IsTable, IsRows
<1>3. f.field \in DOMAIN Schema[role]
  BY DEF Inside
<1>4. IsRows(role, f.field) => DOMAIN Field(f).columns = 1 .. Width(role, f.field)
  BY <1>1, <1>2, <1>3 DEF SchemaShape, IsRows, Width
<1>5. IsRows(role, f.field) => IsList(Rows(f))
  BY <1>2, <1>3 DEF ValuesFit
<1>6. IsRows(role, f.field) =>
        Len(Rows(f)) \in Nat /\ DOMAIN Rows(f) = 1 .. Len(Rows(f))
        /\ (Rows(f) = << >> <=> Len(Rows(f)) = 0)
  BY <1>5, ListShape
<1>7. CursorInside(f)
  BY <1>2, <1>3, <1>4, <1>6 DEF CursorInside, Inside
<1> QED
  BY <1>7 DEF FormFits

(* Going to another field keeps the form fitting, and ends the editing.    *)
LEMMA FocusFits ==
  ASSUME NEW role \in RoleIDs, NEW f, FormFits(role, f), NEW i \in 1 .. Len(Schema[role])
  PROVE  FormFits(role, FocusField(f, i)) /\ FocusField(f, i).editing = FALSE
<1> DEFINE g == FocusField(f, i)
<1>1. /\ IsForm(g) /\ g.role = role /\ g.editing = FALSE /\ g.values = f.values
      /\ g.field = i /\ g.row = 1 /\ g.col = 1
  <2>1. f = [role |-> role, values |-> f.values, field |-> f.field, row |-> f.row, col |-> f.col,
             editing |-> f.editing, buffer |-> f.buffer]
    BY DEF FormFits, IsForm
  <2>2. g = [role |-> role, values |-> f.values, field |-> i, row |-> 1, col |-> 1,
             editing |-> FALSE, buffer |-> Blank]
    <3> DEFINE no == FALSE
               a == [f EXCEPT !.field = i]
               b == [a EXCEPT !.row = 1]
               c == [b EXCEPT !.col = 1]
               d == [c EXCEPT !.editing = no]
               e == [d EXCEPT !.buffer = Blank]
    <3>1. g = e
      BY DEF FocusField
    <3> HIDE DEF g, no
    <3>2. a = [role |-> role, values |-> f.values, field |-> i, row |-> f.row, col |-> f.col,
               editing |-> f.editing, buffer |-> f.buffer]
      BY <2>1
    <3> HIDE DEF a
    <3>3. b = [role |-> role, values |-> f.values, field |-> i, row |-> 1, col |-> f.col,
               editing |-> f.editing, buffer |-> f.buffer]
      BY <3>2
    <3> HIDE DEF b
    <3>4. c = [role |-> role, values |-> f.values, field |-> i, row |-> 1, col |-> 1,
               editing |-> f.editing, buffer |-> f.buffer]
      BY <3>3
    <3> HIDE DEF c
    <3>5. d = [role |-> role, values |-> f.values, field |-> i, row |-> 1, col |-> 1,
               editing |-> no, buffer |-> f.buffer]
      BY <3>4
    <3> HIDE DEF d
    <3>6. e = [role |-> role, values |-> f.values, field |-> i, row |-> 1, col |-> 1,
               editing |-> no, buffer |-> Blank]
      BY <3>5
    <3> HIDE DEF e
    <3> QED
      BY <3>1, <3>6 DEF no
  <2> QED
    BY <2>2 DEF IsForm
<1>2. SchemaShape(role)
  BY SchemaFits
<1>3. i \in DOMAIN Schema[role] /\ (IsRows(role, i) => Width(role, i) \in Nat \ {0})
  BY <1>2 DEF SchemaShape, IsRows, Width
<1>4. ValuesFit(role, f.values)
  BY DEF FormFits
<1>5. IsRows(role, i) => Len(f.values[i]) \in Nat
  BY <1>3, <1>4, ListShape DEF ValuesFit
<1>6. Inside(role, f.values, i, 1, 1, FALSE)
  BY <1>3, <1>5 DEF Inside
<1> HIDE DEF g
<1>7. FormFits(role, g)
  BY <1>1, <1>4, <1>6, FormFrom
<1> QED
  BY <1>1, <1>7 DEF g

(* Moving the cursor of a form in which nothing is edited.                 *)
LEMMA MoveFits ==
  ASSUME NEW role \in RoleIDs, NEW f, FormFits(role, f), ~f.editing,
         NEW g \in {MoveUp(f), MoveDown(f), MoveLeft(f), MoveRight(f)}
  PROVE  FormFits(role, g) /\ g.editing = FALSE
<1>1. /\ IsForm(f) /\ f.role = role /\ f.editing = FALSE /\ ValuesFit(role, f.values)
  BY DEF FormFits
<1>2. /\ IsTable(f) <=> IsRows(role, f.field)
      /\ Field(f) = Schema[role][f.field] /\ Rows(f) = f.values[f.field]
      /\ Len(Field(f).columns) = Width(role, f.field)
      /\ IsRows(role, f.field) => Width(role, f.field) \in Nat \ {0}
      /\ IsRows(role, f.field) => IsList(Rows(f)) /\ Len(Rows(f)) \in Nat
      /\ f.field \in 1 .. Len(Schema[role]) /\ Len(Schema[role]) \in Nat
      /\ Inside(role, f.values, f.field, f.row, f.col, f.editing)
  BY FormParts
<1>3. \A h : /\ IsForm(h) /\ h.role = role /\ h.editing = FALSE /\ h.values = f.values
             /\ h.field = f.field /\ Inside(role, f.values, f.field, h.row, h.col, FALSE)
             => FormFits(role, h)
  BY <1>1, FormFrom
<1>4. CASE g = MoveUp(f)
  <2>1. CASE IsTable(f) /\ f.row > 1
    <3>1. g = [f EXCEPT !.row = @ - 1]
      BY <1>4, <2>1 DEF MoveUp
    <3>2. IsForm(g) /\ g.role = role /\ g.editing = FALSE /\ g.values = f.values
          /\ g.field = f.field /\ g.row = f.row - 1 /\ g.col = f.col
      BY <1>1, <3>1 DEF IsForm
    <3>3. Inside(role, f.values, f.field, f.row - 1, f.col, FALSE)
      BY <1>1, <1>2, <2>1 DEF Inside
    <3> QED
      BY <1>3, <3>2, <3>3
  <2>2. CASE ~(IsTable(f) /\ f.row > 1) /\ f.field > 1
    <3>1. g = FocusField(f, f.field - 1) /\ f.field - 1 \in 1 .. Len(Schema[role])
      BY <1>2, <1>4, <2>2 DEF MoveUp
    <3> QED
      BY <3>1, FocusFits
  <2>3. CASE ~(IsTable(f) /\ f.row > 1) /\ ~(f.field > 1)
    BY <1>1, <1>4, <2>3 DEF MoveUp
  <2> QED
    BY <2>1, <2>2, <2>3
<1>5. CASE g = MoveDown(f)
  <2>1. CASE IsTable(f) /\ f.row < Len(Rows(f))
    <3>1. g = [f EXCEPT !.row = @ + 1]
      BY <1>5, <2>1 DEF MoveDown
    <3>2. IsForm(g) /\ g.role = role /\ g.editing = FALSE /\ g.values = f.values
          /\ g.field = f.field /\ g.row = f.row + 1 /\ g.col = f.col
      BY <1>1, <3>1 DEF IsForm
    <3>3. Inside(role, f.values, f.field, f.row + 1, f.col, FALSE)
      BY <1>1, <1>2, <2>1 DEF Inside
    <3> QED
      BY <1>3, <3>2, <3>3
  <2>2. CASE ~(IsTable(f) /\ f.row < Len(Rows(f)))
    <3>1. g = FieldBelow(f)
      BY <1>5, <2>2 DEF MoveDown
    <3>2. CASE f.field < Len(Schema[role])
      <4>1. g = FocusField(f, f.field + 1) /\ f.field + 1 \in 1 .. Len(Schema[role])
        BY <1>1, <1>2, <3>1, <3>2 DEF FieldBelow
      <4> QED
        BY <4>1, FocusFits
    <3>3. CASE ~(f.field < Len(Schema[role]))
      BY <1>1, <3>1, <3>3 DEF FieldBelow
    <3> QED
      BY <3>2, <3>3
  <2> QED
    BY <2>1, <2>2
<1>6. CASE g = MoveLeft(f)
  <2>1. CASE IsTable(f) /\ f.col > 1
    <3>1. g = [f EXCEPT !.col = @ - 1]
      BY <1>6, <2>1 DEF MoveLeft
    <3>2. IsForm(g) /\ g.role = role /\ g.editing = FALSE /\ g.values = f.values
          /\ g.field = f.field /\ g.row = f.row /\ g.col = f.col - 1
      BY <1>1, <3>1 DEF IsForm
    <3>3. Inside(role, f.values, f.field, f.row, f.col - 1, FALSE)
      BY <1>1, <1>2, <2>1 DEF Inside
    <3> QED
      BY <1>3, <3>2, <3>3
  <2>2. CASE ~(IsTable(f) /\ f.col > 1)
    BY <1>1, <1>6, <2>2 DEF MoveLeft
  <2> QED
    BY <2>1, <2>2
<1>7. CASE g = MoveRight(f)
  <2>1. CASE IsTable(f) /\ f.col < Len(Field(f).columns)
    <3>1. g = [f EXCEPT !.col = @ + 1]
      BY <1>7, <2>1 DEF MoveRight
    <3>2. IsForm(g) /\ g.role = role /\ g.editing = FALSE /\ g.values = f.values
          /\ g.field = f.field /\ g.row = f.row /\ g.col = f.col + 1
      BY <1>1, <3>1 DEF IsForm
    <3>3. Inside(role, f.values, f.field, f.row, f.col + 1, FALSE)
      BY <1>1, <1>2, <2>1 DEF Inside
    <3> QED
      BY <1>3, <3>2, <3>3
  <2>2. CASE ~(IsTable(f) /\ f.col < Len(Field(f).columns))
    BY <1>1, <1>7, <2>2 DEF MoveRight
  <2> QED
    BY <2>1, <2>2
<1> QED
  BY <1>4, <1>5, <1>6, <1>7

(* Writing another list of rows into a table.                              *)
LEMMA RowsReplaced ==
  ASSUME NEW role \in RoleIDs, NEW values, ValuesFit(role, values),
         NEW i \in DOMAIN values, NEW rows, IsRows(role, i) => IsList(rows)
  PROVE  /\ ValuesFit(role, [values EXCEPT ![i] = rows])
         /\ [values EXCEPT ![i] = rows][i] = rows
<1>1. PICK n \in Nat : DOMAIN values = 1 .. n
  BY ListShape DEF ValuesFit
<1> DEFINE w == [values EXCEPT ![i] = rows]
<1>2. /\ w = [j \in 1 .. n |-> w[j]] /\ w[i] = rows
      /\ \A j \in 1 .. n : j # i => w[j] = values[j]
  BY <1>1
<1> HIDE DEF w
<1>3. IsList(w) /\ DOMAIN w = DOMAIN values
  BY <1>1, <1>2, ListOfFunction
<1>4. \A j \in DOMAIN w : IsRows(role, j) => IsList(w[j])
  BY <1>1, <1>2, <1>3 DEF ValuesFit
<1>5. ValuesFit(role, w) /\ w[i] = rows
  BY <1>2, <1>3, <1>4 DEF ValuesFit
<1> QED
  BY <1>5 DEF w

(* Changing one part of a form leaves the others.                          *)
LEMMA ChangeValues ==
  ASSUME NEW f, IsForm(f), NEW x, NEW g, g = [f EXCEPT !.values = x]
  PROVE  /\ IsForm(g) /\ g.role = f.role /\ g.values = x /\ g.field = f.field /\ g.row = f.row
         /\ g.col = f.col /\ g.editing = f.editing /\ g.buffer = f.buffer
<1>1. f = [role |-> f.role, values |-> f.values, field |-> f.field, row |-> f.row,
           col |-> f.col, editing |-> f.editing, buffer |-> f.buffer]
  BY DEF IsForm
<1>2. g = [role |-> f.role, values |-> x, field |-> f.field, row |-> f.row,
           col |-> f.col, editing |-> f.editing, buffer |-> f.buffer]
  BY <1>1
<1> QED
  BY <1>2 DEF IsForm

(* The same for the row.                                                   *)
LEMMA ChangeRow ==
  ASSUME NEW f, IsForm(f), NEW x, NEW g, g = [f EXCEPT !.row = x]
  PROVE  /\ IsForm(g) /\ g.role = f.role /\ g.values = f.values /\ g.field = f.field /\ g.row = x
         /\ g.col = f.col /\ g.editing = f.editing /\ g.buffer = f.buffer
<1>1. f = [role |-> f.role, values |-> f.values, field |-> f.field, row |-> f.row,
           col |-> f.col, editing |-> f.editing, buffer |-> f.buffer]
  BY DEF IsForm
<1>2. g = [role |-> f.role, values |-> f.values, field |-> f.field, row |-> x,
           col |-> f.col, editing |-> f.editing, buffer |-> f.buffer]
  BY <1>1
<1> QED
  BY <1>2 DEF IsForm

(* The same for the col.                                                   *)
LEMMA ChangeCol ==
  ASSUME NEW f, IsForm(f), NEW x, NEW g, g = [f EXCEPT !.col = x]
  PROVE  /\ IsForm(g) /\ g.role = f.role /\ g.values = f.values /\ g.field = f.field /\ g.row = f.row
         /\ g.col = x /\ g.editing = f.editing /\ g.buffer = f.buffer
<1>1. f = [role |-> f.role, values |-> f.values, field |-> f.field, row |-> f.row,
           col |-> f.col, editing |-> f.editing, buffer |-> f.buffer]
  BY DEF IsForm
<1>2. g = [role |-> f.role, values |-> f.values, field |-> f.field, row |-> f.row,
           col |-> x, editing |-> f.editing, buffer |-> f.buffer]
  BY <1>1
<1> QED
  BY <1>2 DEF IsForm

(* The same for the editing.                                               *)
LEMMA ChangeEditing ==
  ASSUME NEW f, IsForm(f), NEW x, NEW g, g = [f EXCEPT !.editing = x]
  PROVE  /\ IsForm(g) /\ g.role = f.role /\ g.values = f.values /\ g.field = f.field /\ g.row = f.row
         /\ g.col = f.col /\ g.editing = x /\ g.buffer = f.buffer
<1>1. f = [role |-> f.role, values |-> f.values, field |-> f.field, row |-> f.row,
           col |-> f.col, editing |-> f.editing, buffer |-> f.buffer]
  BY DEF IsForm
<1>2. g = [role |-> f.role, values |-> f.values, field |-> f.field, row |-> f.row,
           col |-> f.col, editing |-> x, buffer |-> f.buffer]
  BY <1>1
<1> QED
  BY <1>2 DEF IsForm

(* The same for the buffer.                                                *)
LEMMA ChangeBuffer ==
  ASSUME NEW f, IsForm(f), NEW x, NEW g, g = [f EXCEPT !.buffer = x]
  PROVE  /\ IsForm(g) /\ g.role = f.role /\ g.values = f.values /\ g.field = f.field /\ g.row = f.row
         /\ g.col = f.col /\ g.editing = f.editing /\ g.buffer = x
<1>1. f = [role |-> f.role, values |-> f.values, field |-> f.field, row |-> f.row,
           col |-> f.col, editing |-> f.editing, buffer |-> f.buffer]
  BY DEF IsForm
<1>2. g = [role |-> f.role, values |-> f.values, field |-> f.field, row |-> f.row,
           col |-> f.col, editing |-> f.editing, buffer |-> x]
  BY <1>1
<1> QED
  BY <1>2 DEF IsForm

(* A new row at the end of a table: the cursor is on its first cell.       *)
LEMMA AddRowFits ==
  ASSUME NEW role \in RoleIDs, NEW f, FormFits(role, f), IsTable(f)
  PROVE  /\ FormFits(role, AddRow(f))
         /\ AddRow(f).editing = f.editing /\ AddRow(f).field = f.field
         /\ AddRow(f).row \in 1 .. Len(AddRow(f).values[f.field])
<1> DEFINE rows == Append(f.values[f.field], [c \in DOMAIN Field(f).columns |-> Blank])
           w == [f.values EXCEPT ![f.field] = rows]
           n == Len(Rows(f)) + 1
           a == [f EXCEPT !.values = w]
           b == [a EXCEPT !.row = n]
           g == [b EXCEPT !.col = 1]
<1>1. IsForm(f) /\ f.role = role /\ f.editing \in BOOLEAN /\ ValuesFit(role, f.values)
  BY DEF FormFits
<1>2. /\ IsRows(role, f.field)
      /\ Rows(f) = f.values[f.field] /\ IsList(Rows(f)) /\ Len(Rows(f)) \in Nat
      /\ Width(role, f.field) \in Nat \ {0}
      /\ f.field \in DOMAIN f.values /\ f.field \in DOMAIN Schema[role]
  BY FormParts DEF Inside
<1>3. IsList(rows) /\ Len(rows) = n
  BY <1>2, ListAppend
<1>4. AddRow(f) = g
  BY DEF AddRow
<1>N. n \in Nat \ {0}
  BY <1>2
<1> HIDE DEF rows, n
<1>5. ValuesFit(role, w) /\ w[f.field] = rows
  BY <1>1, <1>2, <1>3, RowsReplaced
<1> HIDE DEF w
<1>6. /\ IsForm(a) /\ a.role = role /\ a.values = w /\ a.field = f.field
      /\ a.col = f.col /\ a.editing = f.editing
  BY <1>1, ChangeValues
<1> HIDE DEF a
<1>7. /\ IsForm(b) /\ b.role = role /\ b.values = w /\ b.field = f.field
      /\ b.row = n /\ b.editing = f.editing
  BY <1>6, ChangeRow
<1> HIDE DEF b
<1>8. /\ IsForm(g) /\ g.role = role /\ g.values = w /\ g.field = f.field
      /\ g.row = n /\ g.col = 1 /\ g.editing = f.editing
  BY <1>7, ChangeCol
<1> HIDE DEF g
<1>9. n \in 1 .. Len(w[f.field])
  BY <1>N, <1>3, <1>5
<1>10. Inside(role, w, f.field, n, 1, f.editing)
  BY <1>2, <1>9 DEF Inside
<1>11. FormFits(role, g)
  BY <1>1, <1>5, <1>8, <1>10, FormFrom
<1> QED
  BY <1>4, <1>8, <1>9, <1>11

(* Without a row, and the cursor moved up when it was the last one.        *)
LEMMA RemoveRowFits ==
  ASSUME NEW role \in RoleIDs, NEW f, FormFits(role, f), ~f.editing, CanRemoveRow(f)
  PROVE  FormFits(role, RemoveRow(f)) /\ RemoveRow(f).editing = FALSE
<1> DEFINE rows == RemoveAt(f.values[f.field], f.row)
           w == [f.values EXCEPT ![f.field] = rows]
           r == IF f.row = Len(Rows(f)) /\ f.row > 1 THEN f.row - 1 ELSE f.row
           a == [f EXCEPT !.values = w]
           g == [a EXCEPT !.row = r]
<1>1. IsForm(f) /\ f.role = role /\ f.editing = FALSE /\ ValuesFit(role, f.values)
  BY DEF FormFits
<1>2. /\ IsRows(role, f.field)
      /\ Rows(f) = f.values[f.field] /\ IsList(Rows(f)) /\ Len(Rows(f)) \in Nat
      /\ f.field \in DOMAIN f.values
      /\ Inside(role, f.values, f.field, f.row, f.col, f.editing)
  BY FormParts DEF Inside, CanRemoveRow
<1>3. f.row \in 1 .. Len(Rows(f))
  BY <1>2 DEF CanRemoveRow, Inside
<1>4. IsList(rows) /\ Len(rows) = Len(Rows(f)) - 1
  BY <1>2, <1>3, ListRemove, ListShape
<1>5. RemoveRow(f) = [f EXCEPT !.values = w, !.row = r]
  BY DEF RemoveRow
<1>6. RemoveRow(f) = g
  BY <1>5
<1> HIDE DEF rows
<1>7. ValuesFit(role, w) /\ w[f.field] = rows
  BY <1>1, <1>2, <1>4, RowsReplaced
<1>8. \/ r \in 1 .. Len(rows)
      \/ r = 1 /\ Len(rows) = 0
  <2> DEFINE k == f.row
             N == Len(Rows(f))
             m == Len(rows)
  <2>1. N \in Nat /\ k \in 1 .. N /\ m = N - 1
    BY <1>2, <1>3, <1>4
  <2>2. r = (IF k = N /\ k > 1 THEN k - 1 ELSE k)
    OBVIOUS
  <2> HIDE DEF k, N, m, r
  <2> QED
    BY <2>1, <2>2 DEF m
<1> HIDE DEF w, r
<1>9. /\ IsForm(a) /\ a.role = role /\ a.values = w /\ a.field = f.field
      /\ a.col = f.col /\ a.editing = FALSE
  BY <1>1, ChangeValues
<1> HIDE DEF a
<1>10. /\ IsForm(g) /\ g.role = role /\ g.values = w /\ g.field = f.field
       /\ g.row = r /\ g.col = f.col /\ g.editing = FALSE
  BY <1>9, ChangeRow
<1> HIDE DEF g
<1>11. Inside(role, w, f.field, r, f.col, FALSE)
  BY <1>2, <1>7, <1>8 DEF Inside
<1>12. FormFits(role, g)
  BY <1>7, <1>10, <1>11, FormFrom
<1> QED
  BY <1>6, <1>10, <1>12

(* Another text in the buffer changes nothing that matters to the cursor.  *)
LEMMA BufferFits ==
  ASSUME NEW role \in RoleIDs, NEW f, FormFits(role, f), NEW x, NEW g, g = [f EXCEPT !.buffer = x]
  PROVE  FormFits(role, g) /\ g.editing = f.editing
<1>1. /\ IsForm(f) /\ f.role = role /\ f.editing \in BOOLEAN /\ ValuesFit(role, f.values)
      /\ Inside(role, f.values, f.field, f.row, f.col, f.editing)
  BY FormParts DEF FormFits
<1>2. /\ IsForm(g) /\ g.role = role /\ g.values = f.values /\ g.field = f.field
      /\ g.row = f.row /\ g.col = f.col /\ g.editing = f.editing
  BY <1>1, ChangeBuffer
<1>3. FormFits(role, g)
  BY <1>1, <1>2, FormFrom
<1> QED
  BY <1>2, <1>3

(* Giving up what is being edited.                                         *)
LEMMA CancelFits ==
  ASSUME NEW role \in RoleIDs, NEW f, FormFits(role, f)
  PROVE  /\ FormFits(role, CancelEdit(f)) /\ CancelEdit(f).editing = FALSE
         /\ CancelEdit(f).values = f.values /\ CancelEdit(f).field = f.field
         /\ CancelEdit(f).row = f.row /\ CancelEdit(f).col = f.col
<1> DEFINE no == FALSE
           a == [f EXCEPT !.editing = no]
           g == [a EXCEPT !.buffer = Blank]
<1>1. /\ IsForm(f) /\ f.role = role /\ f.editing \in BOOLEAN /\ ValuesFit(role, f.values)
      /\ Inside(role, f.values, f.field, f.row, f.col, f.editing)
  BY FormParts DEF FormFits
<1>2. CancelEdit(f) = g
  BY DEF CancelEdit
<1> HIDE DEF no
<1>3. /\ IsForm(a) /\ a.role = role /\ a.values = f.values /\ a.field = f.field
      /\ a.row = f.row /\ a.col = f.col /\ a.editing = no
  BY <1>1, ChangeEditing
<1> HIDE DEF a
<1>4. /\ IsForm(g) /\ g.role = role /\ g.values = f.values /\ g.field = f.field
      /\ g.row = f.row /\ g.col = f.col /\ g.editing = no
  BY <1>3, ChangeBuffer
<1> HIDE DEF g
<1>5. Inside(role, f.values, f.field, f.row, f.col, no)
  BY <1>1 DEF Inside, no
<1>6. no \in BOOLEAN /\ no = FALSE
  BY DEF no
<1>7. FormFits(role, g)
  BY <1>1, <1>4, <1>5, <1>6, FormFrom
<1> QED
  BY <1>2, <1>4, <1>6, <1>7

(* Editing begins where there is a cell: in an empty table on a new row.   *)
LEMMA BeginFits ==
  ASSUME NEW role \in RoleIDs, NEW f, FormFits(role, f), ~f.editing
  PROVE  FormFits(role, BeginEdit(f)) /\ BeginEdit(f).editing = TRUE
<1> DEFINE yes == TRUE
           e == IF IsTable(f) /\ Rows(f) = << >> THEN AddRow(f) ELSE f
           text == IF IsChoice(f)
                   THEN InitialChoice(OfferedOptions([e EXCEPT !.col = f.col]),
                                      Cell([e EXCEPT !.col = f.col]))
                   ELSE Cell([e EXCEPT !.col = f.col])
           a == [e EXCEPT !.editing = yes]
           g == [a EXCEPT !.buffer = text]
<1>1. BeginEdit(f) = g
  BY DEF BeginEdit
<1> HIDE DEF text, yes
<1>2. FormFits(role, e) /\ (IsRows(role, e.field) => e.row \in 1 .. Len(e.values[e.field]))
  <2>1. CASE IsTable(f) /\ Rows(f) = << >>
    <3>1. e = AddRow(f)
      BY <2>1
    <3>2. FormFits(role, AddRow(f)) /\ AddRow(f).field = f.field
          /\ AddRow(f).row \in 1 .. Len(AddRow(f).values[f.field])
      BY <2>1, AddRowFits
    <3> QED
      BY <3>1, <3>2
  <2>2. CASE ~(IsTable(f) /\ Rows(f) = << >>)
    <3>1. e = f
      BY <2>2
    <3>2. /\ IsTable(f) <=> IsRows(role, f.field)
          /\ Rows(f) = f.values[f.field]
          /\ IsRows(role, f.field) => IsList(Rows(f))
          /\ Inside(role, f.values, f.field, f.row, f.col, f.editing)
      BY FormParts
    <3>3. IsRows(role, f.field) => Len(f.values[f.field]) # 0
      BY <2>2, <3>2, ListShape
    <3>4. IsRows(role, f.field) => f.row \in 1 .. Len(f.values[f.field])
      BY <3>2, <3>3 DEF Inside
    <3> HIDE DEF e
    <3> QED
      BY <3>1, <3>4
  <2> QED
    BY <2>1, <2>2
<1> HIDE DEF e
<1>3. /\ IsForm(e) /\ e.role = role /\ ValuesFit(role, e.values)
      /\ Inside(role, e.values, e.field, e.row, e.col, e.editing)
  BY <1>2, FormParts DEF FormFits
<1>4. /\ IsForm(a) /\ a.role = role /\ a.values = e.values /\ a.field = e.field
      /\ a.row = e.row /\ a.col = e.col /\ a.editing = yes
  BY <1>3, ChangeEditing
<1> HIDE DEF a
<1>5. /\ IsForm(g) /\ g.role = role /\ g.values = e.values /\ g.field = e.field
      /\ g.row = e.row /\ g.col = e.col /\ g.editing = yes
  BY <1>4, ChangeBuffer
<1> HIDE DEF g
<1>6. Inside(role, e.values, e.field, e.row, e.col, yes)
  BY <1>2, <1>3 DEF Inside
<1>7. yes \in BOOLEAN /\ yes = TRUE
  BY DEF yes
<1>8. FormFits(role, g)
  BY <1>3, <1>5, <1>6, <1>7, FormFrom
<1> QED
  BY <1>1, <1>5, <1>7, <1>8

(* Writing the buffer to the cell, and going to the next one.              *)
LEMMA CommitFits ==
  ASSUME NEW role \in RoleIDs, NEW f, FormFits(role, f), f.editing = TRUE
  PROVE  FormFits(role, CommitEdit(f)) /\ CommitEdit(f).editing = FALSE
<1> DEFINE cells == [f.values[f.field] EXCEPT ![f.row][f.col] = f.buffer]
           rows == IF IsTable(f) THEN cells ELSE f.buffer
           w == [f.values EXCEPT ![f.field] = rows]
           a == [f EXCEPT !.values = w]
           g == CancelEdit(a)
<1>1. IsForm(f) /\ f.role = role /\ f.editing \in BOOLEAN /\ ValuesFit(role, f.values)
  BY DEF FormFits
<1>2. /\ IsTable(f) <=> IsRows(role, f.field)
      /\ Rows(f) = f.values[f.field]
      /\ IsRows(role, f.field) => IsList(Rows(f)) /\ Len(Rows(f)) \in Nat
      /\ f.field \in DOMAIN f.values /\ f.field \in 1 .. Len(Schema[role])
      /\ Len(Schema[role]) \in Nat
      /\ Inside(role, f.values, f.field, f.row, f.col, f.editing)
  BY FormParts
<1>3. CommitEdit(f) = AdvanceAfterCommit(g)
  <2>1. CASE IsTable(f)
    <3>1. a = [f EXCEPT !.values[f.field][f.row][f.col] = f.buffer]
      BY <2>1
    <3> HIDE DEF a
    <3> QED
      BY <2>1, <3>1 DEF CommitEdit
  <2>2. CASE ~IsTable(f)
    <3>1. a = [f EXCEPT !.values[f.field] = f.buffer]
      BY <2>2
    <3> HIDE DEF a
    <3> QED
      BY <2>2, <3>1 DEF CommitEdit
  <2> QED
    BY <2>1, <2>2
<1>4. IsRows(role, f.field) => IsList(rows) /\ Len(rows) = Len(Rows(f))
  <2> SUFFICES ASSUME IsRows(role, f.field)
               PROVE  IsList(cells) /\ Len(cells) = Len(Rows(f))
    BY <1>2
  <2>1. DOMAIN Rows(f) = 1 .. Len(Rows(f))
    BY <1>2, ListShape
  <2>2. cells = [i \in 1 .. Len(Rows(f)) |-> cells[i]]
    BY <1>2, <2>1
  <2> HIDE DEF cells
  <2> QED
    BY <1>2, <2>2, ListOfFunction
<1> HIDE DEF rows
<1>5. ValuesFit(role, w) /\ w[f.field] = rows
  BY <1>1, <1>2, <1>4, RowsReplaced
<1> HIDE DEF w
<1>6. /\ IsForm(a) /\ a.role = role /\ a.values = w /\ a.field = f.field
      /\ a.row = f.row /\ a.col = f.col /\ a.editing = f.editing
  BY <1>1, ChangeValues
<1> HIDE DEF a
<1>7. Inside(role, w, f.field, f.row, f.col, f.editing)
  BY <1>2, <1>4, <1>5 DEF Inside
<1>8. FormFits(role, a)
  BY <1>1, <1>5, <1>6, <1>7, FormFrom
<1>9. /\ FormFits(role, g) /\ g.editing = FALSE /\ g.values = w
      /\ g.field = f.field /\ g.row = f.row /\ g.col = f.col
  BY <1>6, <1>8, CancelFits
<1> HIDE DEF g
<1>10. FormFits(role, AdvanceAfterCommit(g)) /\ AdvanceAfterCommit(g).editing = FALSE
  <2>1. /\ IsForm(g) /\ g.role = role /\ ValuesFit(role, g.values)
    BY <1>9 DEF FormFits
  <2>2. /\ IsTable(g) <=> IsRows(role, g.field)
        /\ Len(Field(g).columns) = Width(role, g.field)
        /\ IsRows(role, g.field) => Width(role, g.field) \in Nat \ {0}
        /\ Rows(g) = g.values[g.field]
        /\ IsRows(role, g.field) => Len(Rows(g)) \in Nat
        /\ g.field \in 1 .. Len(Schema[role]) /\ Len(Schema[role]) \in Nat
        /\ Inside(role, g.values, g.field, g.row, g.col, g.editing)
    BY <1>9, FormParts
  <2>3. \A h : /\ IsForm(h) /\ h.role = role /\ h.editing = FALSE /\ h.values = g.values
               /\ h.field = g.field /\ Inside(role, g.values, g.field, h.row, h.col, FALSE)
               => FormFits(role, h)
    BY <2>1, FormFrom
  <2>4. CASE IsTable(g) /\ g.col < Len(Field(g).columns)
    <3> DEFINE x == g.col + 1
               h == [g EXCEPT !.col = x]
    <3>1. AdvanceAfterCommit(g) = h
      BY <2>4 DEF AdvanceAfterCommit
    <3>2. Inside(role, g.values, g.field, g.row, x, FALSE)
      BY <1>9, <2>2, <2>4 DEF Inside
    <3> HIDE DEF x
    <3>3. /\ IsForm(h) /\ h.role = role /\ h.editing = FALSE /\ h.values = g.values
          /\ h.field = g.field /\ h.row = g.row /\ h.col = x
      BY <1>9, <2>1, ChangeCol
    <3> HIDE DEF h
    <3> QED
      BY <2>3, <3>1, <3>2, <3>3
  <2>5. CASE IsTable(g) /\ g.col = Len(Field(g).columns) /\ g.row < Len(Rows(g))
    <3> DEFINE x == g.row + 1
               k == [g EXCEPT !.row = x]
               h == [k EXCEPT !.col = 1]
    <3>1. AdvanceAfterCommit(g) = h
      BY <2>2, <2>5 DEF AdvanceAfterCommit, Inside
    <3>2. Inside(role, g.values, g.field, x, 1, FALSE)
      BY <1>9, <2>2, <2>5 DEF Inside
    <3> HIDE DEF x
    <3>3. /\ IsForm(k) /\ k.role = role /\ k.editing = FALSE /\ k.values = g.values
          /\ k.field = g.field /\ k.row = x
      BY <1>9, <2>1, ChangeRow
    <3> HIDE DEF k
    <3>4. /\ IsForm(h) /\ h.role = role /\ h.editing = FALSE /\ h.values = g.values
          /\ h.field = g.field /\ h.row = x /\ h.col = 1
      BY <3>3, ChangeCol
    <3> HIDE DEF h
    <3> QED
      BY <2>3, <3>1, <3>2, <3>4
  <2>6. CASE ~IsTable(g)
    <3>1. AdvanceAfterCommit(g) = FieldBelow(g)
      BY <2>6 DEF AdvanceAfterCommit
    <3>2. CASE g.field < Len(Schema[role])
      <4> DEFINE x == g.field + 1
      <4>1. FieldBelow(g) = FocusField(g, x) /\ x \in 1 .. Len(Schema[role])
        BY <2>1, <2>2, <3>2 DEF FieldBelow
      <4> HIDE DEF x
      <4>2. FormFits(role, FocusField(g, x)) /\ FocusField(g, x).editing = FALSE
        BY <1>9, <4>1, FocusFits
      <4> QED
        BY <3>1, <4>1, <4>2
    <3>3. CASE ~(g.field < Len(Schema[role]))
      BY <1>9, <2>1, <3>1, <3>3 DEF FieldBelow
    <3> QED
      BY <3>2, <3>3
  <2>7. CASE /\ IsTable(g) /\ ~(g.col < Len(Field(g).columns))
             /\ ~(g.col = Len(Field(g).columns) /\ g.row < Len(Rows(g)))
    BY <1>9, <2>7 DEF AdvanceAfterCommit
  <2> QED
    BY <2>4, <2>5, <2>6, <2>7
<1> QED
  BY <1>3, <1>10

(* The values a form is opened with fit its schema.                        *)
LEMMA SeedFits ==
  ASSUME NEW role \in RoleIDs, NEW acc, acc = << >> \/ ValuesFit(role, acc)
  PROVE  ValuesFit(role, SeedValues(role, acc))
<1>1. SchemaShape(role)
  BY SchemaFits
<1>2. PICK n \in Nat : DOMAIN Schema[role] = 1 .. n
  BY <1>1 DEF SchemaShape
<1>3. CASE acc # << >>
  BY <1>3 DEF SeedValues
<1>4. CASE acc = << >> /\ role = "finance"
  <2>1. SeedValues(role, acc) = Append(ActiveTargets, Blank)
    BY <1>4 DEF SeedValues
  <2>2. IsList(ActiveTargets) /\ Len(ActiveTargets) = 5
    BY TextAssumption DEF IsList
  <2>7. \A x : IsList(Append(ActiveTargets, x)) /\ Len(Append(ActiveTargets, x)) = Len(ActiveTargets) + 1
    BY <2>2, ListAppend
  <2>3. IsList(Append(ActiveTargets, Blank)) /\ Len(Append(ActiveTargets, Blank)) = 6
    BY <2>2, <2>7
  <2>4. DOMAIN Append(ActiveTargets, Blank) = 1 .. 6
    BY <2>3, ListShape
  <2>5. Schema[role] = financeSchema
    BY <1>4 DEF Schema
  <2>6. DOMAIN financeSchema = 1 .. 6
        /\ \A i \in 1 .. 6 : financeSchema[i].kind # "rows"
    BY DEF financeSchema, integerField, commentaryField
  <2> QED
    BY <2>1, <2>3, <2>4, <2>5, <2>6 DEF ValuesFit, IsRows
<1>5. CASE acc = << >> /\ role # "finance"
  <2> DEFINE w == EmptyValues(role)
  <2>1. SeedValues(role, acc) = w
    BY <1>5 DEF SeedValues
  <2>2. /\ w = [i \in 1 .. n |-> w[i]]
        /\ \A i \in 1 .. n : Schema[role][i].kind = "rows" => w[i] = << >>
    BY <1>2 DEF EmptyValues
  <2> HIDE DEF w
  <2>3. IsList(w) /\ DOMAIN w = 1 .. n
    BY <2>2, ListOfFunction
  <2>4. IsList(<< >>)
    BY DEF IsList
  <2> QED
    BY <1>2, <2>1, <2>2, <2>3, <2>4 DEF ValuesFit, IsRows
<1> QED
  BY <1>3, <1>4, <1>5

(* A form that is opened fits.                                             *)
LEMMA NewFormFits ==
  ASSUME NEW role \in RoleIDs, NEW values, ValuesFit(role, values)
  PROVE  FormFits(role, NewForm(role, values)) /\ NewForm(role, values).editing = FALSE
<1> DEFINE no == FALSE
           g == [role |-> role, values |-> values, field |-> 1, row |-> 1, col |-> 1,
                 editing |-> no, buffer |-> Blank]
<1>1. NewForm(role, values) = g
  BY DEF NewForm
<1> HIDE DEF no
<1>2. /\ IsForm(g) /\ g.role = role /\ g.values = values /\ g.field = 1
      /\ g.row = 1 /\ g.col = 1 /\ g.editing = no
  BY DEF IsForm
<1> HIDE DEF g
<1>3. SchemaShape(role)
  BY SchemaFits
<1>4. 1 \in DOMAIN Schema[role] /\ (IsRows(role, 1) => Width(role, 1) \in Nat \ {0})
  BY <1>3 DEF SchemaShape, IsRows, Width
<1>5. IsRows(role, 1) => Len(values[1]) \in Nat
  BY <1>4, ListShape DEF ValuesFit
<1>6. no \in BOOLEAN /\ no = FALSE
  BY DEF no
<1>7. Inside(role, values, 1, 1, 1, no)
  BY <1>4, <1>5, <1>6 DEF Inside
<1>8. FormFits(role, g)
  BY <1>2, <1>6, <1>7, FormFrom
<1> QED
  BY <1>1, <1>2, <1>6, <1>8

(* A form that passes the parse and the checks of the schema is an action  *)
(* that the match can act on.                                              *)
LEMMA SubmittableSendable ==
  ASSUME NEW role \in RoleIDs, NEW f, FormFits(role, f), Submittable(f)
  PROVE  Sendable(role, f.values)
<1> DEFINE v == f.values
           n == Len(Schema[role])
<1>1. f.role = role /\ IsList(v) /\ DOMAIN v = DOMAIN Schema[role]
  BY DEF FormFits, ValuesFit
<1>2. SchemaShape(role)
  BY SchemaFits
<1>3. n \in Nat \ {0} /\ DOMAIN v = 1 .. n
  BY <1>1, <1>2 DEF SchemaShape
<1>4. Len(v) = n
  BY <1>1, <1>3, ListShape
<1>5. \A i \in 1 .. n :
        IF Schema[role][i].kind # "rows" THEN ParsesAs(Schema[role][i].kind, v[i])
        ELSE \A r \in DOMAIN v[i] : \A c \in DOMAIN Schema[role][i].columns :
               ParsesAs(Schema[role][i].columns[c].kind, v[i][r][c])
  BY <1>1, <1>3 DEF Submittable, Parses
<1>6. \A i \in 1 .. n : Schema[role][i].kind = "rows" =>
        \A r \in DOMAIN v[i] : \A c \in DOMAIN Schema[role][i].columns :
          Schema[role][i].columns[c].kind = "choice" =>
            v[i][r][c] \in ToSet(OptionsOf(Schema[role][i].columns[c], v[i][r]))
  BY <1>1, <1>3 DEF Submittable, ValidRoleAction, ChoicesAllowed
<1>7. Last(v) = v[n]
  BY <1>4 DEF Last
<1> HIDE DEF v, n
<1>8. /\ integerField.kind = "integer" /\ commentaryField.kind = "text"
      /\ \A columns : Table(columns).kind = "rows" /\ Table(columns).columns = columns
      /\ \A o : Choice(o).kind = "choice" /\ Choice(o).dependsOn = 0 /\ Choice(o).options = o
      /\ Integer.kind = "integer"
  BY DEF integerField, commentaryField, Table, Choice, Integer
<1>9. \A text : /\ ParsesAs("integer", text) => text \in Numbers
                /\ ParsesAs("text", text) => text # Blank
  BY DEF ParsesAs
<1>10. \A o, row : OptionsOf(Choice(o), row) = o
  BY <1>8 DEF OptionsOf
<1>11. CASE role = "procurement"
  <2> DEFINE cs == <<Choice(PartIDs), DependentChoice(1, SuppliersOf), Integer>>
  <2>1. /\ n = 2 /\ Schema[role] = procurementSchema
        /\ Schema[role][1] = Table(cs) /\ Schema[role][2] = commentaryField
    BY <1>11 DEF Schema, procurementSchema, n
  <2>2. /\ DOMAIN cs = 1 .. 3 /\ cs[1] = Choice(PartIDs)
        /\ cs[2] = DependentChoice(1, SuppliersOf) /\ cs[3] = Integer
    OBVIOUS
  <2>3. /\ cs[2].kind = "choice" /\ cs[2].dependsOn = 1 /\ cs[2].options = SuppliersOf
    BY <2>2 DEF DependentChoice
  <2> HIDE DEF cs
  <2>4. v[2] # Blank
    BY <1>3, <1>5, <1>8, <1>9, <2>1
  <2>5. ASSUME NEW r \in DOMAIN v[1]
        PROVE  /\ v[1][r][1] \in ToSet(PartIDs)
               /\ v[1][r][2] \in ToSet(SuppliersOf[v[1][r][1]])
               /\ v[1][r][3] \in Numbers
    <3>1. 1 \in 1 .. n /\ Schema[role][1].kind = "rows" /\ Schema[role][1].columns = cs
      BY <1>8, <2>1
    <3>2. v[1][r][1] \in ToSet(PartIDs)
      BY <1>6, <1>8, <1>10, <2>2, <3>1
    <3>3. v[1][r][2] \in ToSet(OptionsOf(cs[2], v[1][r]))
      BY <1>6, <2>2, <2>3, <3>1
    <3>4. OptionsOf(cs[2], v[1][r]) =
            IF v[1][r][1] \in DOMAIN SuppliersOf THEN SuppliersOf[v[1][r][1]] ELSE << >>
      BY <2>3 DEF OptionsOf
    <3>5. ToSet(<< >>) = {}
      BY DEF ToSet
    <3>6. v[1][r][2] \in ToSet(SuppliersOf[v[1][r][1]])
      BY <3>3, <3>4, <3>5
    <3>7. v[1][r][3] \in Numbers
      BY <1>5, <1>8, <1>9, <2>2, <3>1
    <3> QED
      BY <3>2, <3>6, <3>7
  <2> QED
    BY <1>7, <1>11, <2>1, <2>4, <2>5 DEF Sendable, v
<1>12. CASE role = "production"
  <2> DEFINE cs == <<Choice(ProductIDs), Integer>>
             ds == <<Choice(WorkstationIDs), Choice(ProductIDs), Integer>>
             es == <<Choice(WorkstationIDs), Integer>>
  <2>1. /\ n = 4 /\ Schema[role][1] = Table(cs) /\ Schema[role][2] = Table(ds)
        /\ Schema[role][3] = Table(es) /\ Schema[role][4] = commentaryField
    BY <1>12 DEF Schema, productionSchema, n
  <2>2. /\ DOMAIN cs = 1 .. 2 /\ cs[1] = Choice(ProductIDs) /\ cs[2] = Integer
        /\ DOMAIN ds = 1 .. 3 /\ ds[1] = Choice(WorkstationIDs) /\ ds[2] = Choice(ProductIDs)
        /\ ds[3] = Integer
        /\ DOMAIN es = 1 .. 2 /\ es[1] = Choice(WorkstationIDs) /\ es[2] = Integer
    OBVIOUS
  <2> HIDE DEF cs, ds, es
  <2>3. v[4] # Blank
    BY <1>5, <1>8, <1>9, <2>1
  <2>4. ASSUME NEW r \in DOMAIN v[1]
        PROVE  v[1][r][1] \in ToSet(ProductIDs) /\ v[1][r][2] \in Numbers
    <3>1. 1 \in 1 .. n /\ Schema[role][1].kind = "rows" /\ Schema[role][1].columns = cs
      BY <1>8, <2>1
    <3>2. v[1][r][1] \in ToSet(ProductIDs)
      BY <1>6, <1>8, <1>10, <2>2, <3>1
    <3>3. v[1][r][2] \in Numbers
      BY <1>5, <1>8, <1>9, <2>2, <3>1
    <3> QED
      BY <3>2, <3>3
  <2>5. ASSUME NEW r \in DOMAIN v[2]
        PROVE  /\ v[2][r][1] \in ToSet(WorkstationIDs)
               /\ v[2][r][2] \in ToSet(ProductIDs) /\ v[2][r][3] \in Numbers
    <3>1. 2 \in 1 .. n /\ Schema[role][2].kind = "rows" /\ Schema[role][2].columns = ds
      BY <1>8, <2>1
    <3>2. v[2][r][1] \in ToSet(WorkstationIDs)
      BY <1>6, <1>8, <1>10, <2>2, <3>1
    <3>3. v[2][r][2] \in ToSet(ProductIDs)
      BY <1>6, <1>8, <1>10, <2>2, <3>1
    <3>4. v[2][r][3] \in Numbers
      BY <1>5, <1>8, <1>9, <2>2, <3>1
    <3> QED
      BY <3>2, <3>3, <3>4
  <2>6. ASSUME NEW r \in DOMAIN v[3]
        PROVE  v[3][r][1] \in ToSet(WorkstationIDs) /\ v[3][r][2] \in Numbers
    <3>1. 3 \in 1 .. n /\ Schema[role][3].kind = "rows" /\ Schema[role][3].columns = es
      BY <1>8, <2>1
    <3>2. v[3][r][1] \in ToSet(WorkstationIDs)
      BY <1>6, <1>8, <1>10, <2>2, <3>1
    <3>3. v[3][r][2] \in Numbers
      BY <1>5, <1>8, <1>9, <2>2, <3>1
    <3> QED
      BY <3>2, <3>3
  <2> QED
    BY <1>7, <1>12, <2>1, <2>3, <2>4, <2>5, <2>6 DEF Sendable, v
<1>13. CASE role = "sales"
  <2> DEFINE cs == <<Choice(ProductIDs), Integer>>
  <2>1. /\ n = 2 /\ Schema[role][1] = Table(cs) /\ Schema[role][2] = commentaryField
    BY <1>13 DEF Schema, salesSchema, n
  <2>2. DOMAIN cs = 1 .. 2 /\ cs[1] = Choice(ProductIDs) /\ cs[2] = Integer
    OBVIOUS
  <2> HIDE DEF cs
  <2>3. v[2] # Blank
    BY <1>5, <1>8, <1>9, <2>1
  <2>4. ASSUME NEW r \in DOMAIN v[1]
        PROVE  v[1][r][1] \in ToSet(ProductIDs) /\ v[1][r][2] \in Numbers
    <3>1. 1 \in 1 .. n /\ Schema[role][1].kind = "rows" /\ Schema[role][1].columns = cs
      BY <1>8, <2>1
    <3>2. v[1][r][1] \in ToSet(ProductIDs)
      BY <1>6, <1>8, <1>10, <2>2, <3>1
    <3>3. v[1][r][2] \in Numbers
      BY <1>5, <1>8, <1>9, <2>2, <3>1
    <3> QED
      BY <3>2, <3>3
  <2> QED
    BY <1>7, <1>13, <2>1, <2>3, <2>4 DEF Sendable, v
<1>14. CASE role = "finance"
  <2>1. Schema[role] = financeSchema
    BY <1>14 DEF Schema
  <2>2. DOMAIN financeSchema = 1 .. 6 /\ financeSchema[6] = commentaryField
        /\ \A i \in 1 .. 5 : financeSchema[i] = integerField
    BY DEF financeSchema
  <2>6. financeSchema = [i \in 1 .. 6 |-> financeSchema[i]]
    BY DEF financeSchema
  <2>3. n = 6
    BY <2>1, <2>6, ListOfFunction DEF n
  <2>4. v[6] # Blank
    BY <1>5, <1>8, <1>9, <2>1, <2>2, <2>3
  <2>5. \A i \in 1 .. 5 : v[i] \in Numbers
    BY <1>5, <1>8, <1>9, <2>1, <2>2, <2>3
  <2> QED
    BY <1>7, <1>14, <2>3, <2>4, <2>5 DEF Sendable, v
<1> QED
  BY <1>11, <1>12, <1>13, <1>14, Roles

-----------------------------------------------------------------------------
(* The tree of the inspector.                                              *)

ShownFits(shown) == IsList(shown.rounds) /\ IsList(shown.calls)

(* No node above it is folded, and its round is one that is retained.      *)
Drawn(shown, expanded, id) ==
  /\ IsList(id)
  /\ \A n \in 1 .. Len(id) - 1 : Expanded(expanded, SubSeq(id, 1, n))
  /\ Len(id) > 1 /\ id[1] = "inspection" => id[2] \in ToSet(shown.rounds)

(* A path, as far as it goes.                                              *)
LEMMA PathPrefix ==
  ASSUME NEW id, IsList(id)
  PROVE  /\ SubSeq(id, 1, Len(id)) = id
         /\ \A n \in 1 .. Len(id) : \A x : SubSeq(Append(id, x), 1, n) = SubSeq(id, 1, n)
         /\ \A n \in 1 .. Len(id) : Len(SubSeq(id, 1, n)) = n
<1>1. PICK S : id \in Seq(S)
  BY DEF IsList
<1>2. SubSeq(id, 1, Len(id)) = id
  BY <1>1, SubSeqFull
<1>3. ASSUME NEW n \in 1 .. Len(id), NEW x
      PROVE  SubSeq(Append(id, x), 1, n) = SubSeq(id, 1, n)
  <2> DEFINE T == S \cup {x}
  <2>1. id \in Seq(T) /\ <<x>> \in Seq(T) /\ Append(id, x) = id \o <<x>>
    BY <1>1
  <2> HIDE DEF T
  <2>2. 1 \in 1 .. Len(id) + 1 /\ n \in 1 - 1 .. Len(id) /\ Len(id) \in Nat
    BY <1>1
  <2>3. SubSeq(id \o <<x>>, 1, n) = SubSeq(id, 1, n)
    BY <2>1, <2>2, SubSeqOfConcat1
  <2> QED
    BY <2>1, <2>3
<1>4. \A n \in 1 .. Len(id) : Len(SubSeq(id, 1, n)) = n
  BY <1>1
<1> QED
  BY <1>2, <1>3, <1>4

(* The parent of a path: one shorter, and with the same nodes above it.    *)
LEMMA PathParent ==
  ASSUME NEW id, IsList(id), Len(id) > 1
  PROVE  /\ IsList(Front(id)) /\ Len(Front(id)) = Len(id) - 1
         /\ \A n \in 1 .. Len(Front(id)) : SubSeq(Front(id), 1, n) = SubSeq(id, 1, n)
         /\ \A n \in 1 .. Len(Front(id)) : Front(id)[n] = id[n]
<1>1. PICK S : id \in Seq(S)
  BY DEF IsList
<1>2. Len(id) \in Nat
  BY <1>1
<1>3. /\ Front(id) \in Seq(S) /\ Len(Front(id)) = Len(id) - 1
      /\ \A n \in 1 .. Len(Front(id)) : Front(id)[n] = id[n]
  BY <1>1, <1>2 DEF Front
<1>4. ASSUME NEW n \in 1 .. Len(Front(id)) PROVE SubSeq(Front(id), 1, n) = SubSeq(id, 1, n)
  <2>1. SubSeq(Front(id), 1, n) \in Seq(S) /\ Len(SubSeq(Front(id), 1, n)) = n
        /\ \A k \in 1 .. n : SubSeq(Front(id), 1, n)[k] = Front(id)[k]
    BY <1>3
  <2>2. SubSeq(id, 1, n) \in Seq(S) /\ Len(SubSeq(id, 1, n)) = n
        /\ \A k \in 1 .. n : SubSeq(id, 1, n)[k] = id[k]
    BY <1>1, <1>2, <1>3
  <2>3. \A k \in 1 .. n : SubSeq(Front(id), 1, n)[k] = SubSeq(id, 1, n)[k]
    BY <1>2, <1>3, <2>1, <2>2
  <2> DEFINE s == SubSeq(Front(id), 1, n)
             t == SubSeq(id, 1, n)
  <2> HIDE DEF s, t
  <2>4. s = t
    BY <2>1, <2>2, <2>3, SeqEqual DEF s, t
  <2> QED
    BY <2>4 DEF s, t
<1> QED
  BY <1>1, <1>3, <1>4 DEF IsList

(* Below a node that is drawn and unfolded nodes are drawn.                *)
LEMMA BelowDrawn ==
  ASSUME NEW shown, NEW expanded, NEW id, Drawn(shown, expanded, id), Len(id) > 0,
         Expanded(expanded, id), NEW x, id = <<"inspection">> => x \in ToSet(shown.rounds)
  PROVE  Drawn(shown, expanded, Append(id, x)) /\ Len(Append(id, x)) > 1
<1> DEFINE t == Append(id, x)
<1>1. IsList(id) /\ Len(id) \in Nat
  BY ListShape DEF Drawn
<1>2. /\ IsList(t) /\ Len(t) = Len(id) + 1 /\ t[Len(id) + 1] = x
      /\ \A i \in 1 .. Len(id) : t[i] = id[i]
  BY <1>1, ListAppend, ListShape
<1>3. /\ SubSeq(id, 1, Len(id)) = id
      /\ \A n \in 1 .. Len(id) : SubSeq(t, 1, n) = SubSeq(id, 1, n)
  BY <1>1, PathPrefix
<1> HIDE DEF t
<1>4. ASSUME NEW n \in 1 .. Len(t) - 1 PROVE Expanded(expanded, SubSeq(t, 1, n))
  <2>1. n \in 1 .. Len(id)
    BY <1>1, <1>2
  <2>2. CASE n = Len(id)
    BY <1>3, <2>1, <2>2
  <2>3. CASE n # Len(id)
    <3>1. n \in 1 .. Len(id) - 1
      BY <1>1, <2>1, <2>3
    <3>2. Expanded(expanded, SubSeq(id, 1, n))
      BY <3>1 DEF Drawn
    <3> QED
      BY <1>3, <2>1, <3>2
  <2> QED
    BY <2>2, <2>3
<1>5. ASSUME t[1] = "inspection" PROVE t[2] \in ToSet(shown.rounds)
  <2>1. id[1] = "inspection"
    BY <1>1, <1>2, <1>5
  <2>2. CASE Len(id) = 1
    <3>1. id = <<"inspection">>
      <4>1. PICK S : id \in Seq(S)
        BY <1>1 DEF IsList
      <4> QED
        BY <2>1, <2>2, <4>1
    <3> QED
      BY <1>2, <2>2, <3>1
  <2>3. CASE Len(id) > 1
    BY <1>1, <1>2, <2>1, <2>3 DEF Drawn
  <2>4. Len(id) = 1 \/ Len(id) > 1
    BY <1>1
  <2> QED
    BY <2>2, <2>3, <2>4
<1> QED
  BY <1>1, <1>2, <1>4, <1>5 DEF Drawn, t

(* The nodes under a node are its path and a name.                         *)
LEMMA UnderNames ==
  ASSUME NEW id, NEW names, IsList(names)
  PROVE  /\ IsList(Under(id, names))
         /\ \A i \in DOMAIN Under(id, names) :
              i \in DOMAIN names /\ Under(id, names)[i] = Append(id, names[i])
<1> DEFINE u == Under(id, names)
           n == Len(names)
<1>1. n \in Nat /\ DOMAIN names = 1 .. n
  BY ListShape
<1>2. u = [i \in 1 .. n |-> Append(id, names[i])]
  BY <1>1 DEF Under
<1> HIDE DEF u, n
<1>3. u = [i \in 1 .. n |-> u[i]] /\ DOMAIN u = 1 .. n
      /\ \A i \in 1 .. n : u[i] = Append(id, names[i])
  BY <1>2
<1>4. IsList(u)
  BY <1>1, <1>3, ListOfFunction
<1> QED
  BY <1>1, <1>3, <1>4 DEF u

(* Three names in a list.                                                  *)
LEMMA ListOfThree == \A a, b, c : IsList(<<a, b, c>>)
<1> TAKE a, b, c
<1>1. <<a, b, c>> \in Seq({a, b, c})
  OBVIOUS
<1>2. \E S : <<a, b, c>> \in Seq(S)
  BY <1>1
<1> QED
  BY <1>2 DEF IsList

(* One name, or one node, in a list.                                       *)
LEMMA ListOfOne == \A a : IsList(<<a>>) /\ DOMAIN <<a>> = {1} /\ <<a>>[1] = a
<1> TAKE a
<1>1. <<a>> \in Seq({a})
  OBVIOUS
<1>2. \E S : <<a>> \in Seq(S)
  BY <1>1
<1> QED
  BY <1>2 DEF IsList

(* The names of the nodes are lists.                                       *)
LEMMA NamesAreLists ==
  ASSUME NEW shown, ShownFits(shown)
  PROVE  /\ IsList(Reverse(shown.rounds))
         /\ \A i \in DOMAIN Reverse(shown.rounds) : Reverse(shown.rounds)[i] \in ToSet(shown.rounds)
         /\ IsList(NewestFirst(RoundsOf(shown.calls)))
         /\ \A r : IsList(AttemptsIn(shown.calls, r))
<1>1. /\ Len(shown.rounds) \in Nat /\ DOMAIN shown.rounds = 1 .. Len(shown.rounds)
      /\ Len(shown.calls) \in Nat /\ DOMAIN shown.calls = 1 .. Len(shown.calls)
  BY ListShape DEF ShownFits
<1>2. IsFiniteSet(DOMAIN shown.calls)
  BY <1>1, FS_Interval
<1>3. /\ IsList(Reverse(shown.rounds))
      /\ \A i \in DOMAIN Reverse(shown.rounds) : Reverse(shown.rounds)[i] \in ToSet(shown.rounds)
  <2> DEFINE s == shown.rounds
             n == Len(s)
             t == Reverse(s)
  <2>1. t = [i \in 1 .. n |-> s[n - i + 1]]
    BY DEF Reverse
  <2>2. n \in Nat /\ DOMAIN s = 1 .. n
    BY <1>1
  <2> HIDE DEF t, n, s
  <2>3. t = [i \in 1 .. n |-> t[i]] /\ DOMAIN t = 1 .. n
    BY <2>1
  <2>4. IsList(t)
    BY <2>2, <2>3, ListOfFunction
  <2>5. ASSUME NEW i \in 1 .. n PROVE t[i] \in ToSet(s)
    <3>1. n - i + 1 \in DOMAIN s
      BY <2>2
    <3> QED
      BY <2>1, <3>1 DEF ToSet
  <2> QED
    BY <2>3, <2>4, <2>5 DEF t, s
<1>4. IsList(NewestFirst(RoundsOf(shown.calls)))
  <2> DEFINE R == RoundsOf(shown.calls)
             t == NewestFirst(R)
             n == Cardinality(R)
  <2>1. IsFiniteSet(R)
    <3> DEFINE f == [i \in DOMAIN shown.calls |-> shown.calls[i].round]
    <3>1. f \in Surjection(DOMAIN shown.calls, R)
      BY DEF RoundsOf, Surjection
    <3> QED
      BY <1>2, <3>1, FS_Surjection
  <2>2. n \in Nat
    BY <2>1, FS_CardinalityType
  <2>3. t = [k \in 1 .. n |-> t[k]]
    BY DEF NewestFirst
  <2> HIDE DEF t, n
  <2>4. IsList(t)
    BY <2>2, <2>3, ListOfFunction
  <2> QED
    BY <2>4 DEF t
<1>5. ASSUME NEW r PROVE IsList(AttemptsIn(shown.calls, r))
  <2> DEFINE P == {i \in DOMAIN shown.calls : shown.calls[i].round = r}
             t == AttemptsIn(shown.calls, r)
             n == Cardinality(P)
  <2>1. IsFiniteSet(P)
    BY <1>2, FS_Subset
  <2>2. n \in Nat
    BY <2>1, FS_CardinalityType
  <2>3. t = [k \in 1 .. n |-> t[k]]
    BY DEF AttemptsIn
  <2> HIDE DEF t, n
  <2>4. IsList(t)
    BY <2>2, <2>3, ListOfFunction
  <2> QED
    BY <2>4 DEF t
<1> QED
  BY <1>3, <1>4, <1>5

(* The nodes under a node are one name longer; under the inspection the    *)
(* names are the rounds that are retained.                                 *)
LEMMA ChildrenOf ==
  ASSUME NEW shown, ShownFits(shown), NEW id, id # << >>
  PROVE  /\ IsList(Children(shown, id))
         /\ \A i \in DOMAIN Children(shown, id) :
              \E x : /\ Children(shown, id)[i] = Append(id, x)
                     /\ id = <<"inspection">> => x \in ToSet(shown.rounds)
<1> DEFINE c == Children(shown, id)
<1>1. \A names : IsList(names) /\ c = Under(id, names) /\ id # <<"inspection">> =>
        IsList(c) /\ \A i \in DOMAIN c : c[i] = Append(id, names[i])
  BY UnderNames
<1>2. CASE c = << >>
  BY <1>2 DEF IsList
<1>3. CASE id = <<"inspection">>
  <2>1. c = Under(id, Reverse(shown.rounds))
    BY <1>3 DEF Children
  <2> DEFINE names == Reverse(shown.rounds)
  <2>2. IsList(names) /\ \A i \in DOMAIN names : names[i] \in ToSet(shown.rounds)
    BY NamesAreLists
  <2> HIDE DEF names
  <2>3. IsList(Under(id, names))
        /\ \A i \in DOMAIN Under(id, names) :
             i \in DOMAIN names /\ Under(id, names)[i] = Append(id, names[i])
    BY <2>2, UnderNames
  <2>4. IsList(c) /\ \A i \in DOMAIN c : i \in DOMAIN names /\ c[i] = Append(id, names[i])
    BY <2>1, <2>3 DEF names
  <2> HIDE DEF c
  <2> QED
    BY <2>2, <2>4 DEF c
<1>4. CASE id # <<"inspection">> /\ c # << >>
  <2>1. \E names : IsList(names) /\ c = Under(id, names)
    <3>1. \/ c = Under(id, NewestFirst(RoundsOf(shown.calls)))
          \/ c = Under(id, <<"action", "state", "timeline">>)
          \/ c = Under(id, AttemptsIn(shown.calls, id[2]))
          \/ c = Under(id, <<"status", "request", "response">>)
          \/ c = Under(id, <<"detail">>)
      BY <1>4 DEF Children
    <3> HIDE DEF c
    <3> QED
      BY <3>1, NamesAreLists, ListOfThree, ListOfOne
  <2> HIDE DEF c
  <2> QED
    BY <1>1, <1>4, <2>1 DEF c
<1> QED
  BY <1>2, <1>3, <1>4

(* The roots of the tree.                                                  *)
LEMMA RootsOf ==
  ASSUME NEW shown
  PROVE  /\ IsList(Children(shown, << >>))
         /\ \A i \in DOMAIN Children(shown, << >>) :
              Children(shown, << >>)[i] \in {<<"inspection">>, <<"traces">>}
<1> DEFINE a == IF shown.rounds = << >> THEN << >> ELSE <<<<"inspection">>>>
           b == IF shown.calls = << >> THEN << >> ELSE <<<<"traces">>>>
<1>1. Children(shown, << >>) = a \o b
  BY DEF Children
<1>2. IsList(a) /\ \A i \in DOMAIN a : a[i] = <<"inspection">>
  <2>1. IsList(<< >>) /\ DOMAIN << >> = {}
    BY DEF IsList
  <2> QED
    BY <2>1, ListOfOne
<1>3. IsList(b) /\ \A i \in DOMAIN b : b[i] = <<"traces">>
  <2>1. IsList(<< >>) /\ DOMAIN << >> = {}
    BY DEF IsList
  <2> QED
    BY <2>1, ListOfOne
<1> HIDE DEF a, b
<1>4. IsList(a \o b)
      /\ \A i \in DOMAIN (a \o b) :
           (\E j \in DOMAIN a : (a \o b)[i] = a[j]) \/ (\E j \in DOMAIN b : (a \o b)[i] = b[j])
  BY <1>2, <1>3, ListConcat
<1> QED
  BY <1>1, <1>2, <1>3, <1>4

(* The walk over the tree, up to its m-th step.                            *)
StepsOf(shown, expanded, walk, m) ==
  [n \in 0 .. m |-> IF n = 0 THEN [drawn |-> << >>, todo |-> Children(shown, << >>)]
                    ELSE Visit(shown, expanded, walk[n - 1])]

(* There is a walk of any number of steps.                                 *)
LEMMA WalkExists ==
  ASSUME NEW shown, NEW expanded, NEW N \in Nat
  PROVE  \E walk : walk = StepsOf(shown, expanded, walk, N)
<1> DEFINE T == {m \in Nat : ~\E walk : walk = StepsOf(shown, expanded, walk, m)}
<1>1. T = {}
  <2> SUFFICES ASSUME T # {} PROVE FALSE
    OBVIOUS
  <2>1. PICK m \in T : \A k \in T : m <= k
    BY Smallest
  <2>2. m \in Nat /\ ~\E walk : walk = StepsOf(shown, expanded, walk, m)
    BY <2>1
  <2>3. CASE m = 0
    <3> DEFINE walk == StepsOf(shown, expanded, << >>, 0)
    <3>1. \A w : StepsOf(shown, expanded, w, 0) =
                   [n \in 0 .. 0 |-> [drawn |-> << >>, todo |-> Children(shown, << >>)]]
      BY DEF StepsOf
    <3>2. walk = StepsOf(shown, expanded, walk, 0)
      BY <3>1
    <3> QED
      BY <2>2, <2>3, <3>2
  <2>4. CASE m # 0
    <3>1. m - 1 \in Nat /\ m - 1 \notin T
      <4> HIDE DEF T
      <4> QED
        BY <2>1, <2>2, <2>4
    <3>2. PICK w : w = StepsOf(shown, expanded, w, m - 1)
      BY <3>1
    <3> DEFINE walk == StepsOf(shown, expanded, w, m)
    <3>3. \A n \in 0 .. m - 1 : walk[n] = w[n]
      BY <2>2, <3>2 DEF StepsOf
    <3>4. \A n \in 1 .. m : n - 1 \in 0 .. m - 1
      BY <2>2
    <3> HIDE DEF walk
    <3>5. \A n \in 1 .. m : walk[n - 1] = w[n - 1]
      BY <3>3, <3>4
    <3>6. StepsOf(shown, expanded, walk, m) = StepsOf(shown, expanded, w, m)
      BY <2>2, <3>5 DEF StepsOf
    <3>7. walk = StepsOf(shown, expanded, walk, m)
      BY <3>6 DEF walk
    <3> QED
      BY <2>2, <3>7
  <2> QED
    BY <2>3, <2>4
<1> QED
  BY <1>1

(* The walk satisfies the equation that defines it.                        *)
LEMMA WalkSteps ==
  ASSUME NEW shown, ShownFits(shown), NEW expanded
  PROVE  /\ Nodes(shown) \in Nat
         /\ Lines(shown, expanded)[0] = [drawn |-> << >>, todo |-> Children(shown, << >>)]
         /\ \A n \in 1 .. Nodes(shown) :
              Lines(shown, expanded)[n] = Visit(shown, expanded, Lines(shown, expanded)[n - 1])
<1>1. Nodes(shown) \in Nat
  <2>1. Len(shown.rounds) \in Nat /\ Len(shown.calls) \in Nat
    BY ListShape DEF ShownFits
  <2>2. \A a, b \in Nat : 2 + 4 * a + 7 * b \in Nat
    OBVIOUS
  <2> QED
    BY ONLY <2>1, <2>2 DEF Nodes
<1> DEFINE N == Nodes(shown)
           L == Lines(shown, expanded)
<1>2. \E walk : walk = StepsOf(shown, expanded, walk, N)
  BY <1>1, WalkExists
<1>3. L = CHOOSE walk : walk = StepsOf(shown, expanded, walk, N)
  BY DEF Lines, StepsOf
<1> HIDE DEF L, N
<1>4. L = StepsOf(shown, expanded, L, N)
  BY <1>2, <1>3
<1>5. N \in Nat
  BY <1>1 DEF N
<1>6. /\ L[0] = [drawn |-> << >>, todo |-> Children(shown, << >>)]
      /\ \A n \in 1 .. N : L[n] = Visit(shown, expanded, L[n - 1])
  <2> DEFINE F == StepsOf(shown, expanded, L, N)
  <2>1. /\ F[0] = [drawn |-> << >>, todo |-> Children(shown, << >>)]
        /\ \A n \in 1 .. N : F[n] = Visit(shown, expanded, L[n - 1])
    BY <1>5 DEF StepsOf
  <2> HIDE DEF F
  <2>2. L = F
    BY <1>4 DEF F
  <2> QED
    BY <2>1, <2>2
<1> QED
  BY <1>1, <1>6 DEF L, N

(* Everything a walk has drawn or has still to visit is drawn or will be.  *)
OnTree(shown, expanded, s) ==
  IsList(s) /\ \A i \in DOMAIN s : Drawn(shown, expanded, s[i]) /\ Len(s[i]) > 0

WalkFits(shown, expanded, walk) ==
  OnTree(shown, expanded, walk.drawn) /\ OnTree(shown, expanded, walk.todo)

(* A step keeps it so.                                                     *)
LEMMA VisitFits ==
  ASSUME NEW shown, ShownFits(shown), NEW expanded, NEW walk, WalkFits(shown, expanded, walk)
  PROVE  WalkFits(shown, expanded, Visit(shown, expanded, walk))
<1>1. CASE walk.todo = << >>
  BY <1>1 DEF Visit
<1>2. CASE walk.todo # << >>
  <2> DEFINE id == Head(walk.todo)
             below == IF Expanded(expanded, id) THEN Children(shown, id) ELSE << >>
             drawn == Append(walk.drawn, id)
             todo == below \o Tail(walk.todo)
  <2>1. Visit(shown, expanded, walk) = [drawn |-> drawn, todo |-> todo]
    BY <1>2 DEF Visit
  <2>2. /\ IsList(walk.todo) /\ IsList(walk.drawn)
        /\ \A i \in DOMAIN walk.todo : Drawn(shown, expanded, walk.todo[i]) /\ Len(walk.todo[i]) > 0
        /\ \A i \in DOMAIN walk.drawn : Drawn(shown, expanded, walk.drawn[i]) /\ Len(walk.drawn[i]) > 0
    BY DEF WalkFits, OnTree
  <2>3. /\ id = walk.todo[1] /\ 1 \in DOMAIN walk.todo
        /\ IsList(Tail(walk.todo))
        /\ \A i \in DOMAIN Tail(walk.todo) :
             i + 1 \in DOMAIN walk.todo /\ Tail(walk.todo)[i] = walk.todo[i + 1]
    BY <1>2, <2>2, ListTail
  <2> HIDE DEF id
  <2>4. Drawn(shown, expanded, id) /\ Len(id) > 0
    BY <2>2, <2>3
  <2>5. OnTree(shown, expanded, below)
    <3>1. CASE Expanded(expanded, id)
      <4> DEFINE c == Children(shown, id)
      <4>1. below = c
        BY <3>1
      <4>2. id # << >>
        BY <2>4, ListShape DEF Drawn
      <4>3. /\ IsList(c)
            /\ \A i \in DOMAIN c : \E x : /\ c[i] = Append(id, x)
                                          /\ id = <<"inspection">> => x \in ToSet(shown.rounds)
        BY <4>2, ChildrenOf
      <4> HIDE DEF c
      <4>4. ASSUME NEW i \in DOMAIN c PROVE Drawn(shown, expanded, c[i]) /\ Len(c[i]) > 0
        <5>1. PICK x : /\ c[i] = Append(id, x)
                       /\ id = <<"inspection">> => x \in ToSet(shown.rounds)
          BY <4>3
        <5>2. Drawn(shown, expanded, Append(id, x)) /\ Len(Append(id, x)) > 1
          BY <2>4, <3>1, <5>1, BelowDrawn
        <5>3. IsList(Append(id, x))
          BY <5>2 DEF Drawn
        <5>4. Len(Append(id, x)) > 0
          BY <5>2, <5>3, ListShape
        <5> QED
          BY <5>1, <5>2, <5>4
      <4> HIDE DEF below
      <4> QED
        BY <4>1, <4>3, <4>4 DEF OnTree
    <3>2. CASE ~Expanded(expanded, id)
      <4>1. below = << >> /\ IsList(<< >>) /\ DOMAIN << >> = {}
        BY <3>2 DEF IsList
      <4> HIDE DEF below
      <4> QED
        BY <4>1 DEF OnTree
    <3> QED
      BY <3>1, <3>2
  <2> HIDE DEF below
  <2>6. OnTree(shown, expanded, drawn)
    <3>1. /\ IsList(drawn) /\ Len(drawn) = Len(walk.drawn) + 1
          /\ \A i \in DOMAIN walk.drawn : drawn[i] = walk.drawn[i]
          /\ drawn[Len(walk.drawn) + 1] = id
      BY <2>2, ListAppend
    <3>2. DOMAIN drawn = 1 .. Len(walk.drawn) + 1 /\ DOMAIN walk.drawn = 1 .. Len(walk.drawn)
          /\ Len(walk.drawn) \in Nat
      BY <2>2, <3>1, ListShape
    <3> HIDE DEF drawn
    <3>3. ASSUME NEW i \in DOMAIN drawn PROVE i \in DOMAIN walk.drawn \/ i = Len(walk.drawn) + 1
      BY <3>2
    <3>4. \A i \in DOMAIN drawn : Drawn(shown, expanded, drawn[i]) /\ Len(drawn[i]) > 0
      BY <2>2, <2>4, <3>1, <3>3
    <3> QED
      BY <3>1, <3>4 DEF OnTree
  <2>7. OnTree(shown, expanded, todo)
    <3> DEFINE t == Tail(walk.todo)
    <3>1. IsList(t) /\ \A i \in DOMAIN t : Drawn(shown, expanded, t[i]) /\ Len(t[i]) > 0
      BY <2>2, <2>3
    <3>2. todo = below \o t
      OBVIOUS
    <3> HIDE DEF t, todo
    <3>3. IsList(below) /\ \A i \in DOMAIN below : Drawn(shown, expanded, below[i]) /\ Len(below[i]) > 0
      BY <2>5 DEF OnTree
    <3>4. /\ IsList(below \o t)
          /\ \A i \in DOMAIN (below \o t) :
               (\E j \in DOMAIN below : (below \o t)[i] = below[j])
               \/ (\E j \in DOMAIN t : (below \o t)[i] = t[j])
      <4>1. IsList(below) /\ IsList(t)
        BY <3>1, <3>3
      <4> QED
        BY ONLY <4>1, ListConcat
    <3> QED
      BY <3>1, <3>2, <3>3, <3>4 DEF OnTree
  <2> HIDE DEF drawn, todo
  <2> QED
    BY <2>1, <2>6, <2>7 DEF WalkFits
<1> QED
  BY <1>1, <1>2

(* The lines on the screen are drawn nodes.                                *)
LEMMA VisibleOnTree ==
  ASSUME NEW shown, ShownFits(shown), NEW expanded
  PROVE  OnTree(shown, expanded, Visible(shown, expanded))
<1> DEFINE N == Nodes(shown)
           L == Lines(shown, expanded)
           T == {n \in 0 .. N : ~WalkFits(shown, expanded, L[n])}
<1>1. /\ N \in Nat
      /\ L[0] = [drawn |-> << >>, todo |-> Children(shown, << >>)]
      /\ \A n \in 1 .. N : L[n] = Visit(shown, expanded, L[n - 1])
  BY WalkSteps
<1> HIDE DEF L, N
<1>2. WalkFits(shown, expanded, L[0])
  <2>1. OnTree(shown, expanded, << >>)
    BY DEF OnTree, IsList
  <2>2. \A x : Drawn(shown, expanded, <<x>>) /\ Len(<<x>>) > 0
    <3> TAKE x
    <3>1. IsList(<<x>>) /\ Len(<<x>>) = 1
      BY ListOfOne
    <3> QED
      BY <3>1 DEF Drawn
  <2> DEFINE c == Children(shown, << >>)
  <2>3. IsList(c) /\ \A i \in DOMAIN c : c[i] \in {<<"inspection">>, <<"traces">>}
    BY RootsOf
  <2> HIDE DEF c
  <2>4. OnTree(shown, expanded, c)
    BY <2>2, <2>3 DEF OnTree
  <2> QED
    BY <1>1, <2>1, <2>4 DEF WalkFits, c
<1>3. T = {}
  <2> SUFFICES ASSUME T # {} PROVE FALSE
    OBVIOUS
  <2>1. T \subseteq Nat
    BY <1>1
  <2>2. PICK m \in T : \A k \in T : m <= k
    BY <2>1, Smallest
  <2>3. m \in 0 .. N /\ ~WalkFits(shown, expanded, L[m])
    BY <2>2
  <2>4. m # 0
    BY <1>2, <2>3
  <2>5. m - 1 \in 0 .. N /\ m \in 1 .. N /\ ~(m <= m - 1)
    BY <1>1, <2>3, <2>4
  <2>6. m - 1 \notin T
    <3> HIDE DEF T
    <3> QED
      BY <2>2, <2>5
  <2>7. WalkFits(shown, expanded, L[m - 1])
    BY <2>5, <2>6
  <2>8. WalkFits(shown, expanded, Visit(shown, expanded, L[m - 1]))
    BY <2>7, VisitFits
  <2> QED
    BY <1>1, <2>3, <2>5, <2>8
<1>4. WalkFits(shown, expanded, L[N])
  BY <1>1, <1>3
<1> QED
  BY <1>4 DEF WalkFits, Visible, L, N

(* A line of the tree, and no line at all, are drawn.                      *)
LEMMA LineDrawn ==
  ASSUME NEW shown, ShownFits(shown), NEW expanded, NEW visible,
         visible = Visible(shown, expanded)
  PROVE  /\ IsList(visible) /\ Len(visible) \in Nat /\ DOMAIN visible = 1 .. Len(visible)
         /\ visible = << >> <=> Len(visible) = 0
         /\ \A i \in DOMAIN visible : Drawn(shown, expanded, visible[i]) /\ Len(visible[i]) > 0
         /\ Drawn(shown, expanded, << >>)
<1>1. OnTree(shown, expanded, visible)
  BY VisibleOnTree
<1>2. IsList(visible)
  BY <1>1 DEF OnTree
<1>3. IsList(<< >>) /\ Len(<< >>) = 0
  BY DEF IsList
<1>4. Drawn(shown, expanded, << >>)
  BY <1>3 DEF Drawn
<1> QED
  BY <1>1, <1>2, <1>4, ListShape DEF OnTree

(* The selected line is one of the lines.                                  *)
LEMMA LineOfIn ==
  ASSUME NEW n \in Nat \ {0}, NEW visible, DOMAIN visible = 1 .. n, NEW id
  PROVE  LineOf(visible, id) \in 1 .. n
<1> DEFINE at == {i \in DOMAIN visible : visible[i] = id}
<1>1. CASE at = {}
  BY <1>1 DEF LineOf
<1>2. CASE at # {}
  <2>1. at \subseteq Nat
    OBVIOUS
  <2>2. \E x \in at : \A y \in at : x <= y
    BY <1>2, <2>1, Smallest
  <2>3. Min(at) \in at
    BY <2>2 DEF Min
  <2>4. LineOf(visible, id) = Min(at)
    BY <1>2 DEF LineOf
  <2> QED
    BY <2>3, <2>4
<1> QED
  BY <1>1, <1>2

(* The selection is drawn after it is settled.                             *)
LEMMA EnsuredDrawn ==
  ASSUME NEW shown, ShownFits(shown), NEW expanded, NEW id
  PROVE  LET e == Ensured(Visible(shown, expanded), id)
         IN  Drawn(shown, expanded, e) /\ (e = << >> \/ Len(e) > 0)
<1> DEFINE visible == Visible(shown, expanded)
<1>1. /\ Len(visible) \in Nat /\ DOMAIN visible = 1 .. Len(visible)
      /\ visible = << >> <=> Len(visible) = 0
      /\ \A i \in DOMAIN visible : Drawn(shown, expanded, visible[i]) /\ Len(visible[i]) > 0
      /\ Drawn(shown, expanded, << >>)
  BY LineDrawn
<1> HIDE DEF visible
<1>2. CASE visible = << >>
  BY <1>1, <1>2 DEF Ensured, visible
<1>3. CASE visible # << >>
  <2>1. LineOf(visible, id) \in DOMAIN visible
    BY <1>1, <1>3, LineOfIn
  <2>2. Ensured(visible, id) = visible[LineOf(visible, id)]
    BY <1>3 DEF Ensured
  <2> QED
    BY <1>1, <2>1, <2>2 DEF visible
<1> QED
  BY <1>2, <1>3

(* The selection is drawn after it is moved.                               *)
LEMMA SteppedDrawn ==
  ASSUME NEW shown, ShownFits(shown), NEW expanded, NEW id, NEW delta \in Int
  PROVE  Drawn(shown, expanded, Stepped(Visible(shown, expanded), id, delta))
<1> DEFINE visible == Visible(shown, expanded)
           n == Len(visible)
           l == LineOf(visible, id)
<1>1. /\ n \in Nat /\ DOMAIN visible = 1 .. n
      /\ visible = << >> <=> n = 0
      /\ \A i \in DOMAIN visible : Drawn(shown, expanded, visible[i])
      /\ Drawn(shown, expanded, << >>)
  BY LineDrawn
<1> HIDE DEF visible
<1>2. CASE visible = << >>
  BY <1>1, <1>2 DEF Stepped, visible
<1>3. CASE visible # << >>
  <2>1. l \in 1 .. n
    BY <1>1, <1>3, LineOfIn
  <2>2. Stepped(visible, id, delta) = visible[Max({1, Min({l + delta, n})})]
    BY <1>3 DEF Stepped
  <2> HIDE DEF l, n
  <2>3. \A a, b \in Int : Min({a, b}) = IF a <= b THEN a ELSE b
    <3> TAKE a, b \in Int
    <3>1. \E x \in {a, b} : \A y \in {a, b} : x <= y
      OBVIOUS
    <3>2. Min({a, b}) \in {a, b} /\ \A y \in {a, b} : Min({a, b}) <= y
      BY <3>1 DEF Min
    <3> QED
      BY <3>2
  <2>4. \A a, b \in Int : Max({a, b}) = IF a >= b THEN a ELSE b
    <3> TAKE a, b \in Int
    <3>1. \E x \in {a, b} : \A y \in {a, b} : x >= y
      OBVIOUS
    <3>2. Max({a, b}) \in {a, b} /\ \A y \in {a, b} : Max({a, b}) >= y
      BY <3>1 DEF Max
    <3> QED
      BY <3>2
  <2> DEFINE m == Min({l + delta, n})
  <2>5. m \in Int /\ m <= n
    BY <1>1, <2>1, <2>3
  <2> HIDE DEF m
  <2>6. Max({1, m}) \in 1 .. n
    BY <1>1, <2>1, <2>4, <2>5
  <2> QED
    BY <1>1, <2>2, <2>6 DEF m, visible
<1> QED
  BY <1>2, <1>3

(* Folding or unfolding a node is seen by the nodes below it only.         *)
LEMMA DrawnMarked ==
  ASSUME NEW shown, NEW id, Drawn(shown, debugExpanded, id), NEW k, IsList(k), Len(k) >= Len(id),
         NEW open
  PROVE  Drawn(shown, Marked(k, open), id)
<1>1. IsList(id) /\ Len(id) \in Nat /\ Len(k) \in Nat
  BY ListShape DEF Drawn
<1>2. \A p : p # k => Expanded(Marked(k, open), p) = Expanded(debugExpanded, p)
  BY DEF Marked, Expanded
<1>3. ASSUME NEW n \in 1 .. Len(id) - 1 PROVE Expanded(Marked(k, open), SubSeq(id, 1, n))
  <2>1. n \in 1 .. Len(id) /\ n # Len(k)
    BY <1>1
  <2>2. Len(SubSeq(id, 1, n)) = n
    BY <1>1, <2>1, PathPrefix
  <2>3. SubSeq(id, 1, n) # k
    BY <2>1, <2>2
  <2>4. Expanded(debugExpanded, SubSeq(id, 1, n))
    BY DEF Drawn
  <2> QED
    BY <1>2, <2>3, <2>4
<1> QED
  BY <1>3 DEF Drawn

(* The parent of a node that is drawn is drawn.                            *)
LEMMA ParentDrawn ==
  ASSUME NEW shown, NEW expanded, NEW id, Drawn(shown, expanded, id), Len(id) > 1
  PROVE  /\ Drawn(shown, expanded, Front(id)) /\ IsList(Front(id))
         /\ Len(Front(id)) = Len(id) - 1
<1>1. IsList(id) /\ Len(id) \in Nat
  BY ListShape DEF Drawn
<1>2. /\ IsList(Front(id)) /\ Len(Front(id)) = Len(id) - 1
      /\ \A n \in 1 .. Len(Front(id)) : SubSeq(Front(id), 1, n) = SubSeq(id, 1, n)
      /\ \A n \in 1 .. Len(Front(id)) : Front(id)[n] = id[n]
  BY <1>1, PathParent
<1>3. ASSUME NEW n \in 1 .. Len(Front(id)) - 1 PROVE Expanded(expanded, SubSeq(Front(id), 1, n))
  <2>1. n \in 1 .. Len(Front(id)) /\ n \in 1 .. Len(id) - 1
    BY <1>1, <1>2
  <2>2. Expanded(expanded, SubSeq(id, 1, n))
    BY <2>1 DEF Drawn
  <2> QED
    BY <1>2, <2>1, <2>2
<1>4. ASSUME Len(Front(id)) > 1, Front(id)[1] = "inspection"
      PROVE  Front(id)[2] \in ToSet(shown.rounds)
  <2>1. 1 \in 1 .. Len(Front(id)) /\ 2 \in 1 .. Len(Front(id))
    BY <1>1, <1>2, <1>4
  <2>2. Front(id)[1] = id[1] /\ Front(id)[2] = id[2]
    BY <1>2, <2>1
  <2> QED
    BY <1>4, <2>2 DEF Drawn
<1> QED
  BY <1>2, <1>3, <1>4 DEF Drawn

-----------------------------------------------------------------------------
(* The inductive invariant.                                                *)

Typed ==
  /\ TypeOK
  /\ lookup \in [active : LookupViews, index : [LookupViews -> Nat]]
  /\ log \in Seq(CallRecords)

(* One chain of ticks exactly while the spinner turns, and it turns while  *)
(* a provider is waited for.                                               *)
SpinnerFits ==
  /\ ticks \in [live : Nat, stale : Nat] /\ spinnerActive = waiting
  /\ OneTickChain

(* Forms are there only for a round, and they and the actions accepted fit *)
(* the schemas.                                                            *)
FormsFit ==
  /\ \A role \in Humans : accepted[role] = << >> \/ ValuesFit(role, accepted[role])
  /\ \A role \in DOMAIN drafts :
       /\ drafts[role] = [stage |-> drafts[role].stage, form |-> drafts[role].form]
       /\ FormFits(role, drafts[role].form)
       /\ round > 0
  /\ IsList(sent)

(* No node above the selected one is folded; while the inspector is on the *)
(* screen, its round is one that is retained.                              *)
SelectionFits ==
  /\ IsList(debugSelected)
  /\ \A n \in 1 .. Len(debugSelected) - 1 :
       Expanded(debugExpanded, SubSeq(debugSelected, 1, n))
  /\ workspace = "debug" => Drawn(Shown, debugExpanded, debugSelected)

IInv ==
  /\ Typed /\ SpinnerFits /\ FormsFit /\ EditingIsOnScreen /\ SentActionsFitTheRound
  /\ SelectionFits

(* It implies that the cursor is on its form.                              *)
LEMMA IInvCursor == IInv => CursorOnForm
BY DEF IInv, FormsFit, FormFits, CursorOnForm

(* It implies that the selection is drawn.                                 *)
LEMMA IInvSelection == IInv => SelectionIsDrawn
BY DEF IInv, SelectionFits, Drawn, SelectionIsDrawn

-----------------------------------------------------------------------------
(* Facts of the screen.                                                    *)

(* The roles of the match are roles of the schema.                         *)
LEMMA MatchRoles ==
  /\ Len(RoleOrder) \in Nat \ {0} /\ DOMAIN RoleOrder = 1 .. Len(RoleOrder)
  /\ \A i \in DOMAIN RoleOrder : RoleOrder[i] \in RoleIDs
  /\ Humans \subseteq RoleIDs
<1>1. RoleOrder \in Seq(RoleIDs) /\ RoleOrder # << >>
  BY ScreenAssumption
<1>2. \A i \in DOMAIN RoleOrder : RoleOrder[i] \in RoleIDs
  BY <1>1
<1>3. Humans \subseteq RoleIDs
  BY <1>2, ScreenAssumption DEF ToSet
<1> QED
  BY <1>1, <1>2, <1>3

(* The last entry of a view of the lookup, entry 0 of an empty one.        *)
LEMMA LastEntry ==
  ASSUME NEW n \in Nat
  PROVE  /\ Max({0, n - 1}) \in Nat /\ Max({0, n - 1}) >= n - 1
<1>1. \E x \in {0, n - 1} : \A y \in {0, n - 1} : x >= y
  BY SMT
<1>2. /\ Max({0, n - 1}) \in {0, n - 1}
      /\ \A y \in {0, n - 1} : Max({0, n - 1}) >= y
  BY <1>1 DEF Max
<1> QED
  BY <1>2

(* Of two numbers one is the least and one is the greatest.                *)
LEMMA ExtremesOfTwo ==
  ASSUME NEW a \in Int, NEW b \in Int
  PROVE  /\ Min({a, b}) \in {a, b} /\ Min({a, b}) <= a /\ Min({a, b}) <= b
         /\ Max({a, b}) \in {a, b} /\ Max({a, b}) >= a /\ Max({a, b}) >= b
<1>1. /\ \E x \in {a, b} : \A y \in {a, b} : x <= y
      /\ \E x \in {a, b} : \A y \in {a, b} : x >= y
  OBVIOUS
<1>2. Min({a, b}) \in {a, b} /\ \A y \in {a, b} : Min({a, b}) <= y
  BY <1>1 DEF Min
<1>3. Max({a, b}) \in {a, b} /\ \A y \in {a, b} : Max({a, b}) >= y
  BY <1>1 DEF Max
<1> QED
  BY <1>2, <1>3

(* The rounds retained of a history are a list.                            *)
LEMMA RetainedFits == ASSUME NEW r \in Nat \ {0} PROVE IsList(RecentRounds(r))
<1> DEFINE kept == Min({HistoryLimit, r - 1})
           s == RecentRounds(r)
<1>1. kept \in Nat
  <2>1. HistoryLimit \in Nat /\ HistoryLimit \in Int /\ r - 1 \in Nat /\ r - 1 \in Int
    BY ScreenAssumption
  <2> QED
    BY <2>1, ExtremesOfTwo
<1>2. s = [i \in 1 .. kept |-> r - 1 - kept + i]
  BY DEF RecentRounds
<1> HIDE DEF kept, s
<1>3. s = [i \in 1 .. kept |-> s[i]]
  BY <1>2
<1>4. IsList(s)
  BY <1>1, <1>3, ListOfFunction
<1> QED
  BY <1>4 DEF s

(* The rounds the inspector shows, which do not depend on the role.        *)
Retained(r) == IF r = 0 THEN << >> ELSE RecentRounds(r)

(* The rounds and the calls that are shown are lists.                      *)
LEMMA ShownToFits ==
  ASSUME log \in Seq(CallRecords), NEW role, NEW r \in Nat
  PROVE  ShownFits(ShownTo(role, r))
<1>1. CASE r = 0
  <2>1. IsList(<< >>)
    BY DEF IsList
  <2>2. ShownTo(role, r).rounds = << >> /\ ShownTo(role, r).calls = << >>
    BY <1>1 DEF ShownTo
  <2> QED
    BY <2>1, <2>2 DEF ShownFits
<1>2. CASE r # 0
  <2> DEFINE P == {i \in DOMAIN log : log[i].role = role}
             s == RecentRounds(r)
             t == Subsequence(log, P)
             n == Cardinality(P)
  <2>1. ShownTo(role, r).rounds = s /\ ShownTo(role, r).calls = t
    BY <1>2 DEF ShownTo
  <2>2. IsList(s)
    BY <1>2, RetainedFits
  <2>3. DOMAIN log = 1 .. Len(log) /\ Len(log) \in Nat
    OBVIOUS
  <2>4. n \in Nat
    <3>1. IsFiniteSet(DOMAIN log) /\ P \subseteq DOMAIN log
      BY <2>3, FS_Interval
    <3> HIDE DEF P
    <3> QED
      BY <3>1, FS_Subset, FS_CardinalityType
  <2>5. t = [k \in 1 .. n |-> t[k]]
    BY DEF Subsequence
  <2> HIDE DEF s, t, n
  <2>6. IsList(s) /\ IsList(t)
    BY <2>2, <2>4, <2>5, ListOfFunction
  <2> QED
    BY <2>1, <2>6 DEF ShownFits
<1> QED
  BY <1>1, <1>2

(* A selection that is left alone fits on, unless the inspector or another *)
(* round comes on the screen.                                              *)
LEMMA SelectionKept ==
  ASSUME SelectionFits, round' = round, workspace' = "debug" => workspace = "debug",
         debugSelected' = debugSelected, debugExpanded' = debugExpanded
  PROVE  SelectionFits'
<1>1. Shown.rounds = Retained(round) /\ Shown'.rounds = Retained(round')
  BY DEF Shown, ShownTo, Retained
<1>2. ASSUME workspace' = "debug" PROVE Drawn(Shown', debugExpanded', debugSelected')
  <2>1. Drawn(Shown, debugExpanded, debugSelected)
    BY <1>2 DEF SelectionFits
  <2> QED
    BY <1>1, <2>1 DEF Drawn
<1> QED
  BY <1>2 DEF SelectionFits

(* A selection drawn in what is shown of this round.                       *)
LEMMA SelectionDrawn ==
  ASSUME NEW shown, shown.rounds = Retained(round'), Drawn(shown, debugExpanded', debugSelected')
  PROVE  SelectionFits'
<1>1. Shown'.rounds = Retained(round')
  BY DEF Shown, ShownTo, Retained
<1>2. Drawn(Shown', debugExpanded', debugSelected')
  BY <1>1 DEF Drawn
<1> QED
  BY <1>2 DEF SelectionFits, Drawn

(* Settling the selection keeps it drawn: it is settled whenever another   *)
(* round is shown in the inspector, or the inspector comes on the screen.  *)
LEMMA EnsureKeeps ==
  ASSUME SelectionFits, log \in Seq(CallRecords), round' \in Nat,
         NEW onScreen, NEW role, EnsureSelection(onScreen, role, round'),
         onScreen \/ workspace' # "debug" \/ (workspace = "debug" /\ round' = round)
  PROVE  SelectionFits' /\ log' = log /\ debugExpanded' = debugExpanded
<1>1. log' = log /\ debugExpanded' = debugExpanded
  BY DEF EnsureSelection
<1>2. CASE onScreen
  <2> DEFINE shown == ShownTo(role, round')
  <2>1. debugSelected' = Ensured(Visible(shown, debugExpanded), debugSelected)
    BY <1>2 DEF EnsureSelection
  <2>2. ShownFits(shown)
    BY ShownToFits
  <2>3. shown.rounds = Retained(round')
    BY DEF ShownTo, Retained
  <2> HIDE DEF shown
  <2>4. Drawn(shown, debugExpanded, debugSelected')
    BY <2>1, <2>2, EnsuredDrawn
  <2>5. SelectionFits'
    BY <1>1, <2>3, <2>4, SelectionDrawn
  <2> QED
    BY <1>1, <2>5
<1>3. CASE ~onScreen
  <2>1. debugSelected' = debugSelected
    BY <1>3 DEF EnsureSelection
  <2>2. CASE workspace' # "debug"
    BY <1>1, <2>1, <2>2 DEF SelectionFits
  <2>3. CASE workspace = "debug" /\ round' = round
    BY <1>1, <2>1, <2>3, SelectionKept
  <2> QED
    BY <1>1, <1>3, <2>2, <2>3
<1> QED
  BY <1>2, <1>3

-----------------------------------------------------------------------------
(* The start.                                                              *)

(* The invariant holds when the screen is opened.                          *)
LEMMA InitFits == Init => IInv
<1> SUFFICES ASSUME Init PROVE IInv
  OBVIOUS
<1>1. Typed
  <2>1. "action" \in ToSet(Workspaces) /\ "departments" \in ToSet(Panes)
    <3>1. Workspaces[1] = "action" /\ 1 \in DOMAIN Workspaces
      BY DEF Workspaces
    <3>2. Panes[1] = "departments" /\ 1 \in DOMAIN Panes
      BY DEF Panes
    <3> QED
      BY <3>1, <3>2 DEF ToSet
  <2>2. 1 \in DOMAIN RoleOrder
    BY MatchRoles
  <2>3. \A v \in LookupViews : 0 \in 0 .. Max({0, LookupSizes[v] - 1})
    <3> TAKE v \in LookupViews
    <3>1. LookupSizes[v] \in Nat
      BY ScreenAssumption DEF LookupViews
    <3> QED
      BY <3>1, LastEntry
  <2>4. "suppliers" \in LookupViews
    BY ScreenAssumption DEF LookupViews
  <2>5. lookup = [active |-> "suppliers", index |-> [v \in LookupViews |-> 0]]
    BY DEF Init
  <2>6. lookup \in [active : LookupViews, index : [LookupViews -> Nat]]
    BY <2>4, <2>5
  <2>7. lookup.active \in LookupViews /\ \A v \in LookupViews : lookup.index[v] = 0
    BY <2>4, <2>5
  <2>8. log \in Seq(CallRecords) /\ Len(log) <= LogSize /\ ToSet(log) \subseteq CallRecords
    <3>1. log = OpeningLog /\ OpeningLog \in Seq(CallRecords) /\ Len(OpeningLog) <= LogSize
      BY ScreenAssumption DEF Init
    <3> QED
      BY <3>1 DEF ToSet
  <2>9. 0 \in 0 .. MaxRound
    BY ScreenAssumption
  <2>10. DOMAIN drafts = {} /\ DOMAIN debugExpanded = {}
    BY DEF Init
  <2>11. /\ round = 0 /\ waiting = FALSE /\ workspace = "action" /\ pane = "departments"
         /\ selectedRole = 1 /\ exit = "none"
    BY DEF Init
  <2> QED
    BY <2>1, <2>2, <2>3, <2>6, <2>7, <2>8, <2>9, <2>10, <2>11 DEF Typed, TypeOK
<1>2. SpinnerFits
  BY DEF Init, SpinnerFits, OneTickChain
<1>3. DOMAIN drafts = {} /\ DOMAIN sent = {} /\ IsList(sent)
  BY DEF Init, IsList
<1>4. FormsFit
  BY <1>3 DEF Init, FormsFit
<1>5. EditingIsOnScreen /\ SentActionsFitTheRound
  BY <1>3 DEF EditingIsOnScreen, SentActionsFitTheRound, Submitted
<1>6. SelectionFits
  <2>1. IsList(<< >>) /\ Len(<< >>) = 0
    BY DEF IsList
  <2> QED
    BY <2>1 DEF Init, SelectionFits, Drawn
<1> QED
  BY <1>1, <1>2, <1>4, <1>5, <1>6 DEF IInv

-----------------------------------------------------------------------------
(* The form.                                                               *)

(* The draft on the screen fits, and no other is being edited.             *)
LEMMA CurrentFits ==
  ASSUME IInv, InForm
  PROVE  /\ SelectedRole \in Humans /\ SelectedRole \in RoleIDs /\ round > 0
         /\ Current = [stage |-> Current.stage, form |-> Current.form]
         /\ Current.stage \in {"editing", "review"}
         /\ FormFits(SelectedRole, Current.form)
         /\ \A role \in DOMAIN drafts : role # SelectedRole => drafts[role].form.editing = FALSE
<1>1. SelectedRole \in Humans /\ SelectedRole \in RoleIDs /\ round > 0
  BY MatchRoles DEF InForm
<1>2. ASSUME NEW role \in DOMAIN drafts, role # SelectedRole
      PROVE  drafts[role].form.editing = FALSE
  <2>1. drafts[role].form.editing \in BOOLEAN
    BY DEF IInv, FormsFit, FormFits
  <2>2. ~drafts[role].form.editing
    BY <1>2 DEF IInv, EditingIsOnScreen
  <2> QED
    BY <2>1, <2>2
<1>3. CASE SelectedRole \in DOMAIN drafts
  <2>1. Current = drafts[SelectedRole]
    BY <1>3 DEF Current, Draft
  <2>2. Current.stage \in {"editing", "review", "submitted"} /\ Current.stage # "submitted"
    BY <1>3, <2>1 DEF IInv, Typed, TypeOK, InForm, Submitted
  <2> QED
    BY <1>1, <1>2, <1>3, <2>1, <2>2 DEF IInv, FormsFit
<1>4. CASE SelectedRole \notin DOMAIN drafts
  <2> DEFINE values == SeedValues(SelectedRole, accepted[SelectedRole])
             form == NewForm(SelectedRole, values)
  <2>1. Current = [stage |-> "editing", form |-> form]
    BY <1>4 DEF Current, Draft
  <2>2. ValuesFit(SelectedRole, values)
    BY <1>1, SeedFits DEF IInv, FormsFit
  <2>3. FormFits(SelectedRole, form)
    BY <1>1, <2>2, NewFormFits
  <2> HIDE DEF form
  <2> QED
    BY <1>1, <1>2, <2>1, <2>3
<1> QED
  BY <1>3, <1>4

(* Drawing another draft of the role that has not submitted keeps the      *)
(* invariant.                                                              *)
LEMMA DrawKeeps ==
  ASSUME IInv, InForm, NEW d, d = [stage |-> d.stage, form |-> d.form],
         d.stage \in {"editing", "review"}, FormFits(SelectedRole, d.form), Draw(d), FormUnchanged
  PROVE  IInv'
<1>1. /\ SelectedRole \in Humans /\ round > 0
      /\ \A role \in DOMAIN drafts : role # SelectedRole => drafts[role].form.editing = FALSE
  BY CurrentFits
<1>2. /\ DOMAIN drafts' = DOMAIN drafts \cup {SelectedRole} /\ drafts'[SelectedRole] = d
      /\ \A role \in DOMAIN drafts : role # SelectedRole => drafts'[role] = drafts[role]
  BY DEF Draw
<1>3. SelectedRole' = SelectedRole
  BY DEF SelectedRole, FormUnchanged, viewVars
<1>4. UNCHANGED <<matchVars, viewVars, lookup, sent, spinnerVars, debugVars, exit>>
  BY DEF FormUnchanged
<1>5. Typed'
  <2>1. DOMAIN drafts' \subseteq Humans
    BY <1>1, <1>2 DEF IInv, Typed, TypeOK
  <2>2. \A role \in DOMAIN drafts' : drafts'[role].stage \in {"editing", "review", "submitted"}
    BY <1>2 DEF IInv, Typed, TypeOK
  <2> QED
    BY <1>4, <2>1, <2>2
    DEF IInv, Typed, TypeOK, matchVars, viewVars, debugVars, spinnerVars
<1>6. SpinnerFits'
  BY <1>4 DEF IInv, SpinnerFits, OneTickChain, matchVars, spinnerVars
<1>7. FormsFit'
  BY <1>1, <1>2, <1>4 DEF IInv, FormsFit, matchVars
<1>8. EditingIsOnScreen'
  <2>1. workspace' = "action" /\ pane' = "history"
    BY <1>4 DEF InForm, viewVars
  <2> QED
    BY <1>1, <1>2, <1>3, <2>1 DEF EditingIsOnScreen
<1>9. SentActionsFitTheRound'
  <2>1. ASSUME NEW role PROVE Submitted(role)' <=> Submitted(role)
    <3>1. CASE role = SelectedRole
      BY <1>2, <3>1 DEF InForm, Submitted
    <3>2. CASE role # SelectedRole
      BY <1>2, <3>2 DEF Submitted
    <3> QED
      BY <3>1, <3>2
  <2>2. \A i \in DOMAIN sent : Submitted(sent[i].role)
    BY DEF IInv, SentActionsFitTheRound
  <2>3. \A i \in DOMAIN sent : drafts'[sent[i].role] = drafts[sent[i].role]
    BY <1>2, <2>2 DEF InForm, Submitted
  <2>4. {role \in Humans : Submitted(role)'} = {role \in Humans : Submitted(role)}
    BY <2>1
  <2> QED
    BY <1>4, <2>3, <2>4 DEF IInv, SentActionsFitTheRound, matchVars
<1>10. SelectionFits'
  <2>1. round' = round /\ workspace' = workspace
    BY <1>4 DEF matchVars, viewVars
  <2> QED
    BY <1>4, <2>1, SelectionKept DEF IInv, debugVars
<1> QED
  BY <1>5, <1>6, <1>7, <1>8, <1>9, <1>10 DEF IInv

(* So does drawing another form in it.                                     *)
LEMMA RedrawKeeps ==
  ASSUME IInv, InForm, NEW g, FormFits(SelectedRole, g), Redraw(g), FormUnchanged
  PROVE  IInv'
<1> DEFINE d == [Current EXCEPT !.form = g]
<1>1. /\ Current = [stage |-> Current.stage, form |-> Current.form]
      /\ Current.stage \in {"editing", "review"}
  BY CurrentFits
<1>2. d = [stage |-> Current.stage, form |-> g]
  BY <1>1
<1>3. Draw(d)
  BY DEF Redraw
<1> HIDE DEF d
<1>4. d = [stage |-> d.stage, form |-> d.form] /\ d.stage \in {"editing", "review"} /\ d.form = g
  BY <1>1, <1>2
<1> QED
  BY <1>3, <1>4, DrawKeeps

(* The keys of the form keep the invariant.                                *)
LEMMA FormKeys ==
  ASSUME IInv,
         MoveInForm \/ AddTableRow \/ RemoveTableRow \/ BeginEditing \/ Edit \/ Review
           \/ BackToEditing
  PROVE  IInv'
<1> DEFINE f == Current.form
           r == SelectedRole
<1>1. Browsing \/ Editing
  BY DEF MoveInForm, AddTableRow, RemoveTableRow, BeginEditing, Edit, Review, BackToEditing
<1>2. InForm /\ FormUnchanged
  BY <1>1 DEF MoveInForm, AddTableRow, RemoveTableRow, BeginEditing, Edit, Review,
              BackToEditing, Browsing, Editing
<1>3. /\ r \in RoleIDs /\ FormFits(r, f) /\ Current.stage \in {"editing", "review"}
      /\ Current = [stage |-> Current.stage, form |-> Current.form]
  BY <1>2, CurrentFits
<1>4. f.editing \in BOOLEAN
  BY <1>3 DEF FormFits
<1>5. Browsing => ~f.editing
  BY DEF Browsing
<1>6. Editing => f.editing = TRUE
  BY <1>4 DEF Editing
<1>7. CASE MoveInForm
  <2>1. PICK g \in {MoveUp(f), MoveDown(f), MoveLeft(f), MoveRight(f)} : Redraw(g)
    BY <1>7 DEF MoveInForm
  <2>2. Browsing
    BY <1>7 DEF MoveInForm
  <2> HIDE DEF f, r
  <2>3. FormFits(r, g)
    BY <1>3, <1>5, <2>1, <2>2, MoveFits
  <2> QED
    BY <1>2, <2>1, <2>3, RedrawKeeps DEF r
<1>8. CASE AddTableRow
  <2>1. IsTable(f) /\ Redraw(AddRow(f))
    BY <1>8 DEF AddTableRow
  <2> HIDE DEF f, r
  <2>2. FormFits(r, AddRow(f))
    BY <1>3, <2>1, AddRowFits
  <2> QED
    BY <1>2, <2>1, <2>2, RedrawKeeps DEF r
<1>9. CASE RemoveTableRow
  <2>1. Browsing /\ CanRemoveRow(f) /\ Redraw(RemoveRow(f))
    BY <1>9 DEF RemoveTableRow
  <2> HIDE DEF f, r
  <2>2. FormFits(r, RemoveRow(f))
    BY <1>3, <1>5, <2>1, RemoveRowFits
  <2> QED
    BY <1>2, <2>1, <2>2, RedrawKeeps DEF r
<1>10. CASE BeginEditing
  <2>1. Browsing /\ Redraw(BeginEdit(f))
    BY <1>10 DEF BeginEditing
  <2> HIDE DEF f, r
  <2>2. FormFits(r, BeginEdit(f))
    BY <1>3, <1>5, <2>1, BeginFits
  <2> QED
    BY <1>2, <2>1, <2>2, RedrawKeeps DEF r
<1>11. CASE Edit
  <2>1. f.editing = TRUE
    BY <1>6, <1>11 DEF Edit
  <2>2. \/ Redraw(CancelEdit(f))
        \/ Redraw(CommitEdit(f))
        \/ \E x : Redraw([f EXCEPT !.buffer = x])
    BY <1>11 DEF Edit, CycleEditingChoice, TypeText
  <2> HIDE DEF f, r
  <2>3. CASE Redraw(CancelEdit(f))
    <3>1. FormFits(r, CancelEdit(f))
      BY <1>3, CancelFits
    <3> QED
      BY <1>2, <2>3, <3>1, RedrawKeeps DEF r
  <2>4. CASE Redraw(CommitEdit(f))
    <3>1. FormFits(r, CommitEdit(f))
      BY <1>3, <2>1, CommitFits
    <3> QED
      BY <1>2, <2>4, <3>1, RedrawKeeps DEF r
  <2>5. ASSUME NEW x, Redraw([f EXCEPT !.buffer = x]) PROVE IInv'
    <3> DEFINE g == [f EXCEPT !.buffer = x]
    <3> HIDE DEF g
    <3>1. FormFits(r, g)
      BY <1>3, BufferFits DEF g
    <3>2. Redraw(g)
      BY <2>5 DEF g
    <3> QED
      BY <1>2, <3>1, <3>2, RedrawKeeps DEF r
  <2> QED
    BY <2>2, <2>3, <2>4, <2>5
<1>12. CASE Review
  <2> DEFINE d == IF Submittable(f) THEN [Current EXCEPT !.stage = "review"] ELSE Current
  <2>1. Draw(d)
    BY <1>12 DEF Review
  <2>2. d = [stage |-> d.stage, form |-> d.form] /\ d.stage \in {"editing", "review"}
        /\ d.form = f
    BY <1>3
  <2> HIDE DEF d, f, r
  <2> QED
    BY <1>2, <1>3, <2>1, <2>2, DrawKeeps DEF r
<1>13. CASE BackToEditing
  <2> DEFINE d == [Current EXCEPT !.stage = "editing"]
  <2>1. Draw(d)
    BY <1>13 DEF BackToEditing
  <2>2. d = [stage |-> d.stage, form |-> d.form] /\ d.stage \in {"editing", "review"}
        /\ d.form = f
    BY <1>3
  <2> HIDE DEF d, f, r
  <2> QED
    BY <1>2, <1>3, <2>1, <2>2, DrawKeeps DEF r
<1> QED
  BY <1>7, <1>8, <1>9, <1>10, <1>11, <1>12, <1>13

-----------------------------------------------------------------------------
(* What an action that leaves something alone keeps.                       *)

(* Forms and actions that nobody touches, in a state that stays, fit.      *)
LEMMA FormsKept ==
  ASSUME IInv, UNCHANGED <<matchVars, formVars>>
  PROVE  FormsFit' /\ SentActionsFitTheRound'
BY DEF IInv, FormsFit, SentActionsFitTheRound, Submitted, matchVars, formVars

(* A value being edited stays on the screen while the view stays.          *)
LEMMA OnScreenKept ==
  ASSUME IInv, UNCHANGED <<viewVars, formVars>>
  PROVE  EditingIsOnScreen'
BY DEF IInv, EditingIsOnScreen, SelectedRole, viewVars, formVars

(* The spinner.                                                            *)
LEMMA SpinnerKept ==
  ASSUME IInv, UNCHANGED <<matchVars, spinnerVars>>
  PROVE  SpinnerFits'
BY DEF IInv, SpinnerFits, OneTickChain, matchVars, spinnerVars

(* The keys of the screen are taken when nothing is being edited.          *)
LEMMA NothingEdited ==
  ASSUME IInv, GlobalKeys
  PROVE  \A role \in DOMAIN drafts : ~drafts[role].form.editing
<1> SUFFICES ASSUME NEW role \in DOMAIN drafts, drafts[role].form.editing PROVE FALSE
  OBVIOUS
<1>1. /\ role = SelectedRole /\ workspace = "action" /\ pane = "history"
      /\ drafts[role].stage # "submitted"
  BY DEF IInv, EditingIsOnScreen
<1>2. round > 0 /\ role \in Humans
  BY DEF IInv, FormsFit, Typed, TypeOK
<1>3. InForm
  BY <1>1, <1>2 DEF GlobalKeys, InForm, Submitted
<1>4. Current = drafts[role]
  BY <1>1 DEF Current, Draft
<1> QED
  BY <1>3, <1>4 DEF GlobalKeys, Swallows, Editing

(* Then the view may change.                                               *)
LEMMA ViewMayChange ==
  ASSUME IInv, GlobalKeys, UNCHANGED formVars
  PROVE  EditingIsOnScreen'
<1>1. \A role \in DOMAIN drafts' : ~drafts'[role].form.editing
  BY NothingEdited DEF formVars
<1> QED
  BY <1>1 DEF EditingIsOnScreen

(* A remainder is less than what is divided by.                            *)
LEMMA Remainder == \A x \in Int, n \in Nat \ {0} : x % n \in 0 .. n - 1
OBVIOUS

(* Going around a list of n ends on one of its elements.                   *)
LEMMA AroundInside ==
  ASSUME NEW i \in Int, NEW delta \in Int, NEW n \in Nat \ {0}
  PROVE  Around(i, delta, n) \in 1 .. n
<1> DEFINE x == i - 1 + delta + n
<1>1. x \in Int
  OBVIOUS
<1> HIDE DEF x
<1>2. x % n \in 0 .. n - 1
  BY <1>1, Remainder
<1>3. (x % n) + 1 \in 1 .. n
  BY ONLY <1>2, n \in Nat
<1> QED
  BY <1>3 DEF Around, x

(* The position of a pane or a workspace.                                  *)
LEMMA PositionInside ==
  ASSUME NEW seq, NEW n \in Nat, DOMAIN seq = 1 .. n, NEW x \in ToSet(seq)
  PROVE  Position(seq, x) \in Int
<1>1. \E i \in DOMAIN seq : seq[i] = x
  BY DEF ToSet
<1> QED
  BY <1>1 DEF Position

(* The types of what the keys of the screen leave alone.                   *)
LEMMA TypedKept ==
  ASSUME IInv, UNCHANGED <<matchVars, drafts, spinnerVars>>,
         lookup' \in [active : LookupViews, index : [LookupViews -> Nat]],
         \A v \in LookupViews : lookup'.index[v] \in 0 .. Max({0, LookupSizes[v] - 1}),
         workspace' \in ToSet(Workspaces), pane' \in ToSet(Panes),
         selectedRole' \in DOMAIN RoleOrder, exit' \in {"none", "quit", "menu"},
         log' \in Seq(CallRecords), Len(log') <= LogSize,
         \A id \in DOMAIN debugExpanded' : debugExpanded'[id] \in BOOLEAN
  PROVE  Typed'
<1>1. ToSet(log') \subseteq CallRecords
  BY DEF ToSet
<1>2. lookup'.active \in LookupViews
  OBVIOUS
<1> QED
  BY <1>1, <1>2 DEF IInv, Typed, TypeOK, matchVars, spinnerVars

(* What is typed now.                                                      *)
LEMMA TypedNow ==
  ASSUME IInv
  PROVE  /\ lookup \in [active : LookupViews, index : [LookupViews -> Nat]]
         /\ \A v \in LookupViews : lookup.index[v] \in 0 .. Max({0, LookupSizes[v] - 1})
         /\ workspace \in ToSet(Workspaces) /\ pane \in ToSet(Panes)
         /\ selectedRole \in DOMAIN RoleOrder /\ exit \in {"none", "quit", "menu"}
         /\ log \in Seq(CallRecords) /\ Len(log) <= LogSize
         /\ \A id \in DOMAIN debugExpanded : debugExpanded[id] \in BOOLEAN
         /\ round \in Nat
<1>1. round \in Nat
  BY ScreenAssumption DEF IInv, Typed, TypeOK
<1> QED
  BY <1>1 DEF IInv, Typed, TypeOK

(* The panes and the workspaces are there.                                 *)
LEMMA PanesAndWorkspaces ==
  /\ DOMAIN Panes = 1 .. 4 /\ Len(Panes) = 4 /\ 4 \in Nat \ {0}
  /\ DOMAIN Workspaces = 1 .. 6 /\ Len(Workspaces) = 6 /\ 6 \in Nat \ {0}
BY DEF Panes, Workspaces

-----------------------------------------------------------------------------
(* Submitting.                                                             *)

(* The role shown next, if any, is a role of the match.                    *)
LEMMA NextRole ==
  ASSUME selectedRole \in DOMAIN RoleOrder, NEW submitted
  PROVE  NextPending(submitted) \in DOMAIN RoleOrder \cup {0}
<1> DEFINE n == Len(RoleOrder)
           index(step) == ((selectedRole - 1 + step) % n) + 1
           open == {step \in 1 .. n : LET role == RoleOrder[index(step)]
                                      IN  role \in Humans \ {submitted} /\ ~Submitted(role)}
<1>1. NextPending(submitted) = IF open = {} THEN 0 ELSE index(Min(open))
  BY DEF NextPending
<1>2. n \in Nat \ {0} /\ DOMAIN RoleOrder = 1 .. n
  BY MatchRoles
<1>3. CASE open # {}
  <2>1. open \subseteq 1 .. n
    OBVIOUS
  <2> HIDE DEF open, index
  <2>2. PICK m \in open : \A y \in open : m <= y
    <3>1. open \subseteq Nat
      BY <1>2, <2>1
    <3> QED
      BY <1>3, <3>1, Smallest
  <2>3. Min(open) \in Int
    <3>1. Min(open) \in open
      BY <2>2 DEF Min
    <3>2. Min(open) \in 1 .. n
      BY <2>1, <3>1
    <3> QED
      BY <3>2
  <2> DEFINE x == selectedRole - 1 + Min(open)
  <2>4. x \in Int
    BY <1>2, <2>3
  <2> HIDE DEF x
  <2>5. x % n \in 0 .. n - 1
    BY <1>2, <2>4, Remainder
  <2>6. (x % n) + 1 \in 1 .. n
    BY ONLY <1>2, <2>5
  <2>7. index(Min(open)) = (x % n) + 1
    BY DEF index, x
  <2> QED
    BY <1>1, <1>2, <1>3, <2>6, <2>7
<1> QED
  BY <1>1, <1>3

(* A reviewed draft that is valid is sent and locked.                      *)
LEMMA SubmitKeeps == ASSUME IInv, Submit PROVE IInv'
<1> DEFINE f == Current.form
           r == SelectedRole
           d == [Current EXCEPT !.stage = "submitted"]
           action == [role |-> r, round |-> round, values |-> f.values]
<1>1. InForm /\ ~f.editing /\ Current.stage = "review"
  BY DEF Submit, Browsing
<1>2. /\ r \in Humans /\ r \in RoleIDs /\ round > 0 /\ FormFits(r, f)
      /\ Current = [stage |-> Current.stage, form |-> f]
      /\ \A role \in DOMAIN drafts : role # r => drafts[role].form.editing = FALSE
  BY <1>1, CurrentFits
<1>3. UNCHANGED <<matchVars, lookup, spinnerVars, debugVars, exit>>
  BY DEF Submit
<1>4. CASE Draw(Current) /\ UNCHANGED <<viewVars, sent>>
  <2>1. FormUnchanged
    BY <1>3, <1>4 DEF FormUnchanged
  <2> QED
    BY <1>1, <1>2, <1>4, <2>1, DrawKeeps
<1>5. CASE /\ Submittable(f) /\ Draw(d) /\ sent' = Append(sent, action)
           /\ AdvanceAfterSubmission /\ UNCHANGED pane
  <2>1. d = [stage |-> "submitted", form |-> f] /\ d.stage = "submitted" /\ d.form = f
    BY <1>2
  <2>2. action.role = r /\ action.round = round /\ action.values = f.values
    OBVIOUS
  <2> HIDE DEF d, action, f
  <2>3. /\ DOMAIN drafts' = DOMAIN drafts \cup {r} /\ drafts'[r] = d
        /\ \A role \in DOMAIN drafts : role # r => drafts'[role] = drafts[role]
    BY <1>5 DEF Draw
  <2>4. /\ selectedRole' \in DOMAIN RoleOrder /\ workspace' \in ToSet(Workspaces)
    <3>1. selectedRole \in DOMAIN RoleOrder
      BY TypedNow
    <3>2. NextPending(r) \in DOMAIN RoleOrder \cup {0}
      BY <3>1, NextRole
    <3>3. "action" \in ToSet(Workspaces) /\ "feed" \in ToSet(Workspaces)
      <4>1. 1 \in DOMAIN Workspaces /\ 4 \in DOMAIN Workspaces
        BY PanesAndWorkspaces
      <4>2. Workspaces[1] = "action" /\ Workspaces[4] = "feed"
        BY DEF Workspaces
      <4> QED
        BY <4>1, <4>2 DEF ToSet
    <3> QED
      BY <1>5, <3>1, <3>2, <3>3 DEF AdvanceAfterSubmission
  <2>5. Typed'
    <3>1. DOMAIN drafts' \subseteq Humans
      BY <1>2, <2>3 DEF IInv, Typed, TypeOK
    <3>2. \A role \in DOMAIN drafts' : drafts'[role].stage \in {"editing", "review", "submitted"}
      BY <2>1, <2>3 DEF IInv, Typed, TypeOK
    <3> QED
      BY <1>3, <1>5, <2>4, <3>1, <3>2 DEF IInv, Typed, TypeOK, matchVars, debugVars, spinnerVars
  <2>6. SpinnerFits'
    BY <1>3, SpinnerKept
  <2>7. IsList(sent) /\ Len(sent) \in Nat /\ DOMAIN sent = 1 .. Len(sent)
    BY ListShape DEF IInv, FormsFit
  <2> DEFINE n == Len(sent)
  <2>8. /\ IsList(sent') /\ DOMAIN sent' = 1 .. n + 1 /\ sent'[n + 1] = action
        /\ \A i \in DOMAIN sent : sent'[i] = sent[i]
    BY <1>5, <2>7, ListAppend, ListShape
  <2>9. FormsFit'
    BY <1>2, <1>3, <2>1, <2>3, <2>8 DEF IInv, FormsFit, matchVars
  <2>10. EditingIsOnScreen'
    <3>1. \A role \in DOMAIN drafts' : ~drafts'[role].form.editing
      BY <1>1, <1>2, <2>1, <2>3
    <3> QED
      BY <3>1 DEF EditingIsOnScreen
  <2>11. SentActionsFitTheRound'
    <3>1. ~Submitted(r) /\ \A i \in DOMAIN sent : sent[i].role # r
      BY <1>1 DEF InForm, IInv, SentActionsFitTheRound
    <3>2. ASSUME NEW role PROVE Submitted(role)' <=> Submitted(role) \/ role = r
      <4>1. CASE role = r
        BY <2>1, <2>3, <4>1 DEF Submitted
      <4>2. CASE role # r
        BY <2>3, <4>2 DEF Submitted
      <4> QED
        BY <4>1, <4>2
    <3>3. /\ DOMAIN sent' = DOMAIN sent \cup {n + 1} /\ n + 1 \notin DOMAIN sent
          /\ sent'[n + 1].role = r
      BY <2>2, <2>7, <2>8
    <3> HIDE DEF n
    <3>4. \A i, j \in DOMAIN sent' : sent'[i].role = sent'[j].role => i = j
      BY <2>8, <3>1, <3>3 DEF IInv, SentActionsFitTheRound
    <3>5. {sent'[i].role : i \in DOMAIN sent'} = {role \in Humans : Submitted(role)'}
      <4>1. {sent'[i].role : i \in DOMAIN sent'} = {sent[i].role : i \in DOMAIN sent} \cup {r}
        <5>1. \A i \in DOMAIN sent : i \in DOMAIN sent' /\ sent'[i].role = sent[i].role
          BY <2>8, <3>3
        <5>2. \A i \in DOMAIN sent' : i \in DOMAIN sent \/ i = n + 1
          BY <3>3
        <5>3. n + 1 \in DOMAIN sent'
          BY <3>3
        <5> QED
          BY <3>3, <5>1, <5>2, <5>3
      <4>2. {role \in Humans : Submitted(role)'} = {role \in Humans : Submitted(role)} \cup {r}
        BY <1>2, <3>2
      <4> QED
        BY <4>1, <4>2 DEF IInv, SentActionsFitTheRound
    <3>6. ASSUME NEW i \in DOMAIN sent'
          PROVE  /\ sent'[i].round = round'
                 /\ sent'[i].values = drafts'[sent'[i].role].form.values
                 /\ Sendable(sent'[i].role, sent'[i].values)
      <4>1. round' = round
        BY <1>3 DEF matchVars
      <4>2. CASE i = n + 1
        <5>1. Sendable(r, f.values)
          BY <1>2, <1>5, SubmittableSendable
        <5> QED
          BY <2>1, <2>2, <2>3, <2>8, <4>1, <4>2, <5>1 DEF n
      <4>3. CASE i \in DOMAIN sent
        <5>1. Submitted(sent[i].role)
          BY <4>3 DEF IInv, SentActionsFitTheRound
        <5>2. drafts'[sent[i].role] = drafts[sent[i].role]
          BY <2>3, <3>1, <4>3, <5>1 DEF Submitted
        <5> QED
          BY <2>8, <4>1, <4>3, <5>2 DEF IInv, SentActionsFitTheRound
      <4> QED
        BY <3>3, <4>2, <4>3
    <3> QED
      BY <3>4, <3>5, <3>6 DEF SentActionsFitTheRound
  <2>12. SelectionFits'
    <3>1. round' = round /\ workspace' # "debug"
      BY <1>3, <1>5 DEF matchVars, AdvanceAfterSubmission
    <3> QED
      BY <1>3, <3>1, SelectionKept DEF IInv, debugVars
  <2> QED
    BY <2>5, <2>6, <2>9, <2>10, <2>11, <2>12 DEF IInv
<1> QED
  BY <1>4, <1>5 DEF Submit

-----------------------------------------------------------------------------
(* The lookup.                                                             *)

(* The index of a view names an entry of it, or is 0.                      *)
LEMMA IndexInside ==
  ASSUME NEW i \in Nat, NEW total \in Nat, i <= Max({0, total - 1}), NEW delta \in {-1, 1}
  PROVE  CycleIndex(i, total, delta) \in 0 .. Max({0, total - 1})
<1>1. Max({0, total - 1}) \in Nat /\ Max({0, total - 1}) >= total - 1
  BY LastEntry
<1>2. CASE total = 0
  BY <1>1, <1>2 DEF CycleIndex
<1>3. CASE total # 0
  <2> DEFINE c == Clamped(i, total)
             x == c + delta + total
             m == Max({0, total - 1})
  <2>0. c \in Int
    <3> DEFINE l == Min({i, total - 1})
    <3>1. i \in Int /\ total - 1 \in Int /\ 0 \in Int
      OBVIOUS
    <3>2. l \in {i, total - 1}
      BY <3>1, ExtremesOfTwo
    <3>3. l \in Int
      BY <3>1, <3>2
    <3> HIDE DEF l
    <3>4. Max({0, l}) \in {0, l}
      BY <3>1, <3>3, ExtremesOfTwo
    <3>5. Max({0, l}) \in Int
      BY <3>1, <3>3, <3>4
    <3> QED
      BY <3>5 DEF Clamped, l
  <2> HIDE DEF c
  <2>1. x \in Int /\ total \in Nat \ {0}
    BY <1>3, <2>0
  <2>2. CycleIndex(i, total, delta) = x % total
    BY <1>3 DEF CycleIndex, c
  <2> HIDE DEF x, m
  <2>3. x % total \in 0 .. total - 1
    BY <2>1, Remainder
  <2>4. m \in Nat /\ m >= total - 1
    BY <1>1 DEF m
  <2>5. x % total \in 0 .. m
    BY ONLY <2>3, <2>4, total \in Nat
  <2> QED
    BY <2>2, <2>5 DEF m
<1> QED
  BY <1>2, <1>3

(* A key of the lookup keeps the invariant.                                *)
LEMMA LookupKeeps == ASSUME IInv, LookupKey PROVE IInv'
<1>1. UNCHANGED <<matchVars, viewVars, formVars, spinnerVars, debugVars, exit>>
  BY DEF LookupKey
<1>2. /\ lookup \in [active : LookupViews, index : [LookupViews -> Nat]]
      /\ \A v \in LookupViews : lookup.index[v] \in 0 .. Max({0, LookupSizes[v] - 1})
  BY TypedNow
<1>3. /\ lookup' \in [active : LookupViews, index : [LookupViews -> Nat]]
      /\ \A v \in LookupViews : lookup'.index[v] \in 0 .. Max({0, LookupSizes[v] - 1})
  <2>1. CASE \E view \in LookupViews : lookup' = [lookup EXCEPT !.active = view]
    BY <1>2, <2>1
  <2>2. ASSUME NEW delta \in {-1, 1},
               lookup' = [lookup EXCEPT !.index[lookup.active] =
                            CycleIndex(@, LookupSizes[lookup.active], delta)]
        PROVE  /\ lookup' \in [active : LookupViews, index : [LookupViews -> Nat]]
               /\ \A v \in LookupViews : lookup'.index[v] \in 0 .. Max({0, LookupSizes[v] - 1})
    <3> DEFINE a == lookup.active
               total == LookupSizes[a]
               i == lookup.index[a]
               j == CycleIndex(i, total, delta)
    <3>1. a \in LookupViews
      BY <1>2
    <3>2. total \in Nat
      BY <3>1, ScreenAssumption DEF LookupViews
    <3>3. Max({0, total - 1}) \in Nat
      BY <3>2, LastEntry
    <3>4. i \in Nat /\ i <= Max({0, total - 1})
      BY <1>2, <3>1, <3>3
    <3>5. j \in 0 .. Max({0, total - 1})
      BY <3>2, <3>4, IndexInside
    <3>6. lookup' = [lookup EXCEPT !.index[a] = j]
      BY <2>2
    <3> HIDE DEF j
    <3>7. lookup' = [active |-> a, index |-> [lookup.index EXCEPT ![a] = j]]
      BY <1>2, <3>6
    <3>8. j \in Nat
      BY <3>3, <3>5
    <3>9. lookup' \in [active : LookupViews, index : [LookupViews -> Nat]]
      BY <1>2, <3>1, <3>7, <3>8
    <3>10. ASSUME NEW v \in LookupViews
           PROVE  lookup'.index[v] \in 0 .. Max({0, LookupSizes[v] - 1})
      <4>1. CASE v = a
        BY <1>2, <3>1, <3>5, <3>7, <4>1
      <4>2. CASE v # a
        BY <1>2, <3>1, <3>7, <4>2
      <4> QED
        BY <4>1, <4>2
    <3> QED
      BY <3>9, <3>10
  <2> QED
    BY <2>1, <2>2 DEF LookupKey
<1>4. Typed'
  <2>1. UNCHANGED <<matchVars, drafts, spinnerVars>>
    BY <1>1 DEF formVars
  <2>2. /\ workspace' \in ToSet(Workspaces) /\ pane' \in ToSet(Panes)
        /\ selectedRole' \in DOMAIN RoleOrder /\ exit' \in {"none", "quit", "menu"}
        /\ log' \in Seq(CallRecords) /\ Len(log') <= LogSize
        /\ \A id \in DOMAIN debugExpanded' : debugExpanded'[id] \in BOOLEAN
    BY <1>1, TypedNow DEF viewVars, debugVars
  <2> QED
    BY <1>3, <2>1, <2>2, TypedKept
<1>5. SelectionFits'
  <2>1. round' = round /\ workspace' = workspace
    BY <1>1 DEF matchVars, viewVars
  <2> QED
    BY <1>1, <2>1, SelectionKept DEF IInv, debugVars
<1> QED
  BY <1>1, <1>4, <1>5, FormsKept, OnScreenKept, SpinnerKept DEF IInv

-----------------------------------------------------------------------------
(* The inspector.                                                          *)

(* A key of the inspector leaves a line of the tree selected.              *)
LEMMA InspectorSelects ==
  ASSUME IInv, InspectorKey
  PROVE  /\ SelectionFits' /\ log' = log
         /\ \A id \in DOMAIN debugExpanded' : debugExpanded'[id] \in BOOLEAN
<1> DEFINE shown == Shown
           visible == Visible(shown, debugExpanded)
           id == Ensured(visible, debugSelected)
<1>1. /\ round \in Nat /\ log \in Seq(CallRecords)
      /\ \A k \in DOMAIN debugExpanded : debugExpanded[k] \in BOOLEAN
  BY TypedNow
<1>2. round' = round
  BY DEF InspectorKey, matchVars
<1>3. ShownFits(shown) /\ shown.rounds = Retained(round)
  BY <1>1, ShownToFits DEF Shown, ShownTo, Retained
<1>4. Drawn(shown, debugExpanded', debugSelected') => SelectionFits'
  <2> HIDE DEF shown
  <2> QED
    BY <1>2, <1>3, SelectionDrawn
<1>5. CASE SettleSelection
  <2>1. SelectionFits /\ InInspector
    BY DEF IInv, InspectorKey
  <2>2. EnsureSelection(InInspector, SelectedRole, round')
    BY <1>2, <1>5 DEF SettleSelection
  <2>3. SelectionFits' /\ log' = log /\ debugExpanded' = debugExpanded
    BY <1>1, <1>2, <2>1, <2>2, EnsureKeeps
  <2> QED
    BY <1>1, <2>3
<1>6. CASE \E delta \in Strides : MoveSelection(shown, delta)
  <2>1. PICK delta \in Strides : MoveSelection(shown, delta)
    BY <1>6
  <2>2. delta \in Int
    BY LogAssumption
  <2>3. /\ debugSelected' = Stepped(visible, debugSelected, delta)
        /\ log' = log /\ debugExpanded' = debugExpanded
    BY <2>1 DEF MoveSelection
  <2> HIDE DEF shown
  <2>4. Drawn(shown, debugExpanded, Stepped(visible, debugSelected, delta))
    BY <1>3, <2>2, SteppedDrawn
  <2> QED
    BY <1>1, <1>4, <2>3, <2>4
<1>7. CASE SelectEdge(shown)
  <2>1. /\ debugSelected' \in IF visible = << >> THEN {<< >>} ELSE {Head(visible), Last(visible)}
        /\ log' = log /\ debugExpanded' = debugExpanded
    BY <1>7 DEF SelectEdge
  <2> HIDE DEF shown
  <2>2. /\ IsList(visible) /\ Len(visible) \in Nat /\ DOMAIN visible = 1 .. Len(visible)
        /\ visible = << >> <=> Len(visible) = 0
        /\ \A i \in DOMAIN visible : Drawn(shown, debugExpanded, visible[i])
        /\ Drawn(shown, debugExpanded, << >>)
    BY <1>3, LineDrawn
  <2> HIDE DEF visible
  <2>3. Drawn(shown, debugExpanded, debugSelected')
    <3>1. CASE visible = << >>
      BY <2>1, <2>2, <3>1
    <3>2. CASE visible # << >>
      <4>1. Head(visible) = visible[1] /\ Last(visible) = visible[Len(visible)]
        BY <2>2 DEF IsList, Last
      <4>2. 1 \in DOMAIN visible /\ Len(visible) \in DOMAIN visible
        BY <2>2, <3>2
      <4> QED
        BY <2>1, <2>2, <3>2, <4>1, <4>2
    <3> QED
      BY <3>1, <3>2
  <2> QED
    BY <1>1, <1>4, <2>1, <2>3
<1>8. Drawn(shown, debugExpanded, id) /\ (id = << >> \/ Len(id) > 0)
  <2> HIDE DEF shown
  <2> QED
    BY <1>3, EnsuredDrawn
<1>9. IsList(id) /\ Len(id) \in Nat
  <2> HIDE DEF id, shown
  <2> QED
    BY <1>8, ListShape DEF Drawn
<1>10. \A k, open : /\ Expanded(Marked(k, open), k) = open
                    /\ open \in BOOLEAN =>
                         \A node \in DOMAIN Marked(k, open) : Marked(k, open)[node] \in BOOLEAN
  <2> TAKE k, open
  <2>1. DOMAIN Marked(k, open) = DOMAIN debugExpanded \cup {k}
    BY DEF Marked
  <2>2. Marked(k, open)[k] = open
    BY DEF Marked
  <2>3. \A node \in DOMAIN debugExpanded : node # k => Marked(k, open)[node] = debugExpanded[node]
    BY DEF Marked
  <2> QED
    BY <1>1, <2>1, <2>2, <2>3 DEF Expanded
<1>11. CASE ExpandSelection(shown)
  <2> DEFINE c == Children(shown, id)
  <2>1. /\ IF id = << >> \/ c = << >>
           THEN debugSelected' = id /\ UNCHANGED debugExpanded
           ELSE debugExpanded' = Opened(id) /\ debugSelected' = Head(c)
        /\ log' = log
    BY <1>11 DEF ExpandSelection
  <2> HIDE DEF id, shown
  <2>2. CASE id = << >> \/ c = << >>
    BY <1>1, <1>4, <1>8, <2>1, <2>2
  <2>3. CASE id # << >> /\ c # << >>
    <3>1. IsList(c) /\ \A i \in DOMAIN c : \E x : /\ c[i] = Append(id, x)
                                                  /\ id = <<"inspection">> => x \in ToSet(shown.rounds)
      BY <1>3, <2>3, ChildrenOf
    <3> HIDE DEF c
    <3>2. 1 \in DOMAIN c /\ Head(c) = c[1]
      <4>1. Len(c) \in Nat /\ DOMAIN c = 1 .. Len(c) /\ Len(c) # 0
        BY <2>3, <3>1, ListShape
      <4>2. Head(c) = c[1]
        BY <3>1 DEF IsList
      <4> QED
        BY <4>1, <4>2
    <3>3. PICK x : Head(c) = Append(id, x) /\ (id = <<"inspection">> => x \in ToSet(shown.rounds))
      BY <3>1, <3>2
    <3> DEFINE yes == TRUE
    <3>4. debugExpanded' = Marked(id, yes) /\ debugSelected' = Append(id, x)
      BY <2>1, <2>3, <3>3 DEF Opened
    <3>5. Expanded(Marked(id, yes), id)
      BY <1>10
    <3>6. yes \in BOOLEAN
      OBVIOUS
    <3> HIDE DEF yes
    <3>7. Len(id) >= Len(id) /\ Len(id) > 0
      BY <1>8, <1>9, <2>3
    <3>8. Drawn(shown, Marked(id, yes), id)
      BY <1>8, <1>9, <3>7, DrawnMarked
    <3>9. Drawn(shown, Marked(id, yes), Append(id, x))
      BY <3>3, <3>5, <3>7, <3>8, BelowDrawn
    <3>10. \A node \in DOMAIN debugExpanded' : debugExpanded'[node] \in BOOLEAN
      BY <1>10, <3>4, <3>6
    <3> QED
      BY <1>4, <2>1, <3>4, <3>9, <3>10
  <2> QED
    BY <2>2, <2>3
<1>12. CASE CollapseSelection(shown)
  <2> DEFINE byHand == Children(shown, id) # << >> /\ id \in DOMAIN debugExpanded
                         /\ debugExpanded[id]
             no == FALSE
  <2>1. /\ \/ debugSelected' = id /\ UNCHANGED debugExpanded
           \/ /\ debugExpanded' = Closed(id)
              /\ debugSelected' = IF Len(id) > 1 THEN Front(id) ELSE id
           \/ Len(id) > 1 /\ CollapseParent(id)
        /\ log' = log
    <3> HIDE DEF byHand
    <3>1. CASE id = << >>
      BY <1>12, <3>1 DEF CollapseSelection
    <3>2. CASE id # << >>
      BY <1>12, <3>2 DEF CollapseSelection, byHand
    <3> QED
      BY <3>1, <3>2
  <2> HIDE DEF id, shown
  <2>2. CASE debugSelected' = id /\ UNCHANGED debugExpanded
    BY <1>1, <1>4, <1>8, <2>1, <2>2
  <2>3. no \in BOOLEAN /\ \A k : Closed(k) = Marked(k, no)
    BY DEF Closed
  <2> HIDE DEF no
  <2>4. CASE /\ debugExpanded' = Closed(id)
             /\ debugSelected' = IF Len(id) > 1 THEN Front(id) ELSE id
    <3>1. debugExpanded' = Marked(id, no)
      BY <2>3, <2>4
    <3>2. Len(id) >= Len(id)
      BY <1>9
    <3>3. Drawn(shown, Marked(id, no), id)
      BY <1>8, <1>9, <3>2, DrawnMarked
    <3>4. Len(id) > 1 => Drawn(shown, Marked(id, no), Front(id))
      BY <3>3, ParentDrawn
    <3>5. Drawn(shown, debugExpanded', debugSelected')
      BY <2>4, <3>1, <3>3, <3>4
    <3>6. \A node \in DOMAIN debugExpanded' : debugExpanded'[node] \in BOOLEAN
      BY <1>10, <2>3, <3>1
    <3> QED
      BY <1>4, <2>1, <3>5, <3>6
  <2>5. CASE Len(id) > 1 /\ CollapseParent(id)
    <3> DEFINE p == Front(id)
    <3>1. Drawn(shown, debugExpanded, p) /\ IsList(p) /\ Len(p) = Len(id) - 1
      BY <1>8, <2>5, ParentDrawn
    <3>2. debugExpanded' = Marked(p, no) /\ debugSelected' = p
      BY <2>3, <2>5 DEF CollapseParent
    <3> HIDE DEF p
    <3>3. Len(p) >= Len(p)
      BY <1>9, <3>1
    <3>4. Drawn(shown, Marked(p, no), p)
      BY <3>1, <3>3, DrawnMarked
    <3>5. \A node \in DOMAIN debugExpanded' : debugExpanded'[node] \in BOOLEAN
      BY <1>10, <2>3, <3>2
    <3> QED
      BY <1>4, <2>1, <3>2, <3>4, <3>5
  <2> QED
    BY <2>1, <2>2, <2>4, <2>5
<1> QED
  BY <1>5, <1>6, <1>7, <1>11, <1>12 DEF InspectorKey

(* A key of the inspector keeps the invariant.                             *)
LEMMA InspectorKeeps == ASSUME IInv, InspectorKey PROVE IInv'
<1>1. UNCHANGED <<matchVars, viewVars, lookup, formVars, spinnerVars, exit>>
  BY DEF InspectorKey
<1>2. /\ SelectionFits' /\ log' = log
      /\ \A id \in DOMAIN debugExpanded' : debugExpanded'[id] \in BOOLEAN
  BY InspectorSelects
<1>3. Typed'
  <2>1. UNCHANGED <<matchVars, drafts, spinnerVars>>
    BY <1>1 DEF formVars
  <2>2. /\ lookup' \in [active : LookupViews, index : [LookupViews -> Nat]]
        /\ \A v \in LookupViews : lookup'.index[v] \in 0 .. Max({0, LookupSizes[v] - 1})
        /\ workspace' \in ToSet(Workspaces) /\ pane' \in ToSet(Panes)
        /\ selectedRole' \in DOMAIN RoleOrder /\ exit' \in {"none", "quit", "menu"}
        /\ log' \in Seq(CallRecords) /\ Len(log') <= LogSize
    BY <1>1, <1>2, TypedNow DEF viewVars
  <2> QED
    BY <1>2, <2>1, <2>2, TypedKept
<1> QED
  BY <1>1, <1>2, <1>3, FormsKept, OnScreenKept, SpinnerKept DEF IInv

(* A full log drops its oldest record.                                     *)
LEMMA AppendedFits ==
  ASSUME log \in Seq(CallRecords), NEW record \in CallRecords
  PROVE  Appended(record) \in Seq(CallRecords) /\ Len(Appended(record)) <= LogSize
<1> DEFINE all == Append(log, record)
           n == Len(all)
           m == Min({LogSize, n})
<1>1. all \in Seq(CallRecords) /\ n \in Nat \ {0} /\ LogSize \in Nat \ {0}
  BY LogAssumption
<1>2. m \in {LogSize, n} /\ m <= LogSize /\ m <= n
  <2> HIDE DEF n, all
  <2>1. \E x \in {LogSize, n} : \A y \in {LogSize, n} : x <= y
    BY <1>1, SMT
  <2>2. m \in {LogSize, n} /\ \A y \in {LogSize, n} : m <= y
    BY <2>1 DEF Min
  <2> QED
    BY <2>2
<1>3. Appended(record) = SubSeq(all, n - m + 1, n)
  BY DEF Appended
<1> HIDE DEF m, all
<1>4. m \in Nat \ {0} /\ n - m + 1 \in 1 .. n + 1
  <2> HIDE DEF n
  <2> QED
    BY <1>1, <1>2
<1>5. SubSeq(all, n - m + 1, n) \in Seq(CallRecords)
  BY <1>1, <1>4
<1>6. Len(SubSeq(all, n - m + 1, n)) = m
  BY <1>1, <1>4
<1> QED
  BY <1>2, <1>3, <1>5, <1>6

(* So does a call that is recorded: it changes what is under the tree, and *)
(* not what is unfolded above the selection.                               *)
LEMMA RecordKeeps == ASSUME IInv, RecordCall PROVE IInv'
<1>1. UNCHANGED <<matchVars, viewVars, lookup, formVars, spinnerVars, debugSelected,
                  debugExpanded, exit>>
  BY DEF RecordCall
<1>2. log' \in Seq(CallRecords) /\ Len(log') <= LogSize
  <2>1. PICK role \in CallingRoles, attempt \in Attempts :
          log' = Appended([role |-> role, round |-> round, attempt |-> attempt])
    BY DEF RecordCall
  <2>2. [role |-> role, round |-> round, attempt |-> attempt] \in CallRecords
    BY TypedNow DEF CallRecords
  <2> QED
    BY <2>1, <2>2, TypedNow, AppendedFits
<1>3. Typed'
  <2>1. UNCHANGED <<matchVars, drafts, spinnerVars>>
    BY <1>1 DEF formVars
  <2>2. /\ lookup' \in [active : LookupViews, index : [LookupViews -> Nat]]
        /\ \A v \in LookupViews : lookup'.index[v] \in 0 .. Max({0, LookupSizes[v] - 1})
        /\ workspace' \in ToSet(Workspaces) /\ pane' \in ToSet(Panes)
        /\ selectedRole' \in DOMAIN RoleOrder /\ exit' \in {"none", "quit", "menu"}
        /\ \A id \in DOMAIN debugExpanded' : debugExpanded'[id] \in BOOLEAN
    BY <1>1, TypedNow DEF viewVars
  <2> QED
    BY <1>2, <2>1, <2>2, TypedKept
<1>4. SelectionFits'
  <2>1. round' = round /\ workspace' = workspace
    BY <1>1 DEF matchVars, viewVars
  <2> QED
    BY <1>1, <2>1, SelectionKept DEF IInv
<1> QED
  BY <1>1, <1>3, <1>4, FormsKept, OnScreenKept, SpinnerKept DEF IInv

-----------------------------------------------------------------------------
(* The keys of the screen.                                                 *)

(* A key of the screen moves to a pane, a workspace or a role, or leaves,  *)
(* and settles the selection of the inspector.                             *)
LEMMA KeyKeeps ==
  ASSUME IInv, GlobalKeys, UNCHANGED <<matchVars, lookup, formVars, spinnerVars>>,
         workspace' \in ToSet(Workspaces), pane' \in ToSet(Panes),
         selectedRole' \in DOMAIN RoleOrder, exit' \in {"none", "quit", "menu"},
         NEW onScreen, NEW role, EnsureSelection(onScreen, role, round),
         onScreen \/ workspace' # "debug" \/ workspace = "debug"
  PROVE  IInv'
<1>1. round' = round /\ round \in Nat
  BY TypedNow DEF matchVars
<1>2. SelectionFits' /\ log' = log /\ debugExpanded' = debugExpanded
  <2>1. SelectionFits /\ log \in Seq(CallRecords) /\ EnsureSelection(onScreen, role, round')
    BY <1>1, TypedNow DEF IInv
  <2> QED
    BY <1>1, <2>1, EnsureKeeps
<1>3. Typed'
  <2>1. UNCHANGED <<matchVars, drafts, spinnerVars>>
    BY DEF formVars
  <2>2. /\ lookup' \in [active : LookupViews, index : [LookupViews -> Nat]]
        /\ \A v \in LookupViews : lookup'.index[v] \in 0 .. Max({0, LookupSizes[v] - 1})
        /\ log' \in Seq(CallRecords) /\ Len(log') <= LogSize
        /\ \A id \in DOMAIN debugExpanded' : debugExpanded'[id] \in BOOLEAN
    BY <1>2, TypedNow
  <2> QED
    BY <2>1, <2>2, TypedKept
<1> QED
  BY <1>2, <1>3, FormsKept, ViewMayChange, SpinnerKept DEF IInv

(* What is around a pane or a workspace is one.                            *)
LEMMA ElementAround ==
  ASSUME NEW seq, NEW n \in Nat \ {0}, DOMAIN seq = 1 .. n, Len(seq) = n, NEW x \in ToSet(seq),
         NEW delta \in {-1, 1}
  PROVE  seq[Around(Position(seq, x), delta, Len(seq))] \in ToSet(seq)
<1>1. Position(seq, x) \in Int
  BY PositionInside
<1>2. Around(Position(seq, x), delta, n) \in 1 .. n
  <2>1. delta \in Int
    OBVIOUS
  <2> QED
    BY <1>1, <2>1, AroundInside
<1> QED
  BY <1>2 DEF ToSet

(* Moving between the panes, the workspaces and the roles, and leaving.    *)
LEMMA KeysKeep == ASSUME IInv, TabKey \/ WorkspaceKey \/ RoleKey \/ QuitKey PROVE IInv'
<1>1. /\ workspace \in ToSet(Workspaces) /\ pane \in ToSet(Panes)
      /\ selectedRole \in DOMAIN RoleOrder /\ exit \in {"none", "quit", "menu"}
  BY TypedNow
<1>2. CASE TabKey
  <2>1. PICK delta \in {-1, 1} : pane' = Panes[Around(Position(Panes, pane), delta, Len(Panes))]
    BY <1>2 DEF TabKey
  <2>2. pane' \in ToSet(Panes)
    BY <1>1, <2>1, ElementAround, PanesAndWorkspaces
  <2>3. /\ GlobalKeys /\ UNCHANGED <<matchVars, workspace, selectedRole, lookup, formVars, spinnerVars, exit>>
        /\ EnsureSelection(InInspector, SelectedRole, round)
    BY <1>2 DEF TabKey, SettleSelection
  <2> QED
    BY <1>1, <2>2, <2>3, KeyKeeps
<1>3. CASE WorkspaceKey
  <2>1. workspace' \in ToSet(Workspaces)
    BY <1>3 DEF WorkspaceKey
  <2>2. /\ GlobalKeys /\ UNCHANGED <<matchVars, pane, selectedRole, lookup, formVars, spinnerVars, exit>>
        /\ EnsureSelection(InInspector \/ workspace' = "debug", SelectedRole, round)
    BY <1>3 DEF WorkspaceKey
  <2> QED
    BY <1>1, <2>1, <2>2, KeyKeeps
<1>4. CASE RoleKey
  <2>1. PICK delta \in {-1, 1} : selectedRole' = Around(selectedRole, delta, Len(RoleOrder))
    BY <1>4 DEF RoleKey
  <2>2. selectedRole' \in DOMAIN RoleOrder
    <3>1. Len(RoleOrder) \in Nat \ {0} /\ DOMAIN RoleOrder = 1 .. Len(RoleOrder)
      BY MatchRoles
    <3>2. selectedRole \in Int /\ delta \in Int
      BY <1>1, <3>1
    <3> QED
      BY <2>1, <3>1, <3>2, AroundInside
  <2>3. /\ GlobalKeys /\ UNCHANGED <<matchVars, workspace, pane, lookup, formVars, spinnerVars, exit>>
        /\ EnsureSelection(workspace = "debug", RoleOrder[selectedRole'], round)
    BY <1>4 DEF RoleKey
  <2> QED
    BY <1>1, <2>2, <2>3, KeyKeeps
<1>5. CASE QuitKey
  <2>1. /\ GlobalKeys /\ UNCHANGED <<matchVars, viewVars, lookup, formVars, spinnerVars>>
        /\ exit' \in {"none", "quit", "menu"}
        /\ EnsureSelection(InInspector, SelectedRole, round)
    BY <1>5 DEF QuitKey, SettleSelection
  <2>2. workspace' = workspace /\ pane' = pane /\ selectedRole' = selectedRole
    BY <2>1 DEF viewVars
  <2> QED
    BY <1>1, <2>1, <2>2, KeyKeeps
<1> QED
  BY <1>2, <1>3, <1>4, <1>5

-----------------------------------------------------------------------------
(* The states of the match, and the spinner.                               *)

(* Whatever is waited for before and after, one chain of ticks remains.    *)
LEMMA SpinFits ==
  ASSUME SpinnerFits, NEW waits \in BOOLEAN, SpinFor(waits), waiting' = waits
  PROVE  SpinnerFits'
<1>1. ticks \in [live : Nat, stale : Nat] /\ (spinnerActive <=> waiting) /\ spinnerActive' = waits
      /\ spinnerActive = waiting
  BY DEF SpinnerFits, SpinFor
<1>2. ticks.live = IF waiting THEN 1 ELSE 0
  BY DEF SpinnerFits, OneTickChain
<1> DEFINE still == [live |-> 0, stale |-> ticks.stale + ticks.live]
<1>3. still = NewGeneration(ticks)
  BY DEF NewGeneration
<1>4. still \in [live : Nat, stale : Nat] /\ still.live = 0
  BY <1>1
<1>5. /\ waits /\ spinnerActive => ticks' = ticks
      /\ waits /\ ~spinnerActive => ticks' = [still EXCEPT !.live = @ + 1]
      /\ ~waits => ticks' = still
  BY <1>3 DEF SpinFor
<1> HIDE DEF still
<1>6. [still EXCEPT !.live = @ + 1] = [live |-> 1, stale |-> still.stale]
  BY <1>4
<1>7. ticks' \in [live : Nat, stale : Nat] /\ ticks'.live = IF waits THEN 1 ELSE 0
  <2>1. CASE waits /\ spinnerActive
    BY <1>1, <1>2, <1>5, <2>1
  <2>2. CASE waits /\ ~spinnerActive
    BY <1>4, <1>5, <1>6, <2>2
  <2>3. CASE ~waits
    BY <1>4, <1>5, <2>3
  <2> QED
    BY <2>1, <2>2, <2>3
<1> QED
  BY <1>1, <1>7 DEF SpinnerFits, OneTickChain

(* A state that is loaded keeps the invariant: the next round starts with  *)
(* no drafts, and the actions accepted are those of the locked forms.      *)
LEMMA LoadKeeps == ASSUME IInv, LoadState PROVE IInv'
<1>1. /\ waiting' \in BOOLEAN /\ SpinFor(waiting') /\ UNCHANGED <<viewVars, lookup, exit>>
      /\ EnsureSelection(workspace = "debug", SelectedRole, round')
  BY DEF LoadState
<1>2. \/ UNCHANGED <<round, accepted, formVars>>
      \/ /\ round < MaxRound /\ (round > 0 => Locked)
         /\ round' = round + 1
         /\ accepted' = [role \in Humans |->
                           IF round = 0 THEN << >> ELSE drafts[role].form.values]
         /\ drafts' = << >> /\ sent' = << >>
  BY DEF LoadState
<1>3. /\ round \in Nat /\ MaxRound \in Nat /\ round \in 0 .. MaxRound
  BY ScreenAssumption DEF IInv, Typed, TypeOK
<1>4. round' \in Nat /\ round' \in 0 .. MaxRound
  BY <1>2, <1>3
<1>5. SpinnerFits'
  BY <1>1, SpinFits DEF IInv
<1>6. SelectionFits' /\ log' = log /\ debugExpanded' = debugExpanded
  <2>1. SelectionFits /\ log \in Seq(CallRecords)
    BY TypedNow DEF IInv
  <2>2. workspace = "debug" \/ workspace' # "debug"
    BY <1>1 DEF viewVars
  <2> QED
    BY <1>1, <1>4, <2>1, <2>2, EnsureKeeps
<1>7. /\ DOMAIN drafts' \subseteq Humans
      /\ \A role \in DOMAIN drafts' : drafts'[role].stage \in {"editing", "review", "submitted"}
  BY <1>2 DEF IInv, Typed, TypeOK, formVars
<1>8. Typed'
  BY <1>1, <1>4, <1>6, <1>7 DEF IInv, Typed, TypeOK, viewVars
<1>9. FormsFit' /\ EditingIsOnScreen' /\ SentActionsFitTheRound'
  <2>1. CASE UNCHANGED <<round, accepted, formVars>>
    BY <1>1, <2>1
    DEF IInv, FormsFit, EditingIsOnScreen, SentActionsFitTheRound, Submitted, SelectedRole,
        viewVars, formVars
  <2>2. CASE /\ round < MaxRound /\ (round > 0 => Locked)
             /\ round' = round + 1
             /\ accepted' = [role \in Humans |->
                               IF round = 0 THEN << >> ELSE drafts[role].form.values]
             /\ drafts' = << >> /\ sent' = << >>
    <3>1. DOMAIN drafts' = {} /\ DOMAIN sent' = {} /\ IsList(sent')
      BY <2>2 DEF IsList
    <3>2. ASSUME NEW role \in Humans
          PROVE  accepted'[role] = << >> \/ ValuesFit(role, accepted'[role])
      <4>1. CASE round = 0
        BY <2>2, <4>1
      <4>2. CASE round # 0
        <5>1. role \in DOMAIN drafts
          BY <1>3, <2>2, <4>2 DEF Locked, Submitted
        <5>2. ValuesFit(role, drafts[role].form.values)
          BY <5>1 DEF IInv, FormsFit, FormFits
        <5> QED
          BY <2>2, <4>2, <5>2
      <4> QED
        BY <4>1, <4>2
    <3>3. FormsFit'
      BY <3>1, <3>2 DEF FormsFit
    <3>4. EditingIsOnScreen'
      BY <3>1 DEF EditingIsOnScreen
    <3>5. SentActionsFitTheRound'
      <4>1. {role \in Humans : Submitted(role)'} = {}
        BY <3>1 DEF Submitted
      <4> QED
        BY <3>1, <4>1 DEF SentActionsFitTheRound
    <3> QED
      BY <3>3, <3>4, <3>5
  <2> QED
    BY <1>2, <2>1, <2>2
<1> QED
  BY <1>5, <1>6, <1>8, <1>9 DEF IInv

(* A tick of this chain goes on while a provider is waited for; the last   *)
(* tick of an earlier one has no successor.                                *)
LEMMA TickKeeps == ASSUME IInv, SpinnerTick PROVE IInv'
<1>1. UNCHANGED <<matchVars, viewVars, lookup, formVars, debugVars, exit>>
  BY DEF SpinnerTick
<1>2. /\ ticks \in [live : Nat, stale : Nat] /\ spinnerActive = waiting
      /\ ticks.live = IF waiting THEN 1 ELSE 0
  BY DEF IInv, SpinnerFits, OneTickChain
<1>3. SpinnerFits'
  <2>1. CASE /\ ticks.stale > 0 /\ ticks' = [ticks EXCEPT !.stale = @ - 1]
             /\ UNCHANGED spinnerActive
    <3>1. ticks' \in [live : Nat, stale : Nat] /\ ticks'.live = ticks.live
      BY <1>2, <2>1
    <3> QED
      BY <1>1, <1>2, <2>1, <3>1 DEF SpinnerFits, OneTickChain, matchVars
  <2>2. CASE ticks.live > 0 /\ waiting /\ UNCHANGED spinnerVars
    BY <1>1, <1>2, <2>2 DEF SpinnerFits, OneTickChain, matchVars, spinnerVars
  <2>3. ~(ticks.live > 0 /\ ~waiting)
    BY <1>2
  <2> QED
    BY <2>1, <2>2, <2>3 DEF SpinnerTick
<1>4. Typed'
  BY <1>1 DEF IInv, Typed, TypeOK, matchVars, viewVars, formVars, debugVars
<1>5. SelectionFits'
  <2>1. round' = round /\ workspace' = workspace
    BY <1>1 DEF matchVars, viewVars
  <2> QED
    BY <1>1, <2>1, SelectionKept DEF IInv, debugVars
<1> QED
  BY <1>1, <1>3, <1>4, <1>5, FormsKept, OnScreenKept DEF IInv

-----------------------------------------------------------------------------
(* The theorems.                                                           *)

(* A step that changes nothing keeps the invariant.                        *)
LEMMA StutterKeeps == ASSUME IInv, UNCHANGED vars PROVE IInv'
<1>1. UNCHANGED <<matchVars, viewVars, lookup, formVars, spinnerVars, debugVars, exit>>
  BY DEF vars
<1>2. Typed'
  BY <1>1 DEF IInv, Typed, TypeOK, matchVars, viewVars, formVars, debugVars
<1>3. SelectionFits'
  <2>1. round' = round /\ workspace' = workspace
    BY <1>1 DEF matchVars, viewVars
  <2> QED
    BY <1>1, <2>1, SelectionKept DEF IInv, debugVars
<1> QED
  BY <1>1, <1>2, <1>3, FormsKept, OnScreenKept, SpinnerKept DEF IInv

(* The invariant holds throughout.                                         *)
THEOREM Inductive == Spec => []IInv
<1>1. ASSUME IInv, [Next]_vars PROVE IInv'
  BY <1>1, FormKeys, SubmitKeeps, LookupKeeps, InspectorKeeps, RecordKeeps, KeysKeep, LoadKeeps,
     TickKeeps, StutterKeeps DEF Next, Left
<1> QED
  BY <1>1, InitFits, PTL DEF Spec

(* Every variable of the screen keeps its type, and every index of the     *)
(* scenario lookup names an entry of its view.                             *)
THEOREM TypeCorrect == Spec => []TypeOK
<1>1. IInv => TypeOK
  BY DEF IInv, Typed
<1> QED
  BY <1>1, Inductive, PTL

(* The cursor of a form is always on a field and a cell of it.             *)
THEOREM CursorAlwaysOnForm == Spec => []CursorOnForm
BY Inductive, IInvCursor, PTL

(* A value being edited is always on the screen, in a form not locked.     *)
THEOREM EditingAlwaysOnScreen == Spec => []EditingIsOnScreen
<1>1. IInv => EditingIsOnScreen
  BY DEF IInv
<1> QED
  BY <1>1, Inductive, PTL

(* The match gets one action of each role, of the round shown, that fits   *)
(* the schema and is the one the locked form shows.                        *)
THEOREM SentAlwaysFits == Spec => []SentActionsFitTheRound
<1>1. IInv => SentActionsFitTheRound
  BY DEF IInv
<1> QED
  BY <1>1, Inductive, PTL

(* One chain of ticks turns the spinner while a provider is waited for,    *)
(* and none when not.                                                      *)
THEOREM AlwaysOneTickChain == Spec => []OneTickChain
<1>1. IInv => OneTickChain
  BY DEF IInv, SpinnerFits
<1> QED
  BY <1>1, Inductive, PTL

(* No node above the selected one is folded, and while the inspector is on *)
(* the screen a round selected is one the history retains.                 *)
THEOREM SelectionAlwaysDrawn == Spec => []SelectionIsDrawn
BY Inductive, IInvSelection, PTL

=============================================================================
