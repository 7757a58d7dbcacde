----------------------------- MODULE Migration -----------------------------
(***************************************************************************)
(* What a migration of libs/database/src/migrations says: the objects its  *)
(* up() creates and what each of them depends on, the columns of its table *)
(* that REFERENCE a table, the policies on the table's rows, and what its  *)
(* down() drops, in the order in which it drops it.                        *)
(*                                                                         *)
(* Columns that hold plain data, the CHECKs and indexes about them and the *)
(* updated_at trigger are left out; a CHECK that keeps a reference from    *)
(* being emptied is part of the reference.                                 *)
(***************************************************************************)
EXTENDS Sequences, TLC

(***************************************************************************)
(* Columns that REFERENCE a table.                                         *)
(***************************************************************************)

\* NOT NULL, and what the deletion of the row it refers to does to it.
Ref(to, onDelete) ==
  [to |-> to, onDelete |-> onDelete, nullable |-> FALSE, paired |-> FALSE,
   late |-> FALSE]

\* ON DELETE CASCADE, ON DELETE RESTRICT, and no ON DELETE clause.
Cascade(to)  == Ref(to, "cascade")
Restricted(to) == Ref(to, "restrict")
NoAction(to) == Ref(to, "no action")

\* The column without NOT NULL. ON DELETE SET NULL is said of no other.
Nullable(ref) == [ref EXCEPT !.nullable = TRUE]
SetNull(to)   == Nullable(Ref(to, "set null"))

\* A CHECK of the table says the column is set exactly when its neighbours say
\* so, and the neighbours stay when the reference goes.
Paired(ref) == [ref EXCEPT !.paired = TRUE]

(***************************************************************************)
(* Row-level policies. They are all PERMISSIVE, the default: a statement   *)
(* may touch a row if any policy for its command says so. "using" is what  *)
(* the policy says of a row of the session's own store.                    *)
(***************************************************************************)

\* FOR ALL USING (store_id = the session's store) and the same FOR INSERT.
Tenant == {[command |-> "ALL",    using |-> TRUE],
           [command |-> "INSERT", using |-> TRUE]}

\* FOR UPDATE USING (FALSE) and FOR DELETE USING (FALSE) beside them.
Ledger == Tenant \cup {[command |-> "UPDATE", using |-> FALSE],
                       [command |-> "DELETE", using |-> FALSE]}

\* FOR SELECT and FOR INSERT only.
Journal == {[command |-> "SELECT", using |-> TRUE],
            [command |-> "INSERT", using |-> TRUE]}

(***************************************************************************)
(* Migrations.                                                             *)
(***************************************************************************)

\* A catalog object, the table it belongs to (itself, if it is not a part of
\* one) and the objects that must exist for it to exist.
Object(name, of, needs) == [name |-> name, of |-> of, needs |-> needs]

\* The tables that columns refer to.
Targets(columns) == {columns[c].to : c \in DOMAIN columns}

\* CREATE TYPE for the types, CREATE TABLE for the table, whose columns use
\* those types and the ones in "uses"; down() drops the table, then the types.
Creates(schema, table, policies, types, uses, columns) ==
  [table    |-> table,
   columns  |-> columns,
   policies |-> policies,
   added    |-> {},
   objects  |-> {Object(ty, ty, {schema}) : ty \in types}
                  \cup {Object(table, table,
                               {schema} \cup types \cup uses \cup Targets(columns))},
   drops    |-> << {table}, types >>]

\* A table of the operational schema that belongs to no store, or to one.
Shared(table, types, columns) ==
  Creates("operational", table, {}, types, {}, columns)
OfStore(table, types, columns) ==
  Creates("operational", table, Tenant, types, {},
          "store_id" :> Cascade("stores") @@ columns)

\* A table of one store whose store_id has no ON DELETE clause.
HoldsStore(table, types, columns) ==
  Creates("operational", table, Tenant, types, {},
          "store_id" :> NoAction("stores") @@ columns)

\* A table without references.
NoColumns == [c \in {} |-> {}]

\* Policies other than those of Tenant; a type that an earlier migration made.
WithPolicies(m, policies) == [m EXCEPT !.policies = policies]
Using(m, type) ==
  [m EXCEPT !.objects = {IF o.name = m.table THEN [o EXCEPT !.needs = @ \cup {type}]
                         ELSE o : o \in @}]

\* ALTER TABLE other ADD COLUMN ... ON DELETE SET NULL, which down() drops first.
AddsColumn(m, other, column) ==
  LET part == other \o "." \o column IN
  [m EXCEPT !.added   = {[table |-> other, column |-> column, to |-> m.table]},
            !.objects = @ \cup {Object(part, other, {m.table, other})},
            !.drops   = << {part} >> \o @]

\* CREATE FUNCTION, and CREATE TRIGGER on a table that EXECUTEs it; down() drops
\* what it drops in the order given.
WithTrigger(m, trigger, on, function, drops) ==
  [m EXCEPT !.objects = @ \cup {Object(function, function, {}),
                                Object(trigger, on, {function, on})},
            !.drops   = drops]
=============================================================================
