------------------------------ MODULE Migrator ------------------------------
(***************************************************************************)
(* libs/database/src/services/migration.service.ts: bringing the schemas   *)
(* of the database up to date, and rolling the last migration back.        *)
(*                                                                         *)
(* The catalog is the set of objects that exist. PostgreSQL creates an     *)
(* object only if what it depends on exists, and drops one only if nothing *)
(* else depends on it; it runs all the migrations of a call in one         *)
(* transaction, so a call that fails changes nothing. The migrator itself  *)
(* (kysely) holds a lock while it runs: calls do not overlap.              *)
(***************************************************************************)
EXTENDS Integers, Sequences

CONSTANT Migrations \* what each target's migrator is given, in order

VARIABLES applied, \* how many migrations of each target the database has had
          catalog  \* the objects that exist

mvars == <<applied, catalog>>

Goals == DOMAIN Migrations

Names(objects) == {o.name : o \in objects}

\* What the first n migrations of a target create.
CreatedBy(target, n) == UNION {Migrations[target][i].objects : i \in 1..n}

\* What goes when objects of these names are dropped: they and their parts.
Gone(names, objects) == {o \in objects : o.name \in names \/ o.of \in names}

\* The names that the first k statements of a down() drop.
Dropped(m, k) == UNION {m.drops[j] : j \in 1..k}

\* Each migration drops what it creates and nothing that an earlier one of its
\* target, or one of another target, creates.
MigrationsAssumption ==
  \A t \in Goals :
    /\ Len(Migrations[t]) \in Nat
    /\ DOMAIN Migrations[t] = 1..Len(Migrations[t])
    /\ t = "bootstrap" \/
       \A i \in DOMAIN Migrations[t] :
         LET m == Migrations[t][i]
             names == Dropped(m, Len(m.drops))
         IN  /\ Gone(names, m.objects) = m.objects
             /\ \A u \in Goals : \A j \in DOMAIN Migrations[u] :
                  u # t \/ j < i => Gone(names, Migrations[u][j].objects) = {}

ASSUME MigrationsAssumption

\* What a migration creates needs the bootstrap, and what its target's migrations
\* up to it create; no two migrations give objects the same name.
NeedsAssumption ==
  /\ "bootstrap" \in Goals
  /\ \A t \in Goals : \A i \in DOMAIN Migrations[t] :
       LET objects == Migrations[t][i].objects IN
       /\ \A o \in objects :
            o.needs \subseteq Names(CreatedBy("bootstrap", Len(Migrations["bootstrap"]))
                                     \cup CreatedBy(t, i))
       /\ \A u \in Goals : \A j \in DOMAIN Migrations[u] :
            u # t \/ j # i => Names(objects) \cap Names(Migrations[u][j].objects) = {}

ASSUME NeedsAssumption

-----------------------------------------------------------------------------
MInit ==
  /\ applied = [t \in Goals |-> 0]
  /\ catalog = {}

\* Every object of every migration that is still to run finds what it needs
\* among the objects before it, and no object of its name.
CanMigrate(target) ==
  \A i \in (applied[target] + 1)..Len(Migrations[target]) :
    LET before == catalog \cup (CreatedBy(target, i - 1) \ CreatedBy(target, applied[target]))
        m == Migrations[target][i]
    IN  /\ Names(m.objects) \cap Names(before) = {}
        /\ \A o \in m.objects : o.needs \subseteq Names(before \cup m.objects)

\* migrateToLatest.
MigrateToLatest(target) ==
  /\ CanMigrate(target)
  /\ applied' = [applied EXCEPT ![target] = Len(Migrations[target])]
  /\ catalog' = catalog \cup CreatedBy(target, Len(Migrations[target]))

\* At each statement of the last migration's down(), nothing that is left
\* depends on what the statement drops.
CanRollBack(target) ==
  /\ target # "bootstrap"
  /\ applied[target] > 0
  /\ LET m == Migrations[target][applied[target]] IN
     \A k \in DOMAIN m.drops :
       \A o \in catalog \ Gone(Dropped(m, k), catalog) : o.needs \cap m.drops[k] = {}

\* Mutated form: only the first statement of a down() is executed.
MigrateDownFirst(target) ==
  /\ CanRollBack(target)
  /\ applied' = [applied EXCEPT ![target] = @ - 1]
  /\ catalog' = catalog \ Gone(Dropped(Migrations[target][applied[target]], 1), catalog)

\* migrateDown: the last migration of the target; bootstrap is refused.
MigrateDown(target) ==
  /\ CanRollBack(target)
  /\ applied' = [applied EXCEPT ![target] = @ - 1]
  /\ LET m == Migrations[target][applied[target]] IN
     catalog' = catalog \ Gone(Dropped(m, Len(m.drops)), catalog)

MNext == \E t \in Goals : MigrateToLatest(t) \/ MigrateDown(t)

MSpec == MInit /\ [][MNext]_mvars

-----------------------------------------------------------------------------
MTypeOK ==
  /\ applied \in [Goals -> Nat]
  /\ \A t \in Goals : applied[t] <= Len(Migrations[t])

\* Whatever was applied and rolled back, in whatever order, the database holds
\* exactly the objects of the migrations recorded as applied: a rollback leaves
\* nothing behind that would make the migration fail when it is applied again,
\* and takes nothing that another migration made.
CatalogMatches ==
  catalog = UNION {CreatedBy(t, applied[t]) : t \in Goals}

\* Once the bootstrap is applied every target can be brought up to date,
\* whichever migrations it has had and whatever was rolled back.
Migratable ==
  \A t \in Goals : applied["bootstrap"] > 0 => CanMigrate(t)
=============================================================================
