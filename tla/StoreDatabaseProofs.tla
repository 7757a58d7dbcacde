------------------------- MODULE StoreDatabaseProofs -------------------------
(***************************************************************************)
(* The migration runner, for any lists of migrations that create what they *)
(* need and drop what they create; and the database they build, for any    *)
(* schema whose delete rules come to those of DeleteRules.                 *)
(***************************************************************************)
EXTENDS DeleteRules, RelationalStoreProofs

(***************************************************************************)
(* The catalog.                                                            *)
(***************************************************************************)

MInv == MTypeOK /\ CatalogMatches

LEMMA InitCatalog == MInit => MInv
  BY MigrationsAssumption DEF MInit, MInv, MTypeOK, CatalogMatches, CreatedBy, MigrationsAssumption

\* What is created by more migrations contains what is created by fewer.
LEMMA CreatedGrows ==
  ASSUME NEW t, NEW m \in Nat, NEW n \in Nat, m <= n
  PROVE  CreatedBy(t, m) \subseteq CreatedBy(t, n)
  BY DEF CreatedBy

\* Bringing a target up to date adds what its pending migrations create.
LEMMA MigrateCatalog ==
  ASSUME MInv, NEW t \in Goals, MigrateToLatest(t)
  PROVE  MInv'
<1> DEFINE n == Len(Migrations[t])
<1>1. n \in Nat
  BY MigrationsAssumption DEF MigrationsAssumption
<1>2. /\ applied' = [applied EXCEPT ![t] = n]
      /\ catalog' = catalog \cup CreatedBy(t, n)
  BY DEF MigrateToLatest
<1>3. applied \in [Goals -> Nat] /\ applied[t] <= n
  BY DEF MInv, MTypeOK
<1>4. applied'[t] = n /\ \A u \in Goals \ {t} : applied'[u] = applied[u]
  BY <1>2, <1>3
<1> HIDE DEF n
<1>5. MTypeOK'
  BY <1>1, <1>2, <1>3, <1>4 DEF MInv, MTypeOK, n
<1>6. CreatedBy(t, applied[t]) \subseteq CreatedBy(t, n)
  BY <1>1, <1>3, CreatedGrows
<1>7. catalog' = UNION {CreatedBy(u, applied'[u]) : u \in Goals}
  BY <1>2, <1>4, <1>6 DEF MInv, CatalogMatches
<1> QED  BY <1>5, <1>7 DEF MInv, CatalogMatches, CreatedBy

\* Rolling back takes what the last migration created and nothing else.
LEMMA RollbackCatalog ==
  ASSUME MInv, NEW t \in Goals, MigrateDown(t)
  PROVE  MInv'
<1> DEFINE k == applied[t]
           m == Migrations[t][k]
           names == Dropped(m, Len(m.drops))
<1>1. /\ t # "bootstrap" /\ k > 0
      /\ applied' = [applied EXCEPT ![t] = k - 1]
      /\ catalog' = catalog \ Gone(names, catalog)
  BY DEF MigrateDown, CanRollBack
<1>2. applied \in [Goals -> Nat] /\ k \in 1..Len(Migrations[t])
  BY <1>1 DEF MInv, MTypeOK
<1>3. applied'[t] = k - 1 /\ \A u \in Goals \ {t} : applied'[u] = applied[u]
  BY <1>1, <1>2
<1>4. k \in DOMAIN Migrations[t]
  BY <1>2, MigrationsAssumption DEF MigrationsAssumption
<1>5. /\ Gone(names, m.objects) = m.objects
      /\ \A u \in Goals : \A j \in DOMAIN Migrations[u] :
           u # t \/ j < k => Gone(names, Migrations[u][j].objects) = {}
  BY <1>1, <1>4, MigrationsAssumption DEF MigrationsAssumption
<1> HIDE DEF k, m, names
<1>6. MTypeOK'
  BY <1>1, <1>2, <1>3 DEF MInv, MTypeOK, k
<1>7. ASSUME NEW o \in catalog' PROVE \E u \in Goals : o \in CreatedBy(u, applied'[u])
  <2>1. PICK u \in Goals : o \in CreatedBy(u, applied[u])
    BY <1>1 DEF MInv, CatalogMatches
  <2>2. PICK j \in 1..applied[u] : o \in Migrations[u][j].objects
    BY <2>1 DEF CreatedBy
  <2>3. o \notin Gone(names, catalog) /\ o \in catalog
    BY <1>1
  <2>4. ~(u = t /\ j = k)
    BY <1>5, <2>2, <2>3 DEF Gone, m
  <2>5. j \in 1..applied'[u]
    BY <1>2, <1>3, <2>1, <2>2, <2>4 DEF k
  <2> QED  BY <2>1, <2>2, <2>5 DEF CreatedBy
<1>8. ASSUME NEW u \in Goals, NEW o \in CreatedBy(u, applied'[u]) PROVE o \in catalog'
  <2>1. PICK j \in 1..applied'[u] : o \in Migrations[u][j].objects
    BY DEF CreatedBy
  <2>2. j \in 1..applied[u] /\ (u # t \/ j < k)
    BY <1>2, <1>3, <2>1 DEF k
  <2>3. j \in DOMAIN Migrations[u]
    BY <1>2, <2>2, MigrationsAssumption DEF MInv, MTypeOK, MigrationsAssumption
  <2>4. o \in catalog
    BY <2>1, <2>2 DEF MInv, CatalogMatches, CreatedBy
  <2>5. o \notin Gone(names, catalog)
    BY <1>5, <2>1, <2>2, <2>3 DEF Gone
  <2> QED  BY <1>1, <2>4, <2>5
<1>9. catalog' = UNION {CreatedBy(u, applied'[u]) : u \in Goals}
  BY <1>7, <1>8
<1> QED  BY <1>6, <1>9 DEF MInv, CatalogMatches, CreatedBy

\* No call of the runner breaks the invariant.
LEMMA CallsKeepCatalog == MInv /\ [MNext]_mvars => MInv'
<1> SUFFICES ASSUME MInv, [MNext]_mvars PROVE MInv'
  OBVIOUS
<1>1. CASE MNext
  BY <1>1, MigrateCatalog, RollbackCatalog DEF MNext
<1>2. CASE UNCHANGED mvars
  BY <1>2 DEF MInv, MTypeOK, CatalogMatches, CreatedBy, mvars
<1> QED  BY <1>1, <1>2

\* The database always holds exactly the objects of the migrations applied.
THEOREM CatalogStaysMatched == MSpec => []CatalogMatches
<1>1. MInv => CatalogMatches
  BY DEF MInv
<1> QED  BY InitCatalog, CallsKeepCatalog, <1>1, PTL DEF MSpec

\* The bootstrap is applied as a whole and never rolled back: what the other
\* targets need of it is there once any of it is.
BootstrapWhole == applied["bootstrap"] \in {0, Len(Migrations["bootstrap"])}

LEMMA CallsKeepBootstrap == MInv /\ BootstrapWhole /\ [MNext]_mvars => BootstrapWhole'
<1> SUFFICES ASSUME MInv, BootstrapWhole, [MNext]_mvars PROVE BootstrapWhole'
  OBVIOUS
<1>1. applied \in [Goals -> Nat] /\ "bootstrap" \in Goals
  BY NeedsAssumption DEF MInv, MTypeOK, NeedsAssumption
<1>2. ASSUME NEW t \in Goals, MigrateToLatest(t) PROVE BootstrapWhole'
  BY <1>1, <1>2 DEF MigrateToLatest, BootstrapWhole
<1>3. ASSUME NEW t \in Goals, MigrateDown(t) PROVE BootstrapWhole'
  BY <1>1, <1>3 DEF MigrateDown, CanRollBack, BootstrapWhole
<1>4. CASE UNCHANGED mvars
  BY <1>4 DEF BootstrapWhole, mvars
<1> QED  BY <1>2, <1>3, <1>4 DEF MNext

\* What a target's pending migrations find is what the others have created and
\* what its own before them create.
LEMMA PendingMigrates ==
  ASSUME MInv, BootstrapWhole, applied["bootstrap"] > 0, NEW t \in Goals
  PROVE  CanMigrate(t)
<1> DEFINE len == Len(Migrations[t])
           before(i) == catalog \cup (CreatedBy(t, i - 1) \ CreatedBy(t, applied[t]))
           m(i) == Migrations[t][i]
<1>1. /\ applied \in [Goals -> Nat] /\ "bootstrap" \in Goals
      /\ \A u \in Goals : applied[u] <= Len(Migrations[u]) /\ Len(Migrations[u]) \in Nat
      /\ \A u \in Goals : DOMAIN Migrations[u] = 1..Len(Migrations[u])
  BY NeedsAssumption, MigrationsAssumption
  DEF MInv, MTypeOK, NeedsAssumption, MigrationsAssumption
<1>2. applied["bootstrap"] = Len(Migrations["bootstrap"])
  BY DEF BootstrapWhole
<1> SUFFICES ASSUME NEW i \in (applied[t] + 1)..len
             PROVE  /\ Names(m(i).objects) \cap Names(before(i)) = {}
                    /\ \A o \in m(i).objects : o.needs \subseteq Names(before(i) \cup m(i).objects)
  BY DEF CanMigrate
<1>3. i \in DOMAIN Migrations[t] /\ i - 1 \in Nat /\ applied[t] <= i - 1
  BY <1>1
<1>4. ASSUME NEW o \in before(i)
      PROVE  \E u \in Goals : \E j \in DOMAIN Migrations[u] :
               o \in Migrations[u][j].objects /\ (u # t \/ j # i)
  <2>1. CASE o \in catalog
    <3>1. PICK u \in Goals : o \in CreatedBy(u, applied[u])
      BY <2>1 DEF MInv, CatalogMatches
    <3>2. PICK j \in 1..applied[u] : o \in Migrations[u][j].objects
      BY <3>1 DEF CreatedBy
    <3>3. j \in DOMAIN Migrations[u]
      BY <1>1, <3>2
    <3>4. u # t \/ j # i
      BY <1>1, <1>3, <3>2
    <3> QED  BY <3>2, <3>3, <3>4
  <2>2. CASE o \in CreatedBy(t, i - 1)
    <3>1. PICK j \in 1..(i - 1) : o \in Migrations[t][j].objects
      BY <2>2 DEF CreatedBy
    <3>2. j \in DOMAIN Migrations[t] /\ j # i
      BY <1>1, <1>3, <3>1
    <3> QED  BY <3>1, <3>2
  <2> QED  BY <2>1, <2>2
<1>5. Names(m(i).objects) \cap Names(before(i)) = {}
  <2>1. ASSUME NEW o \in before(i) PROVE o.name \notin Names(m(i).objects)
    <3>1. PICK u \in Goals : \E j \in DOMAIN Migrations[u] :
            o \in Migrations[u][j].objects /\ (u # t \/ j # i)
      BY <1>4, <2>1
    <3>2. PICK j \in DOMAIN Migrations[u] : o \in Migrations[u][j].objects /\ (u # t \/ j # i)
      BY <3>1
    <3>3. Names(m(i).objects) \cap Names(Migrations[u][j].objects) = {}
      BY <1>3, <3>2, NeedsAssumption DEF NeedsAssumption
    <3> QED  BY <3>2, <3>3 DEF Names
  <2> HIDE DEF before
  <2> QED  BY <2>1 DEF Names
<1>6. CreatedBy("bootstrap", Len(Migrations["bootstrap"])) \subseteq catalog
  BY <1>1, <1>2 DEF MInv, CatalogMatches
<1>7. CreatedBy(t, i) \subseteq before(i) \cup m(i).objects
  <2>1. CreatedBy(t, applied[t]) \subseteq catalog
    BY DEF MInv, CatalogMatches
  <2>2. ASSUME NEW o \in CreatedBy(t, i) PROVE o \in CreatedBy(t, i - 1) \cup m(i).objects
    <3>1. PICK j \in 1..i : o \in Migrations[t][j].objects
      BY <2>2 DEF CreatedBy
    <3>2. CASE j = i
      BY <3>1, <3>2
    <3>3. CASE j \in 1..(i - 1)
      BY <3>1, <3>3 DEF CreatedBy
    <3> QED  BY <1>3, <3>1, <3>2, <3>3
  <2> QED  BY <2>1, <2>2
<1>8. ASSUME NEW o \in m(i).objects PROVE o.needs \subseteq Names(before(i) \cup m(i).objects)
  <2>1. o.needs \subseteq Names(CreatedBy("bootstrap", Len(Migrations["bootstrap"]))
                                \cup CreatedBy(t, i))
    BY <1>3, <1>8, NeedsAssumption DEF NeedsAssumption
  <2> HIDE DEF before, m
  <2>2. CreatedBy("bootstrap", Len(Migrations["bootstrap"])) \cup CreatedBy(t, i)
          \subseteq before(i) \cup m(i).objects
    BY <1>6, <1>7 DEF before
  <2> QED  BY <2>1, <2>2 DEF Names
<1> QED  BY <1>5, <1>8

\* Once the bootstrap is applied, nothing done since keeps a target from being
\* brought up to date.
THEOREM WayForwardStaysOpen == MSpec => []Migratable
<1>1. MInit => MInv /\ BootstrapWhole
  BY InitCatalog, NeedsAssumption DEF MInit, BootstrapWhole, NeedsAssumption
<1>2. MInv /\ BootstrapWhole => Migratable
  BY PendingMigrates DEF Migratable
<1> QED  BY <1>1, <1>2, CallsKeepCatalog, CallsKeepBootstrap, PTL DEF MSpec

(***************************************************************************)
(* The database.                                                           *)
(***************************************************************************)

\* A row never refers to itself.
NoSelf == \A l \in links : l.from # l.to

LEMMA StatementsKeepNoSelf == RInv /\ NoSelf /\ [RNext]_rvars => NoSelf'
<1> SUFFICES ASSUME RInv, NoSelf, [RNext]_rvars PROVE NoSelf'
  OBVIOUS
<1>1. ASSUME NEW r \in domain \ rows, NEW filled \in SUBSET LinksOf(r), Insert(r, filled)
      PROVE  NoSelf'
  <2>1. \A l \in filled : l.from = r /\ l.to \in rows
    BY LinksOfRow
  <2> QED  BY <1>1, <2>1 DEF NoSelf, Insert
<1>2. ASSUME NEW r \in rows, NEW x \in rows, NEW c \in DOMAIN Columns(r[1]), Fill(r, c, x)
      PROVE  NoSelf'
  <2>1. r[1] \in DOMAIN Schema
    BY RowsHaveTables DEF RInv, RTypeOK
  <2>2. Columns(r[1])[c].late /\ x[1] = Columns(r[1])[c].to
    BY <1>2 DEF Fill
  <2>3. r # x
    BY <2>1, <2>2, RulesAssumption DEF RulesAssumption, LateRule
  <2> QED  BY <1>2, <2>3 DEF NoSelf, Fill
<1>3. ASSUME NEW r \in rows, Delete(r) PROVE NoSelf'
  BY <1>3 DEF NoSelf, Delete
<1>4. CASE UNCHANGED rvars
  BY <1>4 DEF NoSelf, rvars
<1> QED  BY <1>1, <1>2, <1>3, <1>4 DEF RNext

DatabaseInv == RInv /\ NoSelf /\ MInv /\ BootstrapWhole

LEMMA InitDatabase == Init => DatabaseInv
<1> SUFFICES ASSUME Init PROVE DatabaseInv
  OBVIOUS
<1>1. RInv /\ NoSelf
  BY InitRefs DEF Init, RInit, NoSelf
<1>2. CASE MInit
  BY <1>1, <1>2, InitCatalog, NeedsAssumption
  DEF MInit, BootstrapWhole, NeedsAssumption, DatabaseInv
<1>3. CASE Deployed
  <2>1. applied \in [Goals -> Nat] /\ \A t \in Goals : applied[t] = Len(Migrations[t])
    BY <1>3, MigrationsAssumption DEF Deployed, MigrationsAssumption
  <2>2. MTypeOK
    BY <2>1, MigrationsAssumption DEF MTypeOK, MigrationsAssumption
  <2>3. CatalogMatches
    BY <1>3, <2>1 DEF Deployed, CatalogMatches
  <2>4. BootstrapWhole
    BY <2>1, NeedsAssumption DEF BootstrapWhole, NeedsAssumption
  <2> QED  BY <1>1, <2>2, <2>3, <2>4 DEF DatabaseInv, MInv
<1> QED  BY <1>2, <1>3 DEF Init

LEMMA StepDatabase == DatabaseInv /\ [Next]_vars => DatabaseInv'
<1> SUFFICES ASSUME DatabaseInv, [Next]_vars PROVE DatabaseInv'
  OBVIOUS
<1>1. [RNext]_rvars /\ [MNext]_mvars
  BY DEF Next, vars
<1> QED  BY <1>1, StatementsKeepRefs, StatementsKeepNoSelf, CallsKeepCatalog,
            CallsKeepBootstrap DEF DatabaseInv

LEMMA DatabaseHolds == Spec => []DatabaseInv
  BY InitDatabase, StepDatabase, PTL DEF Spec

\* The same of the database of this repository, whose migrations run beside its
\* rows: its catalog is what they make, and the way forward stays open.
THEOREM DatabaseInOrder == Spec => [](CatalogMatches /\ Migratable)
<1>1. DatabaseInv => CatalogMatches /\ Migratable
  BY PendingMigrates DEF DatabaseInv, RInv, MInv, Migratable
<1> QED  BY <1>1, DatabaseHolds, PTL

(***************************************************************************)
(* What a DELETE takes.                                                    *)
(***************************************************************************)

\* The hypotheses of the lemmas on Doomed.
LEMMA RowsFinite ==
  ASSUME RInv
  PROVE  /\ IsFiniteSet(rows)
         /\ \A l \in links : l.from \in rows /\ l.to \in rows
         /\ \A r \in rows : r[1] \in DOMAIN Schema
         /\ \A l \in links : l.col \in DOMAIN Columns(l.from[1]) /\ l.to[1] = Column(l).to
<1>1. rows \subseteq domain /\ IsFiniteSet(domain)
  BY SchemaAssumption DEF RInv, RTypeOK, SchemaAssumption
<1>2. IsFiniteSet(rows)
  BY <1>1, FS_Subset
<1> QED  BY <1>1, <1>2, RowsHaveTables DEF RInv, RTypeOK, RefsHold, LinksTyped

\* A row goes only with the row that a DELETE names.
LEMMA GoneByDelete ==
  ASSUME [Next]_vars, NEW r \in rows, r \notin rows'
  PROVE  \E d \in rows : Delete(d) /\ r \in Doomed(d)
  BY DEF Next, vars, rvars, RNext, Insert, Fill, Delete

\* A row whose table is not that of the row a DELETE names goes because of a
\* column of it that cascades from a row that goes.
LEMMA GoneByCascade ==
  ASSUME RInv, NEW d \in rows, NEW r \in Doomed(d), r # d
  PROVE  \E l \in links : /\ l.from = r /\ l.to \in Doomed(d)
                          /\ Column(l).onDelete = "cascade"
                          /\ \A T : l.to[1] \in T => r[1] \in Followers(T)
<1>1. PICK l \in links : /\ l.from = r /\ l.to \in Doomed(d)
                         /\ Column(l).onDelete = "cascade"
  BY RowsFinite, DoomedBy
<1>2. r[1] \in DOMAIN Schema /\ l.col \in DOMAIN Columns(r[1]) /\ Column(l).to = l.to[1]
  BY <1>1, RowsFinite
<1> QED  BY <1>1, <1>2 DEF Followers, Column

\* What goes with a record of the past is its lines.
LEMMA LinesGo ==
  ASSUME RInv, NEW r \in rows, r[1] \in History, NEW x \in Doomed(r), x # r
  PROVE  x[1] \in Followers(History)
<1> DEFINE S == {r} \cup {y \in rows : y[1] \in Followers(History)}
<1>1. ASSUME NEW l \in links, l.to \in S, Column(l).onDelete = "cascade"
      PROVE  l.from \in S
  <2>1. /\ l.from \in rows /\ l.from[1] \in DOMAIN Schema
        /\ l.col \in DOMAIN Columns(l.from[1]) /\ Column(l).to = l.to[1]
    BY RowsFinite
  <2>2. l.from[1] \in Followers({l.to[1]})
    BY <1>1, <2>1 DEF Followers, Column
  <2>3. l.to[1] \notin Followers(History)
    BY <2>2, RulesAssumption DEF RulesAssumption, HistoryRule, Followers
  <2>4. l.to = r
    BY <1>1, <2>3
  <2> QED  BY <2>1, <2>2, <2>4 DEF Followers
<1>2. Cascaded(S) \subseteq S
  BY <1>1 DEF Cascaded
<1> HIDE DEF S
<1>3. r \in S
  BY DEF S
<1>4. Doomed(r) \subseteq S
  BY <1>2, <1>3, RowsFinite, FS_CardinalityType, DoomedLeast
<1> QED  BY <1>4 DEF S

\* The past is kept, in every database whose rows were inserted and deleted by
\* statements: what records it goes by a DELETE of itself or with its store.
THEOREM PastIsKept == Spec => HistoryKept
<1> DEFINE Kept == \A r \in rows \ rows' :
             /\ r[1] # "audit_logs"
             /\ r[1] \in History /\ StoresGone = {} =>
                  \A x \in rows : RefersTo(r, x) => x \in rows'
<1>1. DatabaseInv /\ [Next]_vars => Kept
  <2> SUFFICES ASSUME DatabaseInv, [Next]_vars, NEW r \in rows, r \notin rows'
               PROVE  /\ r[1] # "audit_logs"
                      /\ r[1] \in History /\ StoresGone = {} =>
                           \A x \in rows : RefersTo(r, x) => x \in rows'
    OBVIOUS
  <2>1. PICK d \in rows : Delete(d) /\ r \in Doomed(d)
    BY GoneByDelete
  <2>2. rows' = rows \ Doomed(d) /\ RInv /\ NoSelf
    BY <2>1 DEF Delete, DatabaseInv
  <2>3. r[1] # "audit_logs"
    <3>1. CASE r = d
      BY <2>1, <3>1, RulesAssumption DEF Delete, RulesAssumption, AuditRule
    <3>2. CASE r # d
      <4>1. PICK l \in links : \A T : l.to[1] \in T => r[1] \in Followers(T)
        BY <2>1, <2>2, <3>2, GoneByCascade
      <4>2. r[1] \in Followers({l.to[1]})
        BY <4>1
      <4>3. l.to[1] \in DOMAIN Schema
        BY <2>2, RowsFinite
      <4> QED  BY <4>1, <4>3, RulesAssumption DEF RulesAssumption, AuditRule
    <3> QED  BY <3>1, <3>2
  <2>4. ASSUME r[1] \in History, StoresGone = {}, NEW x \in rows, RefersTo(r, x)
        PROVE  x \in rows'
    <3>1. PICK k \in links : k.from = r /\ k.to = x
      BY <2>4 DEF RefersTo
    <3>2. r = d
      <4> SUFFICES ASSUME r # d PROVE FALSE
        OBVIOUS
      <4>1. PICK l \in links : /\ l.from = r /\ l.to \in Doomed(d)
                               /\ Column(l).onDelete = "cascade"
        BY <2>1, <2>2, GoneByCascade
      <4>2. l.col \in DOMAIN Columns(r[1]) /\ l.to[1] = Columns(r[1])[l.col].to
              /\ r[1] \in DOMAIN Schema /\ l.to \in rows
        BY <2>2, <4>1, RowsFinite DEF Column
      <4>3. l.to[1] \in {"stores", "businesses"}
        BY <2>4, <4>1, <4>2, RulesAssumption DEF RulesAssumption, HistoryRule, Column
      <4> QED  BY <2>2, <2>4, <4>1, <4>2, <4>3 DEF StoresGone
    <3>3. x # r
      BY <2>2, <3>1 DEF NoSelf
    <3>4. x[1] \notin Followers(History)
      <4>1. k.col \in DOMAIN Columns(r[1]) /\ x[1] = Columns(r[1])[k.col].to
              /\ r[1] \in DOMAIN Schema
        BY <2>2, <3>1, RowsFinite DEF Column
      <4> QED  BY <2>4, <4>1, RulesAssumption DEF RulesAssumption, HistoryRule
    <3>5. x \notin Doomed(d)
      BY <2>2, <2>4, <3>2, <3>3, <3>4, LinesGo
    <3> QED  BY <2>2, <3>5
  <2> QED  BY <2>3, <2>4
<1>2. Kept => [Kept]_rvars
  OBVIOUS
<1> QED  BY <1>1, DatabaseHolds, PTL DEF Spec, HistoryKept

\* A correction knows what it corrects for as long as it exists: its reference is
\* not emptied, so what it refers to does not go without it.
THEOREM CorrectionsAreKept == Spec => LinksKept
<1> DEFINE Kept == \A l \in links : l.col \in Corrections /\ l.from \in rows' => l \in links'
<1>1. DatabaseInv /\ [Next]_vars => Kept
  <2> SUFFICES ASSUME DatabaseInv, [Next]_vars,
                      NEW l \in links, l.col \in Corrections, l.from \in rows'
               PROVE  l \in links'
    OBVIOUS
  <2>1. ASSUME NEW d \in rows, Delete(d) PROVE l \in links'
    <3>1. /\ rows' = rows \ Doomed(d) /\ Hindrances(Doomed(d)) = {}
          /\ links' = {k \in links : {k.from, k.to} \cap Doomed(d) = {}}
      BY <2>1 DEF Delete, CanDelete
    <3>2. l.col \in DOMAIN Columns(l.from[1]) /\ l.from[1] \in DOMAIN Schema
      BY RowsFinite DEF DatabaseInv
    <3>3. ~Emptied(l)
      BY <3>2, RulesAssumption DEF RulesAssumption, CorrectionRule, Emptied, Column
    <3>4. l.from \notin Doomed(d)
      BY <3>1
    <3>5. l.to \notin Doomed(d)
      BY <3>1, <3>3, <3>4 DEF Hindrances
    <3> QED  BY <3>1, <3>4, <3>5
  <2>2. CASE ~\E d \in rows : Delete(d)
    BY <2>2 DEF Next, vars, rvars, RNext, Insert, Fill
  <2> QED  BY <2>1, <2>2
<1>2. Kept => [Kept]_rvars
  OBVIOUS
<1> QED  BY <1>1, DatabaseHolds, PTL DEF Spec, LinksKept

(***************************************************************************)
(* What stands in the way of a DELETE.                                     *)
(***************************************************************************)

\* A reference that a deleted row leaves stands in the way if its column holds.
LEMMA HoldersHinder ==
  ASSUME RInv, NEW d \in rows, CanDelete(d), NEW l \in links,
         l.to \in Doomed(d), Holds(Column(l))
  PROVE  l.from \in Doomed(d)
  BY DEF CanDelete, Hindrances, Holds, Emptied

\* What stands in the way of a DELETE is a column that holds.
LEMMA HindrancesHold ==
  ASSUME RInv, NEW d \in rows, ~CanDelete(d)
  PROVE  \E l \in links : /\ l.to \in Doomed(d) /\ l.from \notin Doomed(d)
                          /\ Holds(Column(l))
<1>1. PICK l \in Hindrances(Doomed(d)) : TRUE
  BY DEF CanDelete
<1>2. l \in links /\ l.to \in Doomed(d) /\ l.from \notin Doomed(d) /\ ~Emptied(l)
  BY <1>1 DEF Hindrances
<1>3. Column(l).onDelete # "cascade"
  <2>1. Cascaded(Doomed(d)) \subseteq Doomed(d)
    BY RowsFinite, DoomedClosed
  <2> QED  BY <1>2, <2>1 DEF Cascaded
<1> QED  BY <1>2, <1>3 DEF Holds, Emptied

UserOwn == {"user_security", "action_tokens", "store_members"}
Leaving == {"users", "notification_receipts"} \cup UserOwn

\* What goes with a user: rows of their own, which name them, and receipts.
LEMMA GoesWithUser ==
  ASSUME RInv, NEW u \in rows, u[1] = "users", NEW x \in Doomed(u), x # u
  PROVE  \/ x[1] \in UserOwn /\ RefersTo(x, u)
         \/ x[1] = "notification_receipts"
<1> DEFINE S == {u} \cup {y \in rows : \/ y[1] \in UserOwn /\ RefersTo(y, u)
                                       \/ y[1] = "notification_receipts"}
<1>1. ASSUME NEW l \in links, l.to \in S, Column(l).onDelete = "cascade"
      PROVE  l.from \in S
  <2>1. /\ l.from \in rows /\ l.from[1] \in DOMAIN Schema
        /\ l.col \in DOMAIN Columns(l.from[1]) /\ Column(l).to = l.to[1]
    BY RowsFinite
  <2>2. \A T : l.to[1] \in T => l.from[1] \in Followers(T)
    BY <1>1, <2>1 DEF Followers, Column
  <2>3. CASE l.to = u
    <3>1. l.from[1] \in UserOwn
      BY <2>2, <2>3, RulesAssumption DEF RulesAssumption, UserRule, UserOwn
    <3> QED  BY <2>1, <2>3, <3>1 DEF RefersTo
  <2>4. CASE l.to[1] \in UserOwn
    BY <2>1, <2>2, <2>4, RulesAssumption DEF RulesAssumption, UserRule, UserOwn
  <2>5. CASE l.to[1] = "notification_receipts"
    <3>1. l.from[1] \in Followers({"notification_receipts"})
      BY <2>2, <2>5
    <3> QED  BY <3>1, RulesAssumption DEF RulesAssumption, UserRule
  <2> QED  BY <1>1, <2>3, <2>4, <2>5
<1>2. Cascaded(S) \subseteq S
  BY <1>1 DEF Cascaded
<1> HIDE DEF S
<1>3. u \in S
  BY DEF S
<1>4. Doomed(u) \subseteq S
  BY <1>2, <1>3, RowsFinite, FS_CardinalityType, DoomedLeast
<1> QED  BY <1>4 DEF S

\* A user leaves unless one of the columns that UserLeaves names holds.
LEMMA UsersLeave == RInv => UserLeaves
<1> SUFFICES ASSUME RInv, NEW u \in rows, u[1] = "users"
             PROVE  CanDelete(u) <=>
               /\ \A r \in rows : RefersTo(r, u) =>
                    r[1] \notin {"businesses", "store_invitations"}
               /\ \A m \in {r \in rows : r[1] = "store_members" /\ RefersTo(r, u)} :
                    \A l \in links : l.to = m =>
                      l.col \notin MemberKeepers /\ l.from[1] # "notification_deliveries"
  BY DEF UserLeaves
<1>1. \A l \in links : /\ l.from \in rows /\ l.from[1] \in DOMAIN Schema
                       /\ l.col \in DOMAIN Columns(l.from[1])
                       /\ Columns(l.from[1])[l.col] = Column(l) /\ Column(l).to = l.to[1]
  BY RowsFinite DEF Column
<1>2. \A l \in links :
        /\ l.to[1] = "users" =>
             (Holds(Column(l)) <=> l.from[1] \in {"businesses", "store_invitations"})
        /\ l.to[1] = "store_members" =>
             (Holds(Column(l)) <=> l.col \in MemberKeepers \/ l.from[1] = "notification_deliveries")
        /\ l.to[1] \in {"user_security", "action_tokens", "notification_receipts"} =>
             ~Holds(Column(l))
        /\ l.from[1] \in Leaving /\ l.to[1] \in Leaving => Column(l).onDelete = "cascade"
  BY <1>1, RulesAssumption DEF RulesAssumption, UserRule, Leaving, UserOwn
<1>3. u \in Doomed(u)
  BY RowsFinite, DoomedClosed
<1>4. \A x \in Doomed(u) : x[1] \in Leaving
  BY GoesWithUser DEF Leaving
<1>5. ASSUME CanDelete(u), NEW r \in rows, RefersTo(r, u)
      PROVE  r[1] \notin {"businesses", "store_invitations"}
  <2>1. PICK l \in links : l.from = r /\ l.to = u
    BY <1>5 DEF RefersTo
  <2>2. Holds(Column(l)) => r \in Doomed(u)
    BY <1>3, <1>5, <2>1, HoldersHinder
  <2> QED  BY <1>2, <1>4, <2>1, <2>2 DEF UserOwn, Leaving
<1>6. ASSUME CanDelete(u), NEW m \in rows, m[1] = "store_members", RefersTo(m, u),
             NEW l \in links, l.to = m
      PROVE  l.col \notin MemberKeepers /\ l.from[1] # "notification_deliveries"
  <2>1. PICK k \in links : k.from = m /\ k.to = u
    BY <1>6 DEF RefersTo
  <2>2. m \in Cascaded(Doomed(u))
    BY <1>2, <1>3, <1>6, <2>1 DEF Cascaded, Leaving, UserOwn
  <2>3. m \in Doomed(u)
    BY <2>2, RowsFinite, DoomedClosed
  <2>4. Holds(Column(l)) => l.from[1] \in Leaving
    BY <1>4, <1>6, <2>3, HoldersHinder
  <2>5. ~Holds(Column(l))
    BY <1>2, <1>6, <2>4 DEF Holds, Leaving, UserOwn
  <2> QED  BY <1>2, <1>6, <2>5
<1>7. ASSUME \A r \in rows : RefersTo(r, u) => r[1] \notin {"businesses", "store_invitations"},
             \A m \in {r \in rows : r[1] = "store_members" /\ RefersTo(r, u)} :
                    \A l \in links : l.to = m =>
                      l.col \notin MemberKeepers /\ l.from[1] # "notification_deliveries"
      PROVE  CanDelete(u)
  <2> SUFFICES ASSUME ~CanDelete(u) PROVE FALSE
    OBVIOUS
  <2>1. PICK l \in links : /\ l.to \in Doomed(u) /\ l.from \notin Doomed(u)
                           /\ Holds(Column(l))
    BY HindrancesHold
  <2>2. CASE l.to = u
    BY <1>1, <1>2, <1>7, <2>1, <2>2 DEF RefersTo
  <2>3. CASE l.to # u
    <3>1. l.to[1] = "store_members" /\ RefersTo(l.to, u)
      BY <1>2, <2>1, <2>3, GoesWithUser DEF UserOwn
    <3>2. l.to \in rows
      BY RowsFinite
    <3> QED  BY <1>2, <1>7, <2>1, <3>1, <3>2
  <2> QED  BY <2>2, <2>3
<1> QED  BY <1>5, <1>6, <1>7

StoreOwn == Followers({"stores"})

\* What StoreRule says of a link.
LEMMA StoreLinks ==
  ASSUME RInv, NEW l \in links
  PROVE  /\ l.from \in rows /\ l.to \in rows
         /\ l.to[1] = "stores" /\ l.from[1] \in StoreOwn =>
              l.col = "store_id" /\ Column(l).onDelete = "cascade"
         /\ l.to[1] = "stores" /\ l.from[1] \notin StoreOwn =>
              (Holds(Column(l)) <=> l.from[1] \in StoreKeepers)
         /\ l.to[1] \in StoreOwn /\ l.from[1] \notin StoreOwn =>
              /\ Column(l).onDelete # "cascade"
              /\ Holds(Column(l)) => l.from[1] \in StoreKeepers
<1>1. /\ l.from \in rows /\ l.to \in rows /\ l.from[1] \in DOMAIN Schema
      /\ l.col \in DOMAIN Columns(l.from[1])
      /\ Columns(l.from[1])[l.col] = Column(l) /\ Column(l).to = l.to[1]
  BY RowsFinite DEF Column
<1>2. l.to[1] \in StoreOwn /\ Column(l).onDelete = "cascade" => l.from[1] \in StoreOwn
  <2>1. Followers(StoreOwn) \subseteq StoreOwn
    BY RulesAssumption DEF RulesAssumption, StoreRule, StoreOwn
  <2> QED  BY <1>1, <2>1 DEF Followers, Column
<1> QED  BY <1>1, <1>2, RulesAssumption DEF RulesAssumption, StoreRule, StoreOwn

\* A row of a store's own tables, or one that holds on to such a row, belongs to a
\* store.
LEMMA HasStore ==
  ASSUME RInv, NEW r \in rows,
         \/ r[1] \in StoreOwn
         \/ \E l \in links : l.from = r /\ l.to[1] \in StoreOwn /\ Holds(Column(l))
  PROVE  \E s \in rows : s[1] = "stores" /\ BelongsTo(r, s)
<1> DEFINE k == Columns(r[1])["store_id"]
<1>1. r[1] \in DOMAIN Schema
  BY RowsFinite
<1>2. "store_id" \in DOMAIN Columns(r[1]) /\ k.to = "stores" /\ ~k.nullable
  <2>1. CASE r[1] \in StoreOwn
    <3>1. PICK c \in DOMAIN Columns(r[1]) : Columns(r[1])[c].to = "stores"
      BY <2>1 DEF StoreOwn, Followers
    <3> QED  BY <1>1, <2>1, <3>1, RulesAssumption DEF RulesAssumption, StoreRule, StoreOwn
  <2>2. CASE r[1] \notin StoreOwn
    <3>1. PICK l \in links : l.from = r /\ l.to[1] \in StoreOwn /\ Holds(Column(l))
      BY <2>2
    <3>2. l.col \in DOMAIN Columns(r[1]) /\ Columns(r[1])[l.col] = Column(l)
            /\ Column(l).to = l.to[1]
      BY <3>1, RowsFinite DEF Column
    <3> QED  BY <1>1, <2>2, <3>1, <3>2, RulesAssumption DEF RulesAssumption, StoreRule, StoreOwn
  <2> QED  BY <2>1, <2>2
<1>3. PICK l \in links : l.from = r /\ l.col = "store_id"
  BY <1>2 DEF RInv, RefsHold
<1>4. l.to \in rows /\ l.to[1] = "stores"
  BY <1>2, <1>3, RowsFinite DEF Column
<1> QED  BY <1>3, <1>4 DEF BelongsTo

\* What goes with a store that others do not refer into is its own rows.
LEMMA GoesWithStore ==
  ASSUME RInv, NEW s \in rows, s[1] = "stores", Apart(s), NEW x \in Doomed(s), x # s
  PROVE  x[1] \in StoreOwn /\ BelongsTo(x, s)
<1> DEFINE S == {s} \cup {y \in rows : y[1] \in StoreOwn /\ BelongsTo(y, s)}
<1>1. ASSUME NEW l \in links, l.to \in S, Column(l).onDelete = "cascade"
      PROVE  l.from \in S
  <2>1. l.from \in rows /\ l.from[1] \in DOMAIN Schema
    BY RowsFinite
  <2>2. CASE l.to = s
    <3>1. l.from[1] \in StoreOwn
      BY <1>1, <2>1, <2>2, RowsFinite DEF StoreOwn, Followers, Column
    <3> QED  BY <2>1, <2>2, <3>1, StoreLinks DEF BelongsTo
  <2>3. CASE l.to[1] \in StoreOwn /\ BelongsTo(l.to, s)
    <3>1. l.from[1] \in StoreOwn
      BY <1>1, <2>3, StoreLinks
    <3>2. PICK z \in rows : BelongsTo(l.from, z)
      BY <2>1, <3>1, HasStore
    <3>3. z = s
      BY <2>3, <3>2 DEF Apart
    <3> QED  BY <2>1, <3>1, <3>2, <3>3
  <2> QED  BY <1>1, <2>2, <2>3
<1>2. Cascaded(S) \subseteq S
  BY <1>1 DEF Cascaded
<1> HIDE DEF S
<1>3. s \in S
  BY DEF S
<1>4. Doomed(s) \subseteq S
  BY <1>2, <1>3, RowsFinite, FS_CardinalityType, DoomedLeast
<1> QED  BY <1>4 DEF S

\* A store leaves unless one of its keepers has a row that refers to it.
LEMMA StoresLeave == RInv => StoreLeaves
<1> SUFFICES ASSUME RInv, NEW s \in rows, s[1] = "stores", Apart(s)
             PROVE  CanDelete(s) <=>
                      \A r \in rows : RefersTo(r, s) => r[1] \notin StoreKeepers
  BY DEF StoreLeaves
<1>1. s \in Doomed(s) /\ Cascaded(Doomed(s)) \subseteq Doomed(s)
  BY RowsFinite, DoomedClosed
<1>2. StoreKeepers \cap StoreOwn = {} /\ "stores" \notin StoreKeepers
  BY RulesAssumption DEF RulesAssumption, StoreRule, StoreOwn, StoreKeepers
<1>3. ASSUME CanDelete(s), NEW r \in rows, RefersTo(r, s)
      PROVE  r[1] \notin StoreKeepers
  <2>1. PICK l \in links : l.from = r /\ l.to = s
    BY <1>3 DEF RefersTo
  <2>2. Holds(Column(l)) => r \in Doomed(s)
    BY <1>1, <1>3, <2>1, HoldersHinder
  <2>3. r \in Doomed(s) => r[1] \notin StoreKeepers
    BY <1>2, GoesWithStore
  <2> QED  BY <1>2, <2>1, <2>2, <2>3, StoreLinks
<1>4. ASSUME \A r \in rows : RefersTo(r, s) => r[1] \notin StoreKeepers
      PROVE  CanDelete(s)
  <2> SUFFICES ASSUME ~CanDelete(s) PROVE FALSE
    OBVIOUS
  <2>1. PICK l \in links : /\ l.to \in Doomed(s) /\ l.from \notin Doomed(s)
                           /\ Holds(Column(l))
    BY HindrancesHold
  <2>2. l.from \in rows
    BY StoreLinks
  <2>3. ASSUME BelongsTo(l.from, s) PROVE FALSE
    <3>1. PICK k \in links : k.from = l.from /\ k.to = s
      BY <2>3 DEF BelongsTo
    <3>2. k.from[1] \in StoreOwn => k.from \in Cascaded(Doomed(s))
      BY <1>1, <3>1, StoreLinks DEF Cascaded
    <3>3. k.from[1] \notin StoreOwn
      BY <1>1, <2>1, <3>1, <3>2
    <3>4. k.from[1] \notin StoreKeepers
      BY <1>4, <2>2, <3>1 DEF RefersTo
    <3>5. l.to[1] \in StoreOwn \/ l.to = s
      BY <2>1, GoesWithStore
    <3> QED  BY <2>1, <3>1, <3>3, <3>4, <3>5, StoreLinks
  <2>4. CASE l.to = s
    <3>1. l.from[1] \notin StoreKeepers
      BY <1>4, <2>2, <2>4 DEF RefersTo
    <3> QED  BY <2>1, <2>4, <3>1, StoreLinks DEF Holds
  <2>5. CASE l.to # s
    <3>1. l.to[1] \in StoreOwn /\ BelongsTo(l.to, s)
      BY <2>1, <2>5, GoesWithStore
    <3>2. PICK z \in rows : BelongsTo(l.from, z)
      BY <2>1, <2>2, <3>1, HasStore
    <3>3. z = s
      BY <3>1, <3>2 DEF Apart
    <3> QED  BY <2>3, <3>2, <3>3
  <2> QED  BY <2>4, <2>5
<1> QED  BY <1>3, <1>4

\* Stores and users can be deleted but for what CanLeave names.
THEOREM StoresAndUsersCanLeave == Spec => []CanLeave
<1>1. DatabaseInv => CanLeave
  BY UsersLeave, StoresLeave DEF DatabaseInv, CanLeave
<1> QED  BY <1>1, DatabaseHolds, PTL
=============================================================================
