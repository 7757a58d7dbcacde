----------------------- MODULE RelationalStoreProofs -----------------------
(***************************************************************************)
(* Lemmas about rows and references, for every schema whose SET NULL       *)
(* columns are nullable: what the proofs about the schema of this          *)
(* repository (StoreDatabaseProofs) take from PostgreSQL.                  *)
(***************************************************************************)
EXTENDS RelationalStore, FiniteSetTheorems, WellFoundedInduction, TLAPS

\* What RefsHold needs to be inductive: a link is of a column its row's table
\* declares, so that the delete rule of the column is one of the four.
LinksTyped ==
  \A l \in links : l.from \in domain /\ l.col \in DOMAIN Columns(l.from[1])

RInv == RTypeOK /\ RefsHold /\ LinksTyped

\* A row of a domain is of a table of the schema.
LEMMA RowsHaveTables == RTypeOK => \A r \in domain : r[1] \in DOMAIN Schema
  BY SchemaAssumption DEF RTypeOK, SchemaAssumption

\* At first there are no rows and nothing that could refer to one.
LEMMA InitRefs == RInit => RInv
  BY DEF RInit, RInv, RTypeOK, RefsHold, LinksTyped

\* The links of an inserted row are of its columns and lead to existing rows.
LEMMA LinksOfRow ==
  ASSUME NEW r, NEW l \in LinksOf(r)
  PROVE  /\ l.from = r
         /\ l.col \in DOMAIN Columns(r[1])
         /\ l.to \in rows
         /\ l.to[1] = Columns(r[1])[l.col].to
  BY DEF LinksOf

\* An INSERT fills each NOT NULL column once, and only from rows that exist.
LEMMA InsertRefs ==
  ASSUME RInv, NEW r \in domain \ rows, NEW filled \in SUBSET LinksOf(r),
         Insert(r, filled)
  PROVE  RInv'
<1>1. /\ rows' = rows \cup {r}
      /\ links' = links \cup filled
      /\ domain' = domain
  BY DEF Insert
<1>2. \A l \in filled : /\ l.from = r /\ l.col \in DOMAIN Columns(r[1])
                        /\ l.to \in rows /\ l.to[1] = Columns(r[1])[l.col].to
  BY LinksOfRow
<1>3. \A l \in links : l.from \in rows
  BY DEF RInv, RefsHold
<1>4. RTypeOK'
  BY <1>1, <1>2 DEF RInv, RTypeOK, Columns
<1>5. LinksTyped'
  BY <1>1, <1>2 DEF RInv, LinksTyped, Columns
<1>6. RefsHold'
  <2>1. \A l \in links' : {l.from, l.to} \subseteq rows' /\ l.to[1] = Column(l).to
    BY <1>1, <1>2 DEF RInv, RefsHold, Column
  <2>2. \A l, m \in links' : l.from = m.from /\ l.col = m.col => l = m
    <3>1. \A l, m \in filled : l.col = m.col => l = m
      BY DEF Insert, Fills
    <3> QED  BY <1>1, <1>2, <1>3, <3>1 DEF RInv, RefsHold
  <2>3. ASSUME NEW x \in rows', NEW c \in DOMAIN Columns(x[1]), ~Columns(x[1])[c].nullable
        PROVE  \E l \in links' : l.from = x /\ l.col = c
    <3>1. CASE x = r
      <4>1. c \in {l.col : l \in filled}
        BY <2>3, <3>1 DEF Insert, Fills
      <4> QED  BY <1>1, <1>2, <3>1, <4>1
    <3>2. CASE x \in rows
      BY <1>1, <2>3, <3>2 DEF RInv, RefsHold
    <3> QED  BY <1>1, <3>1, <3>2
  <2> QED  BY <2>1, <2>2, <2>3 DEF RefsHold, Column, Columns
<1> QED  BY <1>4, <1>5, <1>6 DEF RInv

\* An UPDATE fills an empty column of a row that exists.
LEMMA FillRefs ==
  ASSUME RInv, NEW r \in rows, NEW x \in rows, NEW c \in DOMAIN Columns(r[1]),
         Fill(r, c, x)
  PROVE  RInv'
<1> DEFINE new == [from |-> r, col |-> c, to |-> x]
<1>1. /\ rows' = rows /\ domain' = domain
      /\ links' = links \cup {new}
      /\ x[1] = Columns(r[1])[c].to
      /\ ~\E l \in links : l.from = r /\ l.col = c
  BY DEF Fill
<1>2. r \in domain
  BY DEF RInv, RTypeOK
<1>3. RTypeOK' /\ LinksTyped'
  BY <1>1, <1>2 DEF RInv, RTypeOK, LinksTyped, Columns
<1>4. \A l \in links' : {l.from, l.to} \subseteq rows' /\ l.to[1] = Column(l).to
  BY <1>1 DEF RInv, RefsHold, Column
<1>5. \A l, m \in links' : l.from = m.from /\ l.col = m.col => l = m
  BY <1>1 DEF RInv, RefsHold
<1>6. \A y \in rows' : \A d \in DOMAIN Columns(y[1]) :
         Columns(y[1])[d].nullable \/ \E l \in links' : l.from = y /\ l.col = d
  BY <1>1 DEF RInv, RefsHold
<1>7. RefsHold'
  BY <1>4, <1>5, <1>6 DEF RefsHold, Column, Columns
<1> QED  BY <1>3, <1>7 DEF RInv

(***************************************************************************)
(* Doomed(r) is the least set that holds r and is closed under cascades.   *)
(***************************************************************************)

\* Induction over the natural numbers, for a set of them.
Below == {p \in Nat \X Nat : p[1] < p[2]}

LEMMA BelowWellFounded == IsWellFoundedOn(Below, Nat)
  BY NatLessThanWellFounded DEF OpToRel, Below

LEMMA Induct ==
  ASSUME NEW S, 0 \in S, \A n \in Nat : n \in S => n + 1 \in S
  PROVE  Nat \subseteq S
<1> SUFFICES ASSUME Nat \ S # {} PROVE FALSE
  OBVIOUS
<1>1. PICK n \in Nat \ S : \A m \in Nat \ S : <<m, n>> \notin Below
  <2>1. Nat \ S \subseteq Nat
    OBVIOUS
  <2> QED  BY <2>1, BelowWellFounded, WFMin
<1>2. n # 0 /\ n - 1 \in Nat
  OBVIOUS
<1>3. n - 1 \notin S
  BY <1>2
<1>4. <<n - 1, n>> \in Below
  BY <1>2 DEF Below
<1> QED  BY <1>1, <1>2, <1>3, <1>4

\* h is what a cascade from r makes of it in up to n steps.
Spreads(h, r, n) ==
  h = [i \in 0..n |-> IF i = 0 THEN {r} ELSE h[i - 1] \cup Cascaded(h[i - 1])]

LEMMA SpreadExists ==
  ASSUME NEW r, NEW n \in Nat
  PROVE  \E h : Spreads(h, r, n)
<1> DEFINE S == {k \in Nat : \E h : Spreads(h, r, k)}
<1>1. 0 \in S
  <2>1. Spreads([i \in 0..0 |-> {r}], r, 0)
    BY DEF Spreads
  <2> QED  BY <2>1
<1>2. ASSUME NEW k \in Nat, k \in S PROVE k + 1 \in S
  <2>1. PICK h : Spreads(h, r, k)
    BY <1>2
  <2> DEFINE g == [i \in 0..(k + 1) |-> IF i = k + 1 THEN h[k] \cup Cascaded(h[k]) ELSE h[i]]
  <2>2. \A i \in 0..k : h[i] = IF i = 0 THEN {r} ELSE h[i - 1] \cup Cascaded(h[i - 1])
    BY <2>1 DEF Spreads
  <2>3. \A i \in 0..(k + 1) :
          g[i] = IF i = 0 THEN {r} ELSE g[i - 1] \cup Cascaded(g[i - 1])
    <3> SUFFICES ASSUME NEW i \in 0..(k + 1)
                 PROVE  g[i] = IF i = 0 THEN {r} ELSE g[i - 1] \cup Cascaded(g[i - 1])
      OBVIOUS
    <3>1. CASE i = 0
      <4>1. 0 \in 0..(k + 1) /\ 0 # k + 1 /\ 0 \in 0..k
        OBVIOUS
      <4>2. g[0] = h[0]
        BY <4>1
      <4> HIDE DEF g
      <4> QED  BY <2>2, <3>1, <4>1, <4>2
    <3>2. CASE i \in 1..k
      <4>1. i - 1 \in 0..(k + 1) /\ i - 1 # k + 1 /\ i # k + 1 /\ i \in 0..k
        BY <3>2
      <4>2. g[i] = h[i] /\ g[i - 1] = h[i - 1]
        BY <4>1
      <4> HIDE DEF g
      <4> QED  BY <2>2, <3>2, <4>1, <4>2
    <3>3. CASE i = k + 1
      <4>1. k \in 0..(k + 1) /\ k # k + 1 /\ i - 1 = k
        BY <3>3
      <4>2. g[i] = h[k] \cup Cascaded(h[k]) /\ g[k] = h[k]
        BY <3>3, <4>1
      <4> HIDE DEF g
      <4> QED  BY <3>3, <4>1, <4>2
    <3> QED  BY <3>1, <3>2, <3>3
  <2>4. Spreads(g, r, k + 1)
    <3>1. g = [i \in 0..(k + 1) |-> g[i]]
      OBVIOUS
    <3> HIDE DEF g
    <3> QED  BY <2>3, <3>1 DEF Spreads
  <2> QED  BY <2>4
<1> HIDE DEF S
<1>3. Nat \subseteq S
  BY <1>1, <1>2, Induct
<1> QED  BY <1>3 DEF S

\* Doomed(r) is the last step of such a spread.
DoomedAfter(h, r) ==
  /\ h[0] = {r}
  /\ \A i \in Nat : i + 1 <= Cardinality(rows) => h[i + 1] = h[i] \cup Cascaded(h[i])
  /\ Doomed(r) = h[Cardinality(rows)]

LEMMA DoomedSpreads ==
  ASSUME NEW r, Cardinality(rows) \in Nat
  PROVE  \E h : DoomedAfter(h, r)
<1> DEFINE N == Cardinality(rows)
           h == CHOOSE f : Spreads(f, r, N)
<1>1. Spreads(h, r, N)
  BY SpreadExists
<1>2. Doomed(r) = h[N]
  BY DEF Doomed, Spreads
<1> HIDE DEF h, N
<1>3. \A i \in 0..N : h[i] = IF i = 0 THEN {r} ELSE h[i - 1] \cup Cascaded(h[i - 1])
  BY <1>1 DEF Spreads
<1>4. h[0] = {r}
  <2>1. 0 \in 0..N
    BY DEF N
  <2> QED  BY <1>3, <2>1
<1>5. ASSUME NEW i \in Nat, i + 1 <= N PROVE h[i + 1] = h[i] \cup Cascaded(h[i])
  <2>1. i + 1 \in 0..N /\ i + 1 # 0 /\ (i + 1) - 1 = i
    BY <1>5 DEF N
  <2> QED  BY <1>3, <2>1
<1> QED  BY <1>2, <1>4, <1>5 DEF N, DoomedAfter

\* What goes with r is the least of the sets that hold r and all that cascades
\* from them.
LEMMA DoomedLeast ==
  ASSUME NEW r, Cardinality(rows) \in Nat, NEW S, r \in S, Cascaded(S) \subseteq S
  PROVE  Doomed(r) \subseteq S
<1> DEFINE N == Cardinality(rows)
<1>1. PICK h : DoomedAfter(h, r)
  BY DoomedSpreads
<1>2. /\ h[0] = {r} /\ Doomed(r) = h[N]
      /\ \A i \in Nat : i + 1 <= N => h[i + 1] = h[i] \cup Cascaded(h[i])
  BY <1>1 DEF DoomedAfter
<1> HIDE DEF N
<1> DEFINE T == {i \in Nat : i <= N => h[i] \subseteq S}
<1>3. 0 \in T
  BY <1>2
<1>4. ASSUME NEW i \in Nat, i \in T PROVE i + 1 \in T
  <2> SUFFICES ASSUME i + 1 <= N PROVE h[i + 1] \subseteq S
    OBVIOUS
  <2>1. h[i] \subseteq S
    BY <1>4 DEF N
  <2>2. h[i + 1] = h[i] \cup Cascaded(h[i])
    BY <1>2
  <2> QED  BY <2>1, <2>2 DEF Cascaded
<1> HIDE DEF T
<1>5. Nat \subseteq T
  BY <1>3, <1>4, Induct
<1> QED  BY <1>2, <1>5 DEF T, N

\* The spread ends: each step that is not the last takes one more row, and there
\* are no more than there are rows.
LEMMA DoomedClosed ==
  ASSUME NEW r \in rows, IsFiniteSet(rows), \A l \in links : l.from \in rows
  PROVE  /\ r \in Doomed(r)
         /\ Doomed(r) \subseteq rows
         /\ Cascaded(Doomed(r)) \subseteq Doomed(r)
<1> DEFINE N == Cardinality(rows)
<1>1. N \in Nat
  BY FS_CardinalityType
<1>2. PICK h : DoomedAfter(h, r)
  BY <1>1, DoomedSpreads
<1>3. /\ h[0] = {r} /\ Doomed(r) = h[N]
      /\ \A i \in Nat : i + 1 <= N => h[i + 1] = h[i] \cup Cascaded(h[i])
  BY <1>2 DEF DoomedAfter
<1> HIDE DEF N
<1>4. \A S : Cascaded(S) \subseteq rows
  BY DEF Cascaded
<1> DEFINE Grown(i) == /\ r \in h[i] /\ h[i] \subseteq rows
                       /\ Cascaded(h[i]) \subseteq h[i] \/ Cardinality(h[i]) > i
           T == {i \in Nat : i <= N => Grown(i)}
<1>5. 0 \in T
  <2>1. Cardinality(h[0]) = 1
    BY <1>3, FS_Singleton
  <2>2. Grown(0)
    BY <1>3, <2>1
  <2> QED  BY <2>2
<1>6. ASSUME NEW i \in Nat, i \in T PROVE i + 1 \in T
  <2> SUFFICES ASSUME i + 1 <= N PROVE Grown(i + 1)
    OBVIOUS
  <2>1. Grown(i)
    BY <1>1, <1>6
  <2>2. h[i + 1] = h[i] \cup Cascaded(h[i])
    BY <1>3
  <2>3. CASE Cascaded(h[i]) \subseteq h[i]
    <3>1. h[i + 1] = h[i]
      BY <2>2, <2>3
    <3> QED  BY <2>1, <2>3, <3>1
  <2>4. CASE ~(Cascaded(h[i]) \subseteq h[i])
    <3>1. /\ h[i + 1] \subseteq rows
          /\ h[i] \subseteq h[i + 1] /\ h[i] # h[i + 1]
      BY <1>4, <2>1, <2>2, <2>4
    <3>2. IsFiniteSet(h[i + 1])
      BY <3>1, FS_Subset
    <3>3. IsFiniteSet(h[i]) /\ Cardinality(h[i]) < Cardinality(h[i + 1])
      BY <3>1, <3>2, FS_Subset, FS_CardinalityType
    <3>4. Cardinality(h[i]) \in Nat /\ Cardinality(h[i + 1]) \in Nat
      BY <3>2, <3>3, FS_CardinalityType
    <3>5. Cardinality(h[i]) > i
      BY <2>1, <2>4
    <3>6. Cardinality(h[i + 1]) > i + 1
      BY <3>3, <3>4, <3>5
    <3> QED  BY <2>1, <3>1, <3>6
  <2> QED  BY <2>3, <2>4
<1> HIDE DEF T
<1>7. Nat \subseteq T
  BY <1>5, <1>6, Induct
<1>8. Grown(N)
  BY <1>1, <1>7 DEF T
<1>9. Cardinality(h[N]) <= N
  BY <1>8, FS_Subset DEF N
<1>10. Cardinality(h[N]) \in Nat
  BY <1>8, FS_Subset, FS_CardinalityType
<1> QED  BY <1>1, <1>3, <1>8, <1>9, <1>10

\* All that goes with r does so because a row that goes had it cascade.
LEMMA DoomedBy ==
  ASSUME NEW r \in rows, IsFiniteSet(rows), \A l \in links : l.from \in rows,
         NEW x \in Doomed(r), x # r
  PROVE  \E l \in links : /\ l.from = x /\ l.to \in Doomed(r)
                          /\ Column(l).onDelete = "cascade"
<1> DEFINE S == {r} \cup Cascaded(Doomed(r))
<1>1. S \subseteq Doomed(r)
  BY DoomedClosed
<1>2. Cascaded(S) \subseteq S
  BY <1>1 DEF Cascaded
<1>3. Doomed(r) \subseteq S
  BY <1>2, DoomedLeast, FS_CardinalityType
<1> QED  BY <1>3 DEF Cascaded

\* A DELETE takes a row a NOT NULL column refers to only with the row of the
\* column: a reference that stays and is not emptied would stand in its way.
LEMMA DeleteRefs ==
  ASSUME RInv, NEW r \in rows, Delete(r)
  PROVE  RInv'
<1> DEFINE gone == Doomed(r)
<1>1. /\ rows' = rows \ gone
      /\ links' = {l \in links : {l.from, l.to} \cap gone = {}}
      /\ domain' = domain
      /\ Hindrances(gone) = {}
  BY DEF Delete, CanDelete
<1> HIDE DEF gone
<1>2. RTypeOK' /\ LinksTyped'
  BY <1>1 DEF RInv, RTypeOK, LinksTyped, Columns
<1>3. \A l \in links' : {l.from, l.to} \subseteq rows' /\ l.to[1] = Column(l).to
  BY <1>1 DEF RInv, RefsHold, Column
<1>4. \A l, m \in links' : l.from = m.from /\ l.col = m.col => l = m
  BY <1>1 DEF RInv, RefsHold
<1>5. ASSUME NEW x \in rows', NEW c \in DOMAIN Columns(x[1]), ~Columns(x[1])[c].nullable
      PROVE  \E l \in links' : l.from = x /\ l.col = c
  <2>1. PICK l \in links : l.from = x /\ l.col = c
    BY <1>1, <1>5 DEF RInv, RefsHold
  <2>2. x[1] \in DOMAIN Schema
    BY <1>1, RowsHaveTables DEF RInv, RTypeOK
  <2>3. ~Emptied(l)
    BY <1>5, <2>1, <2>2, SchemaAssumption DEF Emptied, Column, SchemaAssumption
  <2>4. l.from \notin gone
    BY <1>1, <2>1
  <2>5. l.to \notin gone
    BY <1>1, <2>1, <2>3, <2>4 DEF Hindrances
  <2> QED  BY <1>1, <2>1, <2>4, <2>5
<1>6. \A x \in rows' : \A c \in DOMAIN Columns(x[1]) :
         Columns(x[1])[c].nullable \/ \E l \in links' : l.from = x /\ l.col = c
  BY <1>5
<1>7. RefsHold'
  BY <1>3, <1>4, <1>6 DEF RefsHold, Column, Columns
<1> QED  BY <1>2, <1>7 DEF RInv

\* No statement breaks the invariant.
LEMMA StatementsKeepRefs == RInv /\ [RNext]_rvars => RInv'
<1> SUFFICES ASSUME RInv, [RNext]_rvars PROVE RInv'
  OBVIOUS
<1>1. CASE \E r \in domain \ rows : \E filled \in SUBSET LinksOf(r) : Insert(r, filled)
  BY <1>1, InsertRefs
<1>2. CASE \E r, x \in rows : \E c \in DOMAIN Columns(r[1]) : Fill(r, c, x)
  BY <1>2, FillRefs
<1>3. CASE \E r \in rows : Delete(r)
  BY <1>3, DeleteRefs
<1>4. CASE UNCHANGED rvars
  BY <1>4 DEF RInv, RTypeOK, RefsHold, LinksTyped, Column, Columns, rvars
<1> QED  BY <1>1, <1>2, <1>3, <1>4 DEF RNext

=============================================================================
