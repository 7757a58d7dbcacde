-------------------------- MODULE RelationalStore --------------------------
(***************************************************************************)
(* The rows of the operational schema and what they refer to: what an      *)
(* INSERT, an UPDATE or a DELETE may do to them, given the references and  *)
(* the policies that the migrations declare.                               *)
(*                                                                         *)
(* A row is its table and a number. A link says that a column of one row   *)
(* holds the id of another; a column without a link is NULL. A statement   *)
(* is one step: PostgreSQL runs the cascades of a DELETE before it checks  *)
(* what the deleted rows' own referrers say, and undoes all of it if one   *)
(* of them objects. The session is one that the row-level policies apply   *)
(* to, set to the store of the row.                                        *)
(***************************************************************************)
EXTENDS Integers, FiniteSets

CONSTANTS Schema, \* table -> its columns that refer to tables, its policies
          Domains \* bound: the sets of rows that a behaviour may insert

VARIABLES domain, rows, links

rvars == <<domain, rows, links>>

Columns(t) == Schema[t].columns

SchemaAssumption ==
  /\ Domains \subseteq SUBSET ((DOMAIN Schema) \X Nat)
  /\ \A D \in Domains : IsFiniteSet(D)
  /\ \A t \in DOMAIN Schema : \A c \in DOMAIN Columns(t) :
       /\ Columns(t)[c].to \in DOMAIN Schema
       /\ Columns(t)[c].onDelete \in {"cascade", "restrict", "no action", "set null"}
       /\ Columns(t)[c].onDelete = "set null" => Columns(t)[c].nullable

ASSUME SchemaAssumption

\* The column that a link fills.
Column(l) == Columns(l.from[1])[l.col]

\* Row-level policies: a table without any admits every statement, one with
\* policies admits what one of them admits.
Admits(t, command) ==
  (Schema[t].policies # {}) =>
    {p \in Schema[t].policies : p.command \in {"ALL", command} /\ p.using} # {}

-----------------------------------------------------------------------------
RInit ==
  /\ domain \in Domains
  /\ rows = {}
  /\ links = {}

\* The links a row that is inserted may have: none of its late columns, which
\* no INSERT of the row can fill before the row they refer to exists.
LinksOf(r) ==
  UNION {{[from |-> r, col |-> c, to |-> x] :
             x \in {y \in rows : y[1] = Columns(r[1])[c].to}} :
         c \in {d \in DOMAIN Columns(r[1]) : ~Columns(r[1])[d].late}}

\* One link at most for each column, and one for each that is NOT NULL.
Fills(r, filled) ==
  /\ \A l, m \in filled : l.col = m.col => l = m
  /\ {c \in DOMAIN Columns(r[1]) : ~Columns(r[1])[c].nullable} \subseteq {l.col : l \in filled}

Insert(r, filled) ==
  /\ r \in domain \ rows
  /\ Admits(r[1], "INSERT")
  /\ Fills(r, filled)
  /\ rows' = rows \cup {r}
  /\ links' = links \cup filled
  /\ UNCHANGED domain

\* An UPDATE that fills a column added to the table after the fact.
Fill(r, c, x) ==
  /\ Admits(r[1], "UPDATE")
  /\ Columns(r[1])[c].late
  /\ x[1] = Columns(r[1])[c].to
  /\ ~\E l \in links : l.from = r /\ l.col = c
  /\ links' = links \cup {[from |-> r, col |-> c, to |-> x]}
  /\ UNCHANGED <<domain, rows>>

\* Mutated form: a RESTRICT takes the row that refers along.
CascadedOrRestricted(S) ==
  {l.from : l \in {k \in links : k.to \in S /\ Column(k).onDelete \in {"cascade", "restrict"}}}

\* The rows whose columns ON DELETE CASCADE sends after the rows of S.
Cascaded(S) ==
  {l.from : l \in {k \in links : k.to \in S /\ Column(k).onDelete = "cascade"}}

\* What goes with a row: no cascade is longer than there are rows.
Doomed(r) ==
  LET after[n \in 0..Cardinality(rows)] ==
        IF n = 0 THEN {r}
        ELSE LET before == after[n - 1] IN before \cup Cascaded(before)
  IN  after[Cardinality(rows)]

\* Mutated form: without a look at the CHECK.
EmptiedUnchecked(l) == Column(l).onDelete = "set null"

\* A reference to a deleted row is emptied, unless a CHECK keeps the column set.
Emptied(l) == Column(l).onDelete = "set null" /\ ~Column(l).paired

\* Mutated form: RESTRICT is not left until the cascades are done.
HindrancesAtOnce(gone) ==
  {l \in links : l.to \in gone /\ Column(l).onDelete # "cascade" /\ ~Emptied(l)}

\* The references of rows that stay which stand in the way.
Hindrances(gone) ==
  {l \in links : l.to \in gone /\ l.from \notin gone /\ ~Emptied(l)}

CanDelete(r) == Hindrances(Doomed(r)) = {}

\* DELETE of a row. What follows from it does not ask the policies.
Delete(r) ==
  /\ Admits(r[1], "DELETE")
  /\ CanDelete(r)
  /\ rows' = rows \ Doomed(r)
  /\ links' = {l \in links : {l.from, l.to} \cap Doomed(r) = {}}
  /\ UNCHANGED domain

RNext ==
  \/ \E r \in domain \ rows : \E filled \in SUBSET LinksOf(r) : Insert(r, filled)
  \/ \E r, x \in rows : \E c \in DOMAIN Columns(r[1]) : Fill(r, c, x)
  \/ \E r \in rows : Delete(r)

-----------------------------------------------------------------------------
RTypeOK ==
  /\ domain \in Domains
  /\ rows \subseteq domain
  /\ \A l \in links : l.col \in DOMAIN Columns(l.from[1])

\* PostgreSQL's own guarantee, which says nothing of a schema: references lead
\* to rows that exist, a column holds one at most and, if NOT NULL, one.  What
\* the proofs about the schema take from Insert and Delete.
RefsHold ==
  /\ \A l \in links : {l.from, l.to} \subseteq rows /\ l.to[1] = Column(l).to
  /\ \A l, m \in links : l.from = m.from /\ l.col = m.col => l = m
  /\ \A r \in rows : \A c \in DOMAIN Columns(r[1]) :
       Columns(r[1])[c].nullable \/ \E l \in links : l.from = r /\ l.col = c
=============================================================================
