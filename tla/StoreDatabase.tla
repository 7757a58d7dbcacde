--------------------------- MODULE StoreDatabase ---------------------------
(***************************************************************************)
(* The database that the migrations of libs/database build: its schemas    *)
(* while they are migrated and rolled back, and the rows that statements   *)
(* put into the operational one and delete from it once it is complete.    *)
(*                                                                         *)
(* Bound: migrations run in the behaviours that insert no row.             *)
(***************************************************************************)
EXTENDS RelationalStore, Migrator, PlatformSchema

AllMigrations ==
  [bootstrap   |-> bootstrapMigrations,
   operational |-> operationalMigrations,
   analytics   |-> analyticsMigrations]

\* The schemas are complete: what migrateAllToLatest makes of an empty database.
Deployed ==
  /\ applied = [t \in Goals |-> Len(Migrations[t])]
  /\ catalog = UNION {CreatedBy(t, Len(Migrations[t])) : t \in Goals}

Init ==
  /\ RInit
  /\ \/ domain = {} /\ MInit
     \/ domain # {} /\ Deployed

Next ==
  \/ domain = {} /\ MNext /\ UNCHANGED rvars
  \/ domain # {} /\ RNext /\ UNCHANGED mvars

vars == <<rvars, mvars>>

Spec == Init /\ [][Next]_vars

-----------------------------------------------------------------------------
\* What records the past: stock movements, sales and their payments, receipts.
History ==
  {"inventory_movements", "inventory_lot_movements",
   "inventory_serial_movements", "pos_transactions", "pos_payment_intents",
   "purchase_receipts", "supplier_returns", "billing_payments"}

StoresGone   == {r \in rows \ rows' : r[1] \in {"stores", "businesses"}}
RefersTo(r, x) == \E l \in links : l.from = r /\ l.to = x

\* The migrations' delete rules keep the past: a row that records it goes only
\* by a DELETE of itself, never because a product, a variant, a location, a
\* member or a document that it refers to is deleted; only a whole store or
\* business takes its own with it. An audit entry is never deleted at all.
HistoryKept ==
  [][\A r \in rows \ rows' :
       /\ r[1] # "audit_logs"
       /\ r[1] \in History /\ StoresGone = {} => \A x \in rows : RefersTo(r, x) => x \in rows']_rvars

Corrections ==
  {"reversed_movement_id", "original_transaction_id", "original_intent_id"}

\* What a correction corrects: the movement that a reversal reverses, the sale
\* a return returns and the payment a refund refunds stay known for as long as
\* the reversal, the return or the refund exists.
LinksKept ==
  [][\A l \in links : l.col \in Corrections /\ l.from \in rows' => l \in links']_rvars

\* The tables whose reference to a store keeps it from being deleted.
StoreKeepers ==
  {"store_settings", "inventory_item_settings", "inventory_cost_snapshots",
   "inventory_cost_layers", "outbox_events", "barcode_registry"}

BelongsTo(r, s) == \E l \in links : l.from = r /\ l.col = "store_id" /\ l.to = s

\* What refers to a row of the store belongs to no other store. The schema does
\* not see to that.
Apart(s) ==
  \A l \in links : \A x \in rows :
    BelongsTo(l.to, s) /\ BelongsTo(l.from, x) => x = s

\* A store that others do not refer into can be deleted, with everything of it
\* that the cascades reach, unless one of the tables whose reference to it has no
\* ON DELETE clause has a row of the store, or a barcode was first seen there.
\* None of the RESTRICTs between the store's own tables stands in the way.
StoreLeaves ==
  \A s \in {r \in rows : r[1] = "stores"} :
    Apart(s) =>
      (CanDelete(s) <=> \A r \in rows : RefersTo(r, s) => r[1] \notin StoreKeepers)

\* The columns that keep the member they name.
MemberKeepers ==
  {"opened_by_store_member_id", "attendant_store_member_id",
   "recipient_store_member_id"}

\* A user can be deleted unless they own a business, accepted an invitation, or
\* are a member whose sessions, sales or deliveries exist or to whom alone a
\* notification is addressed.
UserLeaves ==
  \A u \in {r \in rows : r[1] = "users"} :
    CanDelete(u) <=>
      /\ \A r \in rows : RefersTo(r, u) =>
           r[1] \notin {"businesses", "store_invitations"}
      /\ \A m \in {r \in rows : r[1] = "store_members" /\ RefersTo(r, u)} :
           \A l \in links : l.to = m =>
             l.col \notin MemberKeepers /\ l.from[1] # "notification_deliveries"

\* What the delete rules stop a store and a user from leaving for is that, and
\* nothing else that refers to them, however far the cascades go.
CanLeave == StoreLeaves /\ UserLeaves
=============================================================================
