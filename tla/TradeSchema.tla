---------------------------- MODULE TradeSchema ----------------------------
(***************************************************************************)
(* libs/database/src/migrations/operational, part three: discounts, sales, *)
(* purchases and returns to suppliers. Each definition is the migration of *)
(* that name.                                                              *)
(***************************************************************************)
EXTENDS Migration

store_discounts ==
  OfStore("store_discounts", {"discount_type", "discount_scope"}, NoColumns)

store_discount_conditions ==
  WithPolicies(
    OfStore("store_discount_conditions", {"discount_condition_type"},
            "discount_id" :> Cascade("store_discounts")),
    Ledger)

pos_terminals == OfStore("pos_terminals", {}, NoColumns)

pos_sessions ==
  OfStore("pos_sessions", {"pos_session_status"},
          [terminal_id               |-> Restricted("pos_terminals"),
           opened_by_store_member_id |-> Restricted("store_members")])

\* type = 'return' exactly when original_transaction_id is set.
pos_transactions ==
  OfStore("pos_transactions", {"pos_transaction_type", "pos_transaction_status"},
          [attendant_store_member_id |-> Restricted("store_members"),
           terminal_id               |-> Restricted("pos_terminals"),
           session_id                |-> Restricted("pos_sessions"),
           discount_id               |-> SetNull("store_discounts"),
           original_transaction_id   |-> Paired(Nullable(NoAction("pos_transactions")))])

\* entered_quantity is set exactly when entered_uom_id is.
pos_transaction_lines ==
  OfStore("pos_transaction_lines", {},
          [transaction_id     |-> Cascade("pos_transactions"),
           product_variant_id |-> Restricted("product_variants"),
           discount_id        |-> SetNull("store_discounts"),
           entered_uom_id     |-> Paired(SetNull("store_uoms")),
           location_id        |-> SetNull("store_locations"),
           lot_id             |-> Nullable(Restricted("inventory_lots")),
           serial_id          |-> Nullable(Restricted("inventory_serials"))])

\* type = 'refund' exactly when original_intent_id is set.
pos_payment_intents ==
  AddsColumn(
    OfStore("pos_payment_intents",
            {"pos_payment_intent_status", "pos_payment_method",
             "pos_payment_intent_type"},
            [transaction_id     |-> Restricted("pos_transactions"),
             original_intent_id |-> Paired(Nullable(Restricted("pos_payment_intents")))]),
    "pos_transactions", "payment_intent_id")

store_suppliers ==
  AddsColumn(OfStore("store_suppliers", {}, NoColumns),
             "products", "preferred_supplier_id")

purchase_orders ==
  OfStore("purchase_orders", {"purchase_order_status"},
          [supplier_id                 |-> SetNull("store_suppliers"),
           created_by_store_member_id  |-> SetNull("store_members"),
           approved_by_store_member_id |-> SetNull("store_members")])

\* The entered quantity of a line is set exactly when its entered_uom_id is;
\* the same for the lines of receipts and of supplier returns.
purchase_order_lines ==
  OfStore("purchase_order_lines", {},
          [closed_by_store_member_id |-> SetNull("store_members"),
           purchase_order_id         |-> Cascade("purchase_orders"),
           product_variant_id        |-> Restricted("product_variants"),
           entered_uom_id            |-> Paired(SetNull("store_uoms"))])

purchase_receipts ==
  OfStore("purchase_receipts", {"purchase_receipt_status"},
          [created_by_store_member_id |-> SetNull("store_members"),
           posted_by_store_member_id  |-> SetNull("store_members"),
           supplier_id                |-> SetNull("store_suppliers"),
           purchase_order_id          |-> SetNull("purchase_orders"),
           location_id                |-> Restricted("store_locations")])

purchase_receipt_lines ==
  OfStore("purchase_receipt_lines", {},
          [product_variant_id     |-> Restricted("product_variants"),
           purchase_receipt_id    |-> Cascade("purchase_receipts"),
           purchase_order_line_id |-> SetNull("purchase_order_lines"),
           entered_uom_id         |-> Paired(SetNull("store_uoms")),
           lot_id                 |-> Nullable(Restricted("inventory_lots")),
           serial_id              |-> Nullable(Restricted("inventory_serials")),
           location_id            |-> Nullable(Restricted("store_locations"))])

supplier_returns ==
  OfStore("supplier_returns", {"supplier_return_status"},
          [created_by_store_member_id  |-> SetNull("store_members"),
           approved_by_store_member_id |-> SetNull("store_members"),
           supplier_id                 |-> Nullable(Restricted("store_suppliers")),
           purchase_receipt_id         |-> SetNull("purchase_receipts"),
           staging_transfer_id         |-> SetNull("inventory_transfers")])

supplier_return_lines ==
  OfStore("supplier_return_lines", {},
          [supplier_return_id     |-> Cascade("supplier_returns"),
           product_variant_id     |-> Restricted("product_variants"),
           purchase_order_line_id |-> SetNull("purchase_order_lines"),
           entered_uom_id         |-> Paired(SetNull("store_uoms")),
           lot_id                 |-> Nullable(Restricted("inventory_lots")),
           serial_id              |-> Nullable(Restricted("inventory_serials"))])
=============================================================================
