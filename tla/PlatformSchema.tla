--------------------------- MODULE PlatformSchema ---------------------------
(***************************************************************************)
(* libs/database/src/migrations, the rest of operational: notifications,   *)
(* billing, the outbox, audit, reports, prices and costs, idempotency and  *)
(* action tokens; then analytics and bootstrap. Each definition is the     *)
(* migration of that name; the lists are those of the three index.ts.      *)
(***************************************************************************)
EXTENDS Integers, StoreSchema, StockSchema, TradeSchema

\* audience_type = 'member' requires recipient_store_member_id, and the column
\* is "populated when audience_type = 'member'".
notifications ==
  OfStore("notifications",
          {"notification_channel", "notification_status",
           "notification_audience_type"},
          [created_by_store_member_id |-> SetNull("store_members"),
           recipient_store_member_id  |-> Paired(SetNull("store_members"))])

notification_recipients ==
  OfStore("notification_receipts", {},
          [store_member_id |-> Cascade("store_members"),
           notification_id |-> Restricted("notifications")])

notification_deliveries ==
  Using(OfStore("notification_deliveries", {"notification_delivery_status"},
          [notification_id |-> Restricted("notifications"),
           store_member_id |-> Restricted("store_members")]),
        "notification_channel")

billing_customers ==
  Shared("billing_customers", {"billing_customer_status"},
         "business_id" :> Cascade("businesses"))

billing_plans == Shared("billing_plans", {"plan_interval"}, NoColumns)

billing_payment_methods ==
  Shared("billing_payment_methods", {},
         [business_id         |-> Cascade("businesses"),
          billing_customer_id |-> Restricted("billing_customers")])

billing_subscriptions ==
  Shared("billing_subscriptions", {"subscription_status"},
         [business_id               |-> Restricted("businesses"),
          billing_customer_id       |-> Restricted("billing_customers"),
          plan_id                   |-> Restricted("billing_plans"),
          default_payment_method_id |-> SetNull("billing_payment_methods")])

billing_invoices ==
  Shared("billing_invoices", {"invoice_status"},
         [business_id         |-> Cascade("businesses"),
          billing_customer_id |-> Restricted("billing_customers"),
          subscription_id     |-> Nullable(Restricted("billing_subscriptions"))])

billing_payments ==
  Shared("billing_payments", {"payment_status"},
         [business_id         |-> Cascade("businesses"),
          billing_customer_id |-> Restricted("billing_customers"),
          subscription_id     |-> Restricted("billing_subscriptions"),
          invoice_id          |-> Nullable(Restricted("billing_invoices")),
          payment_method_id   |-> Nullable(Restricted("billing_payment_methods"))])

billing_subscription_events ==
  Shared("billing_subscription_events", {},
         [business_id           |-> Cascade("businesses"),
          subscription_id       |-> Restricted("billing_subscriptions"),
          actor_store_member_id |-> SetNull("store_members"),
          invoice_id            |-> SetNull("billing_invoices"),
          payment_id            |-> SetNull("billing_payments"),
          plan_id               |-> SetNull("billing_plans")])

outbox_events ==
  Shared("outbox_events", {"outbox_event_status", "outbox_destination"},
         "store_id" :> Nullable(NoAction("stores")))

audit_logs ==
  WithPolicies(
    Shared("audit_logs", {"audit_action", "audit_source"},
           [store_id              |-> SetNull("stores"),
            actor_user_id         |-> SetNull("users"),
            actor_store_member_id |-> SetNull("store_members"),
            terminal_id           |-> SetNull("pos_terminals"),
            session_id            |-> SetNull("pos_sessions")]),
    Journal)

report_definitions ==
  OfStore("report_definitions", {"report_scope"},
          "created_by_store_member_id" :> SetNull("store_members"))

report_runs ==
  Using(OfStore("report_runs", {"report_run_status", "report_output_format"},
          [created_by_store_member_id |-> SetNull("store_members"),
           report_definition_id       |-> SetNull("report_definitions"),
           output_media_id            |-> SetNull("media_assets")]),
        "report_scope")

\* Its trigger closes the open price of the variant. down() drops the function
\* the trigger executes, then the table the trigger is on.
product_pricing ==
  WithTrigger(
    OfStore("product_variant_prices", {},
            "product_variant_id" :> Cascade("product_variants")),
    "trg_close_previous_product_variant_price", "product_variant_prices",
    "close_previous_product_variant_price",
    << {"close_previous_product_variant_price"}, {"product_variant_prices"} >>)

inventory_item_settings ==
  Using(HoldsStore("inventory_item_settings", {},
                   "product_variant_id" :> NoAction("product_variants")),
        "stock_valuation_method")

inventory_cost_snapshots ==
  HoldsStore("inventory_cost_snapshots", {},
             [product_variant_id |-> NoAction("product_variants"),
              source_movement_id |-> Nullable(NoAction("inventory_movements"))])

inventory_cost_layers ==
  HoldsStore("inventory_cost_layers", {},
             [product_variant_id       |-> NoAction("product_variants"),
              purchase_receipt_line_id |-> Nullable(NoAction("purchase_receipt_lines")),
              source_movement_id       |-> NoAction("inventory_movements")])

idempotency == Shared("idempotency", {"idempotency_status"}, NoColumns)

\* No table: the trigger that announces an outbox event.
outbox_event_notifications ==
  WithTrigger(
    [table |-> "none", columns |-> NoColumns, policies |-> {}, added |-> {},
     objects |-> {}, drops |-> << >>],
    "trg_notify_outbox_pending", "outbox_events", "notify_outbox_pending",
    << {"trg_notify_outbox_pending"}, {"notify_outbox_pending"} >>)

action_tokens == Shared("action_tokens", {}, "user_id" :> Cascade("users"))

-----------------------------------------------------------------------------
\* The analytics schema: no references, by design.
fact_sales ==
  Creates("analytics", "fact_sales", {}, {"row_ingest_status"}, {}, NoColumns)

product_trend_snapshots ==
  Creates("analytics", "product_trend_snapshots", {},
          {"geo_scope", "trend_granularity"}, {}, NoColumns)

inventory_recommendations ==
  Creates("analytics", "inventory_recommendations", {},
          {"recommendation_status"}, {"geo_scope"}, NoColumns)

\* The schemas, and the updated_at function. Rolling it back is refused.
extensions_and_schemas ==
  [table |-> "none", columns |-> NoColumns, policies |-> {}, added |-> {},
   objects |-> {Object(o, o, {}) : o \in {"operational", "analytics"}}
                 \cup {Object("set_updated_at", "set_updated_at", {"operational"})},
   drops |-> << {"set_updated_at"} >>]

-----------------------------------------------------------------------------
\* What each migrator is given, in the order of the names, which begin with
\* the time at which the migration was written.
bootstrapMigrations == << extensions_and_schemas >>

operationalMigrations ==
  << users, user_security, businesses, stores, store_members,
     store_invitations, store_settings, store_number_sequences,
     store_receipt_settings, store_locations, tax_classes, tax_rates,
     tax_class_rates, store_order_tax_rates, store_categories, store_uoms,
     media_assets, barcode_registry, store_variant_groups,
     store_variant_options, products, product_variants,
     product_variant_option_assignments, product_uoms, product_media,
     inventory_movements, inventory_items, inventory_lots,
     inventory_lot_movements, inventory_lot_items, inventory_serials,
     inventory_serial_movements, inventory_stocktakes,
     inventory_stocktake_lines, inventory_transfers, inventory_transfer_lines,
     inventory_adjustment_reasons, inventory_adjustments,
     inventory_adjustment_lines, store_discounts, store_discount_conditions,
     pos_terminals, pos_sessions, pos_transactions, pos_transaction_lines,
     pos_payment_intents, store_suppliers, purchase_orders,
     purchase_order_lines, purchase_receipts, purchase_receipt_lines,
     supplier_returns, supplier_return_lines, notifications,
     notification_recipients, notification_deliveries, billing_customers,
     billing_plans, billing_payment_methods, billing_subscriptions,
     billing_invoices, billing_payments, billing_subscription_events,
     outbox_events, audit_logs, report_definitions, report_runs,
     product_pricing, inventory_item_settings, inventory_cost_snapshots,
     inventory_cost_layers, idempotency, outbox_event_notifications,
     action_tokens >>

analyticsMigrations ==
  << fact_sales, product_trend_snapshots, inventory_recommendations >>

\* The tables, their references and their policies after one more migration: its
\* own table, and the columns it adds to others.
WithMigration(tables, m) ==
  LET own     == {m.table} \ {"none"}
      late(t) == {a.column : a \in {x \in m.added : x.table = t}}
  IN  [t \in (DOMAIN tables) \cup own |->
         IF t \in own THEN [columns |-> m.columns, policies |-> m.policies]
         ELSE [tables[t] EXCEPT !.columns =
                 @ @@ [c \in late(t) |-> [SetNull(m.table) EXCEPT !.late = TRUE]]]]
      @@ NoColumns

\* The tables once these migrations are applied.
SchemaOf(migrations) ==
  LET after[n \in 0..Len(migrations)] ==
        IF n = 0 THEN NoColumns ELSE WithMigration(after[n - 1], migrations[n])
  IN  after[Len(migrations)]

OperationalSchema == SchemaOf(operationalMigrations)
=============================================================================
