---------------------------- MODULE StockSchema ----------------------------
(***************************************************************************)
(* libs/database/src/migrations/operational, part two: the catalogue of a  *)
(* store and its stock. Each definition is the migration of that name.     *)
(***************************************************************************)
EXTENDS Migration

store_variant_groups == OfStore("product_variant_groups", {}, NoColumns)

store_variant_options ==
  OfStore("product_variant_options", {},
          "product_variant_group_id" :> Restricted("product_variant_groups"))

\* Its trigger fills the search vector; the table is dropped before the function.
products ==
  WithTrigger(
    OfStore("products", {"product_status", "product_type", "quantity_mode"},
            [tax_class_id |-> SetNull("tax_classes"),
             category_id  |-> SetNull("store_categories"),
             base_uom_id  |-> SetNull("store_uoms")]),
    "trg_products_search_vector", "products", "set_product_search_vector",
    << {"products"}, {"set_product_search_vector"},
       {"product_status", "product_type", "quantity_mode"} >>)

product_variants ==
  OfStore("product_variants", {},
          [product_id          |-> Cascade("products"),
           barcode_registry_id |-> SetNull("barcode_registry")])

product_variant_option_assignments ==
  OfStore("product_variant_option_assignments", {},
          [product_variant_id        |-> Cascade("product_variants"),
           product_variant_option_id |-> Restricted("product_variant_options")])

product_uoms ==
  OfStore("product_uoms", {"product_uom_usage"},
          [product_id |-> Cascade("products"), uom_id |-> Restricted("store_uoms")])

product_media ==
  OfStore("product_media", {},
          [product_id     |-> Cascade("products"),
           media_asset_id |-> Restricted("media_assets")])

\* is_reversal exactly when reversed_movement_id is set.
inventory_movements ==
  WithPolicies(
    OfStore("inventory_movements",
            {"inventory_movement_type", "inventory_movement_direction"},
            [created_by_store_member_id |-> SetNull("store_members"),
             product_variant_id         |-> Restricted("product_variants"),
             location_id                |-> Restricted("store_locations"),
             reversed_movement_id       |-> Paired(SetNull("inventory_movements")),
             entered_uom_id             |-> SetNull("store_uoms")]),
    Ledger)

inventory_items ==
  OfStore("inventory_items", {},
          [product_variant_id |-> Restricted("product_variants"),
           location_id        |-> Restricted("store_locations")])

inventory_lots ==
  OfStore("inventory_lots", {}, "product_variant_id" :> Restricted("product_variants"))

inventory_lot_movements ==
  WithPolicies(
    OfStore("inventory_lot_movements", {},
            [movement_id |-> Restricted("inventory_movements"),
             lot_id      |-> Restricted("inventory_lots")]),
    Ledger)

inventory_lot_items ==
  OfStore("inventory_lot_items", {},
          [product_variant_id |-> Restricted("product_variants"),
           lot_id             |-> Restricted("inventory_lots"),
           location_id        |-> Restricted("store_locations")])

inventory_serials ==
  OfStore("inventory_serials", {"inventory_serial_status"},
          [product_variant_id |-> Restricted("product_variants"),
           location_id        |-> SetNull("store_locations")])

inventory_serial_movements ==
  Using(WithPolicies(
          OfStore("inventory_serial_movements", {},
                  [movement_id |-> Restricted("inventory_movements"),
                   serial_id   |-> Restricted("inventory_serials")]),
          Ledger),
        "inventory_serial_status")

inventory_stocktakes ==
  OfStore("inventory_stocktakes", {"stocktake_status"},
          [created_by_store_member_id |-> SetNull("store_members"),
           location_id                |-> Nullable(Restricted("store_locations"))])

inventory_stocktake_lines ==
  OfStore("inventory_stocktake_lines", {},
          [product_variant_id |-> Restricted("product_variants"),
           location_id        |-> Restricted("store_locations"),
           stocktake_id       |-> Cascade("inventory_stocktakes"),
           lot_id             |-> Nullable(Restricted("inventory_lots")),
           serial_id          |-> Nullable(Restricted("inventory_serials"))])

inventory_transfers ==
  OfStore("inventory_transfers", {"inventory_transfer_status"},
          "created_by_store_member_id" :> SetNull("store_members"))

inventory_transfer_lines ==
  OfStore("inventory_transfer_lines", {},
          [transfer_id        |-> Cascade("inventory_transfers"),
           product_variant_id |-> Restricted("product_variants"),
           from_location_id   |-> Restricted("store_locations"),
           to_location_id     |-> Restricted("store_locations"),
           lot_id             |-> Nullable(Restricted("inventory_lots")),
           serial_id          |-> Nullable(Restricted("inventory_serials"))])

inventory_adjustment_reasons ==
  OfStore("inventory_adjustment_reasons", {"inventory_adjustment_reason_category"},
          NoColumns)

inventory_adjustments ==
  OfStore("inventory_adjustments",
          {"inventory_adjustment_status", "inventory_adjustment_kind"},
          [created_by_store_member_id  |-> SetNull("store_members"),
           approved_by_store_member_id |-> SetNull("store_members"),
           posted_by_store_member_id   |-> SetNull("store_members")])

\* entered_quantity is set exactly when entered_uom_id is.
inventory_adjustment_lines ==
  OfStore("inventory_adjustment_lines", {"inventory_adjustment_direction"},
          [product_variant_id |-> Restricted("product_variants"),
           adjustment_id      |-> Cascade("inventory_adjustments"),
           location_id        |-> SetNull("store_locations"),
           reason_id          |-> SetNull("inventory_adjustment_reasons"),
           entered_uom_id     |-> Paired(SetNull("store_uoms")),
           lot_id             |-> Nullable(Restricted("inventory_lots")),
           serial_id          |-> Nullable(Restricted("inventory_serials"))])
=============================================================================
