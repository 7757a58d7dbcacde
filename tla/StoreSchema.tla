---------------------------- MODULE StoreSchema ----------------------------
(***************************************************************************)
(* libs/database/src/migrations/operational, part one: users, businesses,  *)
(* stores and what a store is set up with. Each definition is the migration*)
(* of that name, from the first statement of up() to the last of down().   *)
(***************************************************************************)
EXTENDS Migration

users == Shared("users", {"user_status"}, NoColumns)

\* Its trigger soft-deletes a user's security row with the user.
user_security ==
  WithTrigger(
    Shared("user_security", {"mfa_type", "mfa_status"},
           "user_id" :> Cascade("users")),
    "trg_cascade_user_soft_delete", "users", "cascade_user_soft_delete",
    << {"trg_cascade_user_soft_delete"}, {"cascade_user_soft_delete"},
       {"user_security"}, {"mfa_type"}, {"mfa_status"} >>)

businesses ==
  Shared("businesses", {"business_status"}, "owned_by_user_id" :> Restricted("users"))

stores ==
  AddsColumn(Shared("stores", {"store_status"},
                    "business_id" :> Restricted("businesses")),
             "businesses", "primary_store_id")

store_members ==
  OfStore("store_members", {"store_role", "store_member_status"},
          "user_id" :> Cascade("users"))

\* status = 'accepted' exactly when accepted_by_user_id is set.
store_invitations ==
  Using(OfStore("store_invitations", {"store_invitation_status"},
          [invited_by_store_member_id |-> SetNull("store_members"),
           accepted_by_user_id        |-> Paired(SetNull("users"))]),
        "store_role")

store_settings ==
  HoldsStore("store_settings", {"stock_valuation_method"}, NoColumns)

store_number_sequences ==
  OfStore("store_number_sequences", {"sequence_scope", "sequence_reset_policy"},
          NoColumns)

store_receipt_settings == OfStore("store_receipt_settings", {}, NoColumns)

store_locations ==
  AddsColumn(OfStore("store_locations", {"location_type"},
               "parent_location_id" :> Nullable(Restricted("store_locations"))),
             "store_settings", "default_location_id")

tax_classes == OfStore("tax_classes", {}, NoColumns)

tax_rates == OfStore("tax_rates", {"tax_scope"}, NoColumns)

tax_class_rates ==
  OfStore("tax_class_rates", {"tax_base"},
          [tax_class_id |-> Restricted("tax_classes"),
           tax_rate_id  |-> Restricted("tax_rates")])

store_order_tax_rates ==
  Using(OfStore("store_order_tax_rates", {}, "tax_rate_id" :> Restricted("tax_rates")),
        "tax_base")

store_categories ==
  OfStore("store_categories", {},
          "parent_category_id" :> Nullable(Restricted("store_categories")))

store_uoms == OfStore("store_uoms", {}, NoColumns)

media_assets == OfStore("media_assets", {}, NoColumns)

\* Shared by all stores; first_seen_at is set exactly when the store is.
barcode_registry ==
  Shared("barcode_registry", {"barcode_status", "barcode_type"},
         "first_seen_store_id" :> Paired(SetNull("stores")))
=============================================================================
