-------------------------- MODULE MCStoreDatabase --------------------------
(***************************************************************************)
(* Small instances of StoreDatabase: no rows, and for each table the rows  *)
(* of a database around it. TLC evaluates the delete rules too.            *)
(***************************************************************************)
EXTENDS DeleteRules

\* TLC evaluates what a bound identifier stands for once.
MCSchema     == OperationalSchema
MCMigrations == AllMigrations

Parents(schema, t, nullable) ==
  {schema[t].columns[c].to :
     c \in {d \in DOMAIN schema[t].columns :
              nullable \/ ~schema[t].columns[d].nullable}}

\* The tables without whose rows a row of these tables cannot exist.
Needed(schema, tables) ==
  LET upTo[n \in 0..9] ==
        IF n = 0 THEN tables
        ELSE LET before == upTo[n - 1]
             IN  before \cup UNION {Parents(schema, t, FALSE) : t \in before}
  IN  upTo[9]

\* The rows of a database around a column: of its table, of the table it refers
\* to and of each that those need; two if the column refers to its own table,
\* and a second user, who need not own the business, if it refers to a person.
Around(schema, t, c) ==
  LET to == schema[t].columns[c].to
  IN  {<<u, 1>> : u \in Needed(schema, {t, to})}
        \cup (IF t = to THEN {<<t, 2>>} ELSE {})
        \cup (IF to \in {"users", "store_members"} THEN {<<"users", 2>>} ELSE {})

\* A database around each column, two with several documents of one member, a
\* sale with its return and their payments, and what keeps a user; and one of two
\* stores, whose rows may refer to each other.
DomainsOf(schema) ==
  {{}}
    \cup UNION {{Around(schema, t, c) : c \in DOMAIN schema[t].columns} :
                t \in DOMAIN schema}
    \cup {{<<u, 1>> : u \in Needed(schema, {"pos_payment_intents"})}
            \cup {<<"pos_transactions", 2>>, <<"pos_payment_intents", 2>>}}
    \cup {{<<u, 1>> : u \in Needed(schema, {"store_invitations",
            "notification_receipts", "user_security", "audit_logs"})}}
    \cup {{<<u, 1>> : u \in Needed(schema, {"inventory_item_settings"})}
            \cup {<<"stores", 2>>, <<"product_variants", 2>>}}

MCDomains == UNION {DomainsOf(s) : s \in {MCSchema}}
=============================================================================
