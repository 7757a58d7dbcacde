---------------------------- MODULE DeleteRules ----------------------------
(***************************************************************************)
(* What the delete rules of the schema, each a choice of one migration,    *)
(* come to together. Each rule is a fact about Schema alone, which TLC     *)
(* evaluates; the properties of StoreDatabase follow from them.            *)
(***************************************************************************)
EXTENDS StoreDatabase

\* The tables whose rows go when a row of one of these does.
Followers(tables) ==
  {t \in DOMAIN Schema :
     \E c \in DOMAIN Columns(t) :
       Columns(t)[c].to \in tables /\ Columns(t)[c].onDelete = "cascade"}

\* A column that neither goes with the row it refers to nor is emptied for it.
Holds(column) ==
  column.onDelete # "cascade" /\ ~(column.onDelete = "set null" /\ ~column.paired)

-----------------------------------------------------------------------------
\* What records the past cascades from stores and businesses only. Its lines go
\* with it and nothing goes with them, and it does not refer to them.
HistoryRule ==
  /\ \A t \in DOMAIN Schema : \A c \in DOMAIN Columns(t) :
       t \in History =>
         /\ Columns(t)[c].onDelete = "cascade" => Columns(t)[c].to \in {"stores", "businesses"}
         /\ Columns(t)[c].to \notin Followers(History)
  /\ Followers(Followers(History)) = {}

\* No row refers to itself: a row is inserted before it can be referred to, and
\* the columns filled later refer to other tables.
LateRule ==
  \A t \in DOMAIN Schema : \A c \in DOMAIN Columns(t) :
    Columns(t)[c].late => Columns(t)[c].to # t

\* No statement deletes an audit entry, and none goes with anything.
AuditRule ==
  /\ ~Admits("audit_logs", "DELETE")
  /\ "audit_logs" \notin Followers(DOMAIN Schema)

\* What names the thing corrected is not emptied.
CorrectionRule ==
  \A t \in DOMAIN Schema : \A c \in DOMAIN Columns(t) \cap Corrections :
    ~(Columns(t)[c].onDelete = "set null" /\ ~Columns(t)[c].paired)

\* The tables of a store are those whose store_id, which is NOT NULL, cascades
\* from it. What goes with their rows is of them. What else refers to a store or
\* to them lets go of it, or is one of the keepers, whose store_id is NOT NULL too.
StoreRule ==
  LET Own == Followers({"stores"}) IN
  /\ Followers(Own) \subseteq Own
  /\ StoreKeepers \cap Own = {}
  /\ \A t \in DOMAIN Schema : \A c \in DOMAIN Columns(t) :
       LET k == Columns(t)[c] IN
       /\ k.to = "stores" /\ t \in Own =>
            c = "store_id" /\ k.onDelete = "cascade" /\ ~k.nullable
       /\ k.to = "stores" /\ t \notin Own => (Holds(k) <=> t \in StoreKeepers)
       /\ k.to \in Own /\ t \notin Own /\ Holds(k) =>
            /\ t \in StoreKeepers
            /\ "store_id" \in DOMAIN Columns(t)
            /\ Columns(t)["store_id"].to = "stores"
            /\ ~Columns(t)["store_id"].nullable

\* With a user go their security row, their tokens and their memberships, and
\* with these the receipts of notifications; they refer to each other only so.
\* What holds on to one of them is what UserLeaves names.
UserRule ==
  LET Own     == {"user_security", "action_tokens", "store_members"}
      Leaving == {"users", "notification_receipts"} \cup Own
  IN
  /\ Followers({"users"}) = Own
  /\ Followers(Own) = {"notification_receipts"}
  /\ Followers({"notification_receipts"}) = {}
  /\ \A t \in DOMAIN Schema : \A c \in DOMAIN Columns(t) :
       LET k == Columns(t)[c] IN
       /\ k.to = "users" => (Holds(k) <=> t \in {"businesses", "store_invitations"})
       /\ k.to = "store_members" =>
            (Holds(k) <=> c \in MemberKeepers \/ t = "notification_deliveries")
       /\ k.to \in {"user_security", "action_tokens", "notification_receipts"} => ~Holds(k)
       /\ t \in Leaving /\ k.to \in Leaving => k.onDelete = "cascade"

RulesAssumption ==
  /\ HistoryRule
  /\ LateRule
  /\ AuditRule
  /\ CorrectionRule
  /\ StoreRule
  /\ UserRule

ASSUME RulesAssumption
=============================================================================
