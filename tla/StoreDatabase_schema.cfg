\* Migrations from the empty database and back, the rows around each reference,
\* and the rules that the delete rules come to.
SPECIFICATION Spec
CONSTANTS
  Migrations <- MCMigrations
  Schema <- MCSchema
  Domains <- MCDomains
INVARIANTS CatalogMatches Migratable CanLeave
PROPERTIES HistoryKept LinksKept
CHECK_DEADLOCK FALSE
