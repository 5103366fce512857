CONSTANTS
  Marts = {"fct_query_daily", "mart_query_regression"}
  Readers = {"card"}
  Retention = 1
  LastTick = 2
  MaxBuilds = 2
  MaxPubs = 2
  MaxLog = 1
SPECIFICATION Spec
INVARIANTS TypeOK CatalogIsReadable FreshReadersAreSafe
PROPERTY ImplementsServedLake
CHECK_DEADLOCK FALSE
