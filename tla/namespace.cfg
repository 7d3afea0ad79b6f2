SPECIFICATION FairSpec
CONSTANTS
  a = a
  b = b
  oneMinute = oneMinute
  fiveMinutes = fiveMinutes
  None = none
  Names = {a, b}
  Windows = {oneMinute, fiveMinutes}
  DefaultWindow = oneMinute
  Shares = {20}
  Handovers = FALSE
  Specs <- MCSpecs
  Limit <- MCLimit
  Total = 2
INVARIANTS TypeOK
PROPERTIES
  ForeignServicesStay KeepsProportions WrittenRouteResolves
  DeletionCompletes PrimaryOwnsAddress MembersAddressed RoutesSettle
  WaypointSettles SizeSettles BudgetBinds MetricsServed RestLasts PassDelivers
CHECK_DEADLOCK FALSE
