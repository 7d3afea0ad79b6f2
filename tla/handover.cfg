SPECIFICATION FairSpec
CONSTANTS
  a = a
  b = b
  oneMinute = oneMinute
  fiveMinutes = fiveMinutes
  None = none
  Names = {a, b}
  Windows = {oneMinute, fiveMinutes}
  DefaultWindow = oneMinute
  Shares = {20}
  Handovers = TRUE
  Specs <- HandoverSpecs
  Limit <- HandoverLimit
  Total = 2
PROPERTY PrimaryOwnsAddress
CHECK_DEADLOCK FALSE
