CONSTANTS
  Null = Null
  Malformed = Malformed
  ann = ann
  bob = bob
  User = {ann, bob}
  Day <- SmallDay
  Past = {"d-1"}
  Week = {"d+1"}
  Tables <- SmallTables
  Labelled <- SmallLabelled
  Workloads <- SmallWorkloads
  MaxRequests = 2
SPECIFICATION Spec
INVARIANTS TypeOK RowsOfOneUser 
PROPERTIES CreateAccepted OwnRowsOnly ImplementsRecords
CHECK_DEADLOCK FALSE
