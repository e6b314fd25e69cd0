CONSTANTS
  Requests <- MCRequests
  Addrs = {"10.0.0.1"}
  Absent = Absent
  Nil = Nil
SPECIFICATION Spec
INVARIANTS
  FieldsRoundTrip
  RemoteHostIndicator
CHECK_DEADLOCK FALSE
