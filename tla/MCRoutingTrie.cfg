SPECIFICATION Spec
CONSTANTS
  Width = 2
  MaxRows = 3
INVARIANTS
  TypeOK
  LookupIsLongest
  FirstUsableRowKept
  HostRoutesFollowFlags
