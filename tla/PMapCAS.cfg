SPECIFICATION Spec
CONSTANTS
  k1 = k1
  k2 = k2
  Key = {k1, k2}
  Val = {"", "a"}
  EmptyVal = ""
  Time = {1, 2}
  Hash <- ReservedHash
  KeyLen <- FourByteKeys
  ValLen <- ValLengths
  InitSize = 2
  SizeLimit = 4
  StoreSize = 73
  MaxRecords = 4
PROPERTY CASNeedsBothTests
