CONSTANTS
 k1 = k1
 k2 = k2
 u1 = u1
 u2 = u2
 b1 = b1
 b2 = b2
 Key = {k1, k2}
 BucketOf <- MCBucketOf
 User = {u1, u2}
 Anon = Anon
 Service = Service
 Slot = {1, 2}
 Setups <- MCSetups
 Stocks <- MCStocks
 None = None
 Torn = Torn
 Universe <- MCUniverse
 TimeOf <- MCTimeOf
 Queries <- MCQueries
 MaxChanges = 1
SPECIFICATION MCSpec
INVARIANTS
 RowAndBytesAgree
 ListingsAreComplete
PROPERTIES
 AccessIsGranted
 WritersReturn
CHECK_DEADLOCK FALSE
