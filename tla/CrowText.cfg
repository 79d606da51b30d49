SPECIFICATION MCSpec
CONSTANTS MaxHeader = 70
 Unset = 100
 MaxPairs = 4
 MaxRules = 3
 MaxInt = 9
 Catalogue <- MCCatalogue
 Streams <- MCStreams
INVARIANTS RoundTrip QueriesMeant RoutesAgree AssertsHold
CHECK_DEADLOCK FALSE
