CONSTANT Calls <- MCCalls
SPECIFICATION Spec
INVARIANTS SortedAsCollected HeapHoldsBest ListedAsCollected GroupedAsCollected DistinctKeepsFirsts DepthAtVisitOrDeferred
