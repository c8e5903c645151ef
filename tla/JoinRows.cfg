CONSTANT Cases <- Kept
SPECIFICATION Spec
INVARIANTS FusedAsWritten PlacesStand
