CONSTANT Cases <- KeyLost
SPECIFICATION Spec
INVARIANT FusedAsWritten
