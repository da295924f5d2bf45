SPECIFICATION Spec
INVARIANT SpecNegativeEncoding
