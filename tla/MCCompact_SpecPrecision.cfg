SPECIFICATION Spec
INVARIANT SpecPrecision
