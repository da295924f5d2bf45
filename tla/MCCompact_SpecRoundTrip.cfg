SPECIFICATION Spec
INVARIANT SpecRoundTrip
