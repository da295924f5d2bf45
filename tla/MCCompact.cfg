SPECIFICATION Spec
INVARIANTS
  RoundTripExactlyCanonical
  EncodeRoundsDown
  RoundMonotone
