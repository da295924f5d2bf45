\* Package init, then any sequence of Register and RegisterHDKeyID calls.
\* Once every custom network is registered only rejected calls remain, so
\* deadlock is not a concern; it is checked anyway.
CONSTANTS
    CustomParams <- MCCustomParams
    HDKeyInputs <- MCHDKeyInputs
SPECIFICATION Spec
INVARIANTS
    LookupsMatchDirectory
    HDKeyLookupOwn
PROPERTIES
    FailedCallLeavesRegistry
    ImplementsDirectory
