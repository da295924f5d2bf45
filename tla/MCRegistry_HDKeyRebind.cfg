\* Package init, then any sequence of Register and RegisterHDKeyID calls.
\* Once every custom network is registered only rejected calls remain, so
\* deadlock is not a concern; it is checked anyway.
CONSTANTS
    CustomParams <- MCRebindParams
    HDKeyInputs <- MCHDKeyInputs
SPECIFICATION Spec
INVARIANT HDKeyLookupOwn
