\* The address parser satisfies the assertions of xpio_c_q.c, accepts every
\* well-formed address and inverts the formatter; chmod and stat convert
\* modes as chmod(1) and ls do; sha1.digest returns the
\* digest in hex; XLUA_CAST returns only blocks xpio allocated.
CONSTANTS
  Inputs <- MCInputs
  Samples <- MCSamples
  StModes <- MCStModes
  ModeStrings <- MCModeStrings
  Digests <- MCDigests
  Copies <- MCCopies
  Loads <- MCLoads
  Types <- MCTypes

SPECIFICATION CodecsSpec
INVARIANT UnitTestCasesHold
INVARIANT WellFormedAccepted
INVARIANT RoundTrip
INVARIANT ChmodAgreesWithRef
INVARIANT PermMatchesLs
INVARIANT DigestIsHex
INVARIANT CastReturnsXpioBlock
