CONSTANTS
  Handler = {h1, h2}
  Account = {a1, a2}
  NoHandler = NoHandler
  NoAccount = NoAccount
  MaxConsents = 2
  MaxLapses = 1
  MaxFaults = 1
SPECIFICATION ConnectionSpec
SYMMETRY Symmetry
INVARIANTS ConnectionTypeOK OneRenewal OwnCredentialsUncrossed
PROPERTY ConsentLasts
