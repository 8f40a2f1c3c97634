SPECIFICATION PlatformSpec
CONSTANTS
  Limit = 3
  SentryStatuses = {200, 403, 429, 502}
  MaxRanges = 3
  MaxPieces = 4
  Runs <- MCRuns
  Texts <- MCTexts
  MinToken = 3
  MaxCommits = 2
  MaxReleases = 2
  Lifetime = 3
  ReleaseNotes = {n1, n2}
  MaxSends = 2
  MaxFeatures = 3
  MaxScopes = 3
INVARIANTS
  OnlyWholeEnvelopesLeave FaultsAreVisible
  NegotiationIsRfc9110
  AddressesGoWhole SecretsNeverLeave
  SignupsAreGuarded
  LiveIsAsDispatched
  OnlyReviewedReleasesGoOut
  VerdictCoversEveryMember
PROPERTIES
  ReleasesOnlyAdvance
  ClosedPreviewGoes
CHECK_DEADLOCK FALSE
