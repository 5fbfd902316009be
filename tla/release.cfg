\* Two processes run the commands of the release tool over one checkout.
SPECIFICATION MCSpec
CONSTANTS
  Process = {p1, p2}
  Version <- MCVersion
  Changelogs <- MCChangelogs
  Projects <- MCProjects
  Dists <- MCDists
  Builds <- MCBuilds
  MaxCommands = 2
  Malformed = Malformed
  Missing = Missing
  Partial = Partial
  Undecodable = Undecodable
  NoText = NoText
SYMMETRY Symmetry
INVARIANT TypeOK
INVARIANT LinksFormAChain
INVARIANT AcceptedVersionCanBeLinked
INVARIANT NothingIsLeftBehind
INVARIANT ManifestIsOfVerified
INVARIANT AcceptedArtifactsStayAcceptable
PROPERTY OutputsAreWhole
CHECK_DEADLOCK FALSE
