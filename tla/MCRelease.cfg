CONSTANTS
  tag = tag
  run1 = run1
  run2 = run2
  fix = fix
  refix = refix
  v1 = v1
  gnu = gnu
  musl = musl
  Runs <- MCRuns
  Tags <- MCTags
  Commits <- MCCommits
  Versions <- MCVersions
  VersionOf <- MCVersionOf
  Platforms <- MCPlatforms
  Main = Main
  NoTag = NoTag
  NoCommit = NoCommit
  MaxAttempts = 2
SPECIFICATION Spec
INVARIANTS
  TypeOK
  BuiltFirst
  MismatchIsWarned
  ReleaseAnnouncesMain
  OneSuccessPerVersion
PROPERTY RepeatReleases
CHECK_DEADLOCK FALSE
