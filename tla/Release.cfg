CONSTANTS
    Bumps = {"patch", "minor"}
    MaxLandings = 2
    MaxCommits = 5
    MaxReleases = 1
    MaxFaults = 1
SPECIFICATION Spec
INVARIANTS
    ReleaseAgrees
    PublishedFromIntroduction
    NotStacked
PROPERTY ReleaseCompletes
CHECK_DEADLOCK FALSE
