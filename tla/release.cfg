SPECIFICATION FairSpec
CONSTANTS
    ready = ready
    unready = unready
    None = None
    Commits = {ready, unready}
    Sources <- MCSources
    Versions = {"0.4.0", "0.4.1"}
    Version = "0.4.0"
    Bytes = {1, 2}
    MaxRuns = 3
    MaxFailures = 2
    Strict = TRUE
INVARIANTS TypeOK OneBuild SameArtifacts FromTag
PROPERTIES PublishedIntact ReleaseCompletes
CHECK_DEADLOCK FALSE
