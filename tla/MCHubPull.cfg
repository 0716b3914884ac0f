CONSTANTS
    Repos <- AllRepos
    ForceChoices = {TRUE, FALSE}
    DOWNLOAD_ATTEMPTS = 2
    MaxPulls = 2
    MaxFaults = 2
    MaxKills = 2
SPECIFICATION FairSpec
CHECK_DEADLOCK FALSE
INVARIANTS
    SavedIsWhole
PROPERTIES
    BytesKept
    RerunCompletes
