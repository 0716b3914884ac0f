CONSTANTS
    Repos <- TokenizerLast
    ForceChoices = {FALSE}
    DOWNLOAD_ATTEMPTS = 2
    MaxPulls = 2
    MaxFaults = 2
    MaxKills = 2
SPECIFICATION FairSpec
CHECK_DEADLOCK FALSE
PROPERTY
    RerunCompletes
