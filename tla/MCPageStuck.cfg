SPECIFICATION FairDashboardSpec
CONSTANTS
    MaxHeight = 3
    MaxOrphans = 1
PROPERTY PollingRecovers
CHECK_DEADLOCK FALSE
