CONSTANTS
    Platforms <- MCPlatforms
    MaxChanges = 3
SPECIFICATION FairSpec
INVARIANTS TypeOK DescriptorInUse NoFileLeft NoChangeLost LastReportTrue
PROPERTIES ChangeReported DestroyEnds
CHECK_DEADLOCK FALSE
