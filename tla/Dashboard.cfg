SPECIFICATION FairSpec
CONSTANTS
    Filter = {all, queued}
    Nothing = Nothing
    MaxGeneration = 5
    MaxCalls = 1
INVARIANTS ScreenIsCurrent OneRefreshAtATime
PROPERTIES ScreenCatchesUp
