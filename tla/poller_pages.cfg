SPECIFICATION FairSpec
CONSTANTS
    Pages <- MCPages
    Data <- MCData
    MaxInFlight = 4
    MaxFailures = 1
INVARIANT TypeOK
INVARIANT ShowsFetchedData
PROPERTY EventuallyShowsServer
