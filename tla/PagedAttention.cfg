\* The kernels end: no deadlock check.
CONSTANTS
    NumTokens = 2
    Calls <- MCCalls
    Launches <- MCLaunches
    HeadSizes = {2, 4}
    BlockSizes = {2}
    MaxSmem = 164
SPECIFICATION PSpec
CHECK_DEADLOCK FALSE
INVARIANTS SlotsHoldTheirTokens StoresStayInCache StoredTokensAreRead AcceptedLaunchesStayInBounds HeadsGatherTheirContext
