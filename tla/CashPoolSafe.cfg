SPECIFICATION Spec
CONSTANTS
    Loops = {l1}
    Accounts = {"a", "b"}
    Funds <- MCFundsMix
    SplitNums = 2
    Deposit = 2
    Sends <- MCSends
    MaxRetries = 2
    MaxSends = 2
    MaxSwitches = 2
    MaxToggles = 0
    LostAnswers = TRUE
INVARIANTS PendingIndexed HintsDistinct OnlyFlyLeavesSpentHints RemainderCoversDeposit HintsOwned
CONSTRAINT MCMix
CHECK_DEADLOCK FALSE
