SPECIFICATION FairSpec
CONSTANTS
    Loops = {l1}
    Accounts = {"a"}
    Funds <- MCFunds
    SplitNums = 2
    Deposit = 2
    Sends <- MCRefund
    MaxRetries = 2
    MaxSends = 1
    MaxSwitches = 0
    MaxToggles = 1
    LostAnswers = TRUE
CHECK_DEADLOCK FALSE
PROPERTIES PendingSettles SpentHintDropped
