SPECIFICATION SubscriptionsSpec
CONSTANTS
    Callers = {owner, worker}
    Owner = owner
    Dialogs = {d1}
    Requests <- MCRequests
    MaxCSeq = 3
    MaxAllocations = 3
    MaxCalls = 3
    MaxEvents = 1
    MaxRestarts = 2
    Connections = {1}
    MaxSubscriptions = 1
    MaxTransactions = 2
INVARIANTS
    DialogCSeqRises
    CallOrder
    SubscriptionReferences
PROPERTIES
    CountsAtomically
    EveryCallHandled
    EverySubscribeReports
CHECK_DEADLOCK FALSE
