SPECIFICATION FairSpec
CONSTANTS
    blotter = blotter
    note = note
    price = price
    w1 = w1
    w2 = w2
    Tabs <- MCTabs
    Fields <- MCOneField
    EditFields <- MCOneField
    FeedFields <- MCOneField
    Values <- MCValues
    Keys <- MCKeys
    KeyOf <- MCKeyOf
    QueueLimit = 1
    MaxEdits = 2
    MaxInFlight = 1
INVARIANTS
    AppliedAtMostOnce
    ConfirmedWasStored
PROPERTIES
    SettledForGood
    EditResolves
