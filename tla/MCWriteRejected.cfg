SPECIFICATION Spec
CONSTANTS
    blotter = blotter
    note = note
    price = price
    w1 = w1
    w2 = w2
    Tabs <- MCTabs
    Fields <- MCFields
    EditFields <- MCOneField
    FeedFields <- MCPrice
    Values <- MCValues
    Keys <- MCKeys
    KeyOf <- MCKeyOf
    QueueLimit = 1
    MaxEdits = 2
    MaxInFlight = 2
PROPERTY RejectionIsSurfaced
