SPECIFICATION RuleSpec
CONSTANTS
    bond = bond
    BOND = BOND
    Names <- MCNames
    FoldOf <- MCFoldOf
    Amounts = {1, 2}
    Yes = Yes
    No = No
    Missing = Missing
    MaxTerms = 3
INVARIANT ValidRulesMeanTheSame
CHECK_DEADLOCK FALSE
