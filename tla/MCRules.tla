------------------------------- MODULE MCRules --------------------------------
EXTENDS Rules

CONSTANTS bond, BOND                \* one name in two cases

MCNames == {bond, BOND}
MCFoldOf == [n \in MCNames |-> bond]
=============================================================================
