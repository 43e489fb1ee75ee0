------------------------ MODULE MCHubSubscriptions --------------------------
(* Two tabs; a book that is prewarmed and takes params, and trades that    *)
(* are neither.                                                            *)
EXTENDS HubSubscriptions

CONSTANTS tab1, tab2, book, trades
MCSessions == {tab1, tab2}
MCKeys == {book, trades}
MCOneKey == {trades}
MCPrewarm == {book}
MCNone == {}
MCBytes == [k \in {book, trades} |-> 1]
MCOneKeyBareOf == [k \in MCOneKey |-> k]
MCOneKeyBytes == [k \in {trades} |-> 1]
=============================================================================
