-------------------------- MODULE MCDeltaDelivery ---------------------------
(* One table on one session, so that every anomaly shown is one of a       *)
(* single feed, and two rows.  With ConflateMs 0 the conflating rung posts *)
(* at every offer and only the refresh rung withholds anything.            *)
EXTENDS DeltaDelivery

CONSTANTS positions, r1, r2
MCFeeds == {positions}
MCRows == {r1, r2}
=============================================================================
