--------------------------- MODULE SubscriberFlow ---------------------------
(***************************************************************************)
(* The backpressure ladder of ONE session (flow.mjs, class SubscriberFlow, *)
(* driven by the dispatch closure of hub.mjs).  Every delta posted to the  *)
(* tab carries a sequence number, the tab acknowledges what it has         *)
(* applied, and the lag between the two picks the rung:                    *)
(*                                                                         *)
(*   none -> conflating -> snapshot-refresh -> disconnecting               *)
(*                                                                         *)
(* The session has one flow for every table it subscribes to with row      *)
(* delivery; those tables are the Feeds.  The clock is relative: an age    *)
(* counts ticks and saturates at the threshold it is compared with, so     *)
(* time itself needs no bound.                                             *)
(***************************************************************************)
EXTENDS Integers

CONSTANTS
    Feeds,       \* tables the session may subscribe to, delivery "rows"
    Limit,       \* lag, in deltas, of the last rung (flowLimit, 500)
    ConflateMs,  \* ticks between two conflated batches
    StuckMs,     \* ticks of grace at the refresh rung
    MaxAcked,    \* bound: the largest sequence number the tab acknowledges
    MaxResets    \* bound: how often a config push discards the flow

(* Below a limit of 4 no integer lag lies between 3/4 of the limit and the *)
(* limit, and the ladder has no refresh rung.  The code's values are 500   *)
(* deltas and 30 seconds.                                                  *)
ASSUME FlowAssumption ==
    /\ Limit \in Nat /\ Limit >= 4
    /\ ConflateMs \in Nat
    /\ StuckMs \in Nat \ {0}
    /\ MaxAcked \in Nat
    /\ MaxResets \in Nat

VARIABLES
    subscribed,   \* feeds the hub still delivers to this session
    sentSeq,      \* sequence number of the last delta posted
    ackedSeq,     \* last sequence number the tab acknowledged
    rung,         \* rung at the last offer
    refreshSent,  \* the tab has been told to re-read its view
    atRefresh,    \* age of refreshEnteredAt, or NotEntered
    sinceFlush,   \* age of lastFlush
    wedged,       \* the tab has stopped consuming for good
    resets,       \* flows discarded so far
    quiet,        \* history: ticks since the tab last made progress
    told,         \* history: a refresh was posted since the ladder was last at its foot
    paced         \* history: ticks since the last conflated batch

flow == <<sentSeq, ackedSeq, rung, refreshSent, atRefresh, sinceFlush>>
history == <<quiet, told, paced>>
vars == <<subscribed, flow, wedged, resets, history>>

Rungs == {"none", "conflating", "snapshot-refresh", "disconnecting"}
NotEntered == -1

Lag == sentSeq - ackedSeq

RungForLag(lag) ==
    IF lag >= Limit THEN "disconnecting"
    ELSE IF 4 * lag >= 3 * Limit THEN "snapshot-refresh"
    ELSE IF 5 * lag >= 2 * Limit THEN "conflating"
    ELSE "none"

Older(age, cap) == IF age < cap THEN age + 1 ELSE age

FlowInit ==
    /\ sentSeq = 0
    /\ ackedSeq = 0
    /\ rung = "none"
    /\ refreshSent = FALSE
    /\ atRefresh = NotEntered
    /\ sinceFlush = ConflateMs       \* lastFlush is 0: the epoch
    /\ quiet = 0
    /\ told = FALSE
    /\ paced = ConflateMs

Init ==
    /\ subscribed = Feeds
    /\ wedged = FALSE
    /\ resets = 0
    /\ FlowInit

-----------------------------------------------------------------------------
(* offer(delta): one action per verdict, all behind the same rung          *)
(* computation.                                                            *)

RefreshAge == IF atRefresh = NotEntered THEN 0 ELSE atRefresh

(* Mutant of NextRung: lag alone decides, as before stuckMs.               *)
NextRungByLag == RungForLag(Lag)

NextRung ==
    IF RungForLag(Lag) = "snapshot-refresh" /\ RefreshAge >= StuckMs
    THEN "disconnecting"
    ELSE RungForLag(Lag)

(* Mutant of NextAtRefresh: the clock is not reset when the lag drops.     *)
NextAtRefreshKept ==
    IF RungForLag(Lag) = "snapshot-refresh" THEN RefreshAge ELSE atRefresh

NextAtRefresh ==
    IF RungForLag(Lag) = "snapshot-refresh" THEN RefreshAge
    ELSE IF RungForLag(Lag) = "disconnecting" THEN atRefresh
    ELSE NotEntered

OfferTo(f, r) ==
    /\ f \in subscribed
    /\ NextRung = r
    /\ rung' = r
    /\ atRefresh' = NextAtRefresh
    /\ UNCHANGED <<ackedSeq, wedged, resets, quiet>>

(* Bottom rung: the delta goes out as it is.                               *)
SendDelta(f) ==
    /\ OfferTo(f, "none")
    /\ refreshSent' = FALSE
    /\ sentSeq' = sentSeq + 1
    /\ told' = FALSE
    /\ UNCHANGED <<subscribed, sinceFlush, paced>>

(* Mutant of ConflationDue: a flush also on entering the rung.             *)
ConflationDueOnEntry == rung # "conflating" \/ sinceFlush >= ConflateMs

ConflationDue == sinceFlush >= ConflateMs

(* Conflating, interval not over: the delta joins the pending batch.       *)
HoldDelta(f) ==
    /\ OfferTo(f, "conflating")
    /\ ~ConflationDue
    /\ UNCHANGED <<subscribed, sentSeq, refreshSent, sinceFlush, told, paced>>

(* Conflating, interval over: flush() posts the merged batch.              *)
FlushBatch(f) ==
    /\ OfferTo(f, "conflating")
    /\ ConflationDue
    /\ sinceFlush' = 0
    /\ sentSeq' = sentSeq + 1
    /\ paced' = 0
    /\ UNCHANGED <<subscribed, refreshSent, told>>

(* Refresh rung, first offer: post one refresh, discard what was held.     *)
SendRefresh(f) ==
    /\ OfferTo(f, "snapshot-refresh")
    /\ ~refreshSent
    /\ refreshSent' = TRUE
    /\ told' = TRUE
    /\ UNCHANGED <<subscribed, sentSeq, sinceFlush, paced>>

(* Refresh rung, later offers: the delta is discarded.                     *)
DiscardDelta(f) ==
    /\ OfferTo(f, "snapshot-refresh")
    /\ refreshSent
    /\ UNCHANGED <<subscribed, sentSeq, refreshSent, sinceFlush, told, paced>>

(* Last rung: dropSlowSubscriber takes this one feed away.                 *)
DropSlowSubscriber(f) ==
    /\ OfferTo(f, "disconnecting")
    /\ subscribed' = subscribed \ {f}
    /\ UNCHANGED <<sentSeq, refreshSent, sinceFlush, told, paced>>

Offer(f) ==
    \/ SendDelta(f)
    \/ HoldDelta(f)
    \/ FlushBatch(f)
    \/ SendRefresh(f)
    \/ DiscardDelta(f)
    \/ DropSlowSubscriber(f)

-----------------------------------------------------------------------------
(* Mutants of Clamped: not capped by what was sent; seq read as the next   *)
(* one expected.                                                           *)
ClampedFromBelow(seq) == IF seq > ackedSeq THEN seq ELSE ackedSeq

ClampedNextExpected(seq) ==
    IF seq < sentSeq THEN seq - 1 ELSE sentSeq

(* onAck(seq): clamped to what was sent, never backwards.  The tab is not  *)
(* trusted: seq is any number up to the bound, an acknowledgement meant    *)
(* for a discarded flow included.                                          *)
Clamped(seq) ==
    LET most == IF seq < sentSeq THEN seq ELSE sentSeq
    IN  IF most > ackedSeq THEN most ELSE ackedSeq

OnAck(seq) ==
    /\ ~wedged
    /\ ackedSeq' = Clamped(seq)
    /\ quiet' = IF Clamped(seq) > ackedSeq THEN 0 ELSE quiet
    /\ IF rung = "snapshot-refresh" /\ RungForLag(sentSeq - Clamped(seq)) = "none"
       THEN refreshSent' = FALSE /\ atRefresh' = NotEntered /\ told' = FALSE
       ELSE UNCHANGED <<refreshSent, atRefresh, told>>
    /\ UNCHANGED <<subscribed, sentSeq, rung, sinceFlush, wedged, resets, paced>>

(* A dropped tab that is still alive subscribes again.  The session keeps  *)
(* its flow.                                                               *)
Resubscribe(f) ==
    /\ ~wedged
    /\ f \notin subscribed
    /\ subscribed' = subscribed \cup {f}
    /\ UNCHANGED <<flow, wedged, resets, history>>

(* reestablish after a config push discards the session's flow; the next   *)
(* offer builds a new one.                                                 *)
ResetFlow(f) ==
    /\ f \in subscribed
    /\ resets < MaxResets
    /\ resets' = resets + 1
    /\ sentSeq' = 0
    /\ ackedSeq' = 0
    /\ rung' = "none"
    /\ refreshSent' = FALSE
    /\ atRefresh' = NotEntered
    /\ sinceFlush' = ConflateMs
    /\ quiet' = 0
    /\ told' = FALSE
    /\ paced' = ConflateMs
    /\ UNCHANGED <<subscribed, wedged>>

(* The tab's main thread blocks: no acknowledgement any more.              *)
Wedge ==
    /\ ~wedged
    /\ wedged' = TRUE
    /\ UNCHANGED <<subscribed, flow, resets, history>>

Tick ==
    /\ atRefresh' = IF atRefresh = NotEntered THEN NotEntered ELSE Older(atRefresh, StuckMs)
    /\ sinceFlush' = Older(sinceFlush, ConflateMs)
    /\ quiet' = Older(quiet, StuckMs)
    /\ paced' = Older(paced, ConflateMs)
    /\ UNCHANGED <<subscribed, sentSeq, ackedSeq, rung, refreshSent, wedged, resets, told>>

Next ==
    \/ \E f \in Feeds : Offer(f) \/ Resubscribe(f) \/ ResetFlow(f)
    \/ \E seq \in 0..MaxAcked : OnAck(seq)
    \/ Wedge
    \/ Tick

Spec == Init /\ [][Next]_vars

(* Time passes, and each subscribed table keeps changing.  Nothing is      *)
(* assumed of the tab.                                                     *)
FairSpec == Spec /\ WF_vars(Tick) /\ \A f \in Feeds : WF_vars(Offer(f))

-----------------------------------------------------------------------------
TypeOK ==
    /\ subscribed \subseteq Feeds
    /\ sentSeq \in Nat
    /\ ackedSeq \in Nat
    /\ rung \in Rungs
    /\ refreshSent \in BOOLEAN
    /\ atRefresh \in {NotEntered} \cup 0..StuckMs
    /\ sinceFlush \in 0..ConflateMs
    /\ wedged \in BOOLEAN
    /\ resets \in 0..MaxResets
    /\ quiet \in 0..StuckMs
    /\ told \in BOOLEAN
    /\ paced \in 0..ConflateMs

(* The lag freezes on the refresh rung: whatever the tab acknowledges, and *)
(* in whatever order, at most one delta beyond three quarters of the limit *)
(* is ever outstanding, so the lag alone never reaches the last rung.      *)
LagStaysBelowLimit ==
    /\ 0 <= Lag
    /\ 4 * (Lag - 1) < 3 * Limit
    /\ Lag < Limit

(* "The escalation must fire on lack of PROGRESS, not on elapsed time": a  *)
(* feed is only ever taken from a tab that has been told to re-read and    *)
(* has then acknowledged nothing new for the whole grace period.           *)
DropIsEarned ==
    [][\A f \in Feeds :
         (f \in subscribed /\ f \notin subscribed') => (told /\ quiet >= StuckMs)]_vars

(* The middle rung posts at most one batch per interval.                   *)
ConflationIsPaced ==
    [][(rung' = "conflating" /\ sentSeq' = sentSeq + 1) => paced >= ConflateMs]_vars

(* A tab that stops consuming loses every subscription: the ladder reaches *)
(* its last rung although the lag has frozen below it.                     *)
WedgedTabIsShed == wedged ~> (subscribed = {})
=============================================================================
