--------------------------- MODULE DeltaDelivery ----------------------------
(***************************************************************************)
(* What the tab ends up holding.  The ladder of SubscriberFlow decides     *)
(* what is posted; this module adds the rows: the hub's table, the pending *)
(* batch of the conflating rung and the tab's copy.  A row's image is its  *)
(* version, 0..MaxVersion: an update writes the next version or repeats    *)
(* the current one.  The port is FIFO and loses nothing, so "tab" is the   *)
(* copy the tab holds once it has applied everything posted so far.        *)
(***************************************************************************)
EXTENDS SubscriberFlow

CONSTANTS Rows, MaxVersion

VARIABLES
    table,   \* table[f][r]: version of the row in the hub
    tab,     \* tab[f][r]: version the tab holds
    held,    \* pending: the rows the next merged batch will carry, by key
    under,   \* the feed of the first delta pending, {} when none is
    owed     \* feeds the tab was told to re-read and has not re-read yet

dvars == <<vars, table, tab, held, under, owed>>

Image == [feed : Feeds, row : Rows, version : 0..MaxVersion]
Written(v) == {v, Older(v, MaxVersion)}

DeliveryInit ==
    /\ Init
    /\ table = [f \in Feeds |-> [r \in Rows |-> 0]]
    /\ tab = table
    /\ held = {}
    /\ under = {}
    /\ owed = {}

(* mergeDeltas: keyed by __key alone, the later image of a key wins.       *)
Merge(images, image) == {i \in images : i.row # image.row} \cup {image}

(* The merged batch goes out under the envelope of the first delta held    *)
(* back, and the tab writes every row of it to that feed, whichever feed   *)
(* of the session the row came from.                                       *)
Envelope(f) == IF under = {} THEN {f} ELSE under

Applied(copy, to, images) ==
    [f \in Feeds |-> [r \in Rows |->
        IF f \in to /\ \E i \in images : i.row = r
        THEN (CHOOSE i \in images : i.row = r).version
        ELSE copy[f][r]]]

Unpend == held' = {} /\ under' = {}

(* A write to one row of a watched table: the engine reports it to the hub *)
(* and the hub offers it to the session's flow.                            *)
Update(f, r, v) ==
    LET image == [feed |-> f, row |-> r, version |-> v]
    IN  /\ v \in Written(table[f][r])
        /\ table' = [table EXCEPT ![f][r] = v]
        /\ \/ /\ SendDelta(f)
              /\ tab' = Applied(tab, {f}, {image})
              /\ UNCHANGED <<held, under, owed>>
           \/ /\ HoldDelta(f)
              /\ held' = Merge(held, image)
              /\ under' = Envelope(f)
              /\ UNCHANGED <<tab, owed>>
           \/ /\ FlushBatch(f)
              /\ tab' = Applied(tab, Envelope(f), Merge(held, image))
              /\ Unpend
              /\ UNCHANGED owed
           \/ /\ SendRefresh(f)
              /\ owed' = owed \cup {f}
              /\ Unpend
              /\ UNCHANGED tab
           \/ /\ DiscardDelta(f)
              /\ Unpend
              /\ UNCHANGED <<tab, owed>>
           \/ /\ DropSlowSubscriber(f)
              /\ owed' = owed \ {f}
              /\ Unpend
              /\ UNCHANGED tab

(* Nobody watches: the table moves on alone.                               *)
UpdateUnwatched(f, r, v) ==
    /\ f \notin subscribed
    /\ v \in Written(table[f][r])
    /\ table' = [table EXCEPT ![f][r] = v]
    /\ UNCHANGED <<vars, tab, held, under, owed>>

(* The tab answers a refresh by reading the whole view again.              *)
Reread(f) ==
    /\ f \in owed
    /\ ~wedged
    /\ tab' = [tab EXCEPT ![f] = table[f]]
    /\ owed' = owed \ {f}
    /\ UNCHANGED <<vars, table, held, under>>

Ack(seq) == OnAck(seq) /\ UNCHANGED <<table, tab, held, under, owed>>

(* Subscribing again starts from a fresh read.                             *)
Rejoin(f) ==
    /\ Resubscribe(f)
    /\ tab' = [tab EXCEPT ![f] = table[f]]
    /\ UNCHANGED <<table, held, under, owed>>

(* A config push: the flow and its pending batch go, the tab is told to    *)
(* re-read.                                                                *)
Reestablish(f) ==
    /\ ResetFlow(f)
    /\ Unpend
    /\ owed' = owed \cup {f}
    /\ UNCHANGED <<table, tab>>

DeliveryNext ==
    \/ \E f \in Feeds, r \in Rows, v \in 0..MaxVersion :
           Update(f, r, v) \/ UpdateUnwatched(f, r, v)
    \/ \E f \in Feeds : Reread(f) \/ Rejoin(f) \/ Reestablish(f)
    \/ \E seq \in 0..MaxAcked : Ack(seq)
    \/ (Wedge \/ Tick) /\ UNCHANGED <<table, tab, held, under, owed>>

DeliverySpec == DeliveryInit /\ [][DeliveryNext]_dvars

-----------------------------------------------------------------------------
DeliveryTypeOK ==
    /\ TypeOK
    /\ table \in [Feeds -> [Rows -> 0..MaxVersion]]
    /\ tab \in [Feeds -> [Rows -> 0..MaxVersion]]
    /\ held \subseteq Image
    /\ under \subseteq Feeds
    /\ owed \subseteq Feeds

(* "Merge column-oriented delta batches, last write wins per key": what    *)
(* the tab holds of a row is never replaced by an older image of it.       *)
TabNeverGoesBack ==
    [][\A f \in Feeds, r \in Rows : tab'[f][r] >= tab[f][r]]_dvars

(* "drop to periodic snapshot refresh", and "Caught up: resume normal      *)
(* delivery": when the ladder is back at its foot, wherever the tab is     *)
(* behind the table on a row, the newer image is in the pending batch or   *)
(* the tab has still to re-read.                                           *)
CaughtUpIsCurrent ==
    rung = "none" =>
        \A f \in subscribed, r \in Rows :
            tab[f][r] < table[f][r] =>
                \/ f \in owed
                \/ \E i \in held : i.feed = f /\ i.row = r /\ i.version = table[f][r]
=============================================================================
