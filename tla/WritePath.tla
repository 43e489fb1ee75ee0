------------------------------ MODULE WritePath -----------------------------
(***************************************************************************)
(* An edit on its way to the table and back: the optimistic writes of a    *)
(* tab (dshub-provider/src/writePath.mjs), the hub's command handler       *)
(* (hub.mjs), the actor's queue, and the rows that come back through the   *)
(* feed.  One row of one table; its fields are the cells.                  *)
(*                                                                         *)
(* The answer to a command and the rows of the feed share the tab's port,  *)
(* in the order they were posted; the ladder may withhold a row, so that a *)
(* later image stands for it.  An echo is a full image of the row, because *)
(* the engine's row deltas are.  A caller whose request fails may send the *)
(* command again under the same key.                                       *)
(***************************************************************************)
EXTENDS Integers, Sequences, SequencesExt

CONSTANTS
    Tabs,
    Fields,
    EditFields,   \* those that the tabs edit
    FeedFields,   \* those that the datasource writes
    Values,       \* what a field may hold
    Keys,         \* idempotency keys
    KeyOf,        \* newKey: the key of a tab's n-th edit
    QueueLimit,   \* the actor's queueLimit
    MaxEdits,     \* bound: edits of a tab
    MaxInFlight   \* bound: messages under way to a tab, or from it

Blank == 0

ASSUME WriteAssumption ==
    /\ Blank \in Values
    /\ EditFields \subseteq Fields
    /\ FeedFields \subseteq Fields
    /\ KeyOf \in [Tabs -> [1..MaxEdits -> Keys]]
    /\ {QueueLimit, MaxEdits, MaxInFlight} \subseteq Nat

VARIABLES
    edits,     \* tab: its writes, in the order submitted
    answered,  \* tab: the writes whose request has been answered
    uplink,    \* tab: commands under way to the hub
    downlink,  \* tab: answers and row images under way to it
    serving,   \* the hub has an entry for the table
    seen,      \* hub.seenCommands
    queue,     \* patches the actor has taken and not flushed
    table,     \* the row
    pushes,    \* history: times a command of this key was pushed
    stored     \* history: the values each field has had

client == <<edits, answered>>
channels == <<uplink, downlink>>
hub == <<serving, seen, queue, table>>
history == <<pushes, stored>>
vars == <<client, channels, hub, history>>

Statuses == {"pending", "confirmed", "diverged", "rejected", "timed-out", "pruned"}
Settled == Statuses \ {"pending"}
Outcomes == {"applied", "duplicate", "rejected"}
Row == [Fields -> Values]
Result == [type : {"commandResult"}, edit : Nat, outcome : Outcomes]
RowDelta == [type : {"rowDelta"}, row : Row]
Patch == [field : Fields, value : Values]

Init ==
    /\ edits = [t \in Tabs |-> <<>>]
    /\ answered = [t \in Tabs |-> {}]
    /\ uplink = [t \in Tabs |-> <<>>]
    /\ downlink = [t \in Tabs |-> <<>>]
    /\ serving = TRUE
    /\ seen = {}
    /\ queue = <<>>
    /\ table = [f \in Fields |-> Blank]
    /\ pushes = [k \in Keys |-> 0]
    /\ stored = [f \in Fields |-> {Blank}]

-----------------------------------------------------------------------------
(* The tab.                                                                *)

Pending(t) == {n \in DOMAIN edits[t] : edits[t][n].status = "pending"}

(* A later edit of the same cell: only the latest is shown and timed.      *)
Superseded(t, n) ==
    \E m \in DOMAIN edits[t] : m > n /\ edits[t][m].field = edits[t][n].field

(* The writes of a tab get new statuses.                                   *)
Settle(t, status) ==
    edits' = [edits EXCEPT ![t] = [n \in DOMAIN @ |-> [@[n] EXCEPT !.status = status[n]]]]

Submit(t, f, v) ==
    /\ Len(edits[t]) < MaxEdits
    /\ Len(uplink[t]) < MaxInFlight
    /\ edits' = [edits EXCEPT ![t] = Append(@, [field |-> f, value |-> v, status |-> "pending"])]
    /\ uplink' = [uplink EXCEPT ![t] = Append(@, Len(edits'[t]))]
    /\ UNCHANGED <<answered, downlink, hub, history>>

(* The request has failed, by its own timeout or with the connection, and  *)
(* the caller sends it again.                                              *)
Resend(t, n) ==
    /\ n \in DOMAIN edits[t] \ answered[t]
    /\ \A i \in DOMAIN uplink[t] : uplink[t][i] # n
    /\ Len(uplink[t]) < MaxInFlight
    /\ uplink' = [uplink EXCEPT ![t] = Append(@, n)]
    /\ UNCHANGED <<client, downlink, hub, history>>

(* Mutants of AfterResult: a rejection is taken at any time; "applied" is  *)
(* taken for the confirmation; the outcome becomes the status.             *)
AfterResultAnyTime(status, outcome) == IF outcome = "rejected" THEN "rejected" ELSE status
AfterResultTrusting(status, outcome) ==
    IF status # "pending" THEN status
    ELSE IF outcome = "rejected" THEN "rejected" ELSE "confirmed"

AfterResultVerbatim(status, outcome) == IF status = "pending" THEN outcome ELSE status

(* onResult: of a pending write only a rejection is news.                  *)
AfterResult(status, outcome) ==
    IF status = "pending" /\ outcome = "rejected" THEN "rejected" ELSE status

Arriving(t, type) ==
    /\ downlink[t] # <<>>
    /\ Head(downlink[t]).type = type
    /\ downlink' = [downlink EXCEPT ![t] = Tail(@)]

OnResult(t) ==
    /\ Arriving(t, "commandResult")
    /\ LET result == Head(downlink[t])
       IN  /\ Settle(t, [n \in DOMAIN edits[t] |->
                            IF n = result.edit THEN AfterResult(edits[t][n].status, result.outcome)
                            ELSE edits[t][n].status])
           /\ answered' = [answered EXCEPT ![t] = @ \cup {result.edit}]
    /\ UNCHANGED <<uplink, hub, history>>

(* The answer to a request that has failed already is dropped.             *)
LateResult(t) ==
    /\ Arriving(t, "commandResult")
    /\ UNCHANGED <<client, uplink, hub, history>>

(* reconcileEcho: every pending write is settled by the image, superseded  *)
(* or not, whoever's change the image is of.                               *)
ReconcileEcho(t) ==
    /\ Arriving(t, "rowDelta")
    /\ Settle(t, [n \in DOMAIN edits[t] |->
                     IF n \notin Pending(t) THEN edits[t][n].status
                     ELSE IF Head(downlink[t]).row[edits[t][n].field] = edits[t][n].value
                          THEN "confirmed" ELSE "diverged"])
    /\ UNCHANGED <<answered, uplink, hub, history>>

(* Mutant of Expired: a write that has been answered is not timed.         *)
ExpiredUnanswered(t, cutoff) ==
    {n \in Pending(t) \ answered[t] : n <= cutoff /\ ~Superseded(t, n)}

(* tick, when the first cutoff writes are older than the timeout: writes   *)
(* grow old in the order they were made.  Superseded writes are not timed. *)
Expired(t, cutoff) == {n \in Pending(t) : n <= cutoff /\ ~Superseded(t, n)}

Tick(t) ==
    \E cutoff \in 1..MaxEdits :
        /\ Expired(t, cutoff) # {}
        /\ Settle(t, [n \in DOMAIN edits[t] |->
                         IF n \in Expired(t, cutoff) THEN "timed-out" ELSE edits[t][n].status])
        /\ UNCHANGED <<answered, channels, hub, history>>

(* prune: settled writes are forgotten.                                    *)
Prune(t) ==
    /\ \E n \in DOMAIN edits[t] : edits[t][n].status \in Settled \ {"pruned"}
    /\ Settle(t, [n \in DOMAIN edits[t] |-> IF n \in Pending(t) THEN "pending" ELSE "pruned"])
    /\ UNCHANGED <<answered, channels, hub, history>>

(* The socket drops, and what was under way with it.                       *)
ConnectionDrops(t) ==
    /\ <<uplink[t], downlink[t]>> # <<<<>>, <<>>>>
    /\ uplink' = [uplink EXCEPT ![t] = <<>>]
    /\ downlink' = [downlink EXCEPT ![t] = <<>>]
    /\ UNCHANGED <<client, hub, history>>

-----------------------------------------------------------------------------
(* The hub.                                                                *)

Answer(t, outcome) ==
    /\ uplink[t] # <<>>
    /\ Len(downlink[t]) < MaxInFlight
    /\ uplink' = [uplink EXCEPT ![t] = Tail(@)]
    /\ downlink' = [downlink EXCEPT ![t] =
                       Append(@, [type |-> "commandResult", edit |-> Head(uplink[t]), outcome |-> outcome])]

Key(t) == KeyOf[t][Head(uplink[t])]
Edit(t) == edits[t][Head(uplink[t])]

(* command, of a key the hub has seen.                                     *)
CommandAgain(t) ==
    /\ Answer(t, "duplicate")
    /\ Key(t) \in seen
    /\ UNCHANGED <<client, hub, history>>

(* Nobody is subscribed to the table: the key is not recorded.             *)
CommandUnknown(t) ==
    /\ Answer(t, "rejected")
    /\ Key(t) \notin seen
    /\ ~serving
    /\ UNCHANGED <<client, hub, history>>

(* The queue is full: the key has been recorded all the same.              *)
CommandRefused(t) ==
    /\ Answer(t, "rejected")
    /\ Key(t) \notin seen
    /\ serving
    /\ Len(queue) >= QueueLimit
    /\ seen' = seen \cup {Key(t)}
    /\ UNCHANGED <<client, serving, queue, table, history>>

(* Mutant of CommandApplied: the key is not looked up.                     *)
CommandAppliedAgain(t) ==
    /\ Answer(t, "applied")
    /\ serving
    /\ Len(queue) < QueueLimit
    /\ seen' = seen \cup {Key(t)}
    /\ queue' = Append(queue, [field |-> Edit(t).field, value |-> Edit(t).value])
    /\ pushes' = [pushes EXCEPT ![Key(t)] = @ + 1]
    /\ UNCHANGED <<client, serving, table, stored>>

CommandApplied(t) ==
    /\ Answer(t, "applied")
    /\ Key(t) \notin seen
    /\ serving
    /\ Len(queue) < QueueLimit
    /\ seen' = seen \cup {Key(t)}
    /\ queue' = Append(queue, [field |-> Edit(t).field, value |-> Edit(t).value])
    /\ pushes' = [pushes EXCEPT ![Key(t)] = @ + 1]
    /\ UNCHANGED <<client, serving, table, stored>>

(* The datasource's own row for the same key.                              *)
UpstreamRow(f, v) ==
    /\ serving
    /\ Len(queue) < QueueLimit
    /\ queue' = Append(queue, [field |-> f, value |-> v])
    /\ UNCHANGED <<client, channels, serving, seen, table, history>>

(* mergeBatch: last write wins, per field.                                 *)
Patched(row, patches) ==
    [f \in Fields |->
        LET writes == {i \in DOMAIN patches : patches[i].field = f}
        IN  IF writes = {} THEN row[f]
            ELSE patches[CHOOSE i \in writes : \A j \in writes : j <= i].value]

(* Each tab is offered the image, and the ladder posts it or does not.     *)
Offer(image) ==
    \E takers \in SUBSET {t \in Tabs : Len(downlink[t]) < MaxInFlight} :
        downlink' = [t \in Tabs |->
                        IF t \in takers
                        THEN Append(downlink[t], [type |-> "rowDelta", row |-> image])
                        ELSE downlink[t]]

Write(row) ==
    /\ table' = row
    /\ stored' = [f \in Fields |-> stored[f] \cup {row[f]}]
    /\ Offer(row)

Flush ==
    /\ queue # <<>>
    /\ queue' = <<>>
    /\ Write(Patched(table, queue))
    /\ UNCHANGED <<client, uplink, serving, seen, pushes>>

(* The table is torn down, and what is in the queue with it.               *)
TableGoes ==
    /\ serving
    /\ serving' = FALSE
    /\ queue' = <<>>
    /\ UNCHANGED <<client, channels, seen, table, history>>

(* Somebody subscribes: the datasource's own row, without the edits.       *)
TableReturns ==
    /\ ~serving
    /\ serving' = TRUE
    /\ Write([f \in Fields |-> Blank])
    /\ UNCHANGED <<client, uplink, seen, queue, pushes>>

-----------------------------------------------------------------------------
Command(t) == CommandAgain(t) \/ CommandUnknown(t) \/ CommandRefused(t) \/ CommandApplied(t)

Next ==
    \/ \E t \in Tabs :
           \/ \E f \in EditFields, v \in Values : Submit(t, f, v)
           \/ \E n \in 1..MaxEdits : Resend(t, n)
           \/ OnResult(t) \/ LateResult(t) \/ ReconcileEcho(t)
           \/ Tick(t) \/ Prune(t)
           \/ ConnectionDrops(t)
           \/ Command(t)
    \/ \E f \in FeedFields, v \in Values : UpstreamRow(f, v)
    \/ Flush
    \/ TableGoes
    \/ TableReturns

Spec == Init /\ [][Next]_vars

(* Time passes and the tab looks at the clock.  Nothing is assumed of the  *)
(* channels, the hub or the upstream.                                      *)
FairSpec == Spec /\ \A t \in Tabs : WF_vars(Tick(t))

-----------------------------------------------------------------------------
WriteTypeOK ==
    /\ edits \in [Tabs -> Seq([field : Fields, value : Values, status : Statuses])]
    /\ answered \in [Tabs -> SUBSET Nat]
    /\ uplink \in [Tabs -> Seq(Nat)]
    /\ downlink \in [Tabs -> Seq(Result \cup RowDelta)]
    /\ serving \in BOOLEAN
    /\ seen \subseteq Keys
    /\ queue \in Seq(Patch)
    /\ table \in Row
    /\ pushes \in [Keys -> Nat]
    /\ stored \in [Fields -> SUBSET Values]

(* "A network retry must never double-apply an order": however often and   *)
(* however late a command comes, through refusals, lost answers and a      *)
(* rebuilt table, it enters the actor at most once.                        *)
AppliedAtMostOnce == \A k \in Keys : pushes[k] <= 1

(* The answer, the echo and the timeout of a write race, and the first to  *)
(* settle it settles it: what has been shown as confirmed, diverged or     *)
(* rolled back is not turned into something else by one that comes late.   *)
SettledForGood ==
    [][\A t \in Tabs : \A n \in DOMAIN edits[t] :
          edits[t][n].status \in Settled =>
              edits'[t][n].status \in {edits[t][n].status, "pruned"}]_vars

(* "The value the client sees confirmed is the value the hub actually      *)
(* stored, not the value it hopefully sent": an accepted command that is   *)
(* overwritten in the queue, or lost with it, is never confirmed.          *)
ConfirmedWasStored ==
    \A t \in Tabs : \A n \in DOMAIN edits[t] :
        edits[t][n].status = "confirmed" => edits[t][n].value \in stored[edits[t][n].field]

(* The edit a cell shows is settled in the end, or replaced by a newer     *)
(* one, whatever happens to the command, its answer and its echo.          *)
EditResolves ==
    \A t \in Tabs, n \in 1..MaxEdits :
        (n \in Pending(t)) ~> (n \notin Pending(t) \/ Superseded(t, n))

(* "A silently-dropped order is the one failure a trader must never have": *)
(* when the rejection of a write comes in, the write is rolled back, or    *)
(* its timeout has rolled it back already.                                 *)
RejectionIsSurfaced ==
    [][\A t \in Tabs :
          (OnResult(t) /\ Head(downlink[t]).outcome = "rejected") =>
              edits'[t][Head(downlink[t]).edit].status \in {"rejected", "timed-out", "pruned"}]_vars
=============================================================================
