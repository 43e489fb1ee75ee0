-------------------------- MODULE WritePathProofs ---------------------------
(***************************************************************************)
(* Proofs about the write path, for every set of tabs, fields, values and  *)
(* keys, whether or not the keys of two edits differ, and every queue      *)
(* limit.  Types need that messages speak of edits that were made; that a  *)
(* confirmed value was stored, that every image under way was.             *)
(***************************************************************************)
EXTENDS WritePath, WellFoundedInduction, TLAPS

(* Commands and answers under way are of edits the tab has made.           *)
MessagesAreOfEdits ==
    /\ \A t \in Tabs : Len(edits[t]) <= MaxEdits
    /\ \A t \in Tabs : \A i \in DOMAIN uplink[t] : uplink[t][i] \in DOMAIN edits[t]
    /\ \A t \in Tabs : \A i \in DOMAIN downlink[t] :
           downlink[t][i].type = "commandResult" => downlink[t][i].edit \in DOMAIN edits[t]

(* A key that was pushed has been seen, and was pushed once.               *)
PushedIsSeen ==
    \A k \in Keys : pushes[k] <= 1 /\ (pushes[k] # 0 => k \in seen)

(* The row, and every image of it under way, holds values that were stored.*)
ImagesWereStored ==
    /\ \A f \in Fields : table[f] \in stored[f]
    /\ \A t \in Tabs : \A i \in DOMAIN downlink[t] :
           downlink[t][i].type = "rowDelta" =>
               \A f \in Fields : downlink[t][i].row[f] \in stored[f]

IInv ==
    /\ WriteTypeOK
    /\ MessagesAreOfEdits
    /\ PushedIsSeen
    /\ ImagesWereStored
    /\ ConfirmedWasStored

Record == [field : Fields, value : Values, status : Statuses]
Message == Result \cup RowDelta

-----------------------------------------------------------------------------
(* What taking the first message off a channel, or posting one, leaves.    *)
LEMMA AppendElements ==
    ASSUME NEW S, NEW s \in Seq(S), NEW e \in S
    PROVE  /\ Append(s, e) \in Seq(S)
           /\ DOMAIN s \subseteq DOMAIN Append(s, e)
           /\ Len(Append(s, e)) = Len(s) + 1
           /\ \A i \in DOMAIN s : Append(s, e)[i] = s[i]
           /\ \A i \in DOMAIN Append(s, e) : i \in DOMAIN s \/ Append(s, e)[i] = e
           /\ Len(s) + 1 \in DOMAIN Append(s, e)
           /\ Append(s, e)[Len(s) + 1] = e
  OBVIOUS

LEMMA TailElements ==
    ASSUME NEW S, NEW s \in Seq(S), s # <<>>
    PROVE  /\ Head(s) \in S
           /\ Tail(s) \in Seq(S)
           /\ 1 \in DOMAIN s
           /\ Head(s) = s[1]
           /\ \A i \in DOMAIN Tail(s) : i + 1 \in DOMAIN s /\ Tail(s)[i] = s[i + 1]
  OBVIOUS

(* mergeBatch of a row and patches of it is a row.                         *)
LEMMA PatchedIsRow ==
    ASSUME NEW row \in Row, NEW patches \in Seq(Patch)
    PROVE  Patched(row, patches) \in Row
  <1> SUFFICES ASSUME NEW f \in Fields
               PROVE  (LET writes == {i \in DOMAIN patches : patches[i].field = f}
                       IN  IF writes = {} THEN row[f]
                           ELSE patches[CHOOSE i \in writes : \A j \in writes : j <= i].value)
                      \in Values
    BY DEF Patched, Row
  <1> DEFINE writes == {i \in DOMAIN patches : patches[i].field = f}
             last == CHOOSE i \in writes : \A j \in writes : j <= i
  <1>1. CASE writes = {}
    BY <1>1 DEF Row
  <1>2. CASE writes # {}
    <2>1. \E i \in writes : \A j \in writes : j <= i
      <3> DEFINE behind == {Len(patches) - i : i \in writes}
                 below == {ss \in Nat \X Nat : ss[1] < ss[2]}
      <3>1. behind \subseteq Nat /\ behind # {}
        BY <1>2
      <3>2. IsWellFoundedOn(below, Nat)
        BY NatLessThanWellFounded DEF OpToRel
      <3>3. PICK n \in behind : \A m \in behind : ~(<<m, n>> \in below)
        <4> HIDE DEF behind, below
        <4>. QED
          BY <3>1, <3>2, WFMin
      <3>4. ASSUME NEW m \in behind PROVE n <= m
        <4> HIDE DEF behind
        <4>1. m \in Nat /\ n \in Nat
          BY <3>1
        <4>2. <<m, n>> \notin below
          BY <3>3
        <4>3. ~(m < n)
          BY <4>1, <4>2
        <4>. QED
          BY <4>1, <4>3
      <3>5. PICK i \in writes : n = Len(patches) - i
        BY <3>3
      <3>6. ASSUME NEW j \in writes PROVE j <= i
        <4>1. Len(patches) - j \in behind
          OBVIOUS
        <4>2. n <= Len(patches) - j
          BY <3>4, <4>1
        <4>3. i \in Nat /\ j \in Nat /\ Len(patches) \in Nat
          OBVIOUS
        <4>. QED
          BY <3>5, <4>2, <4>3
      <3>. QED
        BY <3>6
    <2>2. last \in writes
      BY <2>1
    <2>3. patches[last] \in Patch
      BY <2>2
    <2>. QED
      BY <1>2, <2>3 DEF Patch
  <1>. QED
    BY <1>1, <1>2

-----------------------------------------------------------------------------
LEMMA InitInv == Init => IInv
  <1> SUFFICES ASSUME Init PROVE IInv
    OBVIOUS
  <1> USE WriteAssumption DEF Init, Blank
  <1>1. WriteTypeOK
    BY DEF WriteTypeOK, Row
  <1>2. MessagesAreOfEdits
    BY DEF MessagesAreOfEdits
  <1>3. PushedIsSeen
    BY DEF PushedIsSeen
  <1>4. ImagesWereStored
    BY DEF ImagesWereStored
  <1>5. ConfirmedWasStored
    BY DEF ConfirmedWasStored
  <1>. QED
    BY <1>1, <1>2, <1>3, <1>4, <1>5 DEF IInv

(* A write that gets a new status keeps its cell and its value.            *)
LEMMA SettleKeepsCells ==
    ASSUME WriteTypeOK, NEW t \in Tabs,
           NEW status \in [DOMAIN edits[t] -> Statuses], Settle(t, status)
    PROVE  /\ edits' \in [Tabs -> Seq(Record)]
           /\ \A u \in Tabs : u # t => edits'[u] = edits[u]
           /\ DOMAIN edits'[t] = DOMAIN edits[t]
           /\ Len(edits'[t]) = Len(edits[t])
           /\ \A n \in DOMAIN edits[t] :
                 /\ edits'[t][n].field = edits[t][n].field
                 /\ edits'[t][n].value = edits[t][n].value
                 /\ edits'[t][n].status = status[n]
  <1> DEFINE settled == [n \in DOMAIN edits[t] |-> [edits[t][n] EXCEPT !.status = status[n]]]
  <1>1. edits \in [Tabs -> Seq(Record)] /\ edits[t] \in Seq(Record)
    BY DEF WriteTypeOK, Record
  <1>2. \A n \in DOMAIN edits[t] : edits[t][n] \in Record
    BY <1>1
  <1>3. \A n \in DOMAIN edits[t] : settled[n] \in Record
    BY <1>2 DEF Record
  <1>4. settled \in Seq(Record) /\ Len(settled) = Len(edits[t])
    <2>1. DOMAIN edits[t] = 1..Len(edits[t]) /\ Len(edits[t]) \in Nat
      BY <1>1
    <2>2. settled \in [1..Len(edits[t]) -> Record]
      BY <2>1, <1>3
    <2> HIDE DEF settled
    <2>. QED
      BY <2>1, <2>2
  <1>5. edits' = [edits EXCEPT ![t] = settled]
    BY DEF Settle
  <1>6. \A n \in DOMAIN edits[t] :
          /\ settled[n].field = edits[t][n].field
          /\ settled[n].value = edits[t][n].value
          /\ settled[n].status = status[n]
    BY <1>2 DEF Record
  <1> HIDE DEF settled
  <1>7. edits' \in [Tabs -> Seq(Record)] /\ edits'[t] = settled
    BY <1>1, <1>4, <1>5
  <1>8. DOMAIN settled = DOMAIN edits[t]
    BY <1>1, <1>4
  <1>. QED
    BY <1>1, <1>4, <1>5, <1>6, <1>7, <1>8

LEMMA WritesAreRecords ==
    ASSUME WriteTypeOK, NEW t \in Tabs, NEW n \in DOMAIN edits[t]
    PROVE  edits[t][n].status \in Statuses /\ edits[t][n].field \in Fields
  <1>1. edits[t] \in Seq(Record)
    BY DEF WriteTypeOK, Record
  <1>2. edits[t][n] \in Record
    BY <1>1
  <1>. QED
    BY <1>2 DEF Record

(* Nothing comes to a tab that was not under way to it.                    *)
NothingPosted ==
    \A u \in Tabs : \A i \in DOMAIN downlink'[u] :
        \E j \in DOMAIN downlink[u] : downlink'[u][i] = downlink[u][j]

(* The writes that were there are there still.                             *)
EditsStay == \A u \in Tabs : DOMAIN edits[u] \subseteq DOMAIN edits'[u]

(* What a step of a tab, or of its connection, has to keep.                *)
LEMMA TabStep ==
    ASSUME IInv, UNCHANGED <<hub, history>>,
           edits' \in [Tabs -> Seq(Record)],
           answered' \in [Tabs -> SUBSET Nat],
           uplink' \in [Tabs -> Seq(Nat)],
           downlink' \in [Tabs -> Seq(Message)],
           EditsStay, NothingPosted, ConfirmedWasStored',
           \A u \in Tabs : Len(edits'[u]) <= MaxEdits,
           \A u \in Tabs : \A i \in DOMAIN uplink'[u] : uplink'[u][i] \in DOMAIN edits'[u]
    PROVE  IInv'
  <1>1. WriteTypeOK'
    BY DEF IInv, WriteTypeOK, Record, Message, hub, history
  <1>2. MessagesAreOfEdits'
    <2>. SUFFICES ASSUME NEW u \in Tabs, NEW i \in DOMAIN downlink'[u],
                         downlink'[u][i].type = "commandResult"
                  PROVE  downlink'[u][i].edit \in DOMAIN edits'[u]
      BY DEF MessagesAreOfEdits
    <2>1. PICK j \in DOMAIN downlink[u] : downlink'[u][i] = downlink[u][j]
      BY DEF NothingPosted
    <2>. QED
      BY <2>1 DEF IInv, MessagesAreOfEdits, EditsStay
  <1>3. PushedIsSeen'
    BY DEF IInv, PushedIsSeen, hub, history
  <1>4. ImagesWereStored'
    <2>1. \A f \in Fields : table'[f] \in stored'[f]
      BY DEF IInv, ImagesWereStored, hub, history
    <2>2. ASSUME NEW u \in Tabs, NEW i \in DOMAIN downlink'[u],
                 downlink'[u][i].type = "rowDelta", NEW f \in Fields
          PROVE  downlink'[u][i].row[f] \in stored'[f]
      <3>1. PICK j \in DOMAIN downlink[u] : downlink'[u][i] = downlink[u][j]
        BY DEF NothingPosted
      <3>2. downlink[u][j].row[f] \in stored[f]
        BY <2>2, <3>1 DEF IInv, ImagesWereStored
      <3>. QED
        BY <3>1, <3>2 DEF history
    <2>. QED
      BY <2>1, <2>2 DEF ImagesWereStored
  <1>. QED
    BY <1>1, <1>2, <1>3, <1>4 DEF IInv

LEMMA ArrivingTakesOne ==
    ASSUME IInv, NEW t \in Tabs, NEW type, Arriving(t, type)
    PROVE  /\ downlink' \in [Tabs -> Seq(Message)]
           /\ NothingPosted
           /\ 1 \in DOMAIN downlink[t]
           /\ Head(downlink[t]) = downlink[t][1]
           /\ Head(downlink[t]) \in Message
           /\ Head(downlink[t]).type = type
  <1>1. downlink \in [Tabs -> Seq(Message)] /\ downlink[t] \in Seq(Message) /\ downlink[t] # <<>>
    BY DEF IInv, WriteTypeOK, Message, Arriving
  <1>2. /\ Head(downlink[t]) \in Message
        /\ Tail(downlink[t]) \in Seq(Message)
        /\ 1 \in DOMAIN downlink[t]
        /\ Head(downlink[t]) = downlink[t][1]
        /\ \A i \in DOMAIN Tail(downlink[t]) :
              i + 1 \in DOMAIN downlink[t] /\ Tail(downlink[t])[i] = downlink[t][i + 1]
    BY <1>1, TailElements
  <1>3. downlink' = [downlink EXCEPT ![t] = Tail(downlink[t])]
    BY DEF Arriving
  <1>4. NothingPosted
    BY <1>1, <1>2, <1>3 DEF NothingPosted
  <1>. QED
    BY <1>1, <1>2, <1>3, <1>4 DEF Arriving

(* A settlement that confirms only what was stored is a step of a tab.     *)
LEMMA SettleStep ==
    ASSUME IInv, NEW t \in Tabs, NEW status \in [DOMAIN edits[t] -> Statuses],
           Settle(t, status),
           \A n \in DOMAIN edits[t] :
               status[n] = "confirmed" =>
                   \/ edits[t][n].status = "confirmed"
                   \/ edits[t][n].value \in stored[edits[t][n].field],
           UNCHANGED <<uplink, hub, history>>,
           answered' \in [Tabs -> SUBSET Nat],
           downlink' \in [Tabs -> Seq(Message)],
           NothingPosted
    PROVE  IInv'
  <1>1. /\ edits' \in [Tabs -> Seq(Record)]
        /\ \A u \in Tabs : u # t => edits'[u] = edits[u]
        /\ DOMAIN edits'[t] = DOMAIN edits[t]
        /\ Len(edits'[t]) = Len(edits[t])
        /\ \A n \in DOMAIN edits[t] :
              /\ edits'[t][n].field = edits[t][n].field
              /\ edits'[t][n].value = edits[t][n].value
              /\ edits'[t][n].status = status[n]
    BY SettleKeepsCells DEF IInv
  <1>2. EditsStay
    BY <1>1 DEF EditsStay
  <1>3. ConfirmedWasStored'
    <2>. SUFFICES ASSUME NEW u \in Tabs, NEW n \in DOMAIN edits'[u],
                         edits'[u][n].status = "confirmed"
                  PROVE  edits'[u][n].value \in stored'[edits'[u][n].field]
      BY DEF ConfirmedWasStored
    <2>1. stored' = stored
      BY DEF history
    <2>2. CASE u = t
      BY <1>1, <2>1, <2>2 DEF IInv, ConfirmedWasStored
    <2>3. CASE u # t
      BY <1>1, <2>1, <2>3 DEF IInv, ConfirmedWasStored
    <2>. QED
      BY <2>2, <2>3
  <1>4. \A u \in Tabs : Len(edits'[u]) <= MaxEdits
    <2>. SUFFICES ASSUME NEW u \in Tabs PROVE Len(edits'[u]) <= MaxEdits
      OBVIOUS
    <2>. QED
      BY <1>1 DEF IInv, MessagesAreOfEdits
  <1>5. \A u \in Tabs : \A i \in DOMAIN uplink'[u] : uplink'[u][i] \in DOMAIN edits'[u]
    BY <1>1 DEF IInv, MessagesAreOfEdits
  <1>6. uplink' \in [Tabs -> Seq(Nat)]
    BY DEF IInv, WriteTypeOK
  <1>. QED
    BY <1>1, <1>2, <1>3, <1>4, <1>5, <1>6, TabStep

-----------------------------------------------------------------------------
(* The steps of a tab and of its connection.                               *)
LEMMA SubmitKeeps ==
    ASSUME IInv, NEW t \in Tabs, NEW f \in Fields, NEW v \in Values, Submit(t, f, v)
    PROVE  IInv'
  <1> DEFINE e == [field |-> f, value |-> v, status |-> "pending"]
  <1>1. e \in Record
    BY DEF Record, Statuses
  <1>2. edits \in [Tabs -> Seq(Record)] /\ edits[t] \in Seq(Record)
    BY DEF IInv, WriteTypeOK, Record
  <1>3. uplink \in [Tabs -> Seq(Nat)] /\ uplink[t] \in Seq(Nat) /\ Len(edits[t]) + 1 \in Nat
    BY <1>2 DEF IInv, WriteTypeOK
  <1>4. edits' = [edits EXCEPT ![t] = Append(edits[t], e)]
    BY DEF Submit
  <1> HIDE DEF e
  <1>5. /\ Append(edits[t], e) \in Seq(Record)
        /\ DOMAIN edits[t] \subseteq DOMAIN Append(edits[t], e)
        /\ Len(Append(edits[t], e)) = Len(edits[t]) + 1
        /\ \A n \in DOMAIN edits[t] : Append(edits[t], e)[n] = edits[t][n]
        /\ \A n \in DOMAIN Append(edits[t], e) : n \in DOMAIN edits[t] \/ Append(edits[t], e)[n] = e
        /\ Len(edits[t]) + 1 \in DOMAIN Append(edits[t], e)
    BY <1>1, <1>2, AppendElements
  <1>6. edits' \in [Tabs -> Seq(Record)] /\ edits'[t] = Append(edits[t], e)
    BY <1>2, <1>4, <1>5
  <1>7. uplink' = [uplink EXCEPT ![t] = Append(uplink[t], Len(edits[t]) + 1)]
    BY <1>5, <1>6 DEF Submit
  <1>8. /\ Append(uplink[t], Len(edits[t]) + 1) \in Seq(Nat)
        /\ \A i \in DOMAIN uplink[t] : Append(uplink[t], Len(edits[t]) + 1)[i] = uplink[t][i]
        /\ \A i \in DOMAIN Append(uplink[t], Len(edits[t]) + 1) :
              i \in DOMAIN uplink[t] \/ Append(uplink[t], Len(edits[t]) + 1)[i] = Len(edits[t]) + 1
    BY <1>3, AppendElements
  <1>9. uplink' \in [Tabs -> Seq(Nat)]
    BY <1>3, <1>7, <1>8
  <1>10. EditsStay
    BY <1>2, <1>4, <1>5 DEF EditsStay
  <1>11. ConfirmedWasStored'
    <2>. SUFFICES ASSUME NEW u \in Tabs, NEW n \in DOMAIN edits'[u],
                         edits'[u][n].status = "confirmed"
                  PROVE  edits'[u][n].value \in stored'[edits'[u][n].field]
      BY DEF ConfirmedWasStored
    <2>1. stored' = stored
      BY DEF Submit, history
    <2>2. e.status # "confirmed"
      BY DEF e
    <2>3. n \in DOMAIN edits[u] /\ edits'[u][n] = edits[u][n]
      BY <1>2, <1>4, <1>5, <1>6, <2>2
    <2>. QED
      BY <2>1, <2>3 DEF IInv, ConfirmedWasStored
  <1>12. \A u \in Tabs : Len(edits'[u]) <= MaxEdits
    <2>1. Len(edits[t]) < MaxEdits /\ MaxEdits \in Nat /\ Len(edits[t]) \in Nat
      BY <1>2, WriteAssumption DEF Submit
    <2>. QED
      BY <1>2, <1>4, <1>5, <1>6, <2>1 DEF IInv, MessagesAreOfEdits
  <1>13. \A u \in Tabs : \A i \in DOMAIN uplink'[u] : uplink'[u][i] \in DOMAIN edits'[u]
    <2>. SUFFICES ASSUME NEW u \in Tabs, NEW i \in DOMAIN uplink'[u]
                  PROVE  uplink'[u][i] \in DOMAIN edits'[u]
      OBVIOUS
    <2>1. CASE u = t
      BY <1>3, <1>5, <1>6, <1>7, <1>8, <2>1 DEF IInv, MessagesAreOfEdits
    <2>2. CASE u # t
      BY <1>2, <1>3, <1>4, <1>7, <2>2 DEF IInv, MessagesAreOfEdits
    <2>. QED
      BY <2>1, <2>2
  <1>14. downlink' \in [Tabs -> Seq(Message)] /\ NothingPosted
    BY DEF Submit, IInv, WriteTypeOK, Message, NothingPosted
  <1>15. answered' \in [Tabs -> SUBSET Nat] /\ UNCHANGED <<hub, history>>
    BY DEF Submit, IInv, WriteTypeOK
  <1>. QED
    BY <1>6, <1>9, <1>10, <1>11, <1>12, <1>13, <1>14, <1>15, TabStep

LEMMA ResendKeeps ==
    ASSUME IInv, NEW t \in Tabs, NEW n \in Nat, Resend(t, n)
    PROVE  IInv'
  <1>1. edits' = edits /\ answered' = answered /\ downlink' = downlink /\ UNCHANGED <<hub, history>>
    BY DEF Resend, client
  <1>2. n \in DOMAIN edits[t]
    BY DEF Resend
  <1>3. uplink \in [Tabs -> Seq(Nat)] /\ uplink[t] \in Seq(Nat)
    BY DEF IInv, WriteTypeOK
  <1>4. uplink' = [uplink EXCEPT ![t] = Append(uplink[t], n)]
    BY DEF Resend
  <1>5. /\ Append(uplink[t], n) \in Seq(Nat)
        /\ \A i \in DOMAIN uplink[t] : Append(uplink[t], n)[i] = uplink[t][i]
        /\ \A i \in DOMAIN Append(uplink[t], n) :
              i \in DOMAIN uplink[t] \/ Append(uplink[t], n)[i] = n
    BY <1>3, AppendElements
  <1>6. uplink' \in [Tabs -> Seq(Nat)]
    BY <1>3, <1>4, <1>5
  <1>7. \A u \in Tabs : \A i \in DOMAIN uplink'[u] : uplink'[u][i] \in DOMAIN edits'[u]
    BY <1>1, <1>2, <1>3, <1>4, <1>5 DEF IInv, MessagesAreOfEdits
  <1>8. /\ edits' \in [Tabs -> Seq(Record)]
        /\ answered' \in [Tabs -> SUBSET Nat]
        /\ downlink' \in [Tabs -> Seq(Message)]
    BY <1>1 DEF IInv, WriteTypeOK, Record, Message
  <1>9. EditsStay /\ NothingPosted
    BY <1>1 DEF EditsStay, NothingPosted
  <1>10. ConfirmedWasStored'
    BY <1>1 DEF IInv, ConfirmedWasStored, history
  <1>11. \A u \in Tabs : Len(edits'[u]) <= MaxEdits
    BY <1>1 DEF IInv, MessagesAreOfEdits
  <1>. QED
    BY <1>1, <1>6, <1>7, <1>8, <1>9, <1>10, <1>11, TabStep

(* onResult confirms nothing.                                              *)
LEMMA OnResultKeeps ==
    ASSUME IInv, NEW t \in Tabs, OnResult(t)
    PROVE  IInv'
  <1> DEFINE result == Head(downlink[t])
             status == [n \in DOMAIN edits[t] |->
                           IF n = result.edit THEN AfterResult(edits[t][n].status, result.outcome)
                           ELSE edits[t][n].status]
  <1>1. /\ downlink' \in [Tabs -> Seq(Message)]
        /\ NothingPosted
        /\ result \in Message
        /\ result.type = "commandResult"
    BY ArrivingTakesOne DEF OnResult
  <1>2. result.edit \in Nat
    BY <1>1 DEF Message, Result, RowDelta
  <1>3. \A n \in DOMAIN edits[t] : edits[t][n].status \in Statuses
    BY WritesAreRecords DEF IInv
  <1>4. status \in [DOMAIN edits[t] -> Statuses]
    BY <1>3 DEF AfterResult, Statuses
  <1>5. \A n \in DOMAIN edits[t] :
          status[n] = "confirmed" => edits[t][n].status = "confirmed"
    BY DEF AfterResult
  <1>6. Settle(t, status) /\ UNCHANGED <<uplink, hub, history>>
    BY DEF OnResult
  <1>7. answered' \in [Tabs -> SUBSET Nat]
    BY <1>2 DEF OnResult, IInv, WriteTypeOK
  <1> HIDE DEF status, result
  <1>. QED
    BY <1>1, <1>4, <1>5, <1>6, <1>7, SettleStep

LEMMA LateResultKeeps ==
    ASSUME IInv, NEW t \in Tabs, LateResult(t)
    PROVE  IInv'
  <1>1. downlink' \in [Tabs -> Seq(Message)] /\ NothingPosted
    BY ArrivingTakesOne DEF LateResult
  <1>2. edits' = edits /\ answered' = answered /\ uplink' = uplink /\ UNCHANGED <<hub, history>>
    BY DEF LateResult, client
  <1>3. /\ edits' \in [Tabs -> Seq(Record)]
        /\ answered' \in [Tabs -> SUBSET Nat]
        /\ uplink' \in [Tabs -> Seq(Nat)]
    BY <1>2 DEF IInv, WriteTypeOK, Record
  <1>4. EditsStay
    BY <1>2 DEF EditsStay
  <1>5. ConfirmedWasStored'
    BY <1>2 DEF IInv, ConfirmedWasStored, history
  <1>6. /\ \A u \in Tabs : Len(edits'[u]) <= MaxEdits
        /\ \A u \in Tabs : \A i \in DOMAIN uplink'[u] : uplink'[u][i] \in DOMAIN edits'[u]
    BY <1>2 DEF IInv, MessagesAreOfEdits
  <1>. QED
    BY <1>1, <1>2, <1>3, <1>4, <1>5, <1>6, TabStep

(* An echo confirms a value that it carries, and what it carries was       *)
(* stored.                                                                 *)
LEMMA ReconcileEchoKeeps ==
    ASSUME IInv, NEW t \in Tabs, ReconcileEcho(t)
    PROVE  IInv'
  <1> DEFINE image == Head(downlink[t]).row
             status == [n \in DOMAIN edits[t] |->
                           IF n \notin Pending(t) THEN edits[t][n].status
                           ELSE IF image[edits[t][n].field] = edits[t][n].value
                                THEN "confirmed" ELSE "diverged"]
  <1>1. /\ downlink' \in [Tabs -> Seq(Message)]
        /\ NothingPosted
        /\ 1 \in DOMAIN downlink[t]
        /\ Head(downlink[t]) = downlink[t][1]
        /\ Head(downlink[t]).type = "rowDelta"
    BY ArrivingTakesOne DEF ReconcileEcho
  <1>2. \A f \in Fields : image[f] \in stored[f]
    BY <1>1 DEF IInv, ImagesWereStored
  <1>3. \A n \in DOMAIN edits[t] : edits[t][n].status \in Statuses /\ edits[t][n].field \in Fields
    BY WritesAreRecords DEF IInv
  <1>4. status \in [DOMAIN edits[t] -> Statuses]
    BY <1>3 DEF Statuses
  <1>5. Settle(t, status) /\ UNCHANGED <<uplink, hub, history>> /\ answered' = answered
    BY DEF ReconcileEcho
  <1>6. answered' \in [Tabs -> SUBSET Nat]
    BY <1>5 DEF IInv, WriteTypeOK
  <1> HIDE DEF image
  <1>7. \A n \in DOMAIN edits[t] :
          status[n] = "confirmed" =>
              \/ edits[t][n].status = "confirmed"
              \/ edits[t][n].value \in stored[edits[t][n].field]
    BY <1>2, <1>3
  <1> HIDE DEF status
  <1>. QED
    BY <1>1, <1>4, <1>5, <1>6, <1>7, SettleStep

LEMMA TickKeeps ==
    ASSUME IInv, NEW t \in Tabs, Tick(t)
    PROVE  IInv'
  <1>1. PICK cutoff \in 1..MaxEdits :
          /\ Settle(t, [n \in DOMAIN edits[t] |->
                           IF n \in Expired(t, cutoff) THEN "timed-out" ELSE edits[t][n].status])
          /\ UNCHANGED <<answered, channels, hub, history>>
    BY DEF Tick
  <1> DEFINE status == [n \in DOMAIN edits[t] |->
                           IF n \in Expired(t, cutoff) THEN "timed-out" ELSE edits[t][n].status]
  <1>2. \A n \in DOMAIN edits[t] : edits[t][n].status \in Statuses
    BY WritesAreRecords DEF IInv
  <1>3. status \in [DOMAIN edits[t] -> Statuses]
    BY <1>2 DEF Statuses
  <1>4. \A n \in DOMAIN edits[t] : status[n] = "confirmed" => edits[t][n].status = "confirmed"
    OBVIOUS
  <1>5. Settle(t, status) /\ answered' = answered /\ uplink' = uplink /\ downlink' = downlink
    BY <1>1 DEF channels
  <1>6. answered' \in [Tabs -> SUBSET Nat] /\ downlink' \in [Tabs -> Seq(Message)] /\ NothingPosted
    BY <1>5 DEF IInv, WriteTypeOK, Message, NothingPosted
  <1> HIDE DEF status
  <1>. QED
    BY <1>1, <1>3, <1>4, <1>5, <1>6, SettleStep

LEMMA PruneKeeps ==
    ASSUME IInv, NEW t \in Tabs, Prune(t)
    PROVE  IInv'
  <1> DEFINE status == [n \in DOMAIN edits[t] |-> IF n \in Pending(t) THEN "pending" ELSE "pruned"]
  <1>1. status \in [DOMAIN edits[t] -> Statuses]
    BY DEF Statuses
  <1>2. \A n \in DOMAIN edits[t] : status[n] # "confirmed"
    OBVIOUS
  <1>3. /\ Settle(t, status) /\ answered' = answered /\ uplink' = uplink /\ downlink' = downlink
        /\ UNCHANGED <<hub, history>>
    BY DEF Prune, channels
  <1>4. answered' \in [Tabs -> SUBSET Nat] /\ downlink' \in [Tabs -> Seq(Message)] /\ NothingPosted
    BY <1>3 DEF IInv, WriteTypeOK, Message, NothingPosted
  <1> HIDE DEF status
  <1>. QED
    BY <1>1, <1>2, <1>3, <1>4, SettleStep

LEMMA ConnectionDropsKeeps ==
    ASSUME IInv, NEW t \in Tabs, ConnectionDrops(t)
    PROVE  IInv'
  <1>1. /\ edits' = edits /\ answered' = answered /\ UNCHANGED <<hub, history>>
        /\ uplink' = [uplink EXCEPT ![t] = <<>>] /\ downlink' = [downlink EXCEPT ![t] = <<>>]
    BY DEF ConnectionDrops, client
  <1>2. /\ edits' \in [Tabs -> Seq(Record)] /\ answered' \in [Tabs -> SUBSET Nat]
        /\ uplink \in [Tabs -> Seq(Nat)] /\ downlink \in [Tabs -> Seq(Message)]
    BY <1>1 DEF IInv, WriteTypeOK, Record, Message
  <1>3. uplink' \in [Tabs -> Seq(Nat)] /\ downlink' \in [Tabs -> Seq(Message)]
    BY <1>1, <1>2
  <1>4. EditsStay /\ NothingPosted
    BY <1>1, <1>2 DEF EditsStay, NothingPosted
  <1>5. ConfirmedWasStored'
    BY <1>1 DEF IInv, ConfirmedWasStored, history
  <1>6. \A u \in Tabs : Len(edits'[u]) <= MaxEdits
    BY <1>1 DEF IInv, MessagesAreOfEdits
  <1>7. \A u \in Tabs : \A i \in DOMAIN uplink'[u] : uplink'[u][i] \in DOMAIN edits'[u]
    BY <1>1, <1>2 DEF IInv, MessagesAreOfEdits
  <1>. QED
    BY <1>1, <1>2, <1>3, <1>4, <1>5, <1>6, <1>7, TabStep

-----------------------------------------------------------------------------
(* The steps of the hub.  What they do to the channels first.              *)
LEMMA AnswerStep ==
    ASSUME IInv, NEW t \in Tabs, NEW outcome \in Outcomes, Answer(t, outcome),
           UNCHANGED <<client, serving, table, stored>>,
           seen' \subseteq Keys, queue' \in Seq(Patch), pushes' \in [Keys -> Nat],
           PushedIsSeen'
    PROVE  IInv'
  <1> DEFINE n == Head(uplink[t])
             answer == [type |-> "commandResult", edit |-> n, outcome |-> outcome]
  <1>1. /\ uplink \in [Tabs -> Seq(Nat)] /\ uplink[t] \in Seq(Nat) /\ uplink[t] # <<>>
        /\ downlink \in [Tabs -> Seq(Message)] /\ downlink[t] \in Seq(Message)
    BY DEF IInv, WriteTypeOK, Message, Answer
  <1>2. /\ n \in Nat
        /\ Tail(uplink[t]) \in Seq(Nat)
        /\ 1 \in DOMAIN uplink[t]
        /\ n = uplink[t][1]
        /\ \A i \in DOMAIN Tail(uplink[t]) :
              i + 1 \in DOMAIN uplink[t] /\ Tail(uplink[t])[i] = uplink[t][i + 1]
    BY <1>1, TailElements
  <1>3. n \in DOMAIN edits[t]
    BY <1>2 DEF IInv, MessagesAreOfEdits
  <1>4. answer \in Message
    BY <1>2 DEF Message, Result
  <1>5. answer.type = "commandResult" /\ answer.edit = n
    OBVIOUS
  <1>6. /\ uplink' = [uplink EXCEPT ![t] = Tail(uplink[t])]
        /\ downlink' = [downlink EXCEPT ![t] = Append(downlink[t], answer)]
    BY DEF Answer
  <1> HIDE DEF answer, n
  <1>7. /\ Append(downlink[t], answer) \in Seq(Message)
        /\ \A i \in DOMAIN downlink[t] : Append(downlink[t], answer)[i] = downlink[t][i]
        /\ \A i \in DOMAIN Append(downlink[t], answer) :
              i \in DOMAIN downlink[t] \/ Append(downlink[t], answer)[i] = answer
    BY <1>1, <1>4, AppendElements
  <1>8. edits' = edits /\ answered' = answered /\ table' = table /\ stored' = stored /\ serving' = serving
    BY DEF client
  <1>9. uplink' \in [Tabs -> Seq(Nat)] /\ downlink' \in [Tabs -> Seq(Message)]
    BY <1>1, <1>2, <1>6, <1>7
  <1>10. WriteTypeOK'
    BY <1>8, <1>9 DEF IInv, WriteTypeOK, Message
  <1>11. MessagesAreOfEdits'
    <2>1. \A u \in Tabs : Len(edits'[u]) <= MaxEdits
      BY <1>8 DEF IInv, MessagesAreOfEdits
    <2>2. ASSUME NEW u \in Tabs, NEW i \in DOMAIN uplink'[u]
          PROVE  uplink'[u][i] \in DOMAIN edits'[u]
      <3>1. CASE u = t
        BY <1>1, <1>2, <1>6, <1>8, <3>1 DEF IInv, MessagesAreOfEdits
      <3>2. CASE u # t
        BY <1>1, <1>6, <1>8, <3>2 DEF IInv, MessagesAreOfEdits
      <3>. QED
        BY <3>1, <3>2
    <2>3. ASSUME NEW u \in Tabs, NEW i \in DOMAIN downlink'[u],
                 downlink'[u][i].type = "commandResult"
          PROVE  downlink'[u][i].edit \in DOMAIN edits'[u]
      <3>1. CASE u = t
        BY <1>1, <1>3, <1>5, <1>6, <1>7, <1>8, <2>3, <3>1 DEF IInv, MessagesAreOfEdits
      <3>2. CASE u # t
        BY <1>1, <1>6, <1>8, <2>3, <3>2 DEF IInv, MessagesAreOfEdits
      <3>. QED
        BY <3>1, <3>2
    <2>. QED
      BY <2>1, <2>2, <2>3 DEF MessagesAreOfEdits
  <1>12. ImagesWereStored'
    <2>1. \A f \in Fields : table'[f] \in stored'[f]
      BY <1>8 DEF IInv, ImagesWereStored
    <2>2. ASSUME NEW u \in Tabs, NEW i \in DOMAIN downlink'[u],
                 downlink'[u][i].type = "rowDelta", NEW f \in Fields
          PROVE  downlink'[u][i].row[f] \in stored'[f]
      <3>1. i \in DOMAIN downlink[u] /\ downlink'[u][i] = downlink[u][i]
        <4>1. CASE u = t
          BY <1>1, <1>5, <1>6, <1>7, <2>2, <4>1
        <4>2. CASE u # t
          BY <1>1, <1>6, <4>2
        <4>. QED
          BY <4>1, <4>2
      <3>. QED
        BY <1>8, <2>2, <3>1 DEF IInv, ImagesWereStored
    <2>. QED
      BY <2>1, <2>2 DEF ImagesWereStored
  <1>13. ConfirmedWasStored'
    BY <1>8 DEF IInv, ConfirmedWasStored
  <1>. QED
    BY <1>10, <1>11, <1>12, <1>13 DEF IInv

(* A command that pushes nothing, whether it records the key or not.       *)
LEMMA CommandUnappliedKeeps ==
    ASSUME IInv, NEW t \in Tabs,
           CommandAgain(t) \/ CommandUnknown(t) \/ CommandRefused(t)
    PROVE  IInv'
  <1>1. PICK outcome \in {"duplicate", "rejected"} : Answer(t, outcome)
    BY DEF CommandAgain, CommandUnknown, CommandRefused
  <1>2. /\ UNCHANGED <<client, serving, table, stored>>
        /\ pushes' = pushes /\ queue' = queue
        /\ seen' = seen \/ seen' = seen \cup {Key(t)}
    BY DEF CommandAgain, CommandUnknown, CommandRefused, hub, history
  <1>3. Key(t) \in Keys
    <2>1. uplink[t] \in Seq(Nat) /\ uplink[t] # <<>>
      BY <1>1 DEF Answer, IInv, WriteTypeOK
    <2>2. Head(uplink[t]) = uplink[t][1] /\ 1 \in DOMAIN uplink[t]
      BY <2>1, TailElements
    <2>3. Head(uplink[t]) \in DOMAIN edits[t]
      BY <2>2 DEF IInv, MessagesAreOfEdits
    <2>4. /\ edits[t] \in Seq(Record) /\ Len(edits[t]) <= MaxEdits /\ MaxEdits \in Nat
      BY WriteAssumption DEF IInv, MessagesAreOfEdits, WriteTypeOK, Record
    <2>5. Head(uplink[t]) \in 1..MaxEdits
      BY <2>3, <2>4
    <2>. QED
      BY <2>5, WriteAssumption DEF Key
  <1>4. seen' \subseteq Keys /\ queue' \in Seq(Patch) /\ pushes' \in [Keys -> Nat]
    BY <1>2, <1>3 DEF IInv, WriteTypeOK
  <1>5. PushedIsSeen'
    BY <1>2 DEF IInv, PushedIsSeen
  <1>. QED
    BY <1>1, <1>2, <1>4, <1>5, AnswerStep DEF Outcomes

(* A key that is pushed was not seen, so it had not been pushed.           *)
LEMMA CommandAppliedKeeps ==
    ASSUME IInv, NEW t \in Tabs, CommandApplied(t)
    PROVE  IInv'
  <1>1. Answer(t, "applied") /\ UNCHANGED <<client, serving, table, stored>>
    BY DEF CommandApplied
  <1>2. uplink[t] \in Seq(Nat) /\ uplink[t] # <<>>
    BY <1>1 DEF Answer, IInv, WriteTypeOK
  <1>3. Head(uplink[t]) \in DOMAIN edits[t]
    BY <1>2, TailElements DEF IInv, MessagesAreOfEdits
  <1>4. edits[t] \in Seq(Record) /\ Len(edits[t]) <= MaxEdits /\ MaxEdits \in Nat
    BY WriteAssumption DEF IInv, MessagesAreOfEdits, WriteTypeOK, Record
  <1>5. Key(t) \in Keys
    <2>1. Head(uplink[t]) \in 1..MaxEdits
      BY <1>3, <1>4
    <2>. QED
      BY <2>1, WriteAssumption DEF Key
  <1>6. [field |-> Edit(t).field, value |-> Edit(t).value] \in Patch
    <2>1. Edit(t) \in Record
      BY <1>3, <1>4 DEF Edit
    <2>. QED
      BY <2>1 DEF Record, Patch
  <1>7. /\ Key(t) \notin seen /\ seen' = seen \cup {Key(t)}
        /\ queue' = Append(queue, [field |-> Edit(t).field, value |-> Edit(t).value])
        /\ pushes' = [pushes EXCEPT ![Key(t)] = pushes[Key(t)] + 1]
    BY DEF CommandApplied
  <1>8. queue' \in Seq(Patch)
    BY <1>6, <1>7, AppendElements DEF IInv, WriteTypeOK
  <1>9. pushes \in [Keys -> Nat]
    BY DEF IInv, WriteTypeOK
  <1>10. pushes[Key(t)] = 0
    BY <1>5, <1>7 DEF IInv, PushedIsSeen
  <1>11. pushes' \in [Keys -> Nat] /\ seen' \subseteq Keys
    BY <1>5, <1>7, <1>9 DEF IInv, WriteTypeOK
  <1>12. PushedIsSeen'
    BY <1>5, <1>7, <1>9, <1>10 DEF IInv, PushedIsSeen
  <1>. QED
    BY <1>1, <1>8, <1>11, <1>12, AnswerStep DEF Outcomes

(* A step of the table that posts nothing.                                 *)
LEMMA QueueStep ==
    ASSUME IInv, UNCHANGED <<client, channels, seen, table, history>>,
           serving' \in BOOLEAN, queue' \in Seq(Patch)
    PROVE  IInv'
  <1>1. /\ edits' = edits /\ answered' = answered /\ uplink' = uplink /\ downlink' = downlink
        /\ seen' = seen /\ table' = table /\ pushes' = pushes /\ stored' = stored
    BY DEF client, channels, history
  <1>2. WriteTypeOK'
    BY <1>1 DEF IInv, WriteTypeOK
  <1>3. MessagesAreOfEdits' /\ PushedIsSeen' /\ ImagesWereStored' /\ ConfirmedWasStored'
    BY <1>1 DEF IInv, MessagesAreOfEdits, PushedIsSeen, ImagesWereStored, ConfirmedWasStored
  <1>. QED
    BY <1>2, <1>3 DEF IInv

LEMMA UpstreamRowKeeps ==
    ASSUME IInv, NEW f \in Fields, NEW v \in Values, UpstreamRow(f, v)
    PROVE  IInv'
  <1>1. [field |-> f, value |-> v] \in Patch
    BY DEF Patch
  <1>2. queue' \in Seq(Patch)
    BY <1>1, AppendElements DEF UpstreamRow, IInv, WriteTypeOK
  <1>. QED
    BY <1>2, QueueStep DEF UpstreamRow, IInv, WriteTypeOK

LEMMA TableGoesKeeps ==
    ASSUME IInv, TableGoes
    PROVE  IInv'
  <1>1. queue' \in Seq(Patch)
    BY DEF TableGoes
  <1>. QED
    BY <1>1, QueueStep DEF TableGoes

(* A row that is written is stored, and its images are of what is stored.  *)
LEMMA WriteStep ==
    ASSUME IInv, NEW row \in Row, Write(row),
           UNCHANGED <<client, uplink, seen, pushes>>,
           serving' \in BOOLEAN, queue' \in Seq(Patch)
    PROVE  IInv'
  <1> DEFINE image == [type |-> "rowDelta", row |-> row]
  <1>1. PICK takers \in SUBSET Tabs :
          downlink' = [t \in Tabs |-> IF t \in takers THEN Append(downlink[t], image) ELSE downlink[t]]
    BY DEF Write, Offer
  <1>2. image \in Message /\ image.type = "rowDelta" /\ image.row = row
    BY DEF Message, RowDelta
  <1>3. downlink \in [Tabs -> Seq(Message)]
    BY DEF IInv, WriteTypeOK, Message
  <1> HIDE DEF image
  <1>4. \A t \in Tabs :
          /\ Append(downlink[t], image) \in Seq(Message)
          /\ \A i \in DOMAIN downlink[t] : Append(downlink[t], image)[i] = downlink[t][i]
          /\ \A i \in DOMAIN Append(downlink[t], image) :
                i \in DOMAIN downlink[t] \/ Append(downlink[t], image)[i] = image
    <2>. SUFFICES ASSUME NEW t \in Tabs
                  PROVE  /\ Append(downlink[t], image) \in Seq(Message)
                         /\ \A i \in DOMAIN downlink[t] : Append(downlink[t], image)[i] = downlink[t][i]
                         /\ \A i \in DOMAIN Append(downlink[t], image) :
                               i \in DOMAIN downlink[t] \/ Append(downlink[t], image)[i] = image
      OBVIOUS
    <2>. QED
      BY <1>2, <1>3, AppendElements
  <1>5. \A t \in Tabs : \A i \in DOMAIN downlink'[t] :
          \/ i \in DOMAIN downlink[t] /\ downlink'[t][i] = downlink[t][i]
          \/ downlink'[t][i] = image
    BY <1>1, <1>4
  <1>6. downlink' \in [Tabs -> Seq(Message)]
    BY <1>1, <1>3, <1>4
  <1>7. /\ edits' = edits /\ answered' = answered /\ uplink' = uplink /\ seen' = seen /\ pushes' = pushes
        /\ table' = row /\ stored' = [f \in Fields |-> stored[f] \cup {row[f]}]
    BY DEF client, Write
  <1>8. \A f \in Fields : row[f] \in stored'[f] /\ stored[f] \subseteq stored'[f]
    BY <1>7
  <1>9. WriteTypeOK'
    <2>1. stored' \in [Fields -> SUBSET Values]
      BY <1>7 DEF IInv, WriteTypeOK, Row
    <2>. QED
      BY <1>6, <1>7, <2>1 DEF IInv, WriteTypeOK, Message
  <1>10. MessagesAreOfEdits'
    <2>1. ASSUME NEW u \in Tabs, NEW i \in DOMAIN downlink'[u],
                 downlink'[u][i].type = "commandResult"
          PROVE  downlink'[u][i].edit \in DOMAIN edits'[u]
      BY <1>2, <1>5, <1>7, <2>1 DEF IInv, MessagesAreOfEdits
    <2>. QED
      BY <1>7, <2>1 DEF IInv, MessagesAreOfEdits
  <1>11. PushedIsSeen'
    BY <1>7 DEF IInv, PushedIsSeen
  <1>12. ImagesWereStored'
    <2>1. ASSUME NEW u \in Tabs, NEW i \in DOMAIN downlink'[u],
                 downlink'[u][i].type = "rowDelta", NEW f \in Fields
          PROVE  downlink'[u][i].row[f] \in stored'[f]
      <3>1. CASE downlink'[u][i] = image
        BY <1>2, <1>8, <3>1
      <3>2. CASE i \in DOMAIN downlink[u] /\ downlink'[u][i] = downlink[u][i]
        BY <1>8, <2>1, <3>2 DEF IInv, ImagesWereStored
      <3>. QED
        BY <1>5, <3>1, <3>2
    <2>. QED
      BY <1>7, <1>8, <2>1 DEF ImagesWereStored
  <1>13. ConfirmedWasStored'
    <2>. SUFFICES ASSUME NEW u \in Tabs, NEW n \in DOMAIN edits[u],
                         edits[u][n].status = "confirmed"
                  PROVE  edits[u][n].value \in stored'[edits[u][n].field]
      BY <1>7 DEF ConfirmedWasStored
    <2>1. edits[u][n].field \in Fields
      BY WritesAreRecords DEF IInv
    <2>. QED
      BY <1>8, <2>1 DEF IInv, ConfirmedWasStored
  <1>. QED
    BY <1>9, <1>10, <1>11, <1>12, <1>13 DEF IInv

LEMMA FlushKeeps ==
    ASSUME IInv, Flush
    PROVE  IInv'
  <1>1. table \in Row /\ queue \in Seq(Patch) /\ serving \in BOOLEAN
    BY DEF IInv, WriteTypeOK
  <1>2. Patched(table, queue) \in Row
    BY <1>1, PatchedIsRow
  <1>3. queue' \in Seq(Patch)
    BY DEF Flush
  <1>. QED
    BY <1>1, <1>2, <1>3, WriteStep DEF Flush

LEMMA TableReturnsKeeps ==
    ASSUME IInv, TableReturns
    PROVE  IInv'
  <1>1. [f \in Fields |-> Blank] \in Row
    BY WriteAssumption DEF Row
  <1>2. queue' \in Seq(Patch)
    BY DEF TableReturns, IInv, WriteTypeOK
  <1>. QED
    BY <1>1, <1>2, WriteStep DEF TableReturns

-----------------------------------------------------------------------------
LEMMA NextKeeps ==
    ASSUME IInv, [Next]_vars
    PROVE  IInv'
  <1>1. ASSUME NEW t \in Tabs, NEW f \in EditFields, NEW v \in Values, Submit(t, f, v)
        PROVE  IInv'
    BY <1>1, SubmitKeeps, WriteAssumption
  <1>2. ASSUME NEW t \in Tabs, NEW n \in 1..MaxEdits, Resend(t, n)
        PROVE  IInv'
    BY <1>2, ResendKeeps
  <1>3. ASSUME NEW t \in Tabs, OnResult(t)
        PROVE  IInv'
    BY <1>3, OnResultKeeps
  <1>4. ASSUME NEW t \in Tabs, LateResult(t)
        PROVE  IInv'
    BY <1>4, LateResultKeeps
  <1>5. ASSUME NEW t \in Tabs, ReconcileEcho(t)
        PROVE  IInv'
    BY <1>5, ReconcileEchoKeeps
  <1>6. ASSUME NEW t \in Tabs, Tick(t)
        PROVE  IInv'
    BY <1>6, TickKeeps
  <1>7. ASSUME NEW t \in Tabs, Prune(t)
        PROVE  IInv'
    BY <1>7, PruneKeeps
  <1>8. ASSUME NEW t \in Tabs, ConnectionDrops(t)
        PROVE  IInv'
    BY <1>8, ConnectionDropsKeeps
  <1>9. ASSUME NEW t \in Tabs, Command(t)
        PROVE  IInv'
    BY <1>9, CommandUnappliedKeeps, CommandAppliedKeeps DEF Command
  <1>10. ASSUME NEW f \in FeedFields, NEW v \in Values, UpstreamRow(f, v)
         PROVE  IInv'
    BY <1>10, UpstreamRowKeeps, WriteAssumption
  <1>11. CASE Flush
    BY <1>11, FlushKeeps
  <1>12. CASE TableGoes
    BY <1>12, TableGoesKeeps
  <1>13. CASE TableReturns
    BY <1>13, TableReturnsKeeps
  <1>14. CASE UNCHANGED vars
    <2>1. UNCHANGED <<client, channels, seen, table, history>> /\ queue' = queue /\ serving' = serving
      BY <1>14 DEF vars, hub
    <2>. QED
      BY <2>1, QueueStep DEF IInv, WriteTypeOK
  <1>. QED
    BY <1>1, <1>2, <1>3, <1>4, <1>5, <1>6, <1>7, <1>8, <1>9, <1>10, <1>11, <1>12, <1>13, <1>14
    DEF Next

-----------------------------------------------------------------------------
(* What of two steps of a write SettledForGood is about.                   *)
LEMMA SettleSettlesForGood ==
    ASSUME IInv, NEW t \in Tabs, NEW status \in [DOMAIN edits[t] -> Statuses],
           Settle(t, status),
           \A n \in DOMAIN edits[t] :
               edits[t][n].status \in Settled => status[n] \in {edits[t][n].status, "pruned"},
           NEW u \in Tabs, NEW n \in DOMAIN edits[u], edits[u][n].status \in Settled
    PROVE  edits'[u][n].status \in {edits[u][n].status, "pruned"}
  <1>1. /\ \A w \in Tabs : w # t => edits'[w] = edits[w]
        /\ \A m \in DOMAIN edits[t] : edits'[t][m].status = status[m]
    BY SettleKeepsCells DEF IInv
  <1>2. CASE u = t
    BY <1>1, <1>2
  <1>3. CASE u # t
    BY <1>1, <1>3
  <1>. QED
    BY <1>2, <1>3

(* In every state of the write path messages speak of edits that were      *)
(* made, a pushed key has been seen, and images carry what was stored.     *)
THEOREM WriteInvariance == Spec => []IInv
  <1>1. IInv /\ [Next]_vars => IInv'
    BY NextKeeps
  <1>2. QED
    BY InitInv, <1>1, PTL DEF Spec

(* Every state of the write path is well typed: an answer never finds a    *)
(* write that is not there, a flush makes a row of any patches.            *)
THEOREM WriteTypeCorrect == Spec => []WriteTypeOK
  <1>1. IInv => WriteTypeOK
    BY DEF IInv
  <1>2. QED
    BY <1>1, WriteInvariance, PTL

(* However often a command is sent again, through refusals, lost answers   *)
(* and rebuilt tables, and however keys are shared, the hub pushes it once.*)
THEOREM AppliedOnce == Spec => []AppliedAtMostOnce
  <1>1. IInv => AppliedAtMostOnce
    BY DEF IInv, PushedIsSeen, AppliedAtMostOnce
  <1>2. QED
    BY <1>1, WriteInvariance, PTL

(* A value shown as confirmed is one the table has held.                   *)
THEOREM ConfirmedStored == Spec => []ConfirmedWasStored
  <1>1. IInv => ConfirmedWasStored
    BY DEF IInv
  <1>2. QED
    BY <1>1, WriteInvariance, PTL

(* The first of answer, echo and timeout to settle a write settles it.     *)
THEOREM SettledStaysSettled == Spec => SettledForGood
  <1>1. ASSUME IInv, [Next]_vars
        PROVE  [\A t \in Tabs : \A n \in DOMAIN edits[t] :
                   edits[t][n].status \in Settled =>
                       edits'[t][n].status \in {edits[t][n].status, "pruned"}]_vars
    <2> SUFFICES ASSUME Next, NEW u \in Tabs, NEW m \in DOMAIN edits[u],
                        edits[u][m].status \in Settled
                 PROVE  edits'[u][m].status \in {edits[u][m].status, "pruned"}
      BY <1>1
    <2>1. \A t \in Tabs : \A n \in DOMAIN edits[t] : edits[t][n].status \in Statuses
      BY <1>1, WritesAreRecords DEF IInv
    <2>2. ASSUME NEW t \in Tabs, NEW f \in EditFields, NEW v \in Values, Submit(t, f, v)
          PROVE  edits'[u][m] = edits[u][m]
      <3>1. edits \in [Tabs -> Seq(Record)]
        BY <1>1 DEF IInv, WriteTypeOK, Record
      <3>2. f \in Fields
        BY WriteAssumption
      <3>3. [field |-> f, value |-> v, status |-> "pending"] \in Record
        BY <3>2 DEF Record, Statuses
      <3>4. edits' = [edits EXCEPT ![t] = Append(edits[t], [field |-> f, value |-> v, status |-> "pending"])]
        BY <2>2 DEF Submit
      <3>5. \A n \in DOMAIN edits[t] :
              Append(edits[t], [field |-> f, value |-> v, status |-> "pending"])[n] = edits[t][n]
        BY <3>1, <3>3, AppendElements
      <3>. QED
        BY <3>1, <3>4, <3>5
    <2>3. ASSUME NEW t \in Tabs, OnResult(t)
          PROVE  edits'[u][m].status \in {edits[u][m].status, "pruned"}
      <3> DEFINE result == Head(downlink[t])
                 status == [n \in DOMAIN edits[t] |->
                               IF n = result.edit THEN AfterResult(edits[t][n].status, result.outcome)
                               ELSE edits[t][n].status]
      <3>1. status \in [DOMAIN edits[t] -> Statuses]
        BY <2>1 DEF AfterResult, Statuses
      <3>2. Settle(t, status)
        BY <2>3 DEF OnResult
      <3>3. \A n \in DOMAIN edits[t] :
              edits[t][n].status \in Settled => status[n] \in {edits[t][n].status, "pruned"}
        BY DEF AfterResult, Settled
      <3> HIDE DEF status
      <3>. QED
        BY <1>1, <3>1, <3>2, <3>3, SettleSettlesForGood
    <2>4. ASSUME NEW t \in Tabs, ReconcileEcho(t)
          PROVE  edits'[u][m].status \in {edits[u][m].status, "pruned"}
      <3> DEFINE image == Head(downlink[t]).row
                 status == [n \in DOMAIN edits[t] |->
                               IF n \notin Pending(t) THEN edits[t][n].status
                               ELSE IF image[edits[t][n].field] = edits[t][n].value
                                    THEN "confirmed" ELSE "diverged"]
      <3>1. status \in [DOMAIN edits[t] -> Statuses]
        BY <2>1 DEF Statuses
      <3>2. Settle(t, status)
        BY <2>4 DEF ReconcileEcho
      <3>3. \A n \in DOMAIN edits[t] :
              edits[t][n].status \in Settled => status[n] \in {edits[t][n].status, "pruned"}
        BY DEF Pending, Settled
      <3> HIDE DEF status
      <3>. QED
        BY <1>1, <3>1, <3>2, <3>3, SettleSettlesForGood
    <2>5. ASSUME NEW t \in Tabs, Tick(t)
          PROVE  edits'[u][m].status \in {edits[u][m].status, "pruned"}
      <3>1. PICK cutoff \in 1..MaxEdits :
              Settle(t, [n \in DOMAIN edits[t] |->
                            IF n \in Expired(t, cutoff) THEN "timed-out" ELSE edits[t][n].status])
        BY <2>5 DEF Tick
      <3> DEFINE status == [n \in DOMAIN edits[t] |->
                               IF n \in Expired(t, cutoff) THEN "timed-out" ELSE edits[t][n].status]
      <3>2. status \in [DOMAIN edits[t] -> Statuses]
        BY <2>1 DEF Statuses
      <3>3. Settle(t, status)
        BY <3>1
      <3>4. \A n \in DOMAIN edits[t] :
              edits[t][n].status \in Settled => status[n] \in {edits[t][n].status, "pruned"}
        BY DEF Expired, Pending, Settled
      <3> HIDE DEF status
      <3>. QED
        BY <1>1, <3>2, <3>3, <3>4, SettleSettlesForGood
    <2>6. ASSUME NEW t \in Tabs, Prune(t)
          PROVE  edits'[u][m].status \in {edits[u][m].status, "pruned"}
      <3> DEFINE status == [n \in DOMAIN edits[t] |-> IF n \in Pending(t) THEN "pending" ELSE "pruned"]
      <3>1. status \in [DOMAIN edits[t] -> Statuses]
        BY DEF Statuses
      <3>2. Settle(t, status)
        BY <2>6 DEF Prune
      <3>3. \A n \in DOMAIN edits[t] :
              edits[t][n].status \in Settled => status[n] \in {edits[t][n].status, "pruned"}
        BY DEF Pending, Settled
      <3> HIDE DEF status
      <3>. QED
        BY <1>1, <3>1, <3>2, <3>3, SettleSettlesForGood
    <2>7. ASSUME edits' = edits
          PROVE  edits'[u][m].status \in {edits[u][m].status, "pruned"}
      BY <2>7
    <2>8. CASE edits' # edits
      <3>1. \E t \in Tabs :
              \/ \E f \in EditFields, v \in Values : Submit(t, f, v)
              \/ OnResult(t) \/ ReconcileEcho(t) \/ Tick(t) \/ Prune(t)
        BY <2>8 DEF Next, Resend, LateResult, ConnectionDrops, Command, CommandAgain,
           CommandUnknown, CommandRefused, CommandApplied, UpstreamRow, Flush, TableGoes,
           TableReturns, client
      <3>. QED
        BY <2>2, <2>3, <2>4, <2>5, <2>6, <3>1
    <2>. QED
      BY <2>7, <2>8
  <1>2. QED
    BY <1>1, WriteInvariance, PTL DEF Spec, SettledForGood
=============================================================================
