--------------------------- MODULE ControlChannel ---------------------------
(* A tab's control channel: ControlClient (control.mjs) matches replies to  *)
(* requests, Transport (transport.mjs) queues them while it is down and     *)
(* opens a new port when one closes, socketIoPort (socketPort.mjs) holds    *)
(* them until its handshake, and handleControl answers them in the hub, a   *)
(* scan with batches before its result.  Every port reports its end to the  *)
(* one handleClose, and a socket may report it twice, as an error and as a  *)
(* close, or as a packet and as a close.                                    *)
EXTENDS Naturals, Sequences, SequencesExt

CONSTANTS
    Requests,     \* requests the tab makes, once each
    Scans,        \* those answered with batches
    Batches,      \* batches of a scan
    MaxPorts      \* bound: ports opened

ASSUME ControlChannelAssumption ==
    Scans \subseteq Requests /\ Batches \in Nat /\ MaxPorts \in Nat \ {0}

VARIABLES
    request,      \* each request: pending or settled, and the batches received
    carrier,      \* the port that took it, 0 while it is queued
    outbox,       \* Transport.outbox
    current,      \* Transport.port, the last one opened
    connected,    \* Transport.connected; the reconnect timer runs iff it is not
    port,         \* each port: its life, its own outbox, and both directions
    serving       \* requests in handleControl, with the batches sent

controlVars == <<request, carrier, outbox, current, connected, port, serving>>

Ports == 1 .. MaxPorts
Settled == {"resolved", "failed", "timedOut"}
PortLife == {"unopened", "joining", "open", "dead"}

Message == [request : Requests, kind : {"partial", "result", "error"}, batch : 0 .. Batches]
Unopened == [life |-> "unopened", closes |-> 0, held |-> <<>>, up |-> <<>>, down |-> <<>>]

ControlTypeOK ==
    /\ \A r \in Requests : /\ request[r].at \in {"new", "pending"} \cup Settled
                           /\ request[r].got \in Seq(1 .. Batches)
    /\ carrier \in [Requests -> 0 .. MaxPorts]
    /\ outbox \in Seq(Requests)
    /\ current \in Ports
    /\ connected \in BOOLEAN
    /\ \A p \in Ports : /\ port[p].life \in PortLife
                        /\ port[p].closes \in 0 .. 2
                        /\ port[p].held \in Seq(Requests)
                        /\ port[p].up \in Seq(Requests)
                        /\ port[p].down \in Seq(Message)
    /\ serving \subseteq [request : Requests, port : Ports, sent : 0 .. Batches]

ControlInit ==
    /\ request = [r \in Requests |-> [at |-> "new", got |-> <<>>]]
    /\ carrier = [r \in Requests |-> 0]
    /\ outbox = <<>>
    /\ current = 1
    /\ connected = TRUE
    /\ port = [p \in Ports |-> IF p = 1 THEN [Unopened EXCEPT !.life = "joining"] ELSE Unopened]
    /\ serving = {}

-----------------------------------------------------------------------------
(* The tab.                                                                 *)

(* Mutant of Posted: nothing is held until the handshake.                   *)
PostedUnheld(pt, messages) == IF pt.life = "open" THEN [pt EXCEPT !.up = @ \o messages] ELSE pt

(* port.postMessage: held until the handshake, lost on a dead socket.       *)
Posted(pt, messages) ==
    CASE pt.life = "joining" -> [pt EXCEPT !.held = @ \o messages]
      [] pt.life = "open"    -> [pt EXCEPT !.up = @ \o messages]
      [] OTHER               -> pt

Alive(p) == port[p].life \in {"joining", "open"}

Ask(r) ==
    /\ request[r].at = "new"
    /\ request' = [request EXCEPT ![r].at = "pending"]
    /\ IF connected
       THEN /\ port' = [port EXCEPT ![current] = Posted(@, <<r>>)]
            /\ carrier' = [carrier EXCEPT ![r] = current]
            /\ UNCHANGED outbox
       ELSE /\ outbox' = Append(outbox, r)
            /\ UNCHANGED <<port, carrier>>
    /\ UNCHANGED <<current, connected, serving>>

RequestTimeout(r) ==
    /\ request[r].at = "pending"
    /\ request' = [request EXCEPT ![r].at = "timedOut"]
    /\ UNCHANGED <<carrier, outbox, current, connected, port, serving>>

(* Mutant of Handled: a batch settles the request as a result does.         *)
HandledByBatch(rq, m) ==
    IF rq.at # "pending" THEN rq
    ELSE [at |-> IF m.kind = "error" THEN "failed" ELSE "resolved",
          got |-> IF m.kind = "partial" THEN Append(rq.got, m.batch) ELSE rq.got]

(* ControlClient.handle: batches are passed on, the first other message     *)
(* with the request's id settles it, and what has no request is counted.    *)
Handled(rq, m) ==
    IF rq.at # "pending" THEN rq
    ELSE CASE m.kind = "partial" -> [rq EXCEPT !.got = Append(@, m.batch)]
           [] m.kind = "result"  -> [rq EXCEPT !.at = "resolved"]
           [] m.kind = "error"   -> [rq EXCEPT !.at = "failed"]

(* The transport keeps listening to a port it has replaced.                 *)
Receive(p) ==
    /\ port[p].life = "open" /\ port[p].down # <<>>
    /\ LET m == Head(port[p].down) IN
       request' = [request EXCEPT ![m.request] = Handled(@, m)]
    /\ port' = [port EXCEPT ![p].down = Tail(@)]
    /\ UNCHANGED <<carrier, outbox, current, connected, serving>>

(* The handshake ends: socketIoPort flushes what it held.                   *)
Joined(p) ==
    /\ port[p].life = "joining"
    /\ port' = [port EXCEPT ![p].life = "open", ![p].held = <<>>, ![p].up = @ \o port[p].held]
    /\ UNCHANGED <<request, carrier, outbox, current, connected, serving>>

(* A port reports its end; handleClose does not ask which port it was.      *)
HandleClose(p) ==
    /\ port[p].closes > 0
    /\ port' = [port EXCEPT ![p].closes = @ - 1]
    /\ connected' = FALSE
    /\ UNCHANGED <<request, carrier, outbox, current, serving>>

(* The reconnect timer: a new port, which is given the outbox at once.      *)
Reconnect ==
    /\ ~connected
    /\ current < MaxPorts
    /\ current' = current + 1
    /\ connected' = TRUE
    /\ port' = [port EXCEPT ![current + 1] = [Unopened EXCEPT !.life = "joining", !.held = outbox]]
    /\ carrier' = [r \in Requests |-> IF r \in ToSet(outbox) THEN current + 1 ELSE carrier[r]]
    /\ outbox' = <<>>
    /\ UNCHANGED <<request, serving>>

-----------------------------------------------------------------------------
(* The link and the hub.                                                    *)

(* A connection breaks: what it carried is gone.                            *)
Break(p) ==
    /\ Alive(p)
    /\ \E n \in {1, 2} :
         port' = [port EXCEPT ![p] = [Unopened EXCEPT !.life = "dead", !.closes = n]]
    /\ serving' = {s \in serving : s.port # p}
    /\ UNCHANGED <<request, carrier, outbox, current, connected>>

HubTakes(p) ==
    /\ port[p].up # <<>>
    /\ serving' = serving \cup {[request |-> Head(port[p].up), port |-> p, sent |-> 0]}
    /\ port' = [port EXCEPT ![p].up = Tail(@)]
    /\ UNCHANGED <<request, carrier, outbox, current, connected>>

Sends(s, kind, n) ==
    port' = [port EXCEPT ![s.port].down =
               Append(@, [request |-> s.request, kind |-> kind, batch |-> n])]

HubSendsBatch(s) ==
    /\ s \in serving
    /\ s.request \in Scans /\ s.sent < Batches
    /\ Sends(s, "partial", s.sent + 1)
    /\ serving' = (serving \ {s}) \cup {[s EXCEPT !.sent = @ + 1]}
    /\ UNCHANGED <<request, carrier, outbox, current, connected>>

(* The reply: after the last batch, or an error at any time.                *)
HubReplies(s) ==
    /\ s \in serving
    /\ \/ (s.request \in Scans => s.sent = Batches) /\ Sends(s, "result", 0)
       \/ Sends(s, "error", 0)
    /\ serving' = serving \ {s}
    /\ UNCHANGED <<request, carrier, outbox, current, connected>>

ControlNext ==
    \/ \E r \in Requests : Ask(r) \/ RequestTimeout(r)
    \/ \E p \in Ports : Receive(p) \/ Joined(p) \/ HandleClose(p) \/ Break(p) \/ HubTakes(p)
    \/ Reconnect
    \/ \E s \in serving : HubSendsBatch(s) \/ HubReplies(s)

ControlSpec == ControlInit /\ [][ControlNext]_controlVars

-----------------------------------------------------------------------------
(* Properties.                                                              *)

(* A scan that resolves has delivered every batch, in order and once,       *)
(* whatever ports broke or were replaced meanwhile: an export is whole or   *)
(* fails.                                                                   *)
ResolvedScanIsWhole ==
    \A r \in Scans : request[r].at = "resolved" => request[r].got = [i \in 1 .. Batches |-> i]

OnItsWay(r) ==
    LET pt == port[carrier[r]] IN
    \/ r \in ToSet(pt.held) \/ r \in ToSet(pt.up)
    \/ \E s \in serving : s.request = r
    \/ \E i \in DOMAIN pt.down : pt.down[i].request = r /\ pt.down[i].kind # "partial"

(* A request that waits is still going to be answered: it is queued for the *)
(* next port, or on its way on a port that lives.  Only a port that died    *)
(* with it leaves it to its timeout.                                        *)
RequestsAreAccounted ==
    \A r \in Requests : request[r].at = "pending" =>
        IF carrier[r] = 0 THEN r \in ToSet(outbox)
        ELSE port[carrier[r]].life = "dead" \/ OnItsWay(r)
=============================================================================
