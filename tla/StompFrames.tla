---------------------------- MODULE StompFrames -----------------------------
(* The frames of STOMP on a connection that does not respect them           *)
(* (adapters/stomp-codec.mjs, and openTransport and onData of               *)
(* adapters/stomp.mjs): the broker's text arrives in pieces of any size,    *)
(* FrameBuffer puts the frames together again.  A character is a string;    *)
(* a command and the name of a header are one character each.               *)
EXTENDS Naturals, Sequences, SequencesExt, FiniteSetsExt

CONSTANTS
    Messages,      \* the frames a broker sends: [command, headers, body]
    Garbled,       \* texts of frames that do not parse
    MaxFrames,     \* bound: frames on one connection
    MaxConnections      \* bound: connections

VARIABLES
    stompLink,     \* "up", "down", or "failed": the adapter's state after fail()
    text,          \* what the broker has written and the adapter has not been given
    buf,           \* FrameBuffer.buf
    framesSent,    \* on this connection; Unreadable stands for a garbled one (ghost)
    framesGot,     \* what onFrame was called with, heartbeats aside
    connections

stompVars == <<stompLink, text, buf, framesSent, framesGot, connections>>

LF == "LF"
CR == "CR"
NUL == "NUL"
Digits == <<"1", "2", "3">>
Length == "content-length"
Beats == {<<LF>>, <<CR, LF>>}
Exempt == {"CONNECT", "CONNECTED"}

Escapes == [c \in {"\\", CR, LF, ":"} |->
    CASE c = "\\" -> "\\" [] c = CR -> "r" [] c = LF -> "n" [] c = ":" -> "c"]

First(S) == IF S = {} THEN 0 ELSE Min(S)

-----------------------------------------------------------------------------
\* The writer.
Escaped(value) ==
    FlattenSeq([i \in DOMAIN value |->
        IF value[i] \in DOMAIN Escapes THEN <<"\\", Escapes[value[i]]>> ELSE <<value[i]>>])

Encoded(m) ==
    LET Line(h) == <<LF, h.name, ":">> \o (IF m.command \in Exempt THEN h.value ELSE Escaped(h.value))
    IN  <<m.command>> \o FlattenSeq([i \in DOMAIN m.headers |-> Line(m.headers[i])])
            \o <<LF, LF>> \o m.body \o <<NUL>>

\* What a reader should make of it: the first of a repeated header counts.
Meant(m) ==
    [command |-> m.command, body |-> m.body,
     headers |-> [k \in {m.headers[i].name : i \in DOMAIN m.headers} |->
                     m.headers[Min({i \in DOMAIN m.headers : m.headers[i].name = k})].value]]

Unreadable == [command |-> "", body |-> <<>>, headers |-> <<>>]

-----------------------------------------------------------------------------
\* The reader.  One pass from left to right; an escape that is none is an error.
UnescapeStep(a, c) ==
    CASE ~a.open /\ c = "\\" -> [a EXCEPT !.open = TRUE]
      [] ~a.open /\ c # "\\" -> [a EXCEPT !.value = Append(@, c)]
      [] a.open /\ (\E d \in DOMAIN Escapes : Escapes[d] = c) ->
            [a EXCEPT !.open = FALSE,
                      !.value = Append(@, CHOOSE d \in DOMAIN Escapes : Escapes[d] = c)]
      [] OTHER -> [a EXCEPT !.ok = FALSE]

Unescaped(value) ==
    LET a == FoldLeft(UnescapeStep, [value |-> <<>>, open |-> FALSE, ok |-> TRUE], value)
    IN  [value |-> a.value, ok |-> a.ok /\ ~a.open]

\* Where the empty line after the headers begins, 0 without one.
HeaderEnd(s) == First({i \in 1 .. Len(s) - 1 : s[i] = LF /\ s[i + 1] = LF})

\* decodeFrame: the frame, and whether it is one.
Decoded(s) ==
    LET h == HeaderEnd(s)
        command == s[1]
        lines == {i \in 1 .. h - 1 : s[i] = LF}            \* of the headers, by the LF before
        end(i) == Min({j \in lines \cup {h} : j > i})
        colon(i) == First({j \in i + 1 .. end(i) - 1 : s[j] = ":"})
        headed == {i \in lines : colon(i) > 0}
        name(i) == s[i + 1]
        raw(i) == SubSeq(s, colon(i) + 1, end(i) - 1)
        value(i) == IF command \in Exempt THEN [value |-> raw(i), ok |-> TRUE] ELSE Unescaped(raw(i))
        first(k) == Min({i \in headed : name(i) = k})
        names == {name(i) : i \in headed}
        rest == SubSeq(s, h + 2, Len(s))
        nul == First({i \in DOMAIN rest : rest[i] = NUL})
        declared == IF Length \in names THEN value(first(Length)).value ELSE <<>>
        counted == Len(declared) = 1 /\ declared[1] \in Range(Digits)
        body == CASE counted -> SubSeq(rest, 1, CHOOSE n \in DOMAIN Digits : Digits[n] = declared[1])
                  [] ~counted /\ nul > 0 -> SubSeq(rest, 1, nul - 1)
                  [] OTHER -> rest
    IN  [ok |-> (\A k \in names : value(first(k)).ok) /\ (Length \in names => counted),
         frame |-> [command |-> command, body |-> body,
                    headers |-> [k \in names |-> value(first(k)).value]]]

\* Where the frame that b begins with ends, 0 while it is not all there.
\* The content-length decides, without one the first NUL of the body.
FrameEnd(b) ==
    LET h == HeaderEnd(b)
        length == {<<i, n>> \in (1 .. h - 3) \X DOMAIN Digits :
                       b[i] = Length /\ b[i - 1] = LF /\ b[i + 1] = ":" /\ b[i + 2] = Digits[n]}
        end == h + 2 + (CHOOSE p \in length : TRUE)[2]
    IN  CASE h = 0 -> 0
          [] h > 0 /\ length # {} -> IF Len(b) < end THEN 0 ELSE end
          [] OTHER -> First({i \in h + 2 .. Len(b) : b[i] = NUL})

\* FrameBuffer.push, after the chunk was added: the frames, what stays in the
\* buffer, and whether nothing was thrown.  A throw loses the frames before it.
RECURSIVE Split(_, _)
Split(b, frames) ==
    LET beat == {s \in Beats : IsPrefix(s, b)}
        end == FrameEnd(b)
        d == Decoded(SubSeq(b, 1, end - 1))
    IN  CASE beat # {} -> Split(SubSeq(b, 1 + Len(CHOOSE s \in beat : TRUE), Len(b)), frames)
          [] beat = {} /\ end = 0 -> [frames |-> frames, buf |-> b, ok |-> TRUE]
          [] beat = {} /\ end > 0 /\ ~d.ok -> [frames |-> <<>>, buf |-> b, ok |-> FALSE]
          [] OTHER -> Split(SubSeq(b, end + 1, Len(b)), Append(frames, d.frame))

-----------------------------------------------------------------------------
StompInit ==
    /\ stompLink = "up" /\ connections = 1
    /\ text = <<>> /\ buf = <<>> /\ framesSent = <<>> /\ framesGot = <<>>

\* External: what the broker writes.
BrokerWrites(s, meant) ==
    /\ stompLink = "up" /\ Len(framesSent) < MaxFrames
    /\ text' = text \o s
    /\ framesSent' = Append(framesSent, meant)
    /\ UNCHANGED <<stompLink, buf, framesGot, connections>>
BrokerSends(m) == BrokerWrites(Encoded(m), Meant(m))
BrokerGarbles(s) == BrokerWrites(s, Unreadable)

\* Bound: no heartbeat right behind another one on the way.
BrokerBeats(s) ==
    /\ stompLink = "up" /\ (text # <<>> => Last(text) = NUL)
    /\ text' = text \o s
    /\ UNCHANGED <<stompLink, buf, framesSent, framesGot, connections>>

\* onData, with a piece of n characters.
DataArrives(n) ==
    LET pushed == Split(buf \o SubSeq(text, 1, n), <<>>)
    IN  /\ stompLink # "down" /\ n <= Len(text)
        /\ text' = SubSeq(text, n + 1, Len(text))
        /\ buf' = pushed.buf
        /\ framesGot' = framesGot \o pushed.frames
        /\ stompLink' = IF pushed.ok THEN stompLink ELSE "failed"
        /\ UNCHANGED <<framesSent, connections>>

\* What is on the way is lost; a failed adapter does not come back.
ConnectionDrops ==
    /\ stompLink = "up"
    /\ stompLink' = "down" /\ text' = <<>>
    /\ UNCHANGED <<buf, framesSent, framesGot, connections>>

\* Mutant: the buffer of the dropped connection goes on.
ReusedBuffer ==
    /\ stompLink = "down" /\ connections < MaxConnections
    /\ stompLink' = "up" /\ connections' = connections + 1
    /\ framesSent' = <<>> /\ framesGot' = <<>>
    /\ UNCHANGED <<text, buf>>

\* openTransport, with a new buffer.
OpenTransport ==
    /\ stompLink = "down" /\ connections < MaxConnections
    /\ stompLink' = "up" /\ connections' = connections + 1
    /\ buf' = <<>> /\ framesSent' = <<>> /\ framesGot' = <<>>
    /\ UNCHANGED text

StompNext ==
    \/ \E m \in Messages : BrokerSends(m)
    \/ \E s \in Garbled : BrokerGarbles(s)
    \/ \E s \in Beats : BrokerBeats(s)
    \/ \E n \in 1 .. Len(text) : DataArrives(n)
    \/ ConnectionDrops
    \/ OpenTransport

StompSpec == StompInit /\ [][StompNext]_stompVars

-----------------------------------------------------------------------------
StompTypeOK ==
    /\ stompLink \in {"up", "down", "failed"} /\ connections \in 1 .. MaxConnections
    /\ Len(framesGot) <= Len(framesSent) /\ Len(framesSent) <= MaxFrames

\* However the text is cut, and whatever heartbeats stand between them, the
\* frames come out as they were meant, in order, and all of them once the text
\* has arrived; text that does not parse is not passed over (the header of
\* stomp-codec.mjs).  Nothing of a dropped connection is read on the next.
FramesArriveWhole ==
    /\ IsPrefix(framesGot, framesSent)
    /\ stompLink = "up" /\ text = <<>> => framesGot = framesSent /\ buf = <<>>
=============================================================================
