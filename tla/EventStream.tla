----------------------------- MODULE EventStream -----------------------------
(***************************************************************************)
(* The audit trail and its way to the editor: threads append events to a   *)
(* JSONL file under a lock (state/event_bus.py), the events route sends    *)
(* what the file holds of one run (api/routes_events.py), and the          *)
(* extension decodes it chunk by chunk (runtime/eventStreamClient.ts).     *)
(*                                                                         *)
(* Text is a sequence of pieces: an event is written as its head, its tail *)
(* and the end of the line.  The process may die after any piece, a reader *)
(* may see any prefix, and the network cuts the text wherever it likes.    *)
(* Text is UTF-8: where an event is wide, the bytes of one character are   *)
(* divided between its head and its tail.                                  *)
(***************************************************************************)
EXTENDS Naturals, Sequences, FiniteSets, Ordered

CONSTANTS
    Threads,    \* of the server's pool
    Mine,       \* events of the run that the client watches
    Wide,       \* events whose text divides inside a character
    MaxEvents,  \* bound on the events emitted
    MaxCrashes  \* bound on the crashes

Events == 1 .. MaxEvents
Nobody == "nobody"
Line(e) == << <<e, "head">>, <<e, "tail">>, <<e, "newline">> >>
\* An SSE message: its "event:" line is read and ignored, "data:" is decoded.
Frame(e) == Line(e)

VARIABLES
    file,       \* logs/events.jsonl
    lock,       \* _write_lock
    writing,    \* writing[t]: what thread t still has to write of its event
    emitted,    \* events begun so far
    kept,       \* events whose emit returned (history)
    crashes,
    shot,       \* the events that the route read for the client (history)
    wire,       \* what the client has not read of the response
    buffer,     \* of the SseDecoder
    spoiled,    \* events whose text the TextDecoder has replaced a character of
    due,        \* envelopes of the chunk at hand still to be handed over
    seen,       \* what onEvent got
    active,     \* until dispose
    client      \* where the subscription is

log    == <<file, lock, writing, emitted, kept, crashes>>
stream == <<shot, wire, buffer, spoiled, due, seen, active, client>>
vars   == <<log, stream>>

Init ==
    /\ file = <<>> /\ lock = Nobody /\ writing = [t \in Threads |-> <<>>]
    /\ emitted = 0 /\ kept = {} /\ crashes = 0
    /\ shot = <<>> /\ wire = <<>> /\ buffer = <<>> /\ spoiled = {}
    /\ due = <<>> /\ seen = <<>>
    /\ active = TRUE /\ client = "idle"

-----------------------------------------------------------------------------
\* Fault: appends are not serialized.
LockIgnored == TRUE

LockFree == lock = Nobody

BeginEmit(t) ==
    /\ writing[t] = <<>> /\ LockFree /\ emitted < MaxEvents
    /\ lock' = t
    /\ emitted' = emitted + 1
    /\ writing' = [writing EXCEPT ![t] = Line(emitted + 1)]
    /\ UNCHANGED <<file, kept, crashes, stream>>

WritePiece(t) ==
    /\ writing[t] # <<>>
    /\ file' = Append(file, Head(writing[t]))
    /\ writing' = [writing EXCEPT ![t] = Tail(@)]
    /\ IF Len(writing[t]) = 1
       THEN /\ lock' = Nobody
            /\ kept' = kept \cup {Head(writing[t])[1]}
       ELSE UNCHANGED <<lock, kept>>
    /\ UNCHANGED <<emitted, crashes, stream>>

\* The file is as far as it was written; a response under way breaks off.
Crash ==
    /\ crashes < MaxCrashes
    /\ crashes' = crashes + 1
    /\ writing' = [t \in Threads |-> <<>>]
    /\ lock' = Nobody
    /\ wire' = <<>>
    /\ client' = IF client = "reading" THEN "broken" ELSE client
    /\ UNCHANGED <<file, emitted, kept, shot, buffer, spoiled, due, seen, active>>

-----------------------------------------------------------------------------
\* Every character of the text is whole: one that is torn raises where the file
\* is decoded, outside of what read_all catches.
Divided(piece) == piece[2] = "head" /\ piece[1] \in Wide
Decodes(text) ==
    \A i \in DOMAIN text :
        Divided(text[i]) => i < Len(text) /\ text[i + 1] = <<text[i][1], "tail">>

\* read_all, of a file that can be decoded: a line that is one whole event is
\* read, any other is skipped.
WholeAt(text, i) ==
    /\ text[i][2] = "head"
    /\ i = 1 \/ text[i - 1][2] = "newline"
    /\ i < Len(text) /\ text[i + 1] = <<text[i][1], "tail">>
    /\ i + 1 = Len(text) \/ text[i + 2][2] = "newline"

EventsAt(text, places) ==
    LET heads == At(text, places)
    IN [k \in DOMAIN heads |-> heads[k][1]]

ReadAll(text) == EventsAt(text, {i \in DOMAIN text : WholeAt(text, i)})

OfRun(events) == At(events, {k \in DOMAIN events : events[k] \in Mine})

Framed(events) ==
    [i \in 1 .. 3 * Len(events) |-> Frame(events[(i + 2) \div 3])[((i - 1) % 3) + 1]]

\* GET events: a snapshot of the trail, not a subscription to it.  The response
\* has begun when the trail is read: where that raises, it breaks off.
Subscribe ==
    /\ client = "idle"
    /\ \/ /\ Decodes(file)
          /\ shot' = OfRun(ReadAll(file))
          /\ wire' = Framed(shot')
          /\ client' = "reading"
       \/ /\ ~Decodes(file)
          /\ client' = "broken"
          /\ UNCHANGED <<shot, wire>>
    /\ UNCHANGED <<log, buffer, spoiled, due, seen, active>>

\* Fault: every chunk is decoded by itself.
AfterLastNewlineForgotten(text) == <<>>

AfterLastNewline(text) ==
    LET ends == {i \in DOMAIN text : text[i][2] = "newline"}
    IN IF ends = {} THEN text
       ELSE SubSeq(text, 1 + CHOOSE i \in ends : \A j \in ends : j <= i, Len(text))

\* SseDecoder.push: the lines that the chunk completes.
Decoded(text) == EventsAt(text, {i \in DOMAIN text : WholeAt(text, i) /\ i + 1 < Len(text)})

\* Each chunk is decoded by itself: of a character that the cut divides, both
\* parts are replaced, within the text of one event.
SpoiledBy(n) ==
    {wire[i][1] : i \in {k \in {n} : k < Len(wire) /\ Divided(wire[k])}}

ReadChunk ==
    /\ client = "reading" /\ active /\ due = <<>>
    /\ \E n \in 1 .. Len(wire) :
           LET text == buffer \o SubSeq(wire, 1, n)
           IN /\ due' = Decoded(text)
              /\ buffer' = AfterLastNewline(text)
              /\ wire' = SubSeq(wire, n + 1, Len(wire))
              /\ spoiled' = spoiled \cup SpoiledBy(n)
    /\ UNCHANGED <<log, shot, seen, active, client>>

\* onEvent, which may itself dispose of the subscription.
OnEvent ==
    /\ due # <<>>
    /\ seen' = Append(seen, Head(due))
    /\ due' = Tail(due)
    /\ active' \in {active, FALSE}
    /\ UNCHANGED <<log, shot, wire, buffer, spoiled, client>>

\* Between two chunks; the read that is under way is aborted.
Dispose ==
    /\ active /\ due = <<>> /\ client # "idle"
    /\ active' = FALSE
    /\ UNCHANGED <<log, shot, wire, buffer, spoiled, due, seen, client>>

StreamEnds ==
    /\ client = "reading" /\ due = <<>> /\ (wire = <<>> \/ ~active)
    /\ client' = IF active THEN "ended" ELSE "broken"
    /\ UNCHANGED <<log, shot, wire, buffer, spoiled, due, seen, active>>

\* Errors of the stream end the subscription quietly.
ConnectionLost ==
    /\ client = "reading"
    /\ client' = "broken"
    /\ wire' = <<>>
    /\ UNCHANGED <<log, shot, buffer, spoiled, due, seen, active>>

Next ==
    \/ \E t \in Threads : BeginEmit(t) \/ WritePiece(t)
    \/ Crash
    \/ Subscribe \/ ReadChunk \/ OnEvent \/ Dispose \/ StreamEnds \/ ConnectionLost

Spec == Init /\ [][Next]_vars

-----------------------------------------------------------------------------
\* Threads never make the trail undecodable or lose each other's events, only a
\* crash in the middle of a line does: of a trail that can still be decoded, at
\* most one event for each crash, the one that joins the line
\* (event_bus.py:78-80, 90-101).
OneLostPerCrash ==
    LET readable == {ReadAll(file)[i] : i \in DOMAIN ReadAll(file)}
    IN /\ Decodes(file) => Cardinality(kept \ readable) <= crashes
       /\ crashes = 0 /\ LockFree => Decodes(file)

\* event_bus.py:98-100: "One corrupt line (crash mid-append, hand-edited file)
\* must not break replay".
ReplaySurvivesCrash == LockFree => Decodes(file)

\* However the response is cut, the editor sees the events of the run that the
\* route read, in order and once each, and all of them if the stream ended by
\* itself; none but a wide one has its text changed on the way
\* (eventStreamClient.ts:39-70, 107-115).
SeenAsKept ==
    /\ spoiled \subseteq Wide
    /\ Len(seen) <= Len(shot) /\ seen = SubSeq(shot, 1, Len(seen))
    /\ client = "ended" => seen = shot
    /\ \A i \in DOMAIN shot : shot[i] \in Mine /\ \A j \in 1 .. i - 1 : shot[j] < shot[i]

\* "forwards each decoded EventEnvelope to a callback" (eventStreamClient.ts:3-8):
\* with the text that the trail has.
TextAsKept == \A i \in DOMAIN seen : seen[i] \notin spoiled

\* eventStreamClient.ts:91: "dispose() aborts and stops delivery".
DeliversWhileActive == ~active => seen' = seen

NothingAfterDispose == [][DeliversWhileActive]_vars

=============================================================================
