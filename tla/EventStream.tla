---------------------------- MODULE EventStream ----------------------------
(***************************************************************************)
(* packages/ssestream: a Stream of typed events decoded from a             *)
(* Server-Sent Events body, and DecodeSSE (sse.go), which renders such a   *)
(* body as one JSON line per event.  Both drive a Decoder, which scans     *)
(* lines into frames; the server, the network, the caller's context and    *)
(* the consumer's Close run beside them.                                   *)
(*                                                                         *)
(* A line is what it does to a frame, and a data line is identified by its *)
(* position in the body, so a payload is a set of positions.  How bytes    *)
(* become lines is the subject of LineScanner.                             *)
(***************************************************************************)
EXTENDS Naturals, Sequences, FiniteSets

CONSTANT MaxLines   \* bound: lines the server sends

ASSUME EventStreamAssumption == MaxLines \in Nat

\* "none" is an event field with an empty value; "id" stands for the id and retry
\* fields; "bad" is data that does not decode into the consumer's type.
EventLines == {"ping", "error", "other", "none"}
DataLines  == {"data", "bad"}
Lines      == EventLines \cup DataLines \cup {"id", "comment", "blank"}

VARIABLES
    consumer,  \* who drives the decoder: a "stream", or the "renderer"
    lines,   \* the lines that have reached the client
    wire,    \* "open", "eof" or "cut" (reading further fails)
    ctx,     \* the caller's context: "live" or "ended"
    read,    \* how many lines Decoder.Next has scanned
    frame,   \* Decoder.event and Decoder.data
    pc,      \* in Stream.Next or the renderer's loop: "loop", "scan", "dispatch";
             \* "idle" outside it
    done,    \* Stream.done; the renderer has returned
    err,     \* Stream.err; what the renderer returned
    body,    \* Stream.body: "owned" or "nil"
    closed,  \* has the consumer called Close?
    items    \* what Next has advanced to, or the renderer has written

vars == <<consumer, lines, wire, ctx, read, frame, pc, done, err, body, closed, items>>
serverVars == <<consumer, lines, wire>>
streamVars == <<done, err, body, closed, items>>

Positions  == 1..MaxLines
Frame      == [type : EventLines, id : BOOLEAN, data : SUBSET Positions]
EmptyFrame == [type |-> "none", id |-> FALSE, data |-> {}]
Errors     == {"nil", "open", "ctx", "read", "server", "decode", "write"}

\* A frame that was handed over when line number end completed it.
Item       == [end : Positions, frame : Frame]

TypeOK ==
    /\ consumer \in {"stream", "renderer"}
    /\ lines \in Seq(Lines) /\ Len(lines) <= MaxLines
    /\ wire \in {"open", "eof", "cut"}
    /\ ctx \in {"live", "ended"}
    /\ read \in 0..Len(lines)
    /\ frame \in Frame
    /\ pc \in {"idle", "loop", "scan", "dispatch"}
    /\ done \in BOOLEAN
    /\ err \in Errors
    /\ body \in {"owned", "nil"}
    /\ closed \in BOOLEAN
    /\ items \subseteq Item

\* NewStream: over an open body, or over the error of the failed request.  The
\* renderer is called with an open body.
Init ==
    /\ consumer \in {"stream", "renderer"}
    /\ lines = <<>>
    /\ wire = "open"
    /\ ctx = "live"
    /\ read = 0
    /\ frame = EmptyFrame
    /\ pc = "idle"
    /\ \/ done = FALSE /\ err = "nil" /\ body = "owned"
       \/ consumer = "stream" /\ done = TRUE /\ err = "open" /\ body = "nil"
    /\ closed = FALSE
    /\ items = {}

-----------------------------------------------------------------------------
(* The server and the network, external, and the caller's context.          *)

SendLine ==
    /\ wire = "open"
    /\ body = "owned"
    /\ Len(lines) < MaxLines
    /\ \E l \in Lines : lines' = Append(lines, l)
    /\ UNCHANGED <<consumer, wire, ctx, read, frame, pc, streamVars>>

EndBody(how) ==
    /\ wire = "open"
    /\ wire' = how
    /\ UNCHANGED <<consumer, lines, ctx, read, frame, pc, streamVars>>

EndContext ==
    /\ ctx = "live"
    /\ ctx' = "ended"
    /\ UNCHANGED <<serverVars, read, frame, pc, streamVars>>

-----------------------------------------------------------------------------
(* Decoder.                                                                 *)

IsEmpty(f) == f = EmptyFrame

\* Mutant of ConsumeField: a data line replaces the one before it.
ConsumeFieldLastData(f, n) ==
    LET l == lines[n] IN
      CASE l \in EventLines -> [f EXCEPT !.type = l]
        [] l \in DataLines  -> [f EXCEPT !.data = {n}]
        [] l = "id"         -> [f EXCEPT !.id = TRUE]
        [] OTHER            -> f

\* consumeField, for the field on line n.
ConsumeField(f, n) ==
    LET l == lines[n] IN
      CASE l \in EventLines -> [f EXCEPT !.type = l]
        [] l \in DataLines  -> [f EXCEPT !.data = @ \cup {n}]
        [] l = "id"         -> [f EXCEPT !.id = TRUE]
        [] OTHER            -> f

\* Decoder.Next scans one more line; a blank line completes a frame, unless
\* nothing has been buffered.
ScanLine ==
    /\ pc = "scan"
    /\ read < Len(lines)
    /\ read' = read + 1
    /\ IF lines[read'] = "blank"
         THEN /\ frame' = frame
              /\ pc' = IF IsEmpty(frame) THEN "scan" ELSE "dispatch"
         ELSE /\ frame' = ConsumeField(frame, read')
              /\ pc' = "scan"
    /\ UNCHANGED <<serverVars, ctx, streamVars>>

\* Mutants of ScanEnds: the decoder's error is dropped; the end of the body is
\* reported as an error of its own.
ScanEndsSilently ==
    /\ pc = "scan"
    /\ read = Len(lines)
    /\ wire # "open"
    /\ frame' = EmptyFrame
    /\ pc' = "idle"
    /\ done' = TRUE
    /\ UNCHANGED <<serverVars, ctx, read, err, body, closed, items>>

ScanEndsInEOF ==
    /\ pc = "scan"
    /\ read = Len(lines)
    /\ wire # "open"
    /\ frame' = EmptyFrame
    /\ pc' = "idle"
    /\ done' = TRUE
    /\ err' = IF wire = "cut" THEN "read" ELSE "eof"
    /\ UNCHANGED <<serverVars, ctx, read, body, closed, items>>

\* Decoder.Next reaches the end of the body: a frame still being buffered is
\* discarded, and its consumer reports the decoder's error, if it has one.
ScanEnds ==
    /\ pc = "scan"
    /\ read = Len(lines)
    /\ wire # "open"
    /\ frame' = EmptyFrame
    /\ pc' = "idle"
    /\ done' = TRUE
    /\ err' = IF wire = "cut" THEN "read" ELSE "nil"
    /\ UNCHANGED <<serverVars, ctx, read, body, closed, items>>

-----------------------------------------------------------------------------
(* Stream.                                                                  *)

\* Mutant of CallNext: Next does not look at done and err.
CallNextAnyway ==
    /\ pc = "idle"
    /\ body = "owned"
    /\ pc' = IF consumer = "stream" THEN "loop" ELSE "scan"
    /\ UNCHANGED <<serverVars, ctx, read, frame, streamVars>>

\* Next is called, or the renderer: it does not look at a context.
CallNext ==
    /\ pc = "idle"
    /\ ~done /\ err = "nil"
    /\ pc' = IF consumer = "stream" THEN "loop" ELSE "scan"
    /\ UNCHANGED <<serverVars, ctx, read, frame, streamVars>>

\* Mutant of CheckContext: an ended context is waited out.
CheckContextContinues ==
    /\ pc = "loop"
    /\ ctx = "live"
    /\ pc' = "scan"
    /\ UNCHANGED <<serverVars, ctx, read, frame, streamVars>>

\* The top of Next's loop: an ended context stops it before the next frame.
CheckContext ==
    /\ pc = "loop"
    /\ IF ctx = "ended"
         THEN pc' = "idle" /\ done' = TRUE /\ err' = "ctx"
         ELSE pc' = "scan" /\ UNCHANGED <<done, err>>
    /\ UNCHANGED <<serverVars, ctx, read, frame, body, closed, items>>

\* The decoder's frame is taken (Event resets it) and judged by Next.
Skipped(f) == f.type = "ping" \/ (f.type # "error" /\ f.data = {})
Fails(f)   == f.type # "ping" /\ (f.type = "error" \/ \E n \in f.data : lines[n] = "bad")

Skip ==
    /\ pc = "dispatch"
    /\ consumer = "stream"
    /\ Skipped(frame)
    /\ pc' = "loop"
    /\ frame' = EmptyFrame
    /\ UNCHANGED <<serverVars, ctx, read, streamVars>>

Fail ==
    /\ pc = "dispatch"
    /\ consumer = "stream"
    /\ Fails(frame)
    /\ pc' = "idle"
    /\ frame' = EmptyFrame
    /\ done' = TRUE
    /\ err' = IF frame.type = "error" THEN "server" ELSE "decode"
    /\ UNCHANGED <<serverVars, ctx, read, body, closed, items>>

Yield ==
    /\ pc = "dispatch"
    /\ consumer = "stream"
    /\ ~Skipped(frame) /\ ~Fails(frame)
    /\ pc' = "idle"
    /\ frame' = EmptyFrame
    /\ items' = items \cup {[end |-> read, frame |-> [EmptyFrame EXCEPT !.data = frame.data]]}
    /\ UNCHANGED <<serverVars, ctx, read, done, err, body, closed>>

\* Mutant of Render: a ping is not written, as if a stream's consumer had it.
RenderWithoutPings ==
    /\ pc = "dispatch"
    /\ consumer = "renderer"
    /\ pc' = "scan"
    /\ frame' = EmptyFrame
    /\ items' = IF frame.type = "ping" THEN items
                ELSE items \cup {[end |-> read, frame |-> frame]}
    /\ UNCHANGED <<serverVars, ctx, read, done, err, body, closed>>

\* writeManagedAgentSSEEvent: the frame becomes a line, whatever its type; data
\* that is not JSON becomes a string.
Render ==
    /\ pc = "dispatch"
    /\ consumer = "renderer"
    /\ pc' = "scan"
    /\ frame' = EmptyFrame
    /\ items' = items \cup {[end |-> read, frame |-> frame]}
    /\ UNCHANGED <<serverVars, ctx, read, done, err, body, closed>>

\* The writer fails, and the rendering with it.
RenderFails ==
    /\ pc = "dispatch"
    /\ consumer = "renderer"
    /\ pc' = "idle"
    /\ frame' = EmptyFrame
    /\ done' = TRUE
    /\ err' = "write"
    /\ UNCHANGED <<serverVars, ctx, read, body, closed, items>>

\* Close, from the consumer, any number of times: the first closes the body.
\* GetStream, which calls the renderer, closes it when the renderer has returned.
Close ==
    /\ pc = "idle"
    /\ consumer = "renderer" => done
    /\ done' = TRUE
    /\ body' = "nil"
    /\ closed' = TRUE
    /\ wire' = IF body = "owned" /\ wire = "open" THEN "cut" ELSE wire
    /\ UNCHANGED <<consumer, lines, ctx, read, frame, pc, err, items>>

InNext ==
    \/ CheckContext \/ ScanLine \/ ScanEnds
    \/ Skip \/ Fail \/ Yield
    \/ Render \/ RenderFails

Next ==
    \/ InNext \/ CallNext \/ Close
    \/ SendLine \/ EndContext
    \/ \E how \in {"eof", "cut"} : EndBody(how)

Spec == Init /\ [][Next]_vars

\* The consumer's goroutine runs while it is inside Next or the renderer, whose
\* writer does not block forever; and a body whose request context has ended stops
\* being readable.
FairSpec ==
    /\ Spec
    /\ WF_vars(InNext)
    /\ WF_vars(ctx = "ended" /\ EndBody("cut"))

-----------------------------------------------------------------------------
(* What the body says, read as the wire format is defined: a frame is what  *)
(* stands between two blank lines, its type is its last event field.        *)

Blanks == { k \in 1..Len(lines) : lines[k] = "blank" }

\* The lines of the frame that blank line k completes.
LinesOf(k) == { n \in 1..(k - 1) : \A b \in Blanks : b < n \/ b >= k }

Payload(k) == { n \in LinesOf(k) : lines[n] \in DataLines }

HasLine(k, l) == \E n \in LinesOf(k) : lines[n] = l

TypeOf(k) ==
    LET named == { n \in LinesOf(k) : lines[n] \in EventLines } IN
      IF named = {} THEN "none"
      ELSE lines[CHOOSE n \in named : \A m \in named : m <= n]

\* The frame as it was written; blank lines alone make no frame.
WholeFrame(k) == [type |-> TypeOf(k), id |-> HasLine(k, "id"), data |-> Payload(k)]

WholeFrames == { k \in Blanks : WholeFrame(k) # EmptyFrame }
ErrorFrames == { k \in Blanks : TypeOf(k) = "error" }
ItemFrames  == { k \in Blanks : TypeOf(k) \notin {"ping", "error"} /\ Payload(k) # {} }
BadFrames   == { k \in ItemFrames : \E n \in Payload(k) : lines[n] = "bad" }

\* The frames already handed over by the decoder.
Handled == { k \in Blanks : k < read \/ (k = read /\ pc # "dispatch") }

\* A stream's consumer gets exactly the payloads of the complete item frames, and
\* the renderer writes exactly the complete frames, each once, whole and unmixed
\* with its neighbours: no frame the connection cut short, no invented payload for
\* a sentinel, nothing missing before the end.
ItemsAreTheFrames ==
    items = IF consumer = "stream"
              THEN { [end |-> k, frame |-> [EmptyFrame EXCEPT !.data = Payload(k)]] :
                       k \in Handled \cap (ItemFrames \ BadFrames) }
              ELSE { [end |-> k, frame |-> WholeFrame(k)] :
                       k \in { f \in Handled \cap WholeFrames : err = "write" => f # read } }

\* A stream that ended by itself without an error is a whole one: the server
\* ended it, everything it sent was read, and it reported no failure, now or before
\* an earlier return of Next, which keeps its reason.  Of the renderer that last
\* part is not true: it writes an error event as a line.
CleanEndIsComplete ==
    done /\ err = "nil" /\ ~closed =>
        /\ wire = "eof" /\ read = Len(lines)
        /\ consumer = "stream" => ErrorFrames = {} /\ BadFrames = {}

\* A consumer blocked in Next, or in the renderer, is released once its context
\* ends, silent server or not.
CancelReleasesNext == ctx = "ended" ~> pc = "idle"

-----------------------------------------------------------------------------
(* Said of this code in the repository and not so (README, Disagreements);  *)
(* no passing run checks it.                                                *)

\* decoder.go:76-79: a connection cut mid-frame and a clean end are "the case a
\* consumer needs to tell apart".
TruncationIsReported ==
    done /\ err = "nil" /\ ~closed =>
        \A n \in 1..Len(lines) :
          lines[n] \in DataLines => \E k \in Blanks : n < k
=============================================================================
