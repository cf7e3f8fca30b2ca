---------------------------- MODULE LineScanner ----------------------------
(***************************************************************************)
(* scanLines (packages/ssestream/decoder.go) as bufio.Scanner calls it:    *)
(* the bytes of a body arrive in chunks of any size, and after each chunk  *)
(* scanLines is asked for the next line of what is buffered.  Lines end    *)
(* with LF, CR or CRLF.  A chunk may end between the CR and the LF of one  *)
(* terminator.                                                             *)
(***************************************************************************)
EXTENDS Naturals, Sequences, FiniteSets

CONSTANTS
    MaxBytes,      \* bound: bytes in the body
    MaxLineLength  \* maxLineLength: what the scanner's buffer holds

ASSUME LineScannerAssumption ==
    /\ MaxBytes \in Nat
    /\ MaxLineLength \in Nat \ {0}

VARIABLES
    body,    \* the whole body, chosen at the start
    arrived, \* how many bytes have been read from the connection
    atEOF,   \* has the reader returned io.EOF?
    start,   \* bufio.Scanner's start: bytes consumed by lines already split
    tokens,  \* the lines split so far, each as <<first, last>> byte position
    status   \* "scanning", "ended" or "tooLong" (bufio.ErrTooLong)

vars == <<body, arrived, atEOF, start, tokens, status>>

\* "x" is any byte that ends no line.
Bytes == {"x", "CR", "LF"}
Bodies == UNION { [1..n -> Bytes] : n \in 0..MaxBytes }

TypeOK ==
    /\ body \in Bodies
    /\ arrived \in 0..Len(body)
    /\ atEOF \in BOOLEAN
    /\ start \in 0..arrived
    /\ tokens \subseteq (1..(MaxBytes + 1)) \X (0..MaxBytes)
    /\ status \in {"scanning", "ended", "tooLong"}

Init ==
    /\ body \in Bodies
    /\ arrived = 0
    /\ atEOF = FALSE
    /\ start = 0
    /\ tokens = {}
    /\ status = "scanning"

-----------------------------------------------------------------------------
(* scanLines over the buffered bytes start+1..arrived.                      *)

Terminators == { i \in (start + 1)..arrived : body[i] \in {"CR", "LF"} }

\* The byte the loop of scanLines stops at.
IsFirstTerminator(i) == i \in Terminators /\ \A j \in Terminators : i <= j

\* Mutants of Undecided: a CR always ends its line; every CR waits for more, the
\* one within the buffer too; a CR waits at the end of the body.
UndecidedNever(i)  == FALSE
UndecidedAnyCR(i)  == body[i] = "CR" /\ ~atEOF
UndecidedAtEOF(i)  == body[i] = "CR" /\ i = arrived

\* A CR at the end of the buffer may still be half of a CRLF.
Undecided(i) == body[i] = "CR" /\ i = arrived /\ ~atEOF

\* Mutant of TerminatorLength: every CR is taken for a CRLF.
TerminatorLengthCRLF(i) == IF body[i] = "CR" THEN 2 ELSE 1

TerminatorLength(i) ==
    IF body[i] = "CR" /\ i < arrived /\ body[i + 1] = "LF" THEN 2 ELSE 1

Asks == /\ Terminators = {} \/ \E i \in Terminators : IsFirstTerminator(i) /\ Undecided(i)
        /\ ~atEOF

\* A line is split off.
Split ==
    /\ status = "scanning"
    /\ \E i \in Terminators :
         /\ IsFirstTerminator(i)
         /\ ~Undecided(i)
         /\ tokens' = tokens \cup {<<start + 1, i - 1>>}
         /\ start' = i + TerminatorLength(i) - 1
    /\ UNCHANGED <<body, arrived, atEOF, status>>

\* Mutant of SplitRemainder: a last line without a terminator is dropped.
SplitRemainderDrops ==
    /\ status = "scanning"
    /\ atEOF
    /\ Terminators = {}
    /\ start < arrived
    /\ start' = arrived
    /\ UNCHANGED <<body, arrived, atEOF, tokens, status>>

\* At the end of the body what is left is a line, if anything is.
SplitRemainder ==
    /\ status = "scanning"
    /\ atEOF
    /\ Terminators = {}
    /\ start < arrived
    /\ tokens' = tokens \cup {<<start + 1, arrived>>}
    /\ start' = arrived
    /\ UNCHANGED <<body, arrived, atEOF, status>>

EndScan ==
    /\ status = "scanning"
    /\ atEOF
    /\ start = arrived
    /\ status' = "ended"
    /\ UNCHANGED <<body, arrived, atEOF, start, tokens>>

\* The scanner needs more, and its buffer is not full: it reads a chunk, of any
\* size that fits, or the end of the body.
ReadChunk ==
    /\ status = "scanning"
    /\ Asks
    /\ arrived - start < MaxLineLength
    /\ \/ /\ arrived' \in (arrived + 1)..Len(body)
          /\ arrived' - start <= MaxLineLength
          /\ atEOF' = FALSE
       \/ arrived = Len(body) /\ arrived' = arrived /\ atEOF' = TRUE
    /\ UNCHANGED <<body, start, tokens, status>>

\* The buffer is full of one unfinished line.
Overflow ==
    /\ status = "scanning"
    /\ Asks
    /\ arrived - start >= MaxLineLength
    /\ status' = "tooLong"
    /\ UNCHANGED <<body, arrived, atEOF, start, tokens>>

Next == Split \/ SplitRemainder \/ EndScan \/ ReadChunk \/ Overflow

Spec == Init /\ [][Next]_vars

\* The connection keeps delivering, and the consumer keeps scanning.
FairSpec == Spec /\ WF_vars(Next)

-----------------------------------------------------------------------------
(* The lines of a body, by definition, whatever chunks it comes in: a line  *)
(* ends before an LF or CR, except that the LF of a CRLF ends nothing.      *)

Ends(i)   == body[i] \in {"CR", "LF"} /\ ~(body[i] = "LF" /\ i > 1 /\ body[i - 1] = "CR")
After(i)  == IF body[i] = "CR" /\ i < Len(body) /\ body[i + 1] = "LF" THEN i + 2 ELSE i + 1
Begins    == {1} \cup { After(i) : i \in { j \in 1..Len(body) : Ends(j) } }
IsLine(a, b) ==
    /\ a \in Begins
    /\ b + 1 >= a
    /\ \A i \in a..b : body[i] = "x"
    /\ \/ b < Len(body) /\ Ends(b + 1)
       \/ b = Len(body) /\ b >= a

LinesOfBody ==
    { t \in (1..(Len(body) + 1)) \X (0..Len(body)) : IsLine(t[1], t[2]) }

\* Every line handed to the decoder is a line of the body: where the chunks
\* happened to end never splits a CRLF in two, which would complete a frame that
\* is not complete, nor glues two lines together.
EveryTokenIsALine == tokens \subseteq LinesOfBody

\* The outcome is true.  A scan that ends has handed over every line of the body;
\* one that fails has met a line that does not fit, so a stream of ordinary lines
\* is never refused, however many of them one chunk brings.
OutcomeIsTrue ==
    /\ status = "ended" => tokens = LinesOfBody
    /\ status = "tooLong" =>
         \E t \in LinesOfBody : t[1] = start + 1 /\ t[2] - t[1] + 2 >= MaxLineLength

\* What has arrived settles where the line t ends: its terminator is here, and if
\* that is a CR so is the byte after it.
Settled(t) == t[2] + 1 < arrived \/ (t[2] + 1 = arrived /\ body[arrived] = "LF")

\* Nothing settled waits for the server: the scanner reads on only when every line
\* the bytes at hand settle has been handed over.  The one line it holds back ends
\* in a CR that is the last byte to have arrived; a server that writes its frames
\* with lone CRs and then falls silent has its last line held back for as long.
NothingSettledWaits ==
    [][arrived' # arrived => \A t \in LinesOfBody : Settled(t) => t \in tokens]_vars

\* A scan comes to an end of either kind.
ScanEnds == <>(status # "scanning")
=============================================================================
