------------------------- MODULE LineScannerProofs -------------------------
(***************************************************************************)
(* Theorems about LineScanner, for bodies and buffers of every size and    *)
(* every division of a body into chunks.  IInv says that the scanner       *)
(* stands where a line begins, and has handed over the lines before that.  *)
(***************************************************************************)
EXTENDS LineScanner, SequenceTheorems, WellFoundedInduction, TLAPS

BodyInv == body \in [1..Len(body) -> Bytes] /\ Len(body) \in Nat

\* The numbers are what they are for; the end of the body comes after the body.
PlaceInv ==
    /\ arrived \in 0..Len(body)
    /\ start \in 0..arrived
    /\ atEOF \in BOOLEAN
    /\ atEOF => arrived = Len(body)

\* A line begins where the scanner stands, unless it has taken a last line that
\* nothing terminates; the lines before that have been handed over.
TokensInv ==
    /\ start + 1 \in Begins \/ (atEOF /\ start = arrived)
    /\ tokens = { t \in LinesOfBody : t[1] <= start }

StatusInv ==
    /\ status \in {"scanning", "ended", "tooLong"}
    /\ status = "ended" => atEOF /\ start = arrived
    /\ status = "tooLong" => Asks /\ arrived - start >= MaxLineLength

IInv == body \in Bodies /\ BodyInv /\ PlaceInv /\ TokensInv /\ StatusInv

-----------------------------------------------------------------------------
(* Lines and the places where they begin.                                   *)

LEMMA BodyType ==
  ASSUME body \in Bodies
  PROVE  BodyInv /\ Len(body) <= MaxBytes
  <1>1. PICK n \in 0..MaxBytes : body \in [1..n -> Bytes]
    BY DEF Bodies
  <1>2. n \in Nat
    BY LineScannerAssumption
  <1>3. body \in Seq(Bytes) /\ Len(body) = n
    BY <1>1, <1>2, SeqDef, LenProperties
  <1>4. QED
    BY <1>1, <1>2, <1>3, LineScannerAssumption DEF BodyInv

\* The places are numbers, in this order.
LEMMA Places ==
  ASSUME BodyInv, PlaceInv
  PROVE  /\ start \in Nat /\ arrived \in Nat /\ Len(body) \in Nat
         /\ start <= arrived /\ arrived <= Len(body)
  <1>1. Len(body) \in Nat
    BY DEF BodyInv
  <1>2. arrived \in Nat /\ arrived <= Len(body)
    BY <1>1 DEF PlaceInv
  <1>3. QED
    BY <1>1, <1>2 DEF PlaceInv

\* A line begins at the start, or right after a terminator that is whole.
LEMMA BeginsAre ==
  ASSUME BodyInv, NEW a \in Nat, a > 1
  PROVE  a \in Begins <=>
           /\ a - 1 \in 1..Len(body)
           /\ body[a - 1] \in {"CR", "LF"}
           /\ ~(body[a - 1] = "CR" /\ a <= Len(body) /\ body[a] = "LF")
  <1> USE DEF BodyInv, Bytes
  <1>1. ASSUME NEW j \in 1..Len(body), Ends(j), a = After(j)
        PROVE  /\ a - 1 \in 1..Len(body)
               /\ body[a - 1] \in {"CR", "LF"}
               /\ ~(body[a - 1] = "CR" /\ a <= Len(body) /\ body[a] = "LF")
    <2>1. CASE body[j] = "CR" /\ j < Len(body) /\ body[j + 1] = "LF"
      <3>1. a = j + 2
        BY <1>1, <2>1 DEF After
      <3>2. a - 1 = j + 1 /\ j + 1 \in 1..Len(body)
        BY <2>1, <3>1
      <3>3. QED
        BY <2>1, <3>2
    <2>2. CASE ~(body[j] = "CR" /\ j < Len(body) /\ body[j + 1] = "LF")
      <3>1. a = j + 1
        BY <1>1, <2>2 DEF After
      <3>2. a - 1 = j
        BY <3>1
      <3>3. QED
        BY <1>1, <2>2, <3>1, <3>2 DEF Ends
    <2>3. QED
      BY <2>1, <2>2
  <1>2. ASSUME a - 1 \in 1..Len(body), body[a - 1] \in {"CR", "LF"},
               ~(body[a - 1] = "CR" /\ a <= Len(body) /\ body[a] = "LF")
        PROVE  \E j \in 1..Len(body) : Ends(j) /\ a = After(j)
    <2>1. CASE Ends(a - 1)
      <3>1. After(a - 1) = a
        BY <1>2 DEF After
      <3>2. QED
        BY <1>2, <2>1, <3>1
    <2>2. CASE ~Ends(a - 1)
      <3>1. body[a - 1] = "LF" /\ a - 1 > 1 /\ body[a - 2] = "CR"
        BY <1>2, <2>2 DEF Ends
      <3>2. a - 2 \in 1..Len(body) /\ a - 2 < Len(body) /\ (a - 2) + 1 = a - 1
        BY <1>2, <3>1
      <3>3. After(a - 2) = a
        BY <3>1, <3>2 DEF After
      <3>4. Ends(a - 2)
        BY <3>1 DEF Ends
      <3>5. QED
        BY <3>2, <3>3, <3>4
    <2>3. QED
      BY <2>1, <2>2
  <1>3. a \in Begins <=> \E j \in 1..Len(body) : Ends(j) /\ a = After(j)
    BY DEF Begins
  <1>4. QED
    BY <1>1, <1>2, <1>3

\* What is known of a line.
LEMMA LineParts ==
  ASSUME BodyInv, NEW t \in LinesOfBody
  PROVE  /\ t = <<t[1], t[2]>>
         /\ t[1] \in Nat /\ t[1] >= 1 /\ t[2] \in Nat /\ t[2] <= Len(body)
         /\ t[1] \in Begins /\ t[2] + 1 >= t[1]
         /\ \A i \in t[1]..t[2] : body[i] = "x"
         /\ (t[2] < Len(body) /\ Ends(t[2] + 1)) \/ (t[2] = Len(body) /\ t[2] >= t[1])
  BY DEF LinesOfBody, IsLine, BodyInv

LEMMA LineWhole ==
  ASSUME BodyInv, NEW a \in Nat, a >= 1, NEW b \in Nat, IsLine(a, b), b <= Len(body)
  PROVE  <<a, b>> \in LinesOfBody
  <1>1. Len(body) \in Nat /\ b + 1 >= a
    BY DEF BodyInv, IsLine
  <1>2. a \in 1..(Len(body) + 1) /\ b \in 0..Len(body)
    BY <1>1
  <1>3. QED
    BY <1>2 DEF LinesOfBody

\* The next line beginning after the scanner's place begins there, or behind a
\* terminator that is not before the place.
LEMMA BeginsBehind ==
  ASSUME BodyInv, PlaceInv, NEW a \in Begins, a \in Nat, a > start + 1
  PROVE  /\ a - 1 \in (start + 1)..Len(body)
         /\ body[a - 1] \in {"CR", "LF"}
         /\ ~(body[a - 1] = "CR" /\ a <= Len(body) /\ body[a] = "LF")
  <1>1. start \in Nat /\ Len(body) \in Nat
    BY Places
  <1>2. a > 1
    BY <1>1
  <1>3. QED
    BY <1>1, <1>2, BeginsAre

-----------------------------------------------------------------------------
(* Each step keeps the invariant.                                           *)

LEMMA InitIInv == Init => IInv
  <1> SUFFICES ASSUME Init PROVE IInv
    OBVIOUS
  <1>1. BodyInv
    BY BodyType DEF Init
  <1>2. PlaceInv /\ StatusInv
    <2>1. Len(body) \in Nat
      BY <1>1 DEF BodyInv
    <2>2. arrived = 0 /\ start = 0 /\ atEOF = FALSE /\ status = "scanning"
      BY DEF Init
    <2>3. PlaceInv
      <3>1. atEOF \in BOOLEAN /\ ~atEOF
        BY <2>2
      <3>2. arrived \in 0..Len(body) /\ start \in 0..arrived
        BY <2>1, <2>2
      <3>3. QED
        BY <3>1, <3>2, Zenon DEF PlaceInv
    <2>4. StatusInv
      BY <2>2 DEF StatusInv
    <2>5. QED
      BY <2>3, <2>4
  <1>3. \A t \in LinesOfBody : ~(t[1] <= start)
    BY <1>1, LineParts DEF Init
  <1>4. 1 \in Begins
    BY DEF Begins
  <1>5. TokensInv
    BY <1>3, <1>4 DEF Init, TokensInv
  <1>6. QED
    BY <1>1, <1>2, <1>5 DEF Init, IInv

\* The terminator next to the scanner's place ends the line that begins there.
LEMMA NextTerminatorEndsALine ==
  ASSUME BodyInv, PlaceInv, start + 1 \in Begins,
         NEW i \in (start + 1)..Len(body), body[i] \in {"CR", "LF"},
         \A j \in (start + 1)..Len(body) : j < i => body[j] = "x"
  PROVE  Ends(i) /\ <<start + 1, i - 1>> \in LinesOfBody
  <1>1. /\ start \in Nat /\ Len(body) \in Nat /\ i \in Nat
        /\ start + 1 <= i /\ i <= Len(body)
    <2>1. start \in Nat /\ Len(body) \in Nat
      BY Places
    <2>2. QED
      BY <2>1
  <1>2. Ends(i)
    <2>1. CASE i > start + 1
      <3>1. i - 1 \in (start + 1)..Len(body) /\ i - 1 < i
        BY <1>1, <2>1
      <3>2. body[i - 1] = "x"
        BY <3>1
      <3>3. QED
        BY <3>2 DEF Ends
    <2>2. CASE i = start + 1
      <3>1. CASE i > 1
        BY <1>1, <2>2, <3>1, BeginsAre DEF Ends
      <3>2. QED
        BY <1>1, <3>1 DEF Ends
    <2>3. QED
      BY <1>1, <2>1, <2>2
  <1>3. <<start + 1, i - 1>> \in LinesOfBody
    <2>1. /\ start + 1 \in Nat /\ start + 1 >= 1 /\ i - 1 \in Nat
          /\ i - 1 <= Len(body) /\ i - 1 < Len(body) /\ (i - 1) + 1 = i /\ i >= start + 1
      BY <1>1
    <2>2. \A j \in (start + 1)..(i - 1) : body[j] = "x"
      BY <1>1
    <2>3. IsLine(start + 1, i - 1)
      BY <1>2, <2>1, <2>2 DEF IsLine
    <2>4. QED
      BY <2>1, <2>3, LineWhole
  <1>4. QED
    BY <1>2, <1>3

\* What nothing terminates is the last line.
LEMMA TheRestIsALine ==
  ASSUME BodyInv, PlaceInv, start + 1 \in Begins, start < Len(body),
         \A j \in (start + 1)..Len(body) : body[j] = "x"
  PROVE  <<start + 1, Len(body)>> \in LinesOfBody
  <1>1. start \in Nat /\ Len(body) \in Nat
    BY Places
  <1>2. start + 1 \in Nat /\ start + 1 >= 1 /\ Len(body) >= start + 1
        /\ Len(body) + 1 >= start + 1 /\ Len(body) <= Len(body)
    BY <1>1
  <1>3. IsLine(start + 1, Len(body))
    BY <1>2 DEF IsLine
  <1>4. QED
    BY <1>1, <1>2, <1>3, LineWhole

\* A body keeps its lines.
LEMMA SameBodySameLines ==
  ASSUME body' = body
  PROVE  /\ LinesOfBody' = LinesOfBody /\ Begins' = Begins /\ Len(body)' = Len(body)
         /\ BodyInv => BodyInv'
  <1>1. Len(body)' = Len(body) /\ (BodyInv => BodyInv')
    BY DEF BodyInv
  <1>2. \A i : Ends(i)' = Ends(i) /\ After(i)' = After(i)
    BY DEF Ends, After
  <1>3. Begins' = Begins
    BY DEF Begins, Ends, After
  <1>4. LinesOfBody' = LinesOfBody
    BY DEF LinesOfBody, IsLine, Begins, Ends, After
  <1>5. QED
    BY <1>1, <1>3, <1>4

\* The first terminator ends the line that begins where the scanner stands, and
\* no other line begins before the place behind it.
LEMMA FirstTerminatorEndsALine ==
  ASSUME IInv, start + 1 \in Begins, NEW i \in Terminators, IsFirstTerminator(i),
         ~Undecided(i)
  PROVE  LET e == i + TerminatorLength(i) - 1 IN
           /\ <<start + 1, i - 1>> \in LinesOfBody
           /\ e \in i..arrived /\ e + 1 \in Begins
           /\ \A t \in LinesOfBody :
                start < t[1] /\ t[1] <= e => t = <<start + 1, i - 1>>
  <1> DEFINE e == i + TerminatorLength(i) - 1
  <1> USE DEF IInv
  <1>1. /\ start \in Nat /\ arrived \in Nat /\ Len(body) \in Nat
        /\ start <= arrived /\ arrived <= Len(body)
    BY Places
  <1>2. i \in (start + 1)..arrived /\ body[i] \in {"CR", "LF"} /\ i \in Nat
    BY <1>1 DEF Terminators
  <1>3. ASSUME NEW j \in (start + 1)..Len(body), j < i PROVE body[j] = "x"
    <2>1. j \notin Terminators
      BY <1>1, <1>2, <1>3 DEF IsFirstTerminator, Terminators
    <2>2. body[j] \in Bytes
      BY <1>1 DEF BodyInv
    <2>3. QED
      BY <1>1, <1>2, <1>3, <2>1, <2>2 DEF Terminators, Bytes
  <1>4. Ends(i) /\ <<start + 1, i - 1>> \in LinesOfBody
    BY <1>1, <1>2, <1>3, NextTerminatorEndsALine
  <1>6. e \in i..arrived /\ e + 1 = After(i)
    <2>1. CASE body[i] = "CR" /\ i < arrived /\ body[i + 1] = "LF"
      <3>1. TerminatorLength(i) = 2 /\ After(i) = i + 2
        BY <1>1, <1>2, <2>1 DEF TerminatorLength, After
      <3>2. QED
        BY <1>1, <1>2, <2>1, <3>1
    <2>2. CASE ~(body[i] = "CR" /\ i < arrived /\ body[i + 1] = "LF")
      <3>1. ~(body[i] = "CR" /\ i < Len(body) /\ body[i + 1] = "LF")
        BY <1>1, <1>2, <2>2 DEF Undecided, PlaceInv
      <3>2. TerminatorLength(i) = 1 /\ After(i) = i + 1
        BY <2>2, <3>1 DEF TerminatorLength, After
      <3>3. QED
        BY <1>1, <1>2, <3>2
    <2>3. QED
      BY <2>1, <2>2
  <1>7. After(i) \in Begins
    BY <1>1, <1>2, <1>4 DEF Begins
  <1>8. ASSUME NEW t \in LinesOfBody, start < t[1], t[1] <= e
        PROVE  t = <<start + 1, i - 1>>
    <2>1. /\ t = <<t[1], t[2]>>
          /\ t[1] \in Nat /\ t[2] \in Nat /\ t[2] <= Len(body)
          /\ t[1] \in Begins /\ t[2] + 1 >= t[1]
          /\ \A j \in t[1]..t[2] : body[j] = "x"
          /\ (t[2] < Len(body) /\ Ends(t[2] + 1)) \/ (t[2] = Len(body) /\ t[2] >= t[1])
      BY <1>8, LineParts
    <2>2. t[1] = start + 1
      <3>1. SUFFICES ASSUME t[1] > start + 1 PROVE FALSE
        BY <1>1, <1>8, <2>1
      <3>2. /\ t[1] - 1 \in (start + 1)..Len(body)
            /\ body[t[1] - 1] \in {"CR", "LF"}
            /\ ~(body[t[1] - 1] = "CR" /\ t[1] <= Len(body) /\ body[t[1]] = "LF")
        BY <2>1, <3>1, BeginsBehind
      <3>3. t[1] - 1 >= i
        BY <1>1, <1>2, <1>3, <3>2
      <3>4. t[1] = i + 1 /\ e = i + 1
        BY <1>1, <1>2, <1>6, <1>8, <2>1, <3>3 DEF TerminatorLength
      <3>5. body[i] = "CR" /\ i < arrived /\ body[i + 1] = "LF"
        BY <1>2, <3>4 DEF TerminatorLength
      <3>6. QED
        BY <1>1, <1>2, <3>2, <3>4, <3>5
    <2>3. ~(t[2] >= i)
      BY <1>1, <1>2, <2>1, <2>2
    <2>4. ~(t[2] + 1 < i)
      <3>1. SUFFICES ASSUME t[2] + 1 < i PROVE FALSE
        OBVIOUS
      <3>2. t[2] < Len(body) /\ Ends(t[2] + 1)
        BY <1>1, <1>2, <2>1, <3>1
      <3>3. t[2] + 1 \in (start + 1)..Len(body)
        BY <1>1, <2>1, <2>2, <3>2
      <3>4. QED
        BY <1>3, <3>1, <3>2, <3>3 DEF Ends
    <2>5. t[2] = i - 1
      BY <1>2, <2>1, <2>3, <2>4
    <2>6. QED
      BY <2>1, <2>2, <2>5
  <1>9. QED
    BY <1>4, <1>6, <1>7, <1>8

LEMMA SplitKeepsIInv ==
  ASSUME IInv, Split
  PROVE  IInv'
  <1>1. PICK i \in Terminators :
          /\ IsFirstTerminator(i) /\ ~Undecided(i)
          /\ tokens' = tokens \cup {<<start + 1, i - 1>>}
          /\ start' = i + TerminatorLength(i) - 1
          /\ status = "scanning" /\ UNCHANGED <<body, arrived, atEOF, status>>
    BY DEF Split
  <1>2. /\ start \in Nat /\ arrived \in Nat /\ i \in Nat
        /\ i > start /\ i <= arrived
    <2>1. start \in Nat /\ arrived \in Nat
      BY Places DEF IInv
    <2>2. QED
      BY <2>1 DEF Terminators
  <1>3. start + 1 \in Begins
    BY <1>2 DEF IInv, TokensInv
  <1>4. /\ <<start + 1, i - 1>> \in LinesOfBody
        /\ start' \in i..arrived /\ start' + 1 \in Begins
        /\ \A t \in LinesOfBody :
             start < t[1] /\ t[1] <= start' => t = <<start + 1, i - 1>>
    BY <1>1, <1>3, FirstTerminatorEndsALine
  <1>5. tokens' = { t \in LinesOfBody : t[1] <= start' }
    <2>1. \A t \in LinesOfBody : t[1] \in Nat
      BY LineParts DEF IInv
    <2>2. start' \in Nat /\ start < start' /\ start + 1 <= start'
      BY <1>2, <1>4
    <2>3. ASSUME NEW t \in LinesOfBody
          PROVE  t[1] <= start' <=> t[1] <= start \/ t = <<start + 1, i - 1>>
      BY <1>2, <1>4, <2>1, <2>2
    <2>4. QED
      BY <1>1, <1>4, <2>3 DEF IInv, TokensInv
  <1>6. LinesOfBody' = LinesOfBody /\ Begins' = Begins
    BY <1>1, SameBodySameLines
  <1>7. TokensInv'
    BY <1>1, <1>4, <1>5, <1>6 DEF TokensInv
  <1>8. BodyInv' /\ body' \in Bodies
    <2>1. BodyInv'
      BY <1>1, SameBodySameLines DEF IInv
    <2>2. QED
      BY <1>1, <2>1 DEF IInv, Bodies
  <1>9. PlaceInv' /\ StatusInv'
    <2>1. start' \in 0..arrived
      BY <1>2, <1>4
    <2>2. Len(body)' = Len(body)
      BY <1>1
    <2>3. QED
      BY <1>1, <2>1, <2>2 DEF IInv, PlaceInv, StatusInv
  <1>10. QED
    BY <1>7, <1>8, <1>9 DEF IInv

LEMMA SplitRemainderKeepsIInv ==
  ASSUME IInv, SplitRemainder
  PROVE  IInv'
  <1>1. /\ status = "scanning" /\ atEOF /\ Terminators = {} /\ start < arrived
        /\ tokens' = tokens \cup {<<start + 1, arrived>>} /\ start' = arrived
        /\ UNCHANGED <<body, arrived, atEOF, status>>
    BY DEF SplitRemainder
  <1>2. BodyInv /\ PlaceInv /\ TokensInv /\ StatusInv /\ body \in Bodies
    BY DEF IInv
  <1>3. /\ start \in Nat /\ arrived \in Nat /\ Len(body) \in Nat
        /\ arrived = Len(body)
    BY <1>1, <1>2, Places DEF PlaceInv
  <1>4. start + 1 \in Begins
    BY <1>1, <1>2, <1>3 DEF TokensInv
  <1>5. \A j \in (start + 1)..Len(body) : body[j] = "x"
    <2>1. TAKE j \in (start + 1)..Len(body)
    <2>2. j \in 1..Len(body) /\ j \in (start + 1)..arrived
      BY <1>3
    <2>3. body[j] \in Bytes
      BY <1>2, <2>2 DEF BodyInv
    <2>4. QED
      BY <1>1, <2>2, <2>3 DEF Terminators, Bytes
  <1>6. <<start + 1, arrived>> \in LinesOfBody
    BY <1>1, <1>2, <1>3, <1>4, <1>5, TheRestIsALine
  <1>7. ASSUME NEW t \in LinesOfBody
        PROVE  t[1] <= arrived <=> t[1] <= start \/ t = <<start + 1, arrived>>
    <2>1. /\ t = <<t[1], t[2]>>
          /\ t[1] \in Nat /\ t[2] \in Nat /\ t[2] <= Len(body)
          /\ t[1] \in Begins /\ t[2] + 1 >= t[1]
          /\ (t[2] < Len(body) /\ Ends(t[2] + 1)) \/ (t[2] = Len(body) /\ t[2] >= t[1])
      BY <1>2, <1>7, LineParts
    <2>2. ASSUME t[1] > start PROVE t = <<start + 1, arrived>>
      <3>1. ~(t[1] > start + 1)
        <4>1. SUFFICES ASSUME t[1] > start + 1 PROVE FALSE
          OBVIOUS
        <4>2. t[1] - 1 \in (start + 1)..Len(body) /\ body[t[1] - 1] \in {"CR", "LF"}
          BY <1>2, <2>1, <4>1, BeginsBehind
        <4>3. QED
          BY <1>5, <4>2
      <3>2. t[1] = start + 1
        BY <1>3, <2>1, <2>2, <3>1
      <3>3. ~(t[2] < Len(body))
        <4>1. SUFFICES ASSUME t[2] < Len(body) PROVE FALSE
          OBVIOUS
        <4>2. Ends(t[2] + 1) /\ t[2] + 1 \in (start + 1)..Len(body)
          BY <1>3, <2>1, <3>2, <4>1
        <4>3. QED
          BY <1>5, <4>2 DEF Ends
      <3>4. t[2] = arrived
        BY <1>3, <2>1, <3>3
      <3>5. QED
        BY <2>1, <3>2, <3>4
    <2>3. t = <<start + 1, arrived>> => t[1] = start + 1
      OBVIOUS
    <2>4. QED
      BY <1>1, <1>3, <2>1, <2>2, <2>3
  <1>8. tokens' = { t \in LinesOfBody : t[1] <= arrived }
    BY <1>1, <1>2, <1>6, <1>7 DEF TokensInv
  <1>9. LinesOfBody' = LinesOfBody /\ Begins' = Begins /\ Len(body)' = Len(body) /\ BodyInv'
    BY <1>1, <1>2, SameBodySameLines
  <1>10. TokensInv'
    BY <1>1, <1>8, <1>9 DEF TokensInv
  <1>11. PlaceInv'
    <2>1. start' \in 0..arrived
      BY <1>1, <1>3
    <2>2. QED
      BY <1>1, <1>2, <1>9, <2>1 DEF PlaceInv
  <1>12. StatusInv' /\ body' \in Bodies
    <2>1. body' \in Bodies
      BY <1>1, <1>2 DEF Bodies
    <2>2. StatusInv'
      BY <1>1 DEF StatusInv
    <2>3. QED
      BY <2>1, <2>2
  <1>13. QED
    BY <1>9, <1>10, <1>11, <1>12 DEF IInv

LEMMA EndScanKeepsIInv ==
  ASSUME IInv, EndScan
  PROVE  IInv'
  <1>1. /\ atEOF /\ start = arrived /\ status' = "ended"
        /\ UNCHANGED <<body, arrived, atEOF, start, tokens>>
    BY DEF EndScan
  <1>2. LinesOfBody' = LinesOfBody /\ Begins' = Begins /\ Len(body)' = Len(body) /\ BodyInv'
    BY <1>1, SameBodySameLines DEF IInv
  <1>3. PlaceInv' /\ TokensInv'
    BY <1>1, <1>2 DEF IInv, PlaceInv, TokensInv
  <1>4. StatusInv'
    BY <1>1 DEF StatusInv
  <1>5. body' \in Bodies
    BY <1>1 DEF IInv, Bodies
  <1>6. QED
    BY <1>2, <1>3, <1>4, <1>5 DEF IInv

LEMMA ReadChunkKeepsIInv ==
  ASSUME IInv, ReadChunk
  PROVE  IInv'
  <1>1. /\ status = "scanning" /\ ~atEOF
        /\ \/ arrived' \in (arrived + 1)..Len(body) /\ atEOF' = FALSE
           \/ arrived = Len(body) /\ arrived' = arrived /\ atEOF' = TRUE
        /\ UNCHANGED <<body, start, tokens, status>>
    BY DEF ReadChunk, Asks
  <1>2. BodyInv /\ PlaceInv /\ TokensInv /\ body \in Bodies
    BY DEF IInv
  <1>3. LinesOfBody' = LinesOfBody /\ Begins' = Begins /\ Len(body)' = Len(body) /\ BodyInv'
    BY <1>1, <1>2, SameBodySameLines
  <1>4. TokensInv'
    BY <1>1, <1>2, <1>3 DEF TokensInv
  <1>5. PlaceInv'
    <2>1. /\ start \in Nat /\ arrived \in Nat /\ Len(body) \in Nat
          /\ start <= arrived /\ arrived <= Len(body)
      BY <1>2, Places
    <2>2. arrived' \in 0..Len(body) /\ start \in 0..arrived'
      BY <1>1, <2>1
    <2>3. atEOF' \in BOOLEAN /\ (atEOF' => arrived' = Len(body))
      BY <1>1
    <2>4. QED
      BY <1>1, <1>3, <2>2, <2>3 DEF PlaceInv
  <1>6. StatusInv'
    BY <1>1 DEF StatusInv
  <1>7. body' \in Bodies
    BY <1>1, <1>2 DEF Bodies
  <1>8. QED
    BY <1>3, <1>4, <1>5, <1>6, <1>7 DEF IInv

LEMMA OverflowKeepsIInv ==
  ASSUME IInv, Overflow
  PROVE  IInv'
  <1>1. /\ Asks /\ arrived - start >= MaxLineLength /\ status' = "tooLong"
        /\ UNCHANGED <<body, arrived, atEOF, start, tokens>>
    BY DEF Overflow
  <1>2. LinesOfBody' = LinesOfBody /\ Begins' = Begins /\ Len(body)' = Len(body) /\ BodyInv'
    BY <1>1, SameBodySameLines DEF IInv
  <1>3. PlaceInv' /\ TokensInv'
    BY <1>1, <1>2 DEF IInv, PlaceInv, TokensInv
  <1>4. Asks'
    BY <1>1 DEF Asks, Terminators, IsFirstTerminator, Undecided
  <1>5. StatusInv'
    BY <1>1, <1>4 DEF StatusInv
  <1>6. body' \in Bodies
    BY <1>1 DEF IInv, Bodies
  <1>7. QED
    BY <1>2, <1>3, <1>5, <1>6 DEF IInv

LEMMA StutterKeepsIInv ==
  ASSUME IInv, UNCHANGED vars
  PROVE  IInv'
  <1>1. UNCHANGED <<body, arrived, atEOF, start, tokens, status>>
    BY DEF vars
  <1>2. LinesOfBody' = LinesOfBody /\ Begins' = Begins /\ Len(body)' = Len(body) /\ BodyInv'
    BY <1>1, SameBodySameLines DEF IInv
  <1>3. PlaceInv' /\ TokensInv'
    BY <1>1, <1>2 DEF IInv, PlaceInv, TokensInv
  <1>4. Asks' <=> Asks
    BY <1>1 DEF Asks, Terminators, IsFirstTerminator, Undecided
  <1>5. StatusInv'
    BY <1>1, <1>4 DEF IInv, StatusInv
  <1>6. body' \in Bodies
    BY <1>1 DEF IInv, Bodies
  <1>7. QED
    BY <1>2, <1>3, <1>5, <1>6 DEF IInv

LEMMA NextIInv == IInv /\ [Next]_vars => IInv'
  BY SplitKeepsIInv, SplitRemainderKeepsIInv, EndScanKeepsIInv, ReadChunkKeepsIInv,
     OverflowKeepsIInv, StutterKeepsIInv DEF Next

\* The scanner stands where a line begins, and the lines before that are out.
THEOREM Invariance == Spec => []IInv
  BY InitIInv, NextIInv, PTL DEF Spec

-----------------------------------------------------------------------------
(* What follows from it.                                                    *)

\* Places and lines stay within the body that scanLines was given.
THEOREM TypeCorrect == Spec => []TypeOK
  <1>1. ASSUME IInv PROVE TypeOK
    <2>1. BodyInv /\ PlaceInv /\ StatusInv /\ body \in Bodies
      BY <1>1 DEF IInv
    <2>2. Len(body) \in Nat /\ Len(body) <= MaxBytes
      BY <2>1, BodyType DEF BodyInv
    <2>3. tokens \subseteq LinesOfBody
      BY <1>1 DEF IInv, TokensInv
    <2>4. ASSUME NEW t \in LinesOfBody
          PROVE  t \in (1..(MaxBytes + 1)) \X (0..MaxBytes)
      <3>1. /\ t = <<t[1], t[2]>> /\ t[1] \in Nat /\ t[1] >= 1
            /\ t[2] \in Nat /\ t[2] <= Len(body) /\ t[2] + 1 >= t[1]
        BY <2>1, <2>4, LineParts
      <3>2. t[1] \in 1..(MaxBytes + 1) /\ t[2] \in 0..MaxBytes
        BY <2>2, <3>1, LineScannerAssumption
      <3>3. QED
        BY <3>1, <3>2
    <2>5. tokens \subseteq (1..(MaxBytes + 1)) \X (0..MaxBytes)
      BY <2>3, <2>4
    <2>6. QED
      BY <2>1, <2>5 DEF PlaceInv, StatusInv, TypeOK
  <1>2. QED
    BY <1>1, Invariance, PTL

\* Wherever the chunks end, scanLines splits the body into its own lines: no CRLF in
\* two, no two lines glued together.
THEOREM TokensAreLines == Spec => []EveryTokenIsALine
  <1>1. IInv => EveryTokenIsALine
    BY DEF IInv, TokensInv, EveryTokenIsALine
  <1>2. QED
    BY <1>1, Invariance, PTL

\* A body that has ended has no line beyond its last byte.
LEMMA EndedIsComplete ==
  ASSUME IInv, status = "ended"
  PROVE  tokens = LinesOfBody
  <1>1. BodyInv /\ PlaceInv /\ tokens = { t \in LinesOfBody : t[1] <= start }
    BY DEF IInv, TokensInv
  <1>2. start = Len(body) /\ Len(body) \in Nat
    BY Places DEF IInv, StatusInv, PlaceInv
  <1>3. ASSUME NEW t \in LinesOfBody PROVE t[1] <= start
    <2>1. /\ t[1] \in Nat /\ t[2] \in Nat /\ t[2] <= Len(body) /\ t[2] + 1 >= t[1]
          /\ t[2] < Len(body) \/ t[2] >= t[1]
      BY <1>1, <1>3, LineParts
    <2>2. QED
      BY <1>2, <2>1
  <1>4. QED
    BY <1>1, <1>3

LEMMA LeastOfNaturals ==
  ASSUME NEW S \in SUBSET Nat, S # {}
  PROVE  \E i \in S : \A j \in S : i <= j
  <1>1. PICK i \in S : \A j \in S : <<j, i>> \notin OpToRel(<, Nat)
    BY WFMin, NatLessThanWellFounded, Zenon
  <1>2. \A j \in S : ~(j < i)
    BY <1>1, Zenon DEF OpToRel
  <1>3. \A j \in S : i <= j
    BY <1>2
  <1>4. QED
    BY <1>3

\* A full buffer holds no line that is whole, so the line at its beginning is at
\* least as long, wherever in the rest of the body it ends.
LEMMA OverflowMeansALongLine ==
  ASSUME IInv, status = "tooLong"
  PROVE  \E t \in LinesOfBody : t[1] = start + 1 /\ t[2] - t[1] + 2 >= MaxLineLength
  <1> DEFINE T == { j \in (start + 1)..Len(body) : body[j] \in {"CR", "LF"} }
  <1>1. BodyInv /\ PlaceInv /\ TokensInv
    BY DEF IInv
  <1>2. Asks /\ ~atEOF /\ arrived - start >= MaxLineLength
    BY DEF IInv, StatusInv, Asks
  <1>3. /\ start \in Nat /\ arrived \in Nat /\ Len(body) \in Nat
        /\ start <= arrived /\ arrived <= Len(body)
        /\ MaxLineLength \in Nat /\ MaxLineLength >= 1
    BY <1>1, Places, LineScannerAssumption
  <1>4. start + 1 \in Begins
    BY <1>1, <1>2 DEF TokensInv
  <1>5. \A j \in (start + 1)..Len(body) : j \notin T => body[j] = "x"
    <2>1. TAKE j \in (start + 1)..Len(body)
    <2>2. body[j] \in Bytes
      BY <1>1, <1>3 DEF BodyInv
    <2>3. QED
      BY <2>2 DEF Bytes
  <1>6. CASE T = {}
    <2>1. start < Len(body)
      BY <1>2, <1>3
    <2>2. <<start + 1, Len(body)>> \in LinesOfBody
      BY <1>1, <1>4, <1>5, <1>6, <2>1, TheRestIsALine
    <2>3. Len(body) - (start + 1) + 2 >= MaxLineLength
      BY <1>2, <1>3
    <2>4. QED
      BY <2>2, <2>3
  <1>7. CASE T # {}
    <2>1. T \in SUBSET Nat
      BY <1>3
    <2>2. PICK i \in T : \A j \in T : i <= j
      BY <1>7, <2>1, LeastOfNaturals
    <2>3. /\ i \in (start + 1)..Len(body) /\ i \in Nat /\ body[i] \in {"CR", "LF"}
          /\ \A j \in (start + 1)..Len(body) : j < i => body[j] = "x"
      <3>1. i \in (start + 1)..Len(body) /\ i \in Nat /\ body[i] \in {"CR", "LF"}
        BY <2>1, <2>2
      <3>2. ASSUME NEW j \in (start + 1)..Len(body), j < i PROVE body[j] = "x"
        <4>1. j \in Nat
          BY <1>3
        <4>2. j \notin T
          BY <2>2, <3>1, <3>2, <4>1
        <4>3. QED
          BY <1>5, <4>2
      <3>3. QED
        BY <3>1, <3>2
    <2>4. <<start + 1, i - 1>> \in LinesOfBody
      BY <1>1, <1>4, <2>3, NextTerminatorEndsALine
    <2>5. i >= arrived
      <3>1. SUFFICES ASSUME i < arrived PROVE FALSE
        BY <1>3, <2>3
      <3>2. i \in Terminators
        BY <1>3, <2>3, <3>1 DEF Terminators
      <3>3. PICK f \in Terminators : IsFirstTerminator(f) /\ Undecided(f)
        BY <1>2, <3>2 DEF Asks
      <3>4. f = arrived /\ f <= i
        BY <3>2, <3>3 DEF IsFirstTerminator, Undecided
      <3>5. QED
        BY <1>3, <2>3, <3>1, <3>4
    <2>6. (i - 1) - (start + 1) + 2 >= MaxLineLength
      BY <1>2, <1>3, <2>3, <2>5
    <2>7. QED
      BY <2>4, <2>6
  <1>8. QED
    BY <1>6, <1>7

\* A scan that ends has handed every line over, and one that fails has met a line that
\* the buffer of the scanner cannot hold.
THEOREM OutcomesAreTrue == Spec => []OutcomeIsTrue
  <1>1. IInv => OutcomeIsTrue
    BY EndedIsComplete, OverflowMeansALongLine DEF OutcomeIsTrue
  <1>2. QED
    BY <1>1, Invariance, PTL

\* A step that reads on leaves no line behind whose end has arrived.
LEMMA ReadingLeavesNothingSettled ==
  ASSUME IInv, Next, arrived' # arrived, NEW t \in LinesOfBody, Settled(t)
  PROVE  t \in tokens
  <1>1. Asks
    BY DEF Next, Split, SplitRemainder, EndScan, ReadChunk, Overflow
  <1>2. BodyInv /\ PlaceInv /\ tokens = { u \in LinesOfBody : u[1] <= start }
    BY DEF IInv, TokensInv
  <1>3. /\ start \in Nat /\ arrived \in Nat /\ Len(body) \in Nat
        /\ start <= arrived /\ arrived <= Len(body)
    BY <1>2, Places
  <1>4. /\ t[1] \in Nat /\ t[2] \in Nat /\ t[2] <= Len(body) /\ t[2] + 1 >= t[1]
        /\ (t[2] < Len(body) /\ Ends(t[2] + 1)) \/ (t[2] = Len(body) /\ t[2] >= t[1])
    BY <1>2, LineParts
  <1>5. SUFFICES ASSUME t[1] > start PROVE FALSE
    BY <1>2, <1>3, <1>4
  <1>6. t[2] + 1 <= arrived /\ (t[2] + 1 = arrived => body[arrived] = "LF")
    BY <1>3, <1>4 DEF Settled
  <1>7. Ends(t[2] + 1) /\ t[2] + 1 \in (start + 1)..arrived
    BY <1>3, <1>4, <1>5, <1>6
  <1>8. t[2] + 1 \in Terminators
    BY <1>7 DEF Ends, Terminators
  <1>9. PICK f \in Terminators : IsFirstTerminator(f) /\ Undecided(f)
    BY <1>1, <1>8 DEF Asks
  <1>10. f = arrived /\ body[f] = "CR" /\ f <= t[2] + 1
    BY <1>8, <1>9 DEF IsFirstTerminator, Undecided
  <1>11. QED
    BY <1>3, <1>4, <1>6, <1>10

\* No line that the bytes at hand settle is kept from the consumer until more arrive.
THEOREM SettledLinesDoNotWait == Spec => NothingSettledWaits
  <1>1. IInv /\ [Next]_vars =>
          [arrived' # arrived => \A t \in LinesOfBody : Settled(t) => t \in tokens]_vars
    BY ReadingLeavesNothingSettled
  <1>2. QED
    BY <1>1, Invariance, PTL DEF Spec, NothingSettledWaits
=============================================================================
