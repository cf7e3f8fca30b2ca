------------------------- MODULE EventStreamProofs -------------------------
(***************************************************************************)
(* Theorems about EventStream, for bodies of every length.  IInv says that *)
(* the frame being built is what the lines since the last blank one say,   *)
(* and that the frames before it went where they had to go.                *)
(***************************************************************************)
EXTENDS EventStream, SequenceTheorems, WellFoundedInduction, TLAPS

\* Does the consumer get a frame, and what does it get?
Wanted(k) ==
    IF consumer = "stream" THEN ~Skipped(WholeFrame(k)) /\ ~Fails(WholeFrame(k))
                           ELSE WholeFrame(k) # EmptyFrame
Handed(k) ==
    IF consumer = "stream"
      THEN [end |-> k, frame |-> [EmptyFrame EXCEPT !.data = WholeFrame(k).data]]
      ELSE [end |-> k, frame |-> WholeFrame(k)]
Out == { k \in Handled : Wanted(k) /\ (err = "write" => k # read) }

ItemsInv == items = { Handed(k) : k \in Out }

\* Where the decoder is, and what it has of the frame there.
FrameInv ==
    /\ pc # "idle" => ~done /\ err = "nil"
    /\ pc = "scan" => frame = WholeFrame(read + 1)
    /\ pc = "dispatch" =>
         /\ read \in 1..Len(lines) /\ lines[read] = "blank"
         /\ frame = WholeFrame(read) /\ frame # EmptyFrame
    /\ pc \in {"idle", "loop"} /\ ~done =>
         frame = EmptyFrame /\ WholeFrame(read + 1) = EmptyFrame

\* How it can have ended.
EndInv ==
    /\ closed => done
    /\ done /\ err = "nil" /\ ~closed => wire = "eof" /\ read = Len(lines)
    /\ err = "write" => consumer = "renderer"
    /\ consumer = "stream" /\ err = "nil" => \A k \in Handled : ~Fails(WholeFrame(k))

IInv == TypeOK /\ ItemsInv /\ FrameInv /\ EndInv

-----------------------------------------------------------------------------
(* The last of some lines.                                                  *)

LEMMA LeastOfNaturals ==
  ASSUME NEW S \in SUBSET Nat, S # {}
  PROVE  \E i \in S : \A j \in S : i <= j
  <1>1. PICK i \in S : \A j \in S : <<j, i>> \notin OpToRel(<, Nat)
    BY WFMin, NatLessThanWellFounded, Zenon
  <1>2. \A j \in S : ~(j < i)
    BY <1>1, Zenon DEF OpToRel
  <1>3. \A j \in S : i <= j
    BY <1>2
  <1>4. QED
    BY <1>3

LEMMA LastExists ==
  ASSUME NEW m \in Nat, NEW S \in SUBSET (1..m), S # {}
  PROVE  \E i \in S : \A j \in S : j <= i
  <1> DEFINE T == { m - i : i \in S }
  <1>1. T \in SUBSET Nat /\ T # {}
    <2>1. \A i \in S : m - i \in Nat
      OBVIOUS
    <2>2. QED
      BY <2>1
  <1>2. PICK k \in T : \A j \in T : k <= j
    BY <1>1, LeastOfNaturals
  <1>3. PICK i \in S : k = m - i
    OBVIOUS
  <1>4. \A j \in S : j <= i
    <2>1. TAKE j \in S
    <2>2. m - i <= m - j
      BY <1>2, <1>3
    <2>3. i \in Nat /\ j \in Nat
      OBVIOUS
    <2>4. QED
      BY <2>2, <2>3
  <1>5. QED
    BY <1>4

-----------------------------------------------------------------------------
(* Frames, line by line.                                                    *)

\* The lines of a frame are those behind which no blank line comes before its end.
LEMMA LinesOfAre ==
  ASSUME NEW k \in Nat, k <= Len(lines) + 1, Len(lines) \in Nat, NEW n
  PROVE  n \in LinesOf(k) <=>
           n \in 1..(k - 1) /\ \A b \in n..(k - 1) : lines[b] # "blank"
  <1>1. ASSUME NEW b \in n..(k - 1), n \in 1..(k - 1)
        PROVE  b \in Blanks <=> lines[b] = "blank"
    <2>1. b \in 1..Len(lines)
      BY <1>1
    <2>2. QED
      BY <2>1 DEF Blanks
  <1>2. ASSUME n \in LinesOf(k), NEW b \in n..(k - 1) PROVE lines[b] # "blank"
    <2>1. n \in 1..(k - 1)
      BY <1>2 DEF LinesOf
    <2>2. n <= b /\ b < k /\ b \in Int
      BY <1>2, <2>1
    <2>3. b \notin Blanks
      BY <1>2, <2>1, <2>2 DEF LinesOf
    <2>4. QED
      BY <1>1, <1>2, <2>1, <2>3
  <1>3. ASSUME n \in 1..(k - 1), \A b \in n..(k - 1) : lines[b] # "blank"
        PROVE  n \in LinesOf(k)
    <2>1. ASSUME NEW b \in Blanks PROVE b < n \/ b >= k
      <3>1. b \in Nat /\ lines[b] = "blank"
        BY <2>1 DEF Blanks
      <3>2. b \notin n..(k - 1)
        BY <1>3, <3>1
      <3>3. QED
        BY <1>3, <3>1, <3>2
    <2>2. QED
      BY <1>3, <2>1 DEF LinesOf
  <1>4. n \in LinesOf(k) => n \in 1..(k - 1)
    BY DEF LinesOf
  <1>5. QED
    BY <1>2, <1>3, <1>4

\* Behind a blank line there is nothing yet.
LEMMA AfterBlank ==
  ASSUME NEW k \in Nat, Len(lines) \in Nat, k = 0 \/ (k <= Len(lines) /\ lines[k] = "blank")
  PROVE  WholeFrame(k + 1) = EmptyFrame
  <1>1. ASSUME NEW n \in LinesOf(k + 1) PROVE FALSE
    <2>1. n \in 1..k /\ \A b \in n..k : lines[b] # "blank"
      <3>1. k + 1 \in Nat /\ k + 1 <= Len(lines) + 1 /\ (k + 1) - 1 = k
        OBVIOUS
      <3>2. QED
        BY <1>1, <3>1, LinesOfAre
    <2>2. k \in n..k /\ k # 0
      BY <2>1
    <2>3. QED
      BY <2>1, <2>2
  <1>2. LinesOf(k + 1) = {}
    BY <1>1
  <1>3. QED
    BY <1>2 DEF WholeFrame, TypeOf, HasLine, Payload, EmptyFrame

\* A line that is not blank is one more of the frame.
LEMMA OneMoreLine ==
  ASSUME NEW k \in Nat, k >= 1, k <= Len(lines), Len(lines) \in Nat, lines[k] # "blank"
  PROVE  LinesOf(k + 1) = LinesOf(k) \cup {k}
  <1>1. k + 1 \in Nat /\ k + 1 <= Len(lines) + 1 /\ (k + 1) - 1 = k /\ k <= Len(lines) + 1
    OBVIOUS
  <1>2. ASSUME NEW n
        PROVE  n \in LinesOf(k + 1) <=> n \in LinesOf(k) \/ n = k
    <2>1. n \in LinesOf(k + 1) <=> n \in 1..k /\ \A b \in n..k : lines[b] # "blank"
      BY <1>1, LinesOfAre
    <2>2. n \in LinesOf(k) <=> n \in 1..(k - 1) /\ \A b \in n..(k - 1) : lines[b] # "blank"
      BY <1>1, LinesOfAre
    <2>3. CASE n = k
      <3>1. n \in 1..k /\ \A b \in n..k : b = k
        BY <2>3
      <3>2. QED
        BY <2>1, <2>3, <3>1
    <2>4. CASE n # k
      <3>1. n \in 1..k <=> n \in 1..(k - 1)
        BY <2>4
      <3>2. n \in 1..k => (\A b : b \in n..k <=> b \in n..(k - 1) \/ b = k)
        OBVIOUS
      <3>3. QED
        BY <2>1, <2>2, <2>4, <3>1, <3>2
    <2>5. QED
      BY <2>3, <2>4
  <1>3. QED
    BY <1>2

\* consumeField adds the line to the frame.
LEMMA FrameGrows ==
  ASSUME NEW k \in Nat, k >= 1, k <= Len(lines), lines \in Seq(Lines), lines[k] # "blank"
  PROVE  ConsumeField(WholeFrame(k), k) = WholeFrame(k + 1)
  <1> DEFINE Named(j) == { n \in LinesOf(j) : lines[n] \in EventLines }
             LastOf(S) == CHOOSE n \in S : \A m \in S : m <= n
  <1>1. Len(lines) \in Nat /\ lines[k] \in Lines
    BY LenProperties
  <1>2. LinesOf(k + 1) = LinesOf(k) \cup {k}
    BY <1>1, OneMoreLine
  <1>3. \A n \in LinesOf(k) : n \in Nat /\ n < k
    BY DEF LinesOf
  <1>4. /\ TypeOf(k) = IF Named(k) = {} THEN "none" ELSE lines[LastOf(Named(k))]
        /\ TypeOf(k + 1) = IF Named(k + 1) = {} THEN "none" ELSE lines[LastOf(Named(k + 1))]
    BY DEF TypeOf
  <1>5. lines[k] \in EventLines => TypeOf(k + 1) = lines[k]
    <2>1. SUFFICES ASSUME lines[k] \in EventLines PROVE TypeOf(k + 1) = lines[k]
      OBVIOUS
    <2>2. k \in Named(k + 1) /\ \A m \in Named(k + 1) : m \in Nat /\ m <= k
      BY <1>2, <1>3, <2>1
    <2> HIDE DEF Named
    <2>3. LastOf(Named(k + 1)) \in Named(k + 1) /\ \A m \in Named(k + 1) : m <= LastOf(Named(k + 1))
      BY <2>2, Zenon
    <2> HIDE DEF LastOf
    <2>4. LastOf(Named(k + 1)) = k
      BY <2>2, <2>3
    <2>5. QED
      BY <1>4, <2>2, <2>4
  <1>6. lines[k] \notin EventLines => TypeOf(k + 1) = TypeOf(k)
    <2>1. SUFFICES ASSUME lines[k] \notin EventLines PROVE TypeOf(k + 1) = TypeOf(k)
      OBVIOUS
    <2>2. Named(k + 1) = Named(k)
      BY <1>2, <2>1
    <2> HIDE DEF Named, LastOf
    <2>3. QED
      BY <1>4, <2>2
  <1>7. Payload(k + 1) = IF lines[k] \in DataLines THEN Payload(k) \cup {k} ELSE Payload(k)
    BY <1>2 DEF Payload
  <1>8. HasLine(k + 1, "id") = (HasLine(k, "id") \/ lines[k] = "id")
    BY <1>2 DEF HasLine
  <1> HIDE DEF Named, LastOf
  <1> DEFINE f == WholeFrame(k)
  <1>9. f = [type |-> TypeOf(k), id |-> HasLine(k, "id"), data |-> Payload(k)]
    BY DEF WholeFrame
  <1>10. WholeFrame(k + 1) =
           [type |-> TypeOf(k + 1), id |-> HasLine(k + 1, "id"), data |-> Payload(k + 1)]
    BY DEF WholeFrame
  <1> HIDE DEF f
  <1>11. CASE lines[k] \in EventLines
    <2>1. /\ lines[k] \notin DataLines /\ lines[k] # "id"
          /\ ConsumeField(f, k) = [f EXCEPT !.type = lines[k]]
      BY <1>11 DEF ConsumeField, EventLines, DataLines
    <2>2. ConsumeField(f, k) = [type |-> lines[k], id |-> HasLine(k, "id"), data |-> Payload(k)]
      BY <1>9, <2>1
    <2>3. HasLine(k + 1, "id") = HasLine(k, "id")
      BY <1>8, <1>11, <2>1 DEF HasLine
    <2>4. Payload(k + 1) = Payload(k) /\ TypeOf(k + 1) = lines[k]
      BY <1>5, <1>6, <1>7, <1>11, <2>1
    <2>5. QED
      BY <1>10, <2>2, <2>3, <2>4, Zenon DEF f
  <1>12. CASE lines[k] \in DataLines
    <2>1. /\ lines[k] \notin EventLines /\ lines[k] # "id"
          /\ ConsumeField(f, k) = [f EXCEPT !.data = @ \cup {k}]
      BY <1>12 DEF ConsumeField, EventLines, DataLines
    <2>2. ConsumeField(f, k) = [type |-> TypeOf(k), id |-> HasLine(k, "id"), data |-> Payload(k) \cup {k}]
      BY <1>9, <2>1
    <2>3. HasLine(k + 1, "id") = HasLine(k, "id")
      BY <1>8, <1>12, <2>1 DEF HasLine
    <2>4. Payload(k + 1) = Payload(k) \cup {k} /\ TypeOf(k + 1) = TypeOf(k)
      BY <1>5, <1>6, <1>7, <1>12, <2>1
    <2>5. QED
      BY <1>10, <2>2, <2>3, <2>4, Zenon DEF f
  <1>13. CASE lines[k] = "id"
    <2>1. /\ lines[k] \notin EventLines /\ lines[k] \notin DataLines
          /\ ConsumeField(f, k) = [f EXCEPT !.id = TRUE]
      BY <1>13 DEF ConsumeField, EventLines, DataLines
    <2>2. ConsumeField(f, k) = [type |-> TypeOf(k), id |-> TRUE, data |-> Payload(k)]
      BY <1>9, <2>1
    <2>3. HasLine(k + 1, "id") = TRUE
      BY <1>8, <1>13, <2>1 DEF HasLine
    <2>4. Payload(k + 1) = Payload(k) /\ TypeOf(k + 1) = TypeOf(k)
      BY <1>5, <1>6, <1>7, <1>13, <2>1
    <2>5. QED
      BY <1>10, <2>2, <2>3, <2>4, Zenon DEF f
  <1>14. CASE lines[k] = "comment"
    <2>1. /\ lines[k] \notin EventLines /\ lines[k] \notin DataLines /\ lines[k] # "id"
          /\ ConsumeField(f, k) = f
      BY <1>14 DEF ConsumeField, EventLines, DataLines
    <2>2. ConsumeField(f, k) = [type |-> TypeOf(k), id |-> HasLine(k, "id"), data |-> Payload(k)]
      BY <1>9, <2>1
    <2>3. HasLine(k + 1, "id") = HasLine(k, "id")
      BY <1>8, <1>14, <2>1 DEF HasLine
    <2>4. Payload(k + 1) = Payload(k) /\ TypeOf(k + 1) = TypeOf(k)
      BY <1>5, <1>6, <1>7, <1>14, <2>1
    <2>5. QED
      BY <1>10, <2>2, <2>3, <2>4, Zenon DEF f
  <1>15. QED
    BY <1>1, <1>11, <1>12, <1>13, <1>14 DEF Lines

\* What has arrived stays, and with it every frame up to there.
Arriving ==
    /\ lines \in Seq(Lines) /\ lines' \in Seq(Lines) /\ Len(lines) <= Len(lines')
    /\ \A i \in 1..Len(lines) : lines'[i] = lines[i]
    /\ consumer' = consumer

LEMMA FramesKeep ==
  ASSUME Arriving, NEW k \in Nat, k <= Len(lines) + 1
  PROVE  /\ WholeFrame(k)' = WholeFrame(k)
         /\ Fails(WholeFrame(k))' <=> Fails(WholeFrame(k))
         /\ Wanted(k)' <=> Wanted(k)
         /\ Handed(k)' = Handed(k)
         /\ k \in 1..Len(lines) => (k \in Blanks' <=> k \in Blanks)
  <1>1. Len(lines) \in Nat /\ Len(lines') \in Nat /\ Len(lines) <= Len(lines')
    BY LenProperties DEF Arriving
  <1>2. ASSUME NEW b \in 1..Len(lines) PROVE b \in Blanks' <=> b \in Blanks
    BY <1>1 DEF Arriving, Blanks
  <1>3. \A b \in Blanks' : b \in Nat /\ b >= 1
    BY <1>1 DEF Blanks
  <1>4. \A b \in Blanks : b \in Nat /\ b >= 1
    BY <1>1 DEF Blanks
  <1>5. \A b \in Nat : b >= 1 /\ b < k => (b \in Blanks' <=> b \in Blanks)
    BY <1>1, <1>2
  <1>6. LinesOf(k)' = LinesOf(k)
    <2>1. ASSUME NEW n \in 1..(k - 1)
          PROVE  (\A b \in Blanks' : b < n \/ b >= k) <=> (\A b \in Blanks : b < n \/ b >= k)
      BY <1>3, <1>4, <1>5
    <2>2. QED
      BY <2>1 DEF LinesOf
  <1>7. \A n \in LinesOf(k) : n \in 1..Len(lines) /\ lines'[n] = lines[n]
    BY <1>1 DEF LinesOf, Arriving
  <1>8. Payload(k)' = Payload(k)
    BY <1>6, <1>7 DEF Payload
  <1>9. HasLine(k, "id")' = HasLine(k, "id")
    BY <1>6, <1>7 DEF HasLine
  <1>10. TypeOf(k)' = TypeOf(k)
    <2> DEFINE Named == { n \in LinesOf(k) : lines[n] \in EventLines }
               last == CHOOSE n \in Named : \A m \in Named : m <= n
    <2>1. TypeOf(k) = IF Named = {} THEN "none" ELSE lines[last]
      BY DEF TypeOf
    <2> DEFINE NamedNow == { n \in LinesOf(k)' : lines'[n] \in EventLines }
    <2>2. NamedNow = Named
      BY <1>6, <1>7
    <2>3. TypeOf(k)' = IF Named = {} THEN "none" ELSE lines'[last]
      <3>1. TypeOf(k)' = IF NamedNow = {} THEN "none"
                         ELSE lines'[CHOOSE n \in NamedNow : \A m \in NamedNow : m <= n]
        BY DEF TypeOf
      <3> HIDE DEF Named, NamedNow
      <3>2. QED
        BY <2>2, <3>1, Zenon
    <2>4. Named # {} => last \in Named
      <3>1. Named \in SUBSET (1..Len(lines))
        BY <1>7
      <3> HIDE DEF Named
      <3>2. Named # {} => \E n \in Named : \A m \in Named : m <= n
        BY <1>1, <3>1, LastExists
      <3>3. QED
        BY <3>2, Zenon
    <2>5. Named # {} => lines'[last] = lines[last]
      <3> HIDE DEF last
      <3>1. QED
        BY <1>7, <2>4
    <2> HIDE DEF Named, last
    <2>6. QED
      BY <2>1, <2>3, <2>5
  <1>11. WholeFrame(k)' = WholeFrame(k)
    BY <1>8, <1>9, <1>10 DEF WholeFrame
  <1>12. Fails(WholeFrame(k))' <=> Fails(WholeFrame(k))
    <2>1. \A n \in WholeFrame(k).data : lines'[n] = lines[n]
      BY <1>7 DEF WholeFrame, Payload
    <2>2. QED
      BY <1>11, <2>1 DEF Fails
  <1>13. Skipped(WholeFrame(k))' <=> Skipped(WholeFrame(k))
    BY <1>11 DEF Skipped
  <1>14. consumer' = consumer
    BY DEF Arriving
  <1>15. Wanted(k)' <=> Wanted(k)
    BY <1>11, <1>12, <1>13, <1>14 DEF Wanted
  <1>16. Handed(k)' = Handed(k)
    BY <1>11, <1>14 DEF Handed
  <1>17. QED
    BY <1>2, <1>11, <1>12, <1>15, <1>16

-----------------------------------------------------------------------------
(* Steps, by what they do to the frames that have been handed over.         *)

LEMMA InitIInv == Init => IInv
  <1> SUFFICES ASSUME Init PROVE IInv
    OBVIOUS
  <1>1. lines = << >> /\ Len(lines) = 0 /\ lines \in Seq(Lines)
    BY DEF Init
  <1>2. TypeOK
    <2>1. frame \in Frame /\ items \subseteq Item
      BY DEF Init, EmptyFrame, Frame, EventLines
    <2>2. Len(lines) <= MaxLines /\ read \in 0..Len(lines)
      BY <1>1, EventStreamAssumption DEF Init
    <2>3. consumer \in {"stream", "renderer"} /\ wire = "open" /\ ctx = "live" /\ pc = "idle"
      BY DEF Init
    <2>4. done \in BOOLEAN /\ closed \in BOOLEAN /\ err \in Errors /\ body \in {"owned", "nil"}
      BY DEF Init, Errors
    <2>5. QED
      BY <1>1, <2>1, <2>2, <2>3, <2>4 DEF TypeOK
  <1>3. WholeFrame(read + 1) = EmptyFrame
    BY <1>1, AfterBlank DEF Init
  <1>4. FrameInv
    BY <1>3 DEF Init, FrameInv
  <1>5. Handled = {}
    BY <1>1 DEF Handled, Blanks
  <1>6. ItemsInv
    BY <1>5 DEF Init, ItemsInv, Out
  <1>7. EndInv
    BY <1>1, <1>5 DEF Init, EndInv
  <1>8. QED
    BY <1>2, <1>4, <1>6, <1>7 DEF IInv

LEMMA ReadIsANumber ==
  ASSUME TypeOK
  PROVE  /\ lines \in Seq(Lines) /\ Len(lines) \in Nat /\ read \in Nat /\ read <= Len(lines)
         /\ \A k \in Handled : k \in 1..Len(lines) /\ k \in Nat /\ k <= read
  <1>1. lines \in Seq(Lines) /\ Len(lines) \in Nat
    BY LenProperties DEF TypeOK
  <1>2. read \in Nat /\ read <= Len(lines)
    BY <1>1 DEF TypeOK
  <1>3. QED
    BY <1>1, <1>2 DEF Handled, Blanks

\* A step between two frames hands nothing over.
LEMMA HandedKeep ==
  ASSUME IInv, Arriving, UNCHANGED <<read, items>>,
         pc' = "dispatch" <=> pc = "dispatch", err' = "write" <=> err = "write"
  PROVE  ItemsInv' /\ Handled' = Handled
  <1>1. /\ Len(lines) \in Nat /\ read \in Nat /\ read <= Len(lines)
        /\ \A k \in Handled : k \in 1..Len(lines) /\ k \in Nat /\ k <= read
    BY ReadIsANumber DEF IInv
  <1>2. Len(lines') \in Nat /\ Len(lines) <= Len(lines')
    BY LenProperties DEF Arriving
  <1>3. ASSUME NEW k PROVE k \in Handled' <=> k \in Handled
    <2>1. k \in Handled' => k \in Nat /\ k <= read /\ k >= 1
      BY <1>1, <1>2 DEF Handled, Blanks
    <2>2. k \in Nat /\ k <= read /\ k >= 1 => (k \in Blanks' <=> k \in Blanks)
      BY <1>1, FramesKeep
    <2>3. QED
      BY <1>1, <2>1, <2>2 DEF Handled
  <1>4. \A k \in Handled : (Wanted(k)' <=> Wanted(k)) /\ Handed(k)' = Handed(k)
    BY <1>1, FramesKeep
  <1>5. \A k : k \in Out' <=> k \in Out
    BY <1>3, <1>4 DEF Out
  <1>6. \A k \in Out : Handed(k)' = Handed(k)
    BY <1>4 DEF Out
  <1>7. ItemsInv'
    BY <1>5, <1>6 DEF IInv, ItemsInv
  <1>8. QED
    BY <1>3, <1>7

\* Steps that neither scan nor take a frame: what they have to do to the rest.
LEMMA QuietKeeps ==
  ASSUME IInv, TypeOK', Arriving, UNCHANGED <<read, items>>,
         pc' = "dispatch" <=> pc = "dispatch", err' = "write" <=> err = "write",
         pc' # "idle" => ~done' /\ err' = "nil",
         pc' = "scan" => frame' = WholeFrame(read + 1),
         pc' = "dispatch" => frame' = frame,
         pc' \in {"idle", "loop"} /\ ~done' =>
           frame' = EmptyFrame /\ WholeFrame(read + 1) = EmptyFrame,
         closed' => done',
         done' /\ err' = "nil" /\ ~closed' => wire' = "eof" /\ read = Len(lines'),
         err' = "nil" => err = "nil"
  PROVE  IInv'
  <1>1. ItemsInv' /\ Handled' = Handled
    BY HandedKeep
  <1>2. /\ Len(lines) \in Nat /\ read \in Nat /\ read <= Len(lines)
        /\ \A k \in Handled : k \in Nat /\ k <= read
    BY ReadIsANumber DEF IInv
  <1>3. WholeFrame(read + 1)' = WholeFrame(read + 1) /\ WholeFrame(read)' = WholeFrame(read)
    <2>1. \A k \in Nat : k <= Len(lines) + 1 => WholeFrame(k)' = WholeFrame(k)
      BY FramesKeep
    <2>2. QED
      BY <1>2, <2>1
  <1>4. \A k \in Handled : Fails(WholeFrame(k))' <=> Fails(WholeFrame(k))
    BY <1>2, FramesKeep
  <1>5. FrameInv'
    <2>1. pc' = "dispatch" => /\ read' \in 1..Len(lines') /\ lines'[read'] = "blank"
                              /\ frame' = WholeFrame(read) /\ frame' # EmptyFrame
      <3>1. Len(lines') \in Nat /\ Len(lines) <= Len(lines')
        BY LenProperties DEF Arriving
      <3>2. QED
        BY <1>2, <3>1 DEF IInv, FrameInv, Arriving
    <2>2. QED
      BY <1>3, <2>1 DEF FrameInv
  <1>6. EndInv'
    <2>1. consumer' = "stream" /\ err' = "nil" => \A k \in Handled' : ~Fails(WholeFrame(k))'
      BY <1>1, <1>4 DEF IInv, EndInv, Arriving
    <2>2. err' = "write" => consumer' = "renderer"
      BY DEF IInv, EndInv, Arriving
    <2>3. QED
      BY <2>1, <2>2 DEF EndInv
  <1>7. QED
    BY <1>1, <1>5, <1>6 DEF IInv

LEMMA NothingArrives ==
  ASSUME TypeOK, UNCHANGED <<consumer, lines>>
  PROVE  Arriving
  BY LenProperties DEF TypeOK, Arriving

LEMMA SendLineQuiet == IInv /\ SendLine => IInv'
  <1> SUFFICES ASSUME IInv, SendLine PROVE IInv'
    OBVIOUS
  <1>1. PICK l \in Lines : lines' = Append(lines, l)
    BY DEF SendLine
  <1>2. lines \in Seq(Lines) /\ Len(lines) \in Nat /\ read \in Nat /\ read <= Len(lines)
    BY ReadIsANumber DEF IInv
  <1>3. /\ lines' \in Seq(Lines) /\ Len(lines') = Len(lines) + 1
        /\ \A i \in 1..Len(lines) : lines'[i] = lines[i]
    BY <1>1, <1>2, AppendProperties
  <1>4. Arriving
    BY <1>2, <1>3 DEF SendLine, Arriving
  <1>5. UNCHANGED <<consumer, wire, ctx, read, frame, pc, done, err, body, closed, items>>
    BY DEF SendLine, streamVars
  <1>6. TypeOK'
    <2>1. Len(lines') <= MaxLines
      BY <1>2, <1>3, EventStreamAssumption DEF SendLine
    <2>2. read' \in 0..Len(lines')
      BY <1>2, <1>3, <1>5
    <2>3. QED
      BY <1>3, <1>5, <2>1, <2>2 DEF IInv, TypeOK
  <1>7. wire = "open"
    BY DEF SendLine
  <1>8. QED
    BY <1>4, <1>5, <1>6, <1>7, QuietKeeps DEF IInv, FrameInv, EndInv

LEMMA EndsQuiet ==
  ASSUME IInv, EndContext \/ (\E how \in {"eof", "cut"} : EndBody(how)) \/ UNCHANGED vars
  PROVE  IInv'
  <1>1. UNCHANGED <<consumer, lines, read, frame, pc, done, err, body, closed, items>>
    BY DEF EndContext, EndBody, serverVars, streamVars, vars
  <1>2. Arriving
    BY <1>1, NothingArrives DEF IInv
  <1>3. wire' = wire \/ (wire = "open" /\ wire' \in {"eof", "cut"})
    BY DEF EndContext, EndBody, serverVars, vars
  <1>4. ctx' = ctx \/ ctx' = "ended"
    BY DEF EndContext, EndBody, vars
  <1>5. TypeOK'
    BY <1>1, <1>3, <1>4 DEF IInv, TypeOK
  <1>6. QED
    BY <1>1, <1>2, <1>3, <1>5, QuietKeeps DEF IInv, FrameInv, EndInv

LEMMA CallNextQuiet == IInv /\ CallNext => IInv'
  <1> SUFFICES ASSUME IInv, CallNext PROVE IInv'
    OBVIOUS
  <1>1. UNCHANGED <<consumer, lines, wire, ctx, read, frame, done, err, body, closed, items>>
    BY DEF CallNext, serverVars, streamVars
  <1>2. pc = "idle" /\ ~done /\ err = "nil" /\ pc' \in {"loop", "scan"}
    BY DEF CallNext
  <1>3. Arriving
    BY <1>1, NothingArrives DEF IInv
  <1>4. TypeOK'
    BY <1>1, <1>2 DEF IInv, TypeOK
  <1>5. frame = EmptyFrame /\ WholeFrame(read + 1) = EmptyFrame
    BY <1>2 DEF IInv, FrameInv
  <1>6. closed => done
    BY DEF IInv, EndInv
  <1>7. QED
    BY <1>1, <1>2, <1>3, <1>4, <1>5, <1>6, QuietKeeps

LEMMA CheckContextQuiet == IInv /\ CheckContext => IInv'
  <1> SUFFICES ASSUME IInv, CheckContext PROVE IInv'
    OBVIOUS
  <1>1. UNCHANGED <<consumer, lines, wire, ctx, read, frame, body, closed, items>>
    BY DEF CheckContext, serverVars
  <1>2. pc = "loop" /\ ~done /\ err = "nil"
    BY DEF CheckContext, IInv, FrameInv
  <1>3. \/ pc' = "idle" /\ done' = TRUE /\ err' = "ctx"
        \/ pc' = "scan" /\ done' = done /\ err' = err
    BY DEF CheckContext
  <1>4. Arriving
    BY <1>1, NothingArrives DEF IInv
  <1>5. TypeOK'
    BY <1>1, <1>3 DEF IInv, TypeOK, Errors
  <1>6. frame = EmptyFrame /\ WholeFrame(read + 1) = EmptyFrame
    BY <1>2 DEF IInv, FrameInv
  <1>7. closed => done
    BY DEF IInv, EndInv
  <1>8. QED
    BY <1>1, <1>2, <1>3, <1>4, <1>5, <1>6, <1>7, QuietKeeps

LEMMA ScanEndsQuiet == IInv /\ ScanEnds => IInv'
  <1> SUFFICES ASSUME IInv, ScanEnds PROVE IInv'
    OBVIOUS
  <1>1. UNCHANGED <<consumer, lines, wire, ctx, read, body, closed, items>>
    BY DEF ScanEnds, serverVars
  <1>2. pc = "scan" /\ ~done /\ err = "nil"
    BY DEF ScanEnds, IInv, FrameInv
  <1>3. /\ pc' = "idle" /\ done' = TRUE /\ frame' = EmptyFrame /\ read = Len(lines)
        /\ wire # "open" /\ err' = IF wire = "cut" THEN "read" ELSE "nil"
    BY DEF ScanEnds
  <1>4. Arriving
    BY <1>1, NothingArrives DEF IInv
  <1>5. EmptyFrame \in Frame
    BY DEF EmptyFrame, Frame, EventLines
  <1>6. TypeOK'
    BY <1>1, <1>3, <1>5 DEF IInv, TypeOK, Errors
  <1>7. err' = "nil" => wire' = "eof"
    BY <1>1, <1>3 DEF IInv, TypeOK
  <1>8. QED
    BY <1>1, <1>2, <1>3, <1>4, <1>6, <1>7, QuietKeeps

LEMMA CloseQuiet == IInv /\ Close => IInv'
  <1> SUFFICES ASSUME IInv, Close PROVE IInv'
    OBVIOUS
  <1>1. UNCHANGED <<consumer, lines, ctx, read, frame, pc, err, items>>
    BY DEF Close
  <1>2. /\ pc = "idle" /\ done' = TRUE /\ body' = "nil" /\ closed' = TRUE
        /\ wire' = wire \/ wire' = "cut"
    BY DEF Close
  <1>3. Arriving
    BY <1>1, NothingArrives DEF IInv
  <1>4. TypeOK'
    BY <1>1, <1>2 DEF IInv, TypeOK
  <1>5. QED
    BY <1>1, <1>2, <1>3, <1>4, QuietKeeps

-----------------------------------------------------------------------------
(* The steps that take a frame, and the one that builds it.                 *)

\* A frame that is taken is handled, and goes where it has to go.
LEMMA DispatchKeeps ==
  ASSUME IInv, TypeOK', pc = "dispatch", pc' \in {"idle", "loop", "scan"},
         UNCHANGED <<consumer, lines, wire, read, closed>>, frame' = EmptyFrame,
         items' = IF Wanted(read) /\ err' # "write" THEN items \cup {Handed(read)} ELSE items,
         done' => err' # "nil",
         pc' # "idle" => ~done' /\ err' = "nil",
         err' = "write" => consumer = "renderer",
         consumer = "stream" /\ err' = "nil" => ~Fails(WholeFrame(read)),
         closed' => done'
  PROVE  IInv'
  <1>1. /\ lines \in Seq(Lines) /\ Len(lines) \in Nat /\ read \in Nat /\ read <= Len(lines)
        /\ \A k \in Handled : k \in 1..Len(lines) /\ k \in Nat /\ k <= read
    BY ReadIsANumber DEF IInv
  <1>2. /\ read \in 1..Len(lines) /\ lines[read] = "blank" /\ err = "nil"
    BY DEF IInv, FrameInv
  <1>3. Arriving
    BY NothingArrives DEF IInv
  <1>4. Handled' = Handled \cup {read}
    BY <1>1, <1>2 DEF Handled, Blanks
  <1>5. read \notin Handled
    BY <1>1 DEF Handled
  <1>6. \A k \in Handled' : /\ Wanted(k)' <=> Wanted(k)
                            /\ Handed(k)' = Handed(k)
                            /\ Fails(WholeFrame(k))' <=> Fails(WholeFrame(k))
    BY <1>1, <1>2, <1>3, <1>4, FramesKeep
  <1>7. \A k : k \in Out <=> k \in Handled /\ Wanted(k)
    BY <1>2 DEF Out
  <1>8. \A k : k \in Out' <=> \/ k \in Out
                              \/ k = read /\ Wanted(read) /\ err' # "write"
    BY <1>4, <1>5, <1>6, <1>7 DEF Out
  <1>9. ItemsInv'
    <2>1. \A k \in Out' : Handed(k)' = Handed(k)
      BY <1>4, <1>6 DEF Out
    <2>2. items = { Handed(k) : k \in Out }
      BY DEF IInv, ItemsInv
    <2>3. items' = { Handed(k)' : k \in Out' }
      BY <1>8, <2>1, <2>2
    <2>4. QED
      BY <2>3 DEF ItemsInv
  <1>10. WholeFrame(read + 1)' = EmptyFrame
    <2>1. WholeFrame(read + 1) = EmptyFrame
      BY <1>1, <1>2, AfterBlank
    <2>2. \A k \in Nat : k <= Len(lines) + 1 => WholeFrame(k)' = WholeFrame(k)
      BY <1>3, FramesKeep
    <2>3. QED
      BY <1>1, <2>1, <2>2
  <1>11. FrameInv'
    BY <1>10 DEF FrameInv
  <1>12. EndInv'
    <2>1. consumer' = "stream" /\ err' = "nil" => \A k \in Handled' : ~Fails(WholeFrame(k))'
      BY <1>2, <1>4, <1>6 DEF IInv, EndInv
    <2>2. QED
      BY <2>1 DEF EndInv
  <1>13. QED
    BY <1>9, <1>11, <1>12 DEF IInv

\* What is taken is a frame, and so is what becomes of it.
LEMMA TakenIsTyped ==
  ASSUME TypeOK, pc = "dispatch", read \in 1..Len(lines)
  PROVE  /\ [end |-> read, frame |-> frame] \in Item
         /\ [end |-> read, frame |-> [EmptyFrame EXCEPT !.data = frame.data]] \in Item
         /\ EmptyFrame \in Frame
  <1>1. Len(lines) \in Nat /\ Len(lines) <= MaxLines /\ frame \in Frame
    BY LenProperties DEF TypeOK
  <1>2. read \in Positions
    BY <1>1, EventStreamAssumption DEF Positions
  <1>3. EmptyFrame \in Frame
    BY DEF EmptyFrame, Frame, EventLines
  <1>4. [EmptyFrame EXCEPT !.data = frame.data] \in Frame
    BY <1>1, <1>3 DEF Frame
  <1>5. QED
    BY <1>1, <1>2, <1>3, <1>4 DEF Item

LEMMA SkipKeeps == IInv /\ Skip => IInv'
  <1> SUFFICES ASSUME IInv, Skip PROVE IInv'
    OBVIOUS
  <1>1. UNCHANGED <<consumer, lines, wire, ctx, read, done, err, body, closed, items>>
    BY DEF Skip, serverVars, streamVars
  <1>2. /\ pc = "dispatch" /\ consumer = "stream" /\ pc' = "loop" /\ frame' = EmptyFrame
        /\ Skipped(frame)
    BY DEF Skip
  <1>3. /\ frame = WholeFrame(read) /\ ~done /\ err = "nil" /\ read \in 1..Len(lines)
        /\ closed => done
    BY <1>2 DEF IInv, FrameInv, EndInv
  <1>4. TypeOK'
    BY <1>1, <1>2, <1>3, TakenIsTyped DEF IInv, TypeOK
  <1>5. ~Wanted(read)
    BY <1>2, <1>3 DEF Wanted
  <1>6. ~Fails(WholeFrame(read))
    BY <1>2, <1>3 DEF Skipped, Fails
  <1>7. QED
    BY <1>1, <1>2, <1>3, <1>4, <1>5, <1>6, DispatchKeeps

LEMMA FailKeeps == IInv /\ Fail => IInv'
  <1> SUFFICES ASSUME IInv, Fail PROVE IInv'
    OBVIOUS
  <1>1. UNCHANGED <<consumer, lines, wire, ctx, read, body, closed, items>>
    BY DEF Fail, serverVars
  <1>2. /\ pc = "dispatch" /\ consumer = "stream" /\ pc' = "idle" /\ frame' = EmptyFrame
        /\ Fails(frame) /\ done' = TRUE /\ err' \in {"server", "decode"}
    BY DEF Fail
  <1>3. /\ frame = WholeFrame(read) /\ read \in 1..Len(lines)
    BY <1>2 DEF IInv, FrameInv
  <1>4. TypeOK'
    BY <1>1, <1>2, <1>3, TakenIsTyped DEF IInv, TypeOK, Errors
  <1>5. ~Wanted(read)
    BY <1>2, <1>3 DEF Wanted
  <1>6. QED
    BY <1>1, <1>2, <1>3, <1>4, <1>5, DispatchKeeps

LEMMA YieldKeeps == IInv /\ Yield => IInv'
  <1> SUFFICES ASSUME IInv, Yield PROVE IInv'
    OBVIOUS
  <1>1. UNCHANGED <<consumer, lines, wire, ctx, read, done, err, body, closed>>
    BY DEF Yield, serverVars
  <1>2. /\ pc = "dispatch" /\ consumer = "stream" /\ pc' = "idle" /\ frame' = EmptyFrame
        /\ ~Skipped(frame) /\ ~Fails(frame)
        /\ items' = items \cup {[end |-> read, frame |-> [EmptyFrame EXCEPT !.data = frame.data]]}
    BY DEF Yield
  <1>3. /\ frame = WholeFrame(read) /\ ~done /\ err = "nil" /\ read \in 1..Len(lines)
        /\ closed => done
    BY <1>2 DEF IInv, FrameInv, EndInv
  <1>4. TypeOK'
    BY <1>1, <1>2, <1>3, TakenIsTyped DEF IInv, TypeOK
  <1>5. Wanted(read)
    BY <1>2, <1>3 DEF Wanted
  <1>6. items' = items \cup {Handed(read)}
    BY <1>2, <1>3 DEF Handed
  <1>7. QED
    BY <1>1, <1>2, <1>3, <1>4, <1>5, <1>6, DispatchKeeps

LEMMA RenderKeeps == IInv /\ Render => IInv'
  <1> SUFFICES ASSUME IInv, Render PROVE IInv'
    OBVIOUS
  <1>1. UNCHANGED <<consumer, lines, wire, ctx, read, done, err, body, closed>>
    BY DEF Render, serverVars
  <1>2. /\ pc = "dispatch" /\ consumer = "renderer" /\ pc' = "scan" /\ frame' = EmptyFrame
        /\ items' = items \cup {[end |-> read, frame |-> frame]}
    BY DEF Render
  <1>3. /\ frame = WholeFrame(read) /\ frame # EmptyFrame /\ ~done /\ err = "nil"
        /\ read \in 1..Len(lines) /\ (closed => done)
    BY <1>2 DEF IInv, FrameInv, EndInv
  <1>4. TypeOK'
    BY <1>1, <1>2, <1>3, TakenIsTyped DEF IInv, TypeOK
  <1>5. Wanted(read)
    BY <1>2, <1>3 DEF Wanted
  <1>6. items' = items \cup {Handed(read)}
    BY <1>2, <1>3 DEF Handed
  <1>7. QED
    BY <1>1, <1>2, <1>3, <1>4, <1>5, <1>6, DispatchKeeps

LEMMA RenderFailsKeeps == IInv /\ RenderFails => IInv'
  <1> SUFFICES ASSUME IInv, RenderFails PROVE IInv'
    OBVIOUS
  <1>1. UNCHANGED <<consumer, lines, wire, ctx, read, body, closed, items>>
    BY DEF RenderFails, serverVars
  <1>2. /\ pc = "dispatch" /\ consumer = "renderer" /\ pc' = "idle" /\ frame' = EmptyFrame
        /\ done' = TRUE /\ err' = "write"
    BY DEF RenderFails
  <1>3. read \in 1..Len(lines)
    BY <1>2 DEF IInv, FrameInv
  <1>4. TypeOK'
    BY <1>1, <1>2, <1>3, TakenIsTyped DEF IInv, TypeOK, Errors
  <1>5. QED
    BY <1>1, <1>2, <1>4, DispatchKeeps

LEMMA FieldIsTyped ==
  ASSUME NEW f \in Frame, NEW n \in Positions, lines[n] \in Lines, lines[n] # "blank"
  PROVE  ConsumeField(f, n) \in Frame
  <1>1. CASE lines[n] \in EventLines
    <2>1. ConsumeField(f, n) = [f EXCEPT !.type = lines[n]]
      BY <1>1 DEF ConsumeField, EventLines, DataLines
    <2>2. QED
      BY <1>1, <2>1 DEF Frame
  <1>2. CASE lines[n] \in DataLines
    <2>1. ConsumeField(f, n) = [f EXCEPT !.data = @ \cup {n}]
      BY <1>2 DEF ConsumeField, EventLines, DataLines
    <2>2. f.data \cup {n} \in SUBSET Positions
      BY DEF Frame
    <2>3. QED
      BY <2>1, <2>2 DEF Frame
  <1>3. CASE lines[n] = "id"
    <2>1. ConsumeField(f, n) = [f EXCEPT !.id = TRUE]
      BY <1>3 DEF ConsumeField, EventLines, DataLines
    <2>2. QED
      BY <2>1 DEF Frame
  <1>4. CASE lines[n] = "comment"
    BY <1>4 DEF ConsumeField, EventLines, DataLines
  <1>5. QED
    BY <1>1, <1>2, <1>3, <1>4 DEF Lines

\* A scanned line adds to the frame, or ends one; between blank lines there is none.
LEMMA ScanLineKeeps == IInv /\ ScanLine => IInv'
  <1> SUFFICES ASSUME IInv, ScanLine PROVE IInv'
    OBVIOUS
  <1>1. UNCHANGED <<consumer, lines, wire, ctx, done, err, body, closed, items>>
    BY DEF ScanLine, serverVars, streamVars
  <1>2. pc = "scan" /\ read < Len(lines) /\ read' = read + 1
    BY DEF ScanLine
  <1>3. ~done /\ err = "nil" /\ frame = WholeFrame(read + 1) /\ ~closed
    BY <1>2 DEF IInv, FrameInv, EndInv
  <1>4. /\ lines \in Seq(Lines) /\ Len(lines) \in Nat /\ read \in Nat
        /\ read' \in Nat /\ read' >= 1 /\ read' <= Len(lines)
        /\ \A k \in Handled : k \in 1..Len(lines) /\ k \in Nat /\ k <= read
    BY <1>2, ReadIsANumber DEF IInv
  <1>5. lines[read'] \in Lines /\ read' \in 1..Len(lines) /\ read' \in Positions
    <2>1. Len(lines) <= MaxLines
      BY DEF IInv, TypeOK
    <2>2. QED
      BY <1>4, <2>1, EventStreamAssumption DEF Positions
  <1>6. Arriving
    BY <1>1, NothingArrives DEF IInv
  <1>7. \A k \in Nat : k <= Len(lines) + 1 => WholeFrame(k)' = WholeFrame(k)
    BY <1>6, FramesKeep
  <1>8. /\ WholeFrame(read + 1)' = WholeFrame(read' + 1)
        /\ WholeFrame(read)' = WholeFrame(read')
    BY <1>4, <1>7
  <1>9. /\ lines[read'] # "blank" => /\ frame' = ConsumeField(frame, read') /\ pc' = "scan"
        /\ lines[read'] = "blank" =>
             frame' = frame /\ pc' = IF frame = EmptyFrame THEN "scan" ELSE "dispatch"
    BY <1>1 DEF ScanLine, IsEmpty
  <1>10. TypeOK'
    <2>1. frame' \in Frame
      <3>1. frame \in Frame
        BY DEF IInv, TypeOK
      <3>2. \A n \in Positions : lines[n] \in Lines /\ lines[n] # "blank" =>
              ConsumeField(frame, n) \in Frame
        BY <3>1, FieldIsTyped
      <3>3. QED
        BY <1>5, <1>9, <3>1, <3>2
    <2>2. read' \in 0..Len(lines') /\ pc' \in {"scan", "dispatch"}
      BY <1>1, <1>4, <1>9
    <2>3. QED
      BY <1>1, <2>1, <2>2 DEF IInv, TypeOK
  <1>11. FrameInv'
    <2>1. CASE lines[read'] # "blank"
      <3>1. \A k \in Nat : k >= 1 /\ k <= Len(lines) /\ lines[k] # "blank" =>
              ConsumeField(WholeFrame(k), k) = WholeFrame(k + 1)
        BY <1>4, FrameGrows
      <3>2. frame' = WholeFrame(read' + 1)
        BY <1>2, <1>3, <1>4, <1>9, <2>1, <3>1
      <3>3. QED
        BY <1>1, <1>3, <1>8, <1>9, <2>1, <3>2 DEF FrameInv
    <2>2. CASE lines[read'] = "blank" /\ frame = EmptyFrame
      <3>1. \A k \in Nat : k <= Len(lines) /\ lines[k] = "blank" => WholeFrame(k + 1) = EmptyFrame
        BY <1>4, AfterBlank
      <3>2. WholeFrame(read' + 1) = EmptyFrame
        BY <1>4, <2>2, <3>1
      <3>3. QED
        BY <1>1, <1>3, <1>8, <1>9, <2>2, <3>2 DEF FrameInv
    <2>3. CASE lines[read'] = "blank" /\ frame # EmptyFrame
      <3>1. frame' = WholeFrame(read') /\ frame' # EmptyFrame
        BY <1>2, <1>3, <1>9, <2>3
      <3>2. QED
        BY <1>1, <1>3, <1>5, <1>8, <1>9, <2>3, <3>1 DEF FrameInv
    <2>4. QED
      BY <2>1, <2>2, <2>3
  <1>12. \A k \in 1..Len(lines) : /\ Wanted(k)' <=> Wanted(k)
                                  /\ Handed(k)' = Handed(k)
                                  /\ Fails(WholeFrame(k))' <=> Fails(WholeFrame(k))
                                  /\ k \in Blanks' <=> k \in Blanks
    BY <1>4, <1>6, FramesKeep
  <1>13. \A k \in Handled' : \/ k \in Handled
                             \/ k = read' /\ k \in 1..Len(lines) /\ WholeFrame(k) = EmptyFrame
    <2>1. ASSUME NEW k \in Handled', k # read' PROVE k \in Handled
      <3>1. k \in Blanks /\ k \in Nat /\ k < read + 1
        BY <1>1, <1>2, <1>4, <2>1 DEF Handled, Blanks
      <3>2. QED
        BY <1>2, <1>4, <3>1 DEF Handled
    <2>2. ASSUME read' \in Handled' PROVE WholeFrame(read') = EmptyFrame
      <3>1. lines[read'] = "blank" /\ pc' # "dispatch"
        BY <1>1, <1>4, <2>2 DEF Handled, Blanks
      <3>2. QED
        BY <1>2, <1>3, <1>9, <3>1
    <2>3. QED
      BY <1>5, <2>1, <2>2
  <1>14. \A k \in Handled : k \in Handled'
    BY <1>1, <1>2, <1>4 DEF Handled, Blanks
  <1>15. \A k \in 1..Len(lines) : WholeFrame(k) = EmptyFrame => ~Wanted(k) /\ ~Fails(WholeFrame(k))
    BY DEF Wanted, Skipped, Fails, EmptyFrame
  <1>16. ItemsInv'
    <2>1. \A k : k \in Out' <=> k \in Out
      BY <1>1, <1>3, <1>4, <1>12, <1>13, <1>14, <1>15 DEF Out
    <2>2. \A k \in Out : Handed(k)' = Handed(k)
      BY <1>4, <1>12 DEF Out
    <2>3. QED
      BY <1>1, <2>1, <2>2 DEF IInv, ItemsInv
  <1>17. EndInv'
    <2>1. consumer' = "stream" /\ err' = "nil" => \A k \in Handled' : ~Fails(WholeFrame(k))'
      BY <1>1, <1>4, <1>12, <1>13, <1>15 DEF IInv, EndInv
    <2>2. QED
      BY <1>1, <1>3, <2>1 DEF EndInv
  <1>18. QED
    BY <1>10, <1>11, <1>16, <1>17 DEF IInv

-----------------------------------------------------------------------------
(* The theorems.                                                            *)

LEMMA NextIInv == IInv /\ [Next]_vars => IInv'
  <1> SUFFICES ASSUME IInv, [Next]_vars PROVE IInv'
    OBVIOUS
  <1>1. CASE CheckContext
    BY <1>1, CheckContextQuiet
  <1>2. CASE ScanLine
    BY <1>2, ScanLineKeeps
  <1>3. CASE ScanEnds
    BY <1>3, ScanEndsQuiet
  <1>4. CASE Skip
    BY <1>4, SkipKeeps
  <1>5. CASE Fail
    BY <1>5, FailKeeps
  <1>6. CASE Yield
    BY <1>6, YieldKeeps
  <1>7. CASE Render
    BY <1>7, RenderKeeps
  <1>8. CASE RenderFails
    BY <1>8, RenderFailsKeeps
  <1>9. CASE CallNext
    BY <1>9, CallNextQuiet
  <1>10. CASE Close
    BY <1>10, CloseQuiet
  <1>11. CASE SendLine
    BY <1>11, SendLineQuiet
  <1>12. CASE EndContext \/ (\E how \in {"eof", "cut"} : EndBody(how)) \/ UNCHANGED vars
    BY <1>12, EndsQuiet
  <1>13. QED
    BY <1>1, <1>2, <1>3, <1>4, <1>5, <1>6, <1>7, <1>8, <1>9, <1>10, <1>11, <1>12
       DEF Next, InNext

\* The inductive invariant, for every length of body.
THEOREM Invariance == Spec => []IInv
  <1>1. QED
    BY InitIInv, NextIInv, PTL DEF Spec

\* Every variable keeps its type, whatever the order of the server's lines, the
\* end of the context, Close and the calls of Next.
THEOREM TypeCorrect == Spec => []TypeOK
  <1>1. IInv => TypeOK
    BY DEF IInv
  <1>2. QED
    BY <1>1, Invariance, PTL

\* What a frame is for a stream's consumer, in the words of its wire format.
LEMMA WantedAreItems ==
  ASSUME NEW k \in Blanks
  PROVE  /\ ~Skipped(WholeFrame(k)) /\ ~Fails(WholeFrame(k)) <=> k \in ItemFrames \ BadFrames
         /\ Fails(WholeFrame(k)) <=> k \in ErrorFrames \/ \E n \in Payload(k) :
                                       TypeOf(k) # "ping" /\ lines[n] = "bad"
         /\ WholeFrame(k) # EmptyFrame <=> k \in WholeFrames
         /\ WholeFrame(k).data = Payload(k)
  <1>1. WholeFrame(k).type = TypeOf(k) /\ WholeFrame(k).data = Payload(k)
    BY DEF WholeFrame
  <1> HIDE DEF WholeFrame
  <1>2. Fails(WholeFrame(k)) <=> k \in ErrorFrames \/ \E n \in Payload(k) :
                                   TypeOf(k) # "ping" /\ lines[n] = "bad"
    BY <1>1 DEF Fails, ErrorFrames
  <1>3. Skipped(WholeFrame(k)) <=> TypeOf(k) = "ping" \/ (TypeOf(k) # "error" /\ Payload(k) = {})
    BY <1>1 DEF Skipped
  <1>4. k \in ItemFrames <=> TypeOf(k) \notin {"ping", "error"} /\ Payload(k) # {}
    BY DEF ItemFrames
  <1>5. k \in BadFrames <=> k \in ItemFrames /\ \E n \in Payload(k) : lines[n] = "bad"
    BY DEF BadFrames
  <1>6. k \in ErrorFrames <=> TypeOf(k) = "error"
    BY DEF ErrorFrames
  <1>7. QED
    BY <1>1, <1>2, <1>3, <1>4, <1>5, <1>6 DEF WholeFrames

\* Stream.Next and the renderer: exactly the frames that are the consumer's, each
\* whole and by itself, whatever way the lines came and the connection went.
THEOREM DeliveredAreTheFrames == Spec => []ItemsAreTheFrames
  <1>1. ASSUME IInv PROVE ItemsAreTheFrames
    <2>1. /\ items = { Handed(k) : k \in Out }
          /\ \A k \in Handled : k \in Blanks
          /\ err = "write" => consumer = "renderer"
      BY <1>1 DEF IInv, ItemsInv, EndInv, Handled
    <2>2. CASE consumer = "stream"
      <3>1. \A k : k \in Out <=> k \in Handled \cap (ItemFrames \ BadFrames)
        BY <2>1, <2>2, WantedAreItems DEF Out, Wanted
      <3>2. \A k \in Out : Handed(k) = [end |-> k, frame |-> [EmptyFrame EXCEPT !.data = Payload(k)]]
        BY <2>1, <2>2, WantedAreItems DEF Out, Handed
      <3>3. QED
        BY <2>1, <2>2, <3>1, <3>2 DEF ItemsAreTheFrames
    <2>3. CASE consumer # "stream"
      <3>1. \A k : k \in Out <=> k \in { f \in Handled \cap WholeFrames : err = "write" => f # read }
        BY <2>1, <2>3, WantedAreItems DEF Out, Wanted
      <3>2. \A k \in Out : Handed(k) = [end |-> k, frame |-> WholeFrame(k)]
        BY <2>3 DEF Handed
      <3>3. QED
        BY <2>1, <2>3, <3>1, <3>2 DEF ItemsAreTheFrames
    <2>4. QED
      BY <2>2, <2>3
  <1>2. QED
    BY <1>1, Invariance, PTL

\* A stream that ends by itself without an error has been read to an end the server
\* made, and nothing in it failed.
THEOREM CleanEndsAreComplete == Spec => []CleanEndIsComplete
  <1>1. ASSUME IInv, done, err = "nil", ~closed
        PROVE  /\ wire = "eof" /\ read = Len(lines)
               /\ consumer = "stream" => ErrorFrames = {} /\ BadFrames = {}
    <2>1. wire = "eof" /\ read = Len(lines) /\ pc = "idle"
      BY <1>1 DEF IInv, EndInv, FrameInv, TypeOK
    <2>2. ASSUME NEW k \in Blanks PROVE k \in Handled
      <3>1. k \in 1..Len(lines) /\ Len(lines) \in Nat
        BY <1>1, ReadIsANumber DEF IInv, Blanks
      <3>2. k < read \/ k = read
        BY <2>1, <3>1
      <3>3. QED
        BY <2>1, <3>2 DEF Handled
    <2>3. ASSUME consumer = "stream", NEW k \in Blanks PROVE ~Fails(WholeFrame(k))
      BY <1>1, <2>2, <2>3 DEF IInv, EndInv
    <2>4. ASSUME consumer = "stream", NEW k \in Blanks PROVE k \notin ErrorFrames /\ k \notin BadFrames
      <3>1. k \notin ErrorFrames /\ ~(\E n \in Payload(k) : TypeOf(k) # "ping" /\ lines[n] = "bad")
        BY <2>3, <2>4, WantedAreItems
      <3>2. QED
        BY <3>1 DEF BadFrames, ItemFrames
    <2>5. QED
      BY <2>1, <2>4 DEF ErrorFrames, BadFrames, ItemFrames
  <1>2. IInv => CleanEndIsComplete
    BY <1>1 DEF CleanEndIsComplete
  <1>3. QED
    BY <1>2, Invariance, PTL
=============================================================================
