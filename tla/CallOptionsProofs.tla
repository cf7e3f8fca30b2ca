------------------------- MODULE CallOptionsProofs -------------------------
(***************************************************************************)
(* Theorems about CallOptions, for any number of walks, parameters and     *)
(* pages, scoped client or not, where the slice the callers share has no   *)
(* room behind it: what append does not write in place, nobody else reads. *)
(* With room they are not true (CallOptionsShared.cfg).                    *)
(***************************************************************************)
EXTENDS CallOptions, SequenceTheorems, FiniteSetTheorems, TLAPS

NoRoom == SpareCapacity = 0

\* Each caller sets a parameter once at most.
ParamsInv ==
    /\ defaults \in [Keys -> {Default, Absent}]
    /\ \A c \in Callers :
         /\ params[c] \in Seq(Keys)
         /\ \A i, j \in 1..Len(params[c]) : params[c][i] = params[c][j] => i = j

\* A slice has grown out of the shared array by its first option, and holds its
\* caller's parameters.
SliceInv ==
    /\ length \in [Callers -> Nat] /\ own \in [Callers -> Seq(Option)]
    /\ \A c \in Callers :
         /\ length[c] <= Len(params[c])
         /\ shared[c] => length[c] = 0
         /\ ~shared[c] =>
              /\ Len(own[c]) = length[c]
              /\ \A i \in 1..length[c] :
                   own[c][i] = [key |-> params[c][i], value |-> Given(c)]

\* What caller c's page of that number is to be asked for with.
Asked(c, k, n) ==
    IF k = "page" /\ n > 1 THEN Token(n - 1)
    ELSE IF Sets(c, k) THEN Given(c) ELSE defaults[k]

WalkInv ==
    \A c \in Callers :
        /\ pc[c] = "append" => pages[c] = 0
        /\ pc[c] = "walk" =>
             /\ pages[c] > 0 /\ length[c] = Len(params[c])
             /\ \A k \in Keys : /\ cursor[c].query[k] = Asked(c, k, pages[c])
                                /\ sent[c].query[k] = Asked(c, k, pages[c])

IInv == TypeOK /\ ParamsInv /\ SliceInv /\ WalkInv

-----------------------------------------------------------------------------
(* The options of a slice, and the query they make.                         *)

LEMMA AppendedAre ==
  ASSUME TypeOK, ParamsInv, SliceInv, NEW c \in Callers
  PROVE  /\ Appended(c) \in Seq(Option) /\ Len(Appended(c)) = length[c]
         /\ \A i \in 1..length[c] :
              Appended(c)[i] = [key |-> params[c][i], value |-> Given(c)]
  <1>1. CASE shared[c]
    <2>1. length[c] = 0
      BY <1>1 DEF SliceInv
    <2>2. SubSeq(array, 1, 0) = << >>
      BY SubSeqEmpty
    <2>3. Appended(c) = << >>
      BY <1>1, <2>1, <2>2 DEF Appended
    <2>4. QED
      BY <2>1, <2>3
  <1>2. CASE ~shared[c]
    BY <1>2 DEF Appended, SliceInv
  <1>3. QED
    BY <1>1, <1>2

\* A parameter set once is set to what its caller gave.
LEMMA WithAre ==
  ASSUME TypeOK, ParamsInv, SliceInv, NEW c \in Callers, length[c] = Len(params[c])
  PROVE  \A k \in Keys : With(defaults, Appended(c))[k] =
                           IF Sets(c, k) THEN Given(c) ELSE defaults[k]
  <1> DEFINE os == Appended(c)
  <1>1. /\ os \in Seq(Option) /\ DOMAIN os = 1..Len(params[c])
        /\ \A i \in DOMAIN os : os[i].key = params[c][i] /\ os[i].value = Given(c)
    <2>1. /\ os \in Seq(Option) /\ Len(os) = Len(params[c])
          /\ \A i \in 1..Len(params[c]) : os[i] = [key |-> params[c][i], value |-> Given(c)]
      BY AppendedAre
    <2>2. DOMAIN os = 1..Len(os)
      BY <2>1, LenProperties
    <2>3. DOMAIN os = 1..Len(params[c])
      BY <2>1, <2>2
    <2>4. \A i \in 1..Len(params[c]) : os[i].key = params[c][i] /\ os[i].value = Given(c)
      <3>1. TAKE i \in 1..Len(params[c])
      <3>2. os[i] = [key |-> params[c][i], value |-> Given(c)]
        BY <2>1
      <3> HIDE DEF os
      <3>3. QED
        BY <3>2
    <2>5. QED
      BY <2>1, <2>3, <2>4, Zenon
  <1>2. /\ DOMAIN params[c] = 1..Len(params[c]) /\ Len(params[c]) \in Nat
        /\ \A i, j \in DOMAIN params[c] : params[c][i] = params[c][j] => i = j
    BY LenProperties DEF ParamsInv
  <1> HIDE DEF os
  <1>3. SUFFICES ASSUME NEW k \in Keys
                 PROVE  With(defaults, os)[k] = IF Sets(c, k) THEN Given(c) ELSE defaults[k]
    BY DEF os
  <1> DEFINE set == { i \in DOMAIN os : os[i].key = k }
  <1>4. With(defaults, os)[k] = IF set = {} THEN defaults[k]
                                ELSE os[CHOOSE i \in set : \A j \in set : j <= i].value
    BY DEF With
  <1>5. set = {} <=> ~Sets(c, k)
    BY <1>1, <1>2 DEF Sets
  <1>6. ASSUME set # {}
        PROVE  os[CHOOSE i \in set : \A j \in set : j <= i].value = Given(c)
    <2>1. PICK i \in set : TRUE
      BY <1>6
    <2>2. i \in Nat /\ \A j \in set : j = i
      BY <1>1, <1>2, <2>1
    <2>3. \A j \in set : j <= i
      BY <2>2
    <2>4. (CHOOSE m \in set : \A j \in set : j <= m) \in set
      BY <2>1, <2>3, Zenon
    <2>5. QED
      BY <1>1, <2>4
  <1>7. QED
    BY <1>4, <1>5, <1>6

LEMMA ValueTypes ==
  /\ \A c \in Callers : Given(c) \in Values /\ Given(c) # Absent
  /\ \A n \in 1..MaxPages : Token(n) \in Values /\ Token(n) # Absent
  /\ Default \in Values /\ Absent \in Values
  BY DEF Values, Given, Token, Default, Absent

LEMMA ResolvedType ==
  ASSUME NEW url \in URL, NEW q \in [Keys -> Values], NEW a
  PROVE  ResolveURL(url, q, a) \in URL
  BY DEF ResolveURL, URL, Query

LEMMA WithType ==
  ASSUME TypeOK, ParamsInv, SliceInv, NEW c \in Callers, length[c] = Len(params[c])
  PROVE  With(defaults, Appended(c)) \in [Keys -> Values]
  <1>1. \A k \in Keys : With(defaults, Appended(c))[k] \in Values
    BY WithAre, ValueTypes DEF TypeOK
  <1>2. DOMAIN With(defaults, Appended(c)) = Keys
    BY DEF With
  <1>3. With(defaults, Appended(c)) =
          [k \in Keys |-> With(defaults, Appended(c))[k]]
    BY DEF With
  <1>4. QED
    BY <1>1, <1>3

LEMMA ListURLType == ListURL \in URL /\ \A k \in Keys : ListURL.query[k] = Absent
  BY ValueTypes DEF ListURL, URL, Query

-----------------------------------------------------------------------------
(* Each step keeps the invariant.                                           *)

LEMMA InitIInv == NoRoom /\ Init => IInv
  <1> SUFFICES ASSUME NoRoom, Init PROVE IInv
    OBVIOUS
  <1>1. \A c \in Callers : params[c] \in Seq(Keys)
                           /\ \A i, j \in 1..Len(params[c]) :
                                params[c][i] = params[c][j] => i = j
    <2>1. TAKE c \in Callers
    <2> DEFINE Injective(f) == \A i, j \in DOMAIN f : f[i] = f[j] => i = j
    <2>2. Cardinality(Keys) \in Nat
      BY CallOptionsAssumption, FS_AddElement, FS_CardinalityType DEF Keys
    <2>3. params[c] \in ListParams
      BY Zenon DEF Init
    <2> HIDE DEF Injective
    <2>4. /\ params[c] \in UNION { [1..n -> Keys] : n \in 0..Cardinality(Keys) }
          /\ Injective(params[c])
      BY <2>3, Zenon DEF ListParams, Injective
    <2>5. PICK n \in 0..Cardinality(Keys) : params[c] \in [1..n -> Keys]
      BY <2>4
    <2>6. n \in Nat
      BY <2>2
    <2>7. params[c] \in Seq(Keys)
      BY <2>5, <2>6, SeqDef
    <2>8. DOMAIN params[c] = 1..Len(params[c])
      BY <2>7, LenProperties
    <2>9. \A i, j \in DOMAIN params[c] : params[c][i] = params[c][j] => i = j
      BY <2>4, Zenon DEF Injective
    <2>10. QED
      BY <2>7, <2>8, <2>9
  <1>2. defaults \in [Keys -> {Default, Absent}]
    BY DEF Init
  <1>3. \A c \in Callers : Len(params[c]) \in Nat
    BY <1>1, LenProperties
  <1>4. /\ array \in [1..SpareCapacity -> Option \cup {Unwritten}]
        /\ shared \in [Callers -> BOOLEAN]
        /\ cursor \in [Callers -> URL] /\ sent \in [Callers -> URL]
        /\ pages \in [Callers -> 0..MaxPages]
        /\ pc \in [Callers -> {"append", "walk"}]
    BY ListURLType, CallOptionsAssumption DEF Init
  <1>5. << >> \in Seq(Option)
    OBVIOUS
  <1>6. TypeOK
    <2>1. \A c \in Callers : length[c] \in 0..Len(params[c]) /\ own[c] \in Seq(Option)
      BY <1>3, <1>5 DEF Init
    <2>2. QED
      BY <1>1, <1>2, <1>4, <2>1 DEF TypeOK
  <1>7. ParamsInv
    BY <1>1, <1>2 DEF ParamsInv
  <1>8. SliceInv
    BY <1>3, <1>5 DEF Init, SliceInv
  <1>9. WalkInv
    BY DEF Init, WalkInv
  <1>10. QED
    BY <1>6, <1>7, <1>8, <1>9 DEF IInv

LEMMA AppendOptionKeepsIInv ==
  ASSUME NoRoom, IInv, NEW c \in Callers, AppendOption(c)
  PROVE  IInv'
  <1> DEFINE o == [key |-> params[c][length[c] + 1], value |-> Given(c)]
  <1>1. TypeOK /\ ParamsInv /\ SliceInv /\ WalkInv
    BY DEF IInv
  <1>2. length[c] \in Nat /\ Len(params[c]) \in Nat /\ length[c] < Len(params[c])
    BY <1>1, LenProperties DEF SliceInv, ParamsInv, AppendOption
  <1>3. /\ pc[c] = "append"
        /\ length' = [length EXCEPT ![c] = length[c] + 1]
        /\ own' = [own EXCEPT ![c] = Append(Appended(c), o)]
        /\ shared' = [shared EXCEPT ![c] = FALSE]
        /\ UNCHANGED <<array, defaults, params, cursor, pages, sent, pc>>
    <2>1. ~(length[c] + 1 <= SpareCapacity)
      BY <1>2 DEF NoRoom
    <2>2. QED
      BY <2>1 DEF AppendOption
  <1>4. o \in Option
    <2>1. params[c][length[c] + 1] \in Keys
      BY <1>1, <1>2, LenProperties DEF ParamsInv
    <2>2. QED
      BY <2>1 DEF Option
  <1>5. /\ Appended(c) \in Seq(Option) /\ Len(Appended(c)) = length[c]
        /\ \A i \in 1..length[c] :
             Appended(c)[i] = [key |-> params[c][i], value |-> Given(c)]
    BY <1>1, AppendedAre
  <1> DEFINE s == Append(Appended(c), o)
  <1>6. /\ s \in Seq(Option) /\ Len(s) = length[c] + 1
        /\ \A i \in 1..(length[c] + 1) :
             s[i] = [key |-> params[c][i], value |-> Given(c)]
    <2>1. /\ s \in Seq(Option) /\ Len(s) = length[c] + 1
          /\ \A i \in 1..length[c] : s[i] = Appended(c)[i]
          /\ s[length[c] + 1] = o
      BY <1>4, <1>5, AppendProperties
    <2>2. ASSUME NEW i \in 1..(length[c] + 1)
          PROVE  s[i] = [key |-> params[c][i], value |-> Given(c)]
      <3>1. CASE i \in 1..length[c]
        BY <1>5, <2>1, <3>1
      <3>2. CASE i = length[c] + 1
        BY <2>1, <3>2
      <3>3. i \in 1..length[c] \/ i = length[c] + 1
        BY <1>2
      <3>4. QED
        BY <3>1, <3>2, <3>3
    <2>3. QED
      BY <2>1, <2>2
  <1> HIDE DEF s
  <1>7. own' = [own EXCEPT ![c] = s]
    BY <1>3 DEF s
  <1>8. length' \in [Callers -> Nat] /\ own' \in [Callers -> Seq(Option)]
    <2>1. length[c] + 1 \in Nat
      BY <1>2
    <2>2. length' \in [Callers -> Nat]
      BY <1>1, <1>3, <2>1 DEF SliceInv
    <2>3. own' \in [Callers -> Seq(Option)]
      BY <1>1, <1>6, <1>7 DEF SliceInv
    <2>4. QED
      BY <2>2, <2>3
  <1>9. ASSUME NEW d \in Callers
        PROVE  /\ length'[d] <= Len(params[d]) /\ length'[d] \in 0..Len(params[d])
               /\ shared'[d] => length'[d] = 0
               /\ ~shared'[d] =>
                    /\ Len(own'[d]) = length'[d]
                    /\ \A i \in 1..length'[d] :
                         own'[d][i] = [key |-> params[d][i], value |-> Given(d)]
    <2>1. CASE d = c
      <3>1. length'[c] = length[c] + 1 /\ own'[c] = s
        BY <1>1, <1>3, <1>7 DEF SliceInv
      <3>2. ~shared'[c]
        BY <1>1, <1>3 DEF TypeOK
      <3>3. length[c] + 1 <= Len(params[c]) /\ length[c] + 1 \in 0..Len(params[c])
        BY <1>2
      <3>4. QED
        BY <1>6, <2>1, <3>1, <3>2, <3>3
    <2>2. CASE d # c
      <3>1. length'[d] = length[d] /\ own'[d] = own[d] /\ shared'[d] = shared[d]
        BY <1>1, <1>3, <1>7, <2>2 DEF SliceInv, TypeOK
      <3>2. length[d] \in 0..Len(params[d])
        BY <1>1 DEF TypeOK
      <3>3. QED
        BY <1>1, <3>1, <3>2 DEF SliceInv
    <2>3. QED
      BY <2>1, <2>2
  <1>10. SliceInv'
    BY <1>3, <1>8, <1>9 DEF SliceInv
  <1>11. TypeOK'
    BY <1>1, <1>3, <1>8, <1>9 DEF TypeOK
  <1>12. ParamsInv'
    BY <1>1, <1>3 DEF ParamsInv
  <1>13. WalkInv'
    BY <1>1, <1>3 DEF TypeOK, SliceInv, WalkInv, Asked, Sets
  <1>14. QED
    BY <1>10, <1>11, <1>12, <1>13 DEF IInv

\* Of a URL that has what is to be asked for, or nothing, and the caller's options,
\* ResolveURL makes what is to be asked for.
LEMMA PageIsAsked ==
  ASSUME NEW c \in Callers, NEW n \in Nat, NEW k \in Keys, NEW u, NEW v,
         v = IF Sets(c, k) THEN Given(c) ELSE defaults[k],
         u = Asked(c, k, n) \/ (u = Absent /\ ~(k = "page" /\ n > 1))
  PROVE  (IF u # Absent THEN u ELSE v) = Asked(c, k, n)
  <1>1. CASE k = "page" /\ n > 1
    BY <1>1 DEF Asked, Token, Absent
  <1>2. CASE ~(k = "page" /\ n > 1)
    <2>1. Asked(c, k, n) = v
      BY <1>2 DEF Asked
    <2>2. QED
      BY <1>2, <2>1
  <1>3. QED
    BY <1>1, <1>2

\* The steps that fetch a page differ in its number and in the cursor's URL.
LEMMA FetchKeepsIInv ==
  ASSUME IInv, NEW c \in Callers, NEW n \in 1..MaxPages, NEW url \in URL, NEW q,
         q = With(defaults, Appended(c)), length[c] = Len(params[c]),
         \A k \in Keys : url.query[k] = Asked(c, k, n),
         pc' = [pc EXCEPT ![c] = "walk"], pages' = [pages EXCEPT ![c] = n],
         cursor' = [cursor EXCEPT ![c] = url],
         sent' = [sent EXCEPT ![c] = ResolveURL(url, q, TRUE)],
         UNCHANGED <<defaults, params, array, shared, length, own>>
  PROVE  IInv'
  <1>1. TypeOK /\ ParamsInv /\ SliceInv /\ WalkInv
    BY DEF IInv
  <1>2. n \in Nat /\ n > 0 /\ n \in 0..MaxPages
    BY CallOptionsAssumption
  <1>3. q \in [Keys -> Values]
    BY <1>1, WithType
  <1>4. ResolveURL(url, q, TRUE) \in URL
    BY <1>3, ResolvedType
  <1>5. \A k \in Keys : q[k] = IF Sets(c, k) THEN Given(c) ELSE defaults[k]
    BY <1>1, WithAre
  <1>6. ASSUME NEW k \in Keys
        PROVE  ResolveURL(url, q, TRUE).query[k] = Asked(c, k, n)
    <2>1. q[k] = IF Sets(c, k) THEN Given(c) ELSE defaults[k]
      BY <1>5
    <2>2. url.query[k] = Asked(c, k, n)
      OBVIOUS
    <2>3. ResolveURL(url, q, TRUE).query[k] = IF url.query[k] # Absent THEN url.query[k] ELSE q[k]
      BY DEF ResolveURL
    <2>4. (IF url.query[k] # Absent THEN url.query[k] ELSE q[k]) = Asked(c, k, n)
      BY <1>2, <2>1, <2>2, PageIsAsked
    <2>5. QED
      BY <2>3, <2>4, Zenon
  <1>7. TypeOK'
    <2>1. cursor' \in [Callers -> URL] /\ sent' \in [Callers -> URL]
      BY <1>1, <1>4 DEF TypeOK
    <2>2. pages' \in [Callers -> 0..MaxPages] /\ pc' \in [Callers -> {"append", "walk"}]
      BY <1>1, <1>2 DEF TypeOK
    <2>3. QED
      BY <1>1, <2>1, <2>2 DEF TypeOK
  <1>8. ParamsInv' /\ SliceInv'
    BY <1>1 DEF ParamsInv, SliceInv
  <1>9. \A d \in Callers, k \in Keys : Asked(d, k, pages[d])' = Asked(d, k, pages'[d])
    BY DEF Asked, Sets
  <1>10. ASSUME NEW d \in Callers
         PROVE  /\ pc'[d] = "append" => pages'[d] = 0
                /\ pc'[d] = "walk" =>
                     /\ pages'[d] > 0 /\ length[d] = Len(params[d])
                     /\ \A k \in Keys : /\ cursor'[d].query[k] = Asked(d, k, pages'[d])
                                        /\ sent'[d].query[k] = Asked(d, k, pages'[d])
    <2>1. CASE d = c
      <3>1. /\ pc'[d] = "walk" /\ pages'[d] = n /\ cursor'[d] = url
            /\ sent'[d] = ResolveURL(url, q, TRUE)
        BY <1>1, <2>1 DEF TypeOK
      <3>2. QED
        BY <1>2, <1>6, <2>1, <3>1
    <2>2. CASE d # c
      <3>1. /\ pc'[d] = pc[d] /\ pages'[d] = pages[d] /\ cursor'[d] = cursor[d]
            /\ sent'[d] = sent[d]
        BY <1>1, <2>2 DEF TypeOK
      <3>2. QED
        BY <1>1, <3>1 DEF WalkInv
    <2>3. QED
      BY <2>1, <2>2
  <1>11. WalkInv'
    <2>1. SUFFICES
            ASSUME NEW d \in Callers
            PROVE  /\ pc'[d] = "append" => pages'[d] = 0
                   /\ pc'[d] = "walk" =>
                        /\ pages'[d] > 0 /\ length'[d] = Len(params'[d])
                        /\ \A k \in Keys : /\ cursor'[d].query[k] = Asked(d, k, pages[d])'
                                           /\ sent'[d].query[k] = Asked(d, k, pages[d])'
      BY DEF WalkInv
    <2>2. length'[d] = length[d] /\ params'[d] = params[d]
      OBVIOUS
    <2>3. \A k \in Keys : Asked(d, k, pages[d])' = Asked(d, k, pages'[d])
      BY <1>9
    <2>4. (pc'[d] = "append" => pages'[d] = 0)
          /\ (pc'[d] = "walk" => pages'[d] > 0 /\ length'[d] = Len(params'[d]))
      BY <1>10, <2>2
    <2>5. ASSUME pc'[d] = "walk", NEW k \in Keys
          PROVE  cursor'[d].query[k] = Asked(d, k, pages'[d])
                 /\ sent'[d].query[k] = Asked(d, k, pages'[d])
      BY <1>10, <2>5
    <2>6. QED
      BY <2>3, <2>4, <2>5
  <1>12. QED
    BY <1>7, <1>8, <1>11 DEF IInv

LEMMA FetchFirstKeepsIInv ==
  ASSUME IInv, NEW c \in Callers, FetchFirst(c)
  PROVE  IInv'
  <1>1. PICK q, url :
          /\ q = With(defaults, Appended(c)) /\ url = ResolveURL(ListURL, q, FALSE)
          /\ length[c] = Len(params[c])
          /\ pc' = [pc EXCEPT ![c] = "walk"] /\ pages' = [pages EXCEPT ![c] = 1]
          /\ cursor' = [cursor EXCEPT ![c] = url]
          /\ sent' = [sent EXCEPT ![c] = ResolveURL(url, q, TRUE)]
          /\ UNCHANGED <<defaults, params, array, shared, length, own>>
    BY DEF FetchFirst, sliceVars
  <1>2. TypeOK /\ ParamsInv /\ SliceInv
    BY DEF IInv
  <1>3. q \in [Keys -> Values] /\ url \in URL
    <2>1. q \in [Keys -> Values]
      BY <1>1, <1>2, WithType
    <2>2. QED
      BY <1>1, <2>1, ListURLType, ResolvedType
  <1>4. \A k \in Keys : q[k] = IF Sets(c, k) THEN Given(c) ELSE defaults[k]
    BY <1>1, <1>2, WithAre
  <1>5. ASSUME NEW k \in Keys PROVE url.query[k] = Asked(c, k, 1)
    <2>1. q[k] = IF Sets(c, k) THEN Given(c) ELSE defaults[k]
      BY <1>4
    <2>2. ListURL.query[k] = Absent /\ ~(1 > 1) /\ 1 \in Nat
      BY ListURLType
    <2>3. ResolveURL(ListURL, q, FALSE).query[k] =
            IF ListURL.query[k] # Absent THEN ListURL.query[k] ELSE q[k]
      BY DEF ResolveURL
    <2>4. (IF ListURL.query[k] # Absent THEN ListURL.query[k] ELSE q[k]) = Asked(c, k, 1)
      BY <2>1, <2>2, PageIsAsked
    <2>5. QED
      BY <1>1, <2>3, <2>4, Zenon
  <1>6. 1 \in 1..MaxPages
    BY CallOptionsAssumption
  <1>7. QED
    BY <1>1, <1>3, <1>5, <1>6, FetchKeepsIInv

LEMMA FetchNextKeepsIInv ==
  ASSUME IInv, NEW c \in Callers, FetchNext(c)
  PROVE  IInv'
  <1>1. PICK q, url :
          /\ q = With(defaults, Appended(c))
          /\ url = [cursor[c] EXCEPT !.query["page"] = Token(pages[c])]
          /\ pc[c] = "walk" /\ pages[c] < MaxPages
          /\ pages' = [pages EXCEPT ![c] = pages[c] + 1]
          /\ cursor' = [cursor EXCEPT ![c] = url]
          /\ sent' = [sent EXCEPT ![c] = ResolveURL(url, q, TRUE)]
          /\ UNCHANGED <<defaults, params, array, shared, length, own, pc>>
    BY DEF FetchNext, sliceVars
  <1>2. TypeOK /\ ParamsInv /\ SliceInv /\ WalkInv
    BY DEF IInv
  <1>3. /\ pages[c] \in Nat /\ pages[c] > 0 /\ pages[c] \in 1..MaxPages
        /\ pages[c] + 1 \in 1..MaxPages /\ length[c] = Len(params[c])
    <2>1. pages[c] \in 0..MaxPages /\ pages[c] > 0 /\ length[c] = Len(params[c])
      BY <1>1, <1>2 DEF TypeOK, WalkInv
    <2>2. QED
      BY <1>1, <2>1, CallOptionsAssumption
  <1>4. /\ cursor[c] \in URL /\ cursor[c].query \in [Keys -> Values] /\ "page" \in Keys
        /\ \A k \in Keys : cursor[c].query[k] = Asked(c, k, pages[c])
    BY <1>1, <1>2 DEF TypeOK, URL, Query, WalkInv, Keys
  <1>5. /\ url.query = [cursor[c].query EXCEPT !["page"] = Token(pages[c])]
        /\ url \in URL
    BY <1>1, <1>3, <1>4, ValueTypes DEF URL, Query
  <1>6. ASSUME NEW k \in Keys PROVE url.query[k] = Asked(c, k, pages[c] + 1)
    <2>1. CASE k = "page"
      BY <1>3, <1>4, <1>5, <2>1 DEF Asked
    <2>2. CASE k # "page"
      BY <1>4, <1>5, <2>2 DEF Asked
    <2>3. QED
      BY <2>1, <2>2
  <1>7. pc' = [pc EXCEPT ![c] = "walk"]
    BY <1>1, <1>2 DEF TypeOK
  <1>8. QED
    BY <1>1, <1>3, <1>5, <1>6, <1>7, FetchKeepsIInv

LEMMA StutterKeepsIInv ==
  ASSUME IInv, UNCHANGED vars
  PROVE  IInv'
  <1>1. TypeOK' /\ ParamsInv' /\ SliceInv'
    BY DEF IInv, TypeOK, ParamsInv, SliceInv, vars
  <1>2. \A c \in Callers, k \in Keys : Asked(c, k, pages[c])' = Asked(c, k, pages[c])
    BY DEF Asked, Sets, vars
  <1>3. WalkInv'
    BY <1>2 DEF IInv, WalkInv, vars
  <1>4. QED
    BY <1>1, <1>3 DEF IInv

LEMMA NextIInv == NoRoom /\ IInv /\ [Next]_vars => IInv'
  BY AppendOptionKeepsIInv, FetchFirstKeepsIInv, FetchNextKeepsIInv, StutterKeepsIInv
  DEF Next

\* With no room behind the shared slice, every slice holds its caller's options and
\* every cursor its caller's walk.
THEOREM Invariance == NoRoom => (Spec => []IInv)
  <1> SUFFICES ASSUME NoRoom PROVE Spec => []IInv
    OBVIOUS
  <1>1. Init => IInv
    BY InitIInv
  <1>2. IInv /\ [Next]_vars => IInv'
    BY NextIInv
  <1>3. QED
    BY <1>1, <1>2, PTL DEF Spec

\* Slices, cursors and requests keep their types.
THEOREM TypeCorrect == NoRoom => (Spec => []TypeOK)
  <1>1. IInv => TypeOK
    BY DEF IInv
  <1>2. QED
    BY <1>1, Invariance, PTL

\* No parameter of one walk's reaches another's pages.
THEOREM OwnParametersOnly == NoRoom => (Spec => []EveryPageHasItsOwnParameters)
  <1>1. ASSUME IInv, NEW c \in Callers, pages[c] > 0, NEW k \in Filters
        PROVE  sent[c].query[k] = IF Sets(c, k) THEN Given(c) ELSE defaults[k]
    <2>1. pc[c] = "walk"
      BY <1>1 DEF IInv, TypeOK, WalkInv
    <2>2. sent[c].query[k] = Asked(c, k, pages[c])
      BY <1>1, <2>1 DEF IInv, WalkInv, Keys
    <2>3. k # "page"
      BY <1>1, CallOptionsAssumption
    <2>4. QED
      BY <2>2, <2>3 DEF Asked
  <1>2. IInv => EveryPageHasItsOwnParameters
    BY <1>1 DEF EveryPageHasItsOwnParameters
  <1>3. QED
    BY <1>2, Invariance, PTL

\* Every page is the one its predecessor named.
THEOREM PagesAreNext == NoRoom => (Spec => []EveryPageIsTheNext)
  <1>1. ASSUME IInv, NEW c \in Callers, pages[c] > 0
        PROVE  sent[c].query["page"] = CASE pages[c] > 1 -> Token(pages[c] - 1)
                                         [] pages[c] = 1 /\ Sets(c, "page") -> Given(c)
                                         [] OTHER -> defaults["page"]
    <2>1. pages[c] \in 0..MaxPages /\ pc[c] = "walk"
      BY <1>1 DEF IInv, TypeOK, WalkInv
    <2>2. pages[c] > 1 \/ pages[c] = 1
      BY <1>1, <2>1, CallOptionsAssumption
    <2>3. sent[c].query["page"] = Asked(c, "page", pages[c])
      BY <1>1, <2>1 DEF IInv, WalkInv, Keys
    <2>4. QED
      BY <2>2, <2>3 DEF Asked
  <1>2. IInv => EveryPageIsTheNext
    BY <1>1 DEF EveryPageIsTheNext
  <1>3. QED
    BY <1>2, Invariance, PTL
=============================================================================
