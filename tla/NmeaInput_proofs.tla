-------------------------- MODULE NmeaInput_proofs --------------------------
(***************************************************************************)
(* The characters from the receiver are cut into lines, and the lines into *)
(* fields, correctly for every buffer size, every number of tokens and     *)
(* whatever the receiver sends.  The framing is an inductive invariant.    *)
(* That the tokenizer's loop, a recursive function, returns the fields is  *)
(* an induction over the places of a sentence; it is made by hand, from    *)
(* the least place at which the statement could fail.                      *)
(***************************************************************************)
EXTENDS NmeaInput, SequenceTheorems, FiniteSetTheorems, WellFoundedInduction,
        TLAPS

\* What Sent leaves behind is of the right type.
LEMMA SentType ==
    ASSUME FramerTypeOK, NEW newline \in BOOLEAN, NEW parsed \in BOOLEAN,
           Sent(newline, parsed)
    PROVE  lineLen' \in 0 .. MaxLine /\ last' \in Fate /\ before' \in Fate
  <1>1. CASE newline
    <2>1. [len |-> lineLen, parsed |-> parsed] \in Fate
      BY DEF FramerTypeOK, Fate
    <2> QED BY <1>1, <2>1, SizeAssumption DEF FramerTypeOK, Sent
  <1>2. CASE ~newline
    BY <1>2, SizeAssumption DEF FramerTypeOK, Sent
  <1> QED BY <1>1, <1>2

\* Skipping preserves the invariant: the line that ends was too long, or it
\* is the one lost to the full buffer before it.
LEMMA SkipKeeps ==
    ASSUME FramerInv, NEW newline \in BOOLEAN, Skip(newline)
    PROVE  FramerInv'
  <1>1. FramerTypeOK'
    <2>1. PICK parsed \in BOOLEAN : Sent(newline, parsed)
      BY DEF Skip
    <2>2. /\ lineLen' \in 0 .. MaxLine
          /\ last' \in Fate
          /\ before' \in Fate
      BY <2>1, SentType DEF FramerInv
    <2>3. overflow' \in BOOLEAN
      BY DEF Skip, FramerInv, FramerTypeOK
    <2>4. pos' \in 0 .. NMEA_MAX_SIZE
      BY SizeAssumption DEF Skip, FramerInv, FramerTypeOK
    <2> QED BY <2>2, <2>3, <2>4 DEF FramerTypeOK
  <1>2. CASE newline
    <2>1. /\ lineLen' = 0 /\ before' = last
          /\ last'.len = lineLen /\ last'.parsed = FALSE
      BY <1>2 DEF Skip, Sent
    <2>2. InSync'
      BY <1>2, <2>1 DEF FramerInv, InSync, SkipInv, Skip
    <2>3. SkipInv'
      BY <1>2, <2>1, SizeAssumption
      DEF FramerInv, FramerTypeOK, InSync, SkipInv, Skip
    <2>4. LostOnlyAfterFull'
      BY <2>1, SizeAssumption
      DEF FramerInv, FramerTypeOK, InSync, SkipInv, LostOnlyAfterFull, Skip
    <2>5. LongNeverParsed'
      BY <2>1, SizeAssumption
      DEF FramerInv, FramerTypeOK, InSync, LongNeverParsed, Skip
    <2> QED BY <1>1, <2>2, <2>3, <2>4, <2>5 DEF FramerInv
  <1>3. CASE ~newline
    <2>1. lineLen' = lineLen + 1 /\ last' = last /\ before' = before
      BY <1>3 DEF Skip, Sent
    <2>2. InSync'
      BY <1>3, <2>1, SizeAssumption
      DEF FramerInv, FramerTypeOK, InSync, SkipInv, Skip
    <2>3. SkipInv'
      BY <1>3, <2>1, SizeAssumption
      DEF FramerInv, FramerTypeOK, InSync, SkipInv, Skip
    <2>4. LostOnlyAfterFull' /\ LongNeverParsed'
      BY <2>1 DEF FramerInv, LostOnlyAfterFull, LongNeverParsed
    <2> QED BY <1>1, <2>2, <2>3, <2>4 DEF FramerInv
  <1> QED BY <1>2, <1>3

\* Giving a line up preserves it: the line has NMEA_MAX_SIZE characters if it
\* ends here and more if it does not.
LEMMA OverrunKeeps ==
    ASSUME FramerInv, NEW newline \in BOOLEAN, Overrun(newline)
    PROVE  FramerInv'
  <1>1. FramerTypeOK'
    <2>1. PICK parsed \in BOOLEAN : Sent(newline, parsed)
      BY DEF Overrun
    <2>2. /\ lineLen' \in 0 .. MaxLine
          /\ last' \in Fate
          /\ before' \in Fate
      BY <2>1, SentType DEF FramerInv
    <2>3. overflow' \in BOOLEAN
      BY DEF Overrun, FramerInv, FramerTypeOK
    <2>4. pos' \in 0 .. NMEA_MAX_SIZE
      BY SizeAssumption DEF Overrun, FramerInv, FramerTypeOK
    <2> QED BY <2>2, <2>3, <2>4 DEF FramerTypeOK
  <1>2. CASE newline
    <2>1. /\ lineLen' = 0 /\ before' = last
          /\ last'.len = lineLen /\ last'.parsed = FALSE
      BY <1>2 DEF Overrun, Sent
    <2>2. InSync'
      BY <1>2, <2>1 DEF InSync, Overrun
    <2>3. SkipInv'
      BY <1>2, <2>1, SizeAssumption
      DEF FramerInv, FramerTypeOK, InSync, SkipInv, Overrun
    <2>4. LostOnlyAfterFull'
      BY <2>1, SizeAssumption
      DEF FramerInv, FramerTypeOK, InSync, SkipInv, LostOnlyAfterFull, Overrun
    <2>5. LongNeverParsed'
      BY <2>1, SizeAssumption
      DEF FramerInv, FramerTypeOK, InSync, LongNeverParsed, Overrun
    <2> QED BY <1>1, <2>2, <2>3, <2>4, <2>5 DEF FramerInv
  <1>3. CASE ~newline
    <2>1. lineLen' = lineLen + 1 /\ last' = last /\ before' = before
      BY <1>3 DEF Overrun, Sent
    <2>2. InSync'
      BY <1>3, <2>1, SizeAssumption
      DEF FramerInv, FramerTypeOK, InSync, SkipInv, Overrun
    <2>3. SkipInv'
      BY <1>3, <2>1, SizeAssumption
      DEF FramerInv, FramerTypeOK, InSync, SkipInv, Overrun
    <2>4. LostOnlyAfterFull' /\ LongNeverParsed'
      BY <2>1 DEF FramerInv, LostOnlyAfterFull, LongNeverParsed
    <2> QED BY <1>1, <2>2, <2>3, <2>4 DEF FramerInv
  <1> QED BY <1>2, <1>3

\* Storing a character preserves it: a line that ends here is in the buffer
\* whole.
LEMMA StoreKeeps ==
    ASSUME FramerInv, NEW newline \in BOOLEAN, Store(newline)
    PROVE  FramerInv'
  <1>1. FramerTypeOK'
    <2> DEFINE long == pos + 1 >= MIN_SENTENCE
    <2>0. long \in BOOLEAN
      BY SizeAssumption DEF FramerInv, FramerTypeOK
    <2>1. PICK parsed \in BOOLEAN : Sent(newline, parsed)
      <3>1. Sent(newline, long)
        BY DEF Store
      <3> HIDE DEF long
      <3> QED BY <2>0, <3>1
    <2>2. /\ lineLen' \in 0 .. MaxLine
          /\ last' \in Fate
          /\ before' \in Fate
      BY <2>1, SentType DEF FramerInv
    <2>3. overflow' \in BOOLEAN
      BY DEF Store, FramerInv, FramerTypeOK
    <2>4. pos' \in 0 .. NMEA_MAX_SIZE
      BY SizeAssumption DEF Store, FramerInv, FramerTypeOK
    <2> QED BY <2>2, <2>3, <2>4 DEF FramerTypeOK
  <1>2. CASE newline
    <2>1. /\ lineLen' = 0 /\ before' = last
          /\ last'.len = lineLen /\ last'.parsed = (pos + 1 >= MIN_SENTENCE)
      BY <1>2 DEF Store, Sent
    <2>2. InSync'
      BY <1>2, <2>1 DEF InSync, Store
    <2>3. SkipInv'
      BY <1>2, <2>1, SizeAssumption
      DEF FramerInv, FramerTypeOK, InSync, SkipInv, Store
    <2>4. LostOnlyAfterFull'
      BY <2>1, SizeAssumption
      DEF FramerInv, FramerTypeOK, InSync, SkipInv, LostOnlyAfterFull, Store
    <2>5. LongNeverParsed'
      BY <2>1, SizeAssumption
      DEF FramerInv, FramerTypeOK, InSync, LongNeverParsed, Store
    <2> QED BY <1>1, <2>2, <2>3, <2>4, <2>5 DEF FramerInv
  <1>3. CASE ~newline
    <2>1. lineLen' = lineLen + 1 /\ last' = last /\ before' = before
      BY <1>3 DEF Store, Sent
    <2>2. InSync'
      BY <1>3, <2>1, SizeAssumption
      DEF FramerInv, FramerTypeOK, InSync, SkipInv, Store
    <2>3. SkipInv'
      BY <1>3, <2>1, SizeAssumption
      DEF FramerInv, FramerTypeOK, InSync, SkipInv, Store
    <2>4. LostOnlyAfterFull' /\ LongNeverParsed'
      BY <2>1 DEF FramerInv, LostOnlyAfterFull, LongNeverParsed
    <2> QED BY <1>1, <2>2, <2>3, <2>4 DEF FramerInv
  <1> QED BY <1>2, <1>3

\* An empty buffer at the start of a line.
LEMMA FramerInitially ==
    ASSUME FramerInit
    PROVE  FramerInv
  <1>1. last \in Fate /\ before \in Fate
    BY SizeAssumption DEF FramerInit, Fate
  <1>2. FramerTypeOK
    <2>1. pos \in 0 .. NMEA_MAX_SIZE /\ lineLen \in 0 .. MaxLine
      BY SizeAssumption DEF FramerInit
    <2>2. overflow \in BOOLEAN
      BY DEF FramerInit
    <2> QED BY <1>1, <2>1, <2>2 DEF FramerTypeOK
  <1>3. last.parsed = TRUE /\ last.len = 0
    BY DEF FramerInit
  <1>4. LostOnlyAfterFull /\ LongNeverParsed
    BY <1>3, SizeAssumption DEF LostOnlyAfterFull, LongNeverParsed
  <1> QED BY <1>2, <1>4
          DEF FramerInit, FramerInv, InSync, SkipInv

\* For every buffer size: a sentence handed to the parser is a whole line and
\* nothing else, no line that is too long reaches it, and a line that fits is
\* lost only right after a line that exactly filled the buffer.
THEOREM FramingCorrect ==
    FramerSpec => [](FramerTypeOK /\ InSync /\ LostOnlyAfterFull
                     /\ LongNeverParsed)
  <1>1. FramerInit => FramerInv
    BY FramerInitially
  <1>2. FramerInv /\ [FramerNext]_framerVars => FramerInv'
    <2> SUFFICES ASSUME FramerInv, [FramerNext]_framerVars
                 PROVE  FramerInv'
      OBVIOUS
    <2>1. CASE FramerNext
      BY <2>1, SkipKeeps, OverrunKeeps, StoreKeeps DEF FramerNext
    <2>2. CASE UNCHANGED framerVars
      BY <2>2 DEF framerVars, FramerInv, FramerTypeOK, InSync, SkipInv,
                  LostOnlyAfterFull, LongNeverParsed
    <2> QED BY <2>1, <2>2
  <1>3. FramerInv => FramerTypeOK /\ InSync /\ LostOnlyAfterFull
                     /\ LongNeverParsed
    BY DEF FramerInv
  <1> QED BY <1>1, <1>2, <1>3, PTL DEF FramerSpec

----------------------------------------------------------------------------
(* The tokenizer: the loop, unfolded.                                       *)

\* A set of natural numbers that is not empty has a least element.
LEMMA MinOfNats ==
    ASSUME NEW S \in SUBSET Nat, S # {}
    PROVE  Min(S) \in S /\ \A n \in S : Min(S) <= n
  <1>1. IsWellFoundedOn(OpToRel(<, Nat), Nat)
    BY NatLessThanWellFounded
  <1>2. PICK m \in S : \A n \in S : ~(<<n, m>> \in OpToRel(<, Nat))
    BY <1>1, WFMin
  <1>3. ASSUME NEW n \in S PROVE m <= n
    <2>1. ~(n < m)
      BY <1>2 DEF OpToRel
    <2> QED BY <2>1
  <1> QED BY <1>3 DEF Min

\* Comma finds the first comma from p on, or the end.
LEMMA CommaIs ==
    ASSUME NEW S, NEW body \in Seq(S), NEW p \in 1 .. Len(body) + 1
    PROVE  LET q == Comma(body, p)
           IN  /\ q \in p .. Len(body) + 1
               /\ \A r \in p .. q - 1 : body[r] # COMMA
               /\ q <= Len(body) => body[q] = COMMA
  <1>1. Len(body) \in Nat /\ p \in Nat /\ 1 <= p /\ p <= Len(body) + 1
    OBVIOUS
  <1> DEFINE n == Len(body)
             C == {q \in p .. n : body[q] = COMMA} \cup {n + 1}
  <1>2. Comma(body, p) = Min(C)
    BY DEF Comma
  <1> HIDE DEF n
  <1>3. n \in Nat /\ p \in Nat /\ 1 <= p /\ p <= n + 1
    BY <1>1 DEF n
  <1>4. C \in SUBSET Nat /\ n + 1 \in C
    BY <1>3
  <1>5. /\ Min(C) \in C
        /\ \A r \in C : Min(C) <= r
    BY <1>4, MinOfNats
  <1>6. PICK m : m = Min(C)
    OBVIOUS
  <1>7. m \in p .. n + 1 /\ (m <= n => body[m] = COMMA)
    BY <1>3, <1>5, <1>6
  <1>8. ASSUME NEW r \in p .. m - 1 PROVE body[r] # COMMA
    <2>1. r \in p .. n /\ ~(m <= r)
      BY <1>3, <1>7
    <2> QED BY <1>5, <1>6, <2>1
  <1> QED BY <1>2, <1>6, <1>7, <1>8 DEF n

\* The text from p on, cut at its commas.
IsSplit(body, f) ==
    f = [p \in 1 .. Len(body) + 2 |->
            IF p > Len(body) THEN <<>>
            ELSE LET q == Comma(body, p)
                 IN  <<SubSeq(body, p, q - 1)>> \o f[q + 1]]

\* Split is the first value of the function its LET defines.
LEMMA SplitUnfolds ==
    ASSUME NEW body
    PROVE  Split(body) = (CHOOSE f : IsSplit(body, f))[1]
  BY DEF Split, IsSplit

----------------------------------------------------------------------------
(* The fields, told apart by the commas before them.                        *)

\* The commas before place p, by which Field numbers the fields.
Before(body, p) == Cardinality({q \in 1 .. p - 1 : body[q] = COMMA})

\* The commas before a place are finitely many,
LEMMA BeforeIsNat ==
    ASSUME NEW body, NEW p \in Nat
    PROVE  /\ IsFiniteSet({q \in 1 .. p - 1 : body[q] = COMMA})
           /\ Before(body, p) \in Nat
  <1>1. IsFiniteSet(1 .. p - 1)
    BY FS_Interval
  <1>2. {q \in 1 .. p - 1 : body[q] = COMMA} \in SUBSET (1 .. p - 1)
    OBVIOUS
  <1> QED BY <1>1, <1>2, FS_Subset, FS_CardinalityType DEF Before

\* so that Before is a number.
LEMMA BeforeType == \A body : \A p \in Nat : Before(body, p) \in Nat
  BY BeforeIsNat

\* There are no fewer commas before a later place,
LEMMA BeforeGrows ==
    ASSUME NEW body, NEW p \in Nat, NEW r \in Nat, p <= r
    PROVE  Before(body, p) <= Before(body, r)
  <1>1. {q \in 1 .. p - 1 : body[q] = COMMA}
            \in SUBSET {q \in 1 .. r - 1 : body[q] = COMMA}
    OBVIOUS
  <1> QED BY <1>1, BeforeIsNat, FS_Subset DEF Before

\* as many if there is none in between,
LEMMA BeforeFlat ==
    ASSUME NEW body, NEW p \in Nat \ {0}, NEW r \in Nat, p <= r,
           \A q \in p .. r - 1 : body[q] # COMMA
    PROVE  Before(body, r) = Before(body, p)
  <1>1. {q \in 1 .. p - 1 : body[q] = COMMA}
            = {q \in 1 .. r - 1 : body[q] = COMMA}
    OBVIOUS
  <1> QED BY <1>1 DEF Before

\* and one more after a comma.
LEMMA BeforeNext ==
    ASSUME NEW body, NEW p \in Nat \ {0}, body[p] = COMMA
    PROVE  Before(body, p + 1) = Before(body, p) + 1
  <1> DEFINE T == {q \in 1 .. p - 1 : body[q] = COMMA}
  <1>1. {q \in 1 .. (p + 1) - 1 : body[q] = COMMA} = T \cup {p}
    OBVIOUS
  <1>2. p \notin T
    OBVIOUS
  <1>3. IsFiniteSet(T)
    BY BeforeIsNat
  <1>4. Cardinality(T \cup {p}) = Cardinality(T) + 1
    BY <1>2, <1>3, FS_AddElement
  <1> QED BY <1>1, <1>4 DEF Before

\* The places of a field.
Places(body, index) ==
    {p \in 1 .. Len(body) : body[p] # COMMA /\ Before(body, p) = index}

\* Field is the text from the first of its places to the last.
LEMMA FieldIs ==
    ASSUME NEW body, NEW index
    PROVE  Field(body, index) =
               IF Places(body, index) = {} THEN <<>>
               ELSE SubSeq(body, Min(Places(body, index)),
                                 Max(Places(body, index)))
  BY DEF Field, Places, Before

\* p is where a field begins.
Begins(body, p) == p = 1 \/ body[p - 1] = COMMA

\* The characters of the fields before are before it.
LEMMA EarlierFields ==
    ASSUME NEW body, NEW p \in Nat \ {0}, Begins(body, p),
           NEW r \in Nat \ {0}, r < p, body[r] # COMMA
    PROVE  Before(body, r) < Before(body, p)
  <1>1. p - 1 \in Nat \ {0} /\ r <= p - 1 /\ body[p - 1] = COMMA
    BY DEF Begins
  <1>2. Before(body, p) = Before(body, p - 1) + 1
    <2>1. (p - 1) + 1 = p
      OBVIOUS
    <2> QED BY <1>1, <2>1, BeforeNext
  <1>3. Before(body, r) <= Before(body, p - 1)
    BY <1>1, BeforeGrows
  <1> QED BY <1>1, <1>2, <1>3, BeforeType

\* The field that begins at p reaches to the next comma.
LEMMA FieldAt ==
    ASSUME NEW S, NEW body \in Seq(S), NEW p \in 1 .. Len(body),
           Begins(body, p)
    PROVE  Field(body, Before(body, p)) = SubSeq(body, p, Comma(body, p) - 1)
  <1> DEFINE L == Len(body)
             q == Comma(body, p)
             k == Before(body, p)
  <1>1. L \in Nat /\ p \in Nat /\ 1 <= p /\ p <= L
    OBVIOUS
  <1>2. /\ q \in p .. L + 1
        /\ \A r \in p .. q - 1 : body[r] # COMMA
        /\ q <= L => body[q] = COMMA
    <2>1. p \in 1 .. Len(body) + 1
      BY <1>1
    <2> QED BY <2>1, CommaIs
  <1> HIDE DEF L, q
  <1>3. q \in Nat /\ p <= q /\ q <= L + 1
    BY <1>1, <1>2
  <1>4. ASSUME NEW r \in p .. q - 1
        PROVE  r \in 1 .. L /\ body[r] # COMMA /\ Before(body, r) = k
    <2>1. r \in Nat /\ p <= r /\ r <= q - 1 /\ r \in 1 .. L
      BY <1>1, <1>3
    <2>2. \A s \in p .. r - 1 : body[s] # COMMA
      BY <1>1, <1>2, <1>3, <2>1
    <2> QED BY <1>1, <1>2, <2>1, <2>2, BeforeFlat
  <1>5. ASSUME NEW r \in 1 .. L, body[r] # COMMA, Before(body, r) = k
        PROVE  r \in p .. q - 1
    <2>1. r \in Nat \ {0} /\ k \in Nat
      BY <1>1, BeforeType
    <2>2. ~(r < p)
      BY <1>1, <1>5, <2>1, EarlierFields
    <2>3. CASE r >= q
      <3>1. q <= L /\ body[q] = COMMA /\ r # q
        BY <1>1, <1>2, <1>3, <1>5, <2>1, <2>3
      <3>2. q \in Nat \ {0} /\ q + 1 \in Nat /\ q + 1 <= r
        BY <1>1, <1>3, <2>1, <2>3, <3>1
      <3>3. Before(body, q + 1) = Before(body, q) + 1
        BY <3>1, <3>2, BeforeNext
      <3>4. Before(body, q) = k
        BY <1>1, <1>2, <1>3, BeforeFlat
      <3>5. Before(body, q + 1) <= Before(body, r)
        BY <2>1, <3>2, BeforeGrows
      <3> QED BY <1>5, <2>1, <3>3, <3>4, <3>5
    <2> QED BY <1>1, <1>3, <2>1, <2>2, <2>3
  <1>6. Places(body, k) = p .. q - 1
    BY <1>4, <1>5 DEF Places, L
  <1>7. CASE q = p
    <2>1. Places(body, k) = {}
      BY <1>1, <1>6, <1>7
    <2>2. SubSeq(body, p, q - 1) = <<>>
      BY <1>1, <1>7, SubSeqEmpty
    <2> QED BY <2>1, <2>2, FieldIs DEF q
  <1>8. CASE q # p
    <2>1. p <= q - 1 /\ q - 1 \in Nat
      BY <1>1, <1>3, <1>8
    <2>2. Min(p .. q - 1) = p /\ Max(p .. q - 1) = q - 1
      BY <1>1, <2>1 DEF Min, Max
    <2>3. Places(body, k) # {}
      BY <1>1, <1>6, <2>1
    <2> QED BY <1>6, <2>2, <2>3, FieldIs DEF q
  <1> QED BY <1>7, <1>8

\* There are no fields after the last.
LEMMA FieldAfter ==
    ASSUME NEW S, NEW body \in Seq(S), NEW p \in Nat \ {0}, p <= Len(body) + 1,
           NEW k \in Nat,
           \/ p = Len(body) + 1 /\ Begins(body, p) /\ Before(body, p) <= k
           \/ /\ \A r \in p .. Len(body) : body[r] # COMMA
              /\ Before(body, p) < k
    PROVE  Field(body, k) = <<>>
  <1>1. Len(body) \in Nat
    OBVIOUS
  <1>2. ASSUME NEW r \in 1 .. Len(body), body[r] # COMMA, Before(body, r) = k
        PROVE  FALSE
    <2>1. r \in Nat \ {0} /\ r <= Len(body) /\ Before(body, p) \in Nat
      BY <1>1, BeforeType
    <2>2. CASE p = Len(body) + 1 /\ Begins(body, p) /\ Before(body, p) <= k
      BY <1>1, <1>2, <2>1, <2>2, EarlierFields
    <2>3. CASE (\A s \in p .. Len(body) : body[s] # COMMA)
                 /\ Before(body, p) < k
      <3>1. Len(body) + 1 \in Nat /\ r <= Len(body) + 1
        BY <1>1, <2>1
      <3>2. Before(body, r) <= Before(body, Len(body) + 1)
        BY <2>1, <3>1, BeforeGrows
      <3>3. Before(body, Len(body) + 1) = Before(body, p)
        <4>1. (Len(body) + 1) - 1 = Len(body)
          BY <1>1
        <4> QED BY <2>3, <3>1, <4>1, BeforeFlat
      <3> QED BY <1>2, <2>1, <2>3, <3>2, <3>3
    <2> QED BY <2>2, <2>3
  <1>3. Places(body, k) = {}
    BY <1>2 DEF Places
  <1> QED BY <1>3, FieldIs

----------------------------------------------------------------------------
(* Split is defined: a function that satisfies its equation exists.         *)

\* What Split has at place p, given what it has further on.
Rest(body, f, p) ==
    IF p > Len(body) THEN <<>>
    ELSE <<SubSeq(body, p, Comma(body, p) - 1)>> \o f[Comma(body, p) + 1]

\* f is what Split defines, from place m on.
SplitFrom(body, f, m) ==
    f = [p \in m .. Len(body) + 2 |-> Rest(body, f, p)]

\* Rest reads only places further on.
LEMMA RestReadsOn ==
    ASSUME NEW S, NEW body \in Seq(S), NEW p \in 1 .. Len(body) + 2,
           NEW f, NEW g,
           \A r \in p + 1 .. Len(body) + 2 : f[r] = g[r]
    PROVE  Rest(body, f, p) = Rest(body, g, p)
  <1>1. Len(body) \in Nat /\ p \in Nat
    OBVIOUS
  <1>2. CASE p > Len(body)
    BY <1>2 DEF Rest
  <1>3. CASE ~(p > Len(body))
    <2>1. Comma(body, p) \in p .. Len(body) + 1
      <3>1. p \in 1 .. Len(body) + 1
        BY <1>1, <1>3
      <3> QED BY <3>1, CommaIs
    <2>2. Comma(body, p) + 1 \in p + 1 .. Len(body) + 2
      BY <1>1, <2>1
    <2>3. f[Comma(body, p) + 1] = g[Comma(body, p) + 1]
      BY <2>2
    <2> QED BY <2>3 DEF Rest
  <1> QED BY <1>2, <1>3

\* So a function that is right from the next place on can be extended,
LEMMA SplitExtends ==
    ASSUME NEW S, NEW body \in Seq(S), NEW m \in 1 .. Len(body) + 1,
           NEW g, SplitFrom(body, g, m + 1)
    PROVE  \E f : SplitFrom(body, f, m)
  <1> DEFINE n == Len(body) + 2
  <1>1. n \in Nat /\ m \in Nat /\ 1 <= m /\ m < n
    OBVIOUS
  <1> DEFINE f == [p \in m .. n |-> IF p = m THEN Rest(body, g, m) ELSE g[p]]
  <1>2. ASSUME NEW p \in m .. n PROVE Rest(body, f, p) = Rest(body, g, p)
    <2>1. \A r \in p + 1 .. n : f[r] = g[r]
      BY <1>1
    <2>2. p \in 1 .. Len(body) + 2
      BY <1>1
    <2> HIDE DEF f
    <2> QED BY <2>1, <2>2, RestReadsOn
  <1>3. ASSUME NEW p \in m + 1 .. n PROVE g[p] = Rest(body, g, p)
    BY <1>1 DEF SplitFrom
  <1>4. f = [p \in m .. n |-> Rest(body, g, p)]
    BY <1>1, <1>3
  <1>5. f = [p \in m .. n |-> Rest(body, f, p)]
    <2> HIDE DEF f
    <2> QED BY <1>2, <1>4
  <1> QED BY <1>5 DEF SplitFrom

\* and one that is right from the first place on exists.
LEMMA SplitExists ==
    ASSUME NEW S, NEW body \in Seq(S)
    PROVE  \E f : SplitFrom(body, f, 1)
  <1> DEFINE n == Len(body) + 2
             Bad == {d \in 0 .. n - 1 : ~ \E f : SplitFrom(body, f, n - d)}
  <1>1. Len(body) \in Nat /\ n \in Nat /\ n >= 2
    OBVIOUS
  <1>2. CASE Bad = {}
    <2>1. n - 1 \in 0 .. n - 1 /\ n - (n - 1) = 1
      BY <1>1
    <2> QED BY <1>2, <2>1
  <1>3. CASE Bad # {}
    <2>1. Bad \in SUBSET Nat
      BY <1>1
    <2>2. PICK d \in Bad : \A e \in Bad : d <= e
      BY <1>3, <2>1, MinOfNats
    <2>3. d \in 0 .. n - 1 /\ ~ \E f : SplitFrom(body, f, n - d)
      BY <2>2
    <2>4. CASE d = 0
      <3> DEFINE f == [p \in n .. n |-> <<>>]
      <3>1. \A p \in n .. n : Rest(body, f, p) = <<>>
        BY <1>1 DEF Rest
      <3>2. f = [p \in n .. n |-> Rest(body, f, p)]
        <4> HIDE DEF f
        <4>1. f = [p \in n .. n |-> <<>>]
          BY DEF f
        <4> QED BY <3>1, <4>1
      <3>3. n - d = n
        BY <1>1, <2>4
      <3> QED BY <2>3, <3>2, <3>3 DEF SplitFrom
    <2>5. CASE d # 0
      <3>1. d - 1 \in 0 .. n - 1 /\ ~(d <= d - 1) /\ n - (d - 1) = (n - d) + 1
        BY <1>1, <2>3, <2>5
      <3>2. \E g : SplitFrom(body, g, n - (d - 1))
        BY <2>2, <3>1
      <3>3. n - d \in 1 .. Len(body) + 1
        BY <1>1, <2>3, <2>5
      <3> QED BY <2>3, <3>1, <3>2, <3>3, SplitExtends
    <2> QED BY <2>4, <2>5
  <1> QED BY <1>2, <1>3

\* So Split is what its definition says.
LEMMA SplitDefined ==
    ASSUME NEW S, NEW body \in Seq(S)
    PROVE  \E f : /\ Split(body) = f[1]
                  /\ \A p \in 1 .. Len(body) + 2 : f[p] = Rest(body, f, p)
  <1>1. \A f : IsSplit(body, f) <=> SplitFrom(body, f, 1)
    BY DEF IsSplit, SplitFrom, Rest
  <1>2. PICK f : f = CHOOSE g : IsSplit(body, g)
    OBVIOUS
  <1>3. IsSplit(body, f)
    BY <1>1, <1>2, SplitExists
  <1>4. \A p \in 1 .. Len(body) + 2 : f[p] = Rest(body, f, p)
    BY <1>1, <1>3 DEF SplitFrom
  <1>5. Split(body) = f[1]
    BY <1>2, SplitUnfolds
  <1> QED BY <1>4, <1>5

----------------------------------------------------------------------------
(* The tokens are the fields.                                               *)

\* rest holds the fields from number k on and nothing else.
Holds(S, body, rest, k) ==
    /\ rest \in Seq(Seq(S))
    /\ \A j \in Nat :
           Field(body, k + j) = IF j < Len(rest) THEN rest[j + 1] ELSE <<>>

\* After a comma at the very end there is no field.
LEMMA NothingLeft ==
    ASSUME NEW S, NEW body \in Seq(S), NEW p \in Nat \ {0}, p = Len(body) + 1,
           Begins(body, p)
    PROVE  Holds(S, body, <<>>, Before(body, p))
  <1>1. Before(body, p) \in Nat
    BY BeforeType
  <1>2. ASSUME NEW j \in Nat PROVE Field(body, Before(body, p) + j) = <<>>
    <2>1. Before(body, p) + j \in Nat /\ Before(body, p) <= Before(body, p) + j
      BY <1>1
    <2>2. Len(body) \in Nat /\ p <= Len(body) + 1
      OBVIOUS
    <2> QED BY <2>1, <2>2, FieldAfter
  <1>3. Len(<<>>) = 0 /\ <<>> \in Seq(Seq(S))
    OBVIOUS
  <1>4. \A j \in Nat : ~(j < 0)
    OBVIOUS
  <1> QED BY <1>2, <1>3, <1>4 DEF Holds

\* A field in front of those that follow it.
LEMMA OneMore ==
    ASSUME NEW S, NEW body \in Seq(S), NEW k \in Nat, NEW token \in Seq(S),
           Field(body, k) = token, NEW rest, Holds(S, body, rest, k + 1)
    PROVE  Holds(S, body, <<token>> \o rest, k)
  <1>1. rest \in Seq(Seq(S)) /\ <<token>> \in Seq(Seq(S)) /\ Len(<<token>>) = 1
        /\ <<token>>[1] = token /\ Len(rest) \in Nat
    BY DEF Holds
  <1> DEFINE all == <<token>> \o rest
  <1>2. /\ all \in Seq(Seq(S)) /\ Len(all) = Len(rest) + 1
        /\ \A i \in 1 .. Len(rest) + 1 :
               all[i] = IF i <= 1 THEN token ELSE rest[i - 1]
    BY <1>1, ConcatProperties
  <1> HIDE DEF all
  <1>3. ASSUME NEW j \in Nat
        PROVE  Field(body, k + j) = IF j < Len(all) THEN all[j + 1] ELSE <<>>
    <2>1. CASE j = 0
      <3>1. k + j = k /\ j < Len(all) /\ j + 1 \in 1 .. Len(rest) + 1
              /\ j + 1 <= 1
        BY <1>1, <1>2, <2>1
      <3>2. all[j + 1] = token
        BY <1>2, <3>1
      <3> QED BY <3>1, <3>2
    <2>2. CASE j # 0
      <3>1. j - 1 \in Nat /\ (k + 1) + (j - 1) = k + j /\ (j - 1) + 1 = j
        BY <2>2
      <3>2. Field(body, k + j) = IF j - 1 < Len(rest) THEN rest[j] ELSE <<>>
        BY <3>1 DEF Holds
      <3>3. j - 1 < Len(rest) <=> j < Len(all)
        BY <1>1, <1>2
      <3>4. CASE j < Len(all)
        <4>1. j + 1 \in 1 .. Len(rest) + 1 /\ ~(j + 1 <= 1) /\ (j + 1) - 1 = j
          BY <1>1, <1>2, <2>2, <3>4
        <4>2. all[j + 1] = rest[j]
          BY <1>2, <4>1
        <4> QED BY <3>2, <3>3, <3>4, <4>2
      <3> QED BY <3>2, <3>3, <3>4
    <2> QED BY <2>1, <2>2
  <1> QED BY <1>2, <1>3 DEF Holds, all

\* One turn of the loop: if it is right from the next comma on, it is right
\* from p on.
LEMMA RestHolds ==
    ASSUME NEW S, NEW body \in Seq(S), NEW f,
           \A p \in 1 .. Len(body) + 2 : f[p] = Rest(body, f, p),
           NEW p \in 1 .. Len(body), Begins(body, p),
           \A r \in p + 1 .. Len(body) + 1 :
               Begins(body, r) => Holds(S, body, f[r], Before(body, r))
    PROVE  Holds(S, body, f[p], Before(body, p))
  <1> DEFINE q == Comma(body, p)
             k == Before(body, p)
             L == Len(body)
  <1>1. L \in Nat /\ p \in Nat \ {0} /\ p <= L /\ p \in 1 .. L + 1
          /\ p \in 1 .. L + 2
    OBVIOUS
  <1>2. /\ q \in p .. L + 1
        /\ \A r \in p .. q - 1 : body[r] # COMMA
        /\ q <= L => body[q] = COMMA
    BY <1>1, CommaIs
  <1>3. f[p] = <<SubSeq(body, p, q - 1)>> \o f[q + 1]
    <2>1. f[p] = Rest(body, f, p) /\ ~(p > Len(body))
      BY <1>1
    <2> QED BY <2>1 DEF Rest
  <1>4. Field(body, k) = SubSeq(body, p, q - 1)
    BY FieldAt
  <1>5. k \in Nat
    BY <1>1, BeforeType
  <1> HIDE DEF q, L
  <1>6. q \in Nat \ {0} /\ q - 1 \in Int /\ q - 1 <= L /\ q <= L + 1 /\ p <= q
    BY <1>1, <1>2
  <1>7. SubSeq(body, p, q - 1) \in Seq(S)
    <2>1. \A i \in p .. q - 1 : i \in 1 .. Len(body)
      BY <1>1, <1>6 DEF L
    <2>2. \A i \in p .. q - 1 : body[i] \in S
      BY <2>1, ElementOfSeq
    <2> QED BY <1>1, <1>6, <2>2, SubSeqProperties
  <1>8. Holds(S, body, f[q + 1], k + 1)
    <2>1. CASE q <= L
      <3>1. q + 1 \in p + 1 .. L + 1 /\ (q + 1) - 1 = q
        BY <1>1, <1>6, <2>1
      <3>2. Begins(body, q + 1)
        BY <1>2, <2>1, <3>1 DEF Begins
      <3>3. Before(body, q + 1) = k + 1
        <4>1. Before(body, q) = k
          BY <1>1, <1>2, <1>6, BeforeFlat
        <4>2. Before(body, q + 1) = Before(body, q) + 1
          BY <1>2, <1>6, <2>1, BeforeNext
        <4> QED BY <4>1, <4>2
      <3> QED BY <3>1, <3>2, <3>3 DEF L
    <2>2. CASE ~(q <= L)
      <3>1. q = L + 1 /\ q + 1 = L + 2 /\ q + 1 > L /\ q + 1 \in 1 .. L + 2
              /\ q - 1 = L
        BY <1>1, <1>6, <2>2
      <3>2. f[q + 1] = <<>>
        BY <3>1 DEF Rest, L
      <3>3. ASSUME NEW j \in Nat PROVE Field(body, (k + 1) + j) = <<>>
        <4>1. (k + 1) + j \in Nat /\ k < (k + 1) + j
          BY <1>5
        <4>2. p <= Len(body) + 1 /\ \A r \in p .. Len(body) : body[r] # COMMA
          BY <1>1, <1>2, <3>1 DEF L
        <4> QED BY <1>1, <4>1, <4>2, FieldAfter
      <3>4. Len(<<>>) = 0 /\ <<>> \in Seq(Seq(S)) /\ \A j \in Nat : ~(j < 0)
        OBVIOUS
      <3> QED BY <3>2, <3>3, <3>4 DEF Holds
    <2> QED BY <2>1, <2>2
  <1> QED BY <1>3, <1>4, <1>5, <1>7, <1>8, OneMore DEF q

\* So it is right from the start: the least number of places from the end at
\* which it could be wrong does not exist.
LEMMA SplitHolds ==
    ASSUME NEW S, NEW body \in Seq(S)
    PROVE  Holds(S, body, Split(body), 0)
  <1>1. PICK f : /\ Split(body) = f[1]
                 /\ \A p \in 1 .. Len(body) + 2 : f[p] = Rest(body, f, p)
    BY SplitDefined
  <1> DEFINE L == Len(body)
             Good(p) ==
                 Begins(body, p) => Holds(S, body, f[p], Before(body, p))
             Bad == {d \in 0 .. L : ~Good(L + 1 - d)}
  <1>2. L \in Nat
    OBVIOUS
  <1>3. Good(L + 1)
    <2>1. f[L + 1] = <<>>
      <3>1. L + 1 \in 1 .. Len(body) + 2 /\ L + 1 > Len(body)
        BY <1>2
      <3> QED BY <1>1, <3>1 DEF Rest
    <2>2. L + 1 \in Nat \ {0}
      BY <1>2
    <2> QED BY <2>1, <2>2, NothingLeft
  <1>4. ASSUME NEW p \in 1 .. L, \A r \in p + 1 .. L + 1 : Good(r)
        PROVE  Good(p)
    BY <1>1, <1>4, RestHolds
  <1> HIDE DEF Good, L
  <1>5. CASE Bad = {}
    <2>1. L \in 0 .. L /\ L + 1 - L = 1
      BY <1>2
    <2>2. Good(1)
      BY <1>5, <2>1
    <2>3. Begins(body, 1)
      BY DEF Begins
    <2>4. Before(body, 1) = 0
      <3>1. {q \in 1 .. 1 - 1 : body[q] = COMMA} = {}
        OBVIOUS
      <3> QED BY <3>1, FS_EmptySet DEF Before
    <2> QED BY <1>1, <2>2, <2>3, <2>4 DEF Good
  <1>6. CASE Bad # {}
    <2>1. Bad \in SUBSET Nat
      BY <1>2
    <2>2. PICK d \in Bad : \A e \in Bad : d <= e
      BY <1>6, <2>1, MinOfNats
    <2>3. d \in 0 .. L /\ ~Good(L + 1 - d)
      BY <2>2
    <2>4. d # 0
      <3>1. L + 1 - 0 = L + 1
        BY <1>2
      <3> QED BY <1>3, <2>3, <3>1
    <2>5. L + 1 - d \in 1 .. L
      BY <1>2, <2>3, <2>4
    <2>6. ASSUME NEW r \in (L + 1 - d) + 1 .. L + 1 PROVE Good(r)
      <3>1. L + 1 - r \in 0 .. L /\ ~(d <= L + 1 - r)
              /\ L + 1 - (L + 1 - r) = r
        BY <1>2, <2>3
      <3> QED BY <2>2, <3>1
    <2> QED BY <1>4, <2>3, <2>5, <2>6
  <1> QED BY <1>5, <1>6

\* What is left of a sentence without its '$', end of line and checksum.
LEMMA BodyIsSeq ==
    ASSUME NEW S, NEW sentence \in Seq(S)
    PROVE  Body(sentence) \in Seq(S)
  <1> DEFINE a == IF sentence # <<>>
        /\ sentence[1] = DOLLAR THEN Tail(sentence)
                                                             ELSE sentence
             b == IF a # <<>> /\ Last(a) = NL THEN Front(a) ELSE a
             c == IF a # b /\ b # <<>> /\ Last(b) = CR THEN Front(b) ELSE b
  <1>1. a \in Seq(S)
    OBVIOUS
  <1> HIDE DEF a
  <1>2. ASSUME NEW s \in Seq(S), NEW n \in Int, n <= Len(s)
        PROVE  SubSeq(s, 1, n) \in Seq(S)
    <2>1. \A i \in 1 .. n : i \in 1 .. Len(s)
      BY <1>2
    <2>2. \A i \in 1 .. n : s[i] \in S
      BY <2>1, ElementOfSeq
    <2> QED BY <2>2, SubSeqProperties
  <1>3. \A s \in Seq(S) : Front(s) \in Seq(S)
    BY <1>2 DEF Front
  <1>4. b \in Seq(S)
    BY <1>1, <1>3
  <1> HIDE DEF b
  <1>5. c \in Seq(S)
    BY <1>3, <1>4
  <1> HIDE DEF c
  <1>6. SubSeq(c, 1, Len(c) - 3) \in Seq(S)
    BY <1>2, <1>5
  <1> QED BY <1>5, <1>6 DEF Body, a, b, c

\* Whatever the sentence, the parser gets every field it asks for by number
\* as the receiver sent it, and nothing for a field that is not there or that
\* is beyond the last token.
THEOREM TokensCorrect ==
    ASSUME NEW S, NEW sentence \in Seq(S), NEW i \in Int, i >= -1
    PROVE  Token(Tokens(sentence), i) =
               IF i < MAX_NMEA_TOKENS THEN Field(Body(sentence), i) ELSE <<>>
  <1> DEFINE body == Body(sentence)
             fields == Split(body)
             n == Min({Len(fields), MAX_NMEA_TOKENS})
             tokens == SubSeq(fields, 1, n)
  <1>1. body \in Seq(S)
    BY BodyIsSeq
  <1>2. Holds(S, body, fields, 0)
    BY <1>1, SplitHolds
  <1>3. Tokens(sentence) = tokens
    BY DEF Tokens
  <1> HIDE DEF body, fields
  <1>4. fields \in Seq(Seq(S)) /\ Len(fields) \in Nat
          /\ MAX_NMEA_TOKENS \in Nat
    BY <1>2, TokenAssumption DEF Holds
  <1>5. n = IF Len(fields) <= MAX_NMEA_TOKENS THEN Len(fields)
            ELSE MAX_NMEA_TOKENS
    BY <1>4 DEF Min
  <1> HIDE DEF n
  <1>6. n \in Nat /\ n <= Len(fields) /\ n <= MAX_NMEA_TOKENS
    BY <1>4, <1>5
  <1>7. /\ Len(tokens) = n
        /\ \A j \in 1 .. n : tokens[j] = fields[j]
    <2>1. \A j \in 1 .. n : fields[j] \in Seq(S)
      BY <1>4, <1>6, ElementOfSeq
    <2> QED BY <1>6, <2>1, SubSeqProperties
  <1> HIDE DEF tokens
  <1>8. CASE i \in 0 .. n - 1
    <2>1. i + 1 \in 1 .. n /\ i \in Nat /\ i < Len(fields) /\ 0 + i = i
            /\ i < MAX_NMEA_TOKENS
      BY <1>4, <1>6, <1>8
    <2>2. Field(body, i) = fields[i + 1]
      BY <1>2, <2>1 DEF Holds
    <2>3. Token(tokens, i) = tokens[i + 1]
      BY <1>7, <1>8 DEF Token
    <2> QED BY <1>3, <1>7, <2>1, <2>2, <2>3 DEF body
  <1>9. CASE i \notin 0 .. n - 1
    <2>1. Token(tokens, i) = <<>>
      BY <1>7, <1>9 DEF Token
    <2>2. CASE i < MAX_NMEA_TOKENS /\ i >= 0
      <3>1. i \in Nat /\ ~(i < Len(fields)) /\ 0 + i = i
        BY <1>4, <1>5, <1>9, <2>2
      <3>2. Field(body, i) = <<>>
        BY <1>2, <3>1 DEF Holds
      <3> QED BY <1>3, <2>1, <2>2, <3>2 DEF body
    <2>3. CASE i = -1
      <3>1. Places(body, i) = {}
        <4>1. \A p \in 1 .. Len(body) : Before(body, p) \in Nat
          BY <1>1, BeforeType
        <4> QED BY <2>3, <4>1 DEF Places
      <3>2. Field(body, i) = <<>>
        BY <3>1, FieldIs
      <3> QED BY <1>3, <2>1, <3>2 DEF body
    <2>4. CASE ~(i < MAX_NMEA_TOKENS)
      BY <1>3, <2>1, <2>4
    <2> QED BY <2>2, <2>3, <2>4
  <1> QED BY <1>8, <1>9

----------------------------------------------------------------------------
(* The characters in the buffer.                                            *)

\* nmea_reader_addc keeps the buffer equal to the line, unless it skips.
LEMMA InputStep ==
    ASSUME InputInv, NEW c \in Characters \cup {NL}, AddChar(c)
    PROVE  InputTypeOK' /\ SentenceIsLine'
  <1>1. /\ in \in Seq(Characters \ {NL}) /\ line \in Seq(Characters \ {NL})
        /\ Len(in) = pos /\ (~overflow => in = line)
        /\ pos \in Nat /\ NMEA_MAX_SIZE \in Nat
        /\ overflow \in BOOLEAN /\ (overflow => pos = 0)
    BY SizeAssumption
    DEF InputInv, InputTypeOK, SentenceIsLine, FramerInv, FramerTypeOK, SkipInv
  <1>2. /\ in' = Keep(c)
        /\ line' = IF c = NL THEN <<>>
                   ELSE IF Len(line) < NMEA_MAX_SIZE THEN Append(line, c)
                   ELSE line
    BY DEF AddChar
  <1>3. InputTypeOK'
    <2>1. c # NL => /\ Append(in, c) \in Seq(Characters \ {NL})
                    /\ Append(line, c) \in Seq(Characters \ {NL})
      BY <1>1
    <2>2. <<>> \in Seq(Characters \ {NL})
      OBVIOUS
    <2> QED BY <1>1, <1>2, <2>1, <2>2 DEF InputTypeOK, Keep
  <1>4. CASE Skip(c = NL)
    <2>1. in' = <<>> /\ pos' = 0 /\ overflow /\ overflow' = ~(c = NL)
      BY <1>1, <1>2, <1>4 DEF Skip, Keep
    <2>2. Len(in') = pos'
      BY <2>1
    <2>3. ~overflow' => in' = line'
      BY <1>2, <2>1
    <2> QED BY <1>3, <2>2, <2>3 DEF SentenceIsLine
  <1>5. CASE Overrun(c = NL)
    <2>1. in' = <<>> /\ pos' = 0 /\ overflow'
      BY <1>2, <1>5 DEF Overrun, Keep
    <2> QED BY <1>3, <2>1 DEF SentenceIsLine
  <1>6. CASE Store(c = NL)
    <2>1. /\ ~overflow /\ ~overflow' /\ pos < NMEA_MAX_SIZE
          /\ pos' = IF c = NL THEN 0 ELSE pos + 1
      BY <1>6 DEF Store
    <2>2. CASE c = NL
      <3>1. in' = <<>> /\ line' = <<>> /\ pos' = 0
        BY <1>2, <2>1, <2>2 DEF Keep
      <3> QED BY <1>3, <3>1 DEF SentenceIsLine
    <2>3. CASE c # NL
      <3>1. in' = Append(in, c) /\ pos' = pos + 1
        BY <1>1, <1>2, <2>1, <2>3 DEF Keep
      <3>2. line' = Append(in, c)
        BY <1>1, <1>2, <2>1, <2>3
      <3>3. Len(Append(in, c)) = Len(in) + 1
        BY <1>1, <2>3
      <3> QED BY <1>1, <1>3, <3>1, <3>2, <3>3 DEF SentenceIsLine
    <2> QED BY <2>2, <2>3
  <1> QED BY <1>3, <1>4, <1>5, <1>6 DEF AddChar

\* The invariant of the reader with its characters.
LEMMA InputInvHolds == InputSpec => []InputInv
  <1>1. InputInit => InputInv
    <2> SUFFICES ASSUME InputInit PROVE InputInv
      OBVIOUS
    <2>1. FramerInv
      BY FramerInitially DEF InputInit
    <2>2. InputTypeOK /\ SentenceIsLine
      BY DEF InputInit, FramerInit, InputTypeOK, SentenceIsLine
    <2> QED BY <2>1, <2>2 DEF InputInv
  <1>2. InputInv /\ [InputNext]_inputVars => InputInv'
    <2> SUFFICES ASSUME InputInv, [InputNext]_inputVars PROVE InputInv'
      OBVIOUS
    <2>1. ASSUME NEW c \in Characters \cup {NL}, AddChar(c) PROVE InputInv'
      <3>1. (c = NL) \in BOOLEAN
        OBVIOUS
      <3>2. FramerInv'
        BY <2>1, <3>1, SkipKeeps, OverrunKeeps, StoreKeeps
        DEF InputInv, AddChar
      <3> QED BY <2>1, <3>2, InputStep DEF InputInv
    <2>2. CASE UNCHANGED inputVars
      <3>1. FramerInv'
        BY <2>2
        DEF inputVars, framerVars, InputInv, FramerInv, FramerTypeOK, InSync,
            SkipInv, LostOnlyAfterFull, LongNeverParsed
      <3> QED BY <2>2, <3>1
              DEF inputVars, framerVars, InputInv, InputTypeOK, SentenceIsLine
    <2> QED BY <2>1, <2>2 DEF InputNext
  <1> QED BY <1>1, <1>2, PTL DEF InputSpec

\* The buffer holds the current line from its first character, whatever the
\* receiver sends.
THEOREM InSyncHolds == InputSpec => []InSync
  <1>1. InputInv => InSync
    BY DEF InputInv, FramerInv
  <1> QED BY <1>1, InputInvHolds, PTL

\* A line that fits is lost only right after one that exactly filled the
\* buffer.
THEOREM LostOnlyAfterFullHolds == InputSpec => []LostOnlyAfterFull
  <1>1. InputInv => LostOnlyAfterFull
    BY DEF InputInv, FramerInv
  <1> QED BY <1>1, InputInvHolds, PTL

\* What a newline would complete now is the line the receiver sent, character
\* by character.
THEOREM SentenceIsLineHolds == InputSpec => []SentenceIsLine
  <1>1. InputInv => SentenceIsLine
    BY DEF InputInv
  <1> QED BY <1>1, InputInvHolds, PTL

\* The parser gets the fields of the line in the buffer.
THEOREM TokensAreFieldsHolds == InputSpec => []TokensAreFields
  <1>1. InputInv => TokensAreFields
    <2> SUFFICES ASSUME InputInv, NEW i \in -1 .. NMEA_MAX_SIZE
                 PROVE  LET sentence == Append(in, NL)
                        IN  Token(Tokens(sentence), i) =
                                IF i < MAX_NMEA_TOKENS
                                THEN Field(Body(sentence), i) ELSE <<>>
      BY DEF TokensAreFields
    <2>1. Append(in, NL) \in Seq(Characters \cup {NL})
      <3>1. in \in Seq(Characters \cup {NL})
        <4>1. in \in Seq(Characters \ {NL})
                /\ Characters \ {NL} \subseteq Characters \cup {NL}
          BY DEF InputInv, InputTypeOK
        <4> QED BY <4>1, SeqMonotonic
      <3> QED BY <3>1
    <2>2. i \in Int /\ i >= -1
      BY SizeAssumption
    <2> QED BY <2>1, <2>2, TokensCorrect
  <1> QED BY <1>1, InputInvHolds, PTL
=============================================================================
