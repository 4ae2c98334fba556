------------------------------- MODULE FixProofs -------------------------------
(***************************************************************************)
(* The FIX layer, in two parts that share nothing but the sequences they   *)
(* are about.                                                              *)
(*                                                                         *)
(* FixStreamReader implements MessageStream, for any messages and noise,   *)
(* any way to cut the stream into chunks and any place where it breaks.    *)
(* The stream is noise and texts laid end to end, as far as it arrived;    *)
(* the buffer is the part of it that begins behind the last text returned, *)
(* or at the start.  A search in what has arrived finds what it would find *)
(* in the whole text, or nothing yet (SameEnd).                            *)
(*                                                                         *)
(* What a client may rely on across its connections, and a batch across    *)
(* its workers, for any clients, requests, retries and numbers of          *)
(* connections.  The argument goes client by client and connection by      *)
(* connection: no two clients share one, and as long as no wait has timed  *)
(* out on it, there is at most one message under way, which belongs to the *)
(* wait in progress.  A batch adds what each worker is at, and who holds   *)
(* the semaphore.                                                          *)
(***************************************************************************)
EXTENDS FixFraming, ConcurrentOrders, FiniteSetTheorems, WellFoundedInduction,
        SequenceTheorems, TLAPS

-------------------------------------------------------------------------------
(* What find() finds.                                                      *)

LEMMA LeastPlace ==
    ASSUME NEW S \in SUBSET Nat, S # {}
    PROVE  Min(S) \in S /\ \A n \in S : Min(S) <= n
  <1>1. PICK m \in S : \A n \in S : ~(<<n, m>> \in OpToRel(<, Nat))
    BY NatLessThanWellFounded, WFMin
  <1>2. ASSUME NEW n \in S
        PROVE  m <= n
    <2>1. ~(n < m)
      BY <1>1, <1>2 DEF OpToRel
    <2> QED BY <2>1
  <1> QED BY <1>2 DEF Min

Spots(bytes, pattern, from) ==
    {i \in from .. Len(bytes) - Len(pattern) + 1 :
        SubSeq(bytes, i, i + Len(pattern) - 1) = pattern}

LEMMA FirstFound ==
    ASSUME NEW bytes, NEW pattern, NEW from \in Nat \ {0},
           Len(bytes) \in Nat, Len(pattern) \in Nat
    PROVE  \/ Spots(bytes, pattern, from) = {} /\ Find(bytes, pattern, from) = 0
           \/ /\ Find(bytes, pattern, from) \in Spots(bytes, pattern, from)
              /\ Find(bytes, pattern, from) \in Nat \ {0}
              /\ \A i \in Spots(bytes, pattern, from) : Find(bytes, pattern, from) <= i
  <1> PICK spots : spots = Spots(bytes, pattern, from)
    OBVIOUS
  <1>1. Find(bytes, pattern, from) = IF spots = {} THEN 0 ELSE Min(spots)
    BY DEF Find, Spots
  <1>2. spots \in SUBSET Nat /\ \A i \in spots : i # 0
    BY DEF Spots
  <1>3. CASE spots = {}
    BY <1>1, <1>3
  <1>4. CASE spots # {}
    <2>1. Min(spots) \in spots /\ \A n \in spots : Min(spots) <= n
      BY <1>2, <1>4, LeastPlace
    <2> QED BY <1>1, <1>2, <1>4, <2>1
  <1> QED BY <1>3, <1>4

BeginsText(bytes, i) == bytes[i] = "8" /\ bytes[i + 1] = "="

Marks(bytes, i) ==
    bytes[i] = "|" /\ bytes[i + 1] = "1" /\ bytes[i + 2] = "0" /\ bytes[i + 3] = "="

(* A part of a sequence is a pattern if its elements are.                  *)
LEMMA PartIs ==
    ASSUME NEW S, NEW bytes \in Seq(S), NEW i \in Nat \ {0}, NEW d \in Nat,
           i + d <= Len(bytes),
           NEW pattern, pattern \in Seq({"8", "=", "|", "1", "0"}), Len(pattern) = d + 1
    PROVE  SubSeq(bytes, i, i + d) = pattern
             <=> \A j \in 1 .. d + 1 : bytes[i + j - 1] = pattern[j]
  <1> PICK part : part = SubSeq(bytes, i, i + d)
    OBVIOUS
  <1>1. part = [j \in 1 .. d + 1 |-> bytes[i + j - 1]]
    <2>1. i + d - i + 1 = d + 1 /\ i \in 1 .. Len(bytes) + 1 /\ i + d \in i - 1 .. Len(bytes)
      OBVIOUS
    <2>2. part \in Seq(S) /\ Len(part) = d + 1
      BY <2>1
    <2>3. \A j \in 1 .. d + 1 : part[j] = bytes[i + j - 1]
      BY <2>1
    <2> QED BY <2>2, <2>3
  <1>2. pattern = [j \in 1 .. d + 1 |-> pattern[j]]
    OBVIOUS
  <1>3. (part = pattern) => \A j \in 1 .. d + 1 : bytes[i + j - 1] = pattern[j]
    BY <1>1
  <1>4. ASSUME \A j \in 1 .. d + 1 : bytes[i + j - 1] = pattern[j]
        PROVE  part = pattern
    BY <1>1, <1>2, <1>4
  <1> QED BY <1>3, <1>4

LEMMA PatternsAre ==
    ASSUME NEW S, NEW bytes \in Seq(S), NEW n \in Nat, n = Len(bytes)
    PROVE  /\ Spots(bytes, BeginString, 1) = {i \in 1 .. n - 1 : BeginsText(bytes, i)}
           /\ Spots(bytes, ChecksumMarker, 1) = {i \in 1 .. n - 3 : Marks(bytes, i)}
           /\ \A from \in Nat \ {0} : Spots(bytes, SOH, from) = {i \in from .. n : bytes[i] = "|"}
  <1>1. Len(BeginString) = 2 /\ Len(ChecksumMarker) = 4 /\ Len(SOH) = 1
    BY DEF BeginString, ChecksumMarker, SOH
  <1>a. /\ BeginString \in Seq({"8", "=", "|", "1", "0"})
        /\ ChecksumMarker \in Seq({"8", "=", "|", "1", "0"})
        /\ SOH \in Seq({"8", "=", "|", "1", "0"})
    BY DEF BeginString, ChecksumMarker, SOH
  <1>2. ASSUME NEW i \in 1 .. n - 1
        PROVE  SubSeq(bytes, i, i + 1) = BeginString <=> BeginsText(bytes, i)
    <2>1. SubSeq(bytes, i, i + 1) = BeginString
            <=> \A j \in 1 .. 1 + 1 : bytes[i + j - 1] = BeginString[j]
      BY <1>1, <1>a, <1>2, PartIs
    <2>2. 1 .. 1 + 1 = {1, 2} /\ i + 1 - 1 = i /\ i + 2 - 1 = i + 1
      BY <1>2
    <2> QED BY <2>1, <2>2 DEF BeginString, BeginsText
  <1>3. ASSUME NEW i \in 1 .. n - 3
        PROVE  SubSeq(bytes, i, i + 3) = ChecksumMarker <=> Marks(bytes, i)
    <2>1. SubSeq(bytes, i, i + 3) = ChecksumMarker
            <=> \A j \in 1 .. 3 + 1 : bytes[i + j - 1] = ChecksumMarker[j]
      BY <1>1, <1>a, <1>3, PartIs
    <2>2. /\ 1 .. 3 + 1 = {1, 2, 3, 4} /\ i + 1 - 1 = i /\ i + 2 - 1 = i + 1
          /\ i + 3 - 1 = i + 2 /\ i + 4 - 1 = i + 3
      BY <1>3
    <2> QED BY <2>1, <2>2 DEF ChecksumMarker, Marks
  <1>4. ASSUME NEW i \in 1 .. n
        PROVE  SubSeq(bytes, i, i) = SOH <=> bytes[i] = "|"
    <2>1. SubSeq(bytes, i, i + 0) = SOH <=> \A j \in 1 .. 0 + 1 : bytes[i + j - 1] = SOH[j]
      BY <1>1, <1>a, <1>4, PartIs
    <2>2. 1 .. 0 + 1 = {1} /\ i + 1 - 1 = i /\ i + 0 = i
      BY <1>4
    <2> QED BY <2>1, <2>2 DEF SOH
  <1>5. Spots(bytes, BeginString, 1) = {i \in 1 .. n - 1 : BeginsText(bytes, i)}
    <2>1. \A i \in 1 .. n - 1 : i + 2 - 1 = i + 1
      OBVIOUS
    <2>2. n - 2 + 1 = n - 1
      OBVIOUS
    <2> QED BY <1>1, <1>2, <2>1, <2>2 DEF Spots
  <1>6. Spots(bytes, ChecksumMarker, 1) = {i \in 1 .. n - 3 : Marks(bytes, i)}
    <2>1. \A i \in 1 .. n - 3 : i + 4 - 1 = i + 3
      OBVIOUS
    <2>2. n - 4 + 1 = n - 3
      OBVIOUS
    <2> QED BY <1>1, <1>3, <2>1, <2>2 DEF Spots
  <1>7. ASSUME NEW from \in Nat \ {0}
        PROVE  Spots(bytes, SOH, from) = {i \in from .. n : bytes[i] = "|"}
    <2>1. \A i \in from .. n : i + 1 - 1 = i /\ i \in 1 .. n
      OBVIOUS
    <2>2. n - 1 + 1 = n
      OBVIOUS
    <2> QED BY <1>1, <1>4, <2>1, <2>2 DEF Spots
  <1> QED BY <1>5, <1>6, <1>7

-------------------------------------------------------------------------------
(* Where a message ends: at the first SOH after the first marker.          *)
Sequence(bytes) == \E S : bytes \in Seq(S)

EndsAt(bytes, m, e) ==
    /\ m \in 1 .. Len(bytes) - 3 /\ Marks(bytes, m)
    /\ \A i \in 1 .. m - 1 : ~Marks(bytes, i)
    /\ e \in m + 1 .. Len(bytes) /\ bytes[e] = "|"
    /\ \A i \in m + 1 .. e - 1 : bytes[i] # "|"

LEMMA EndIs ==
    ASSUME NEW bytes, Sequence(bytes)
    PROVE  MessageEnd(bytes) = 0 \/ \E m : EndsAt(bytes, m, MessageEnd(bytes))
  <1> PICK S : bytes \in Seq(S)
    BY DEF Sequence
  <1> PICK n \in Nat : n = Len(bytes)
    OBVIOUS
  <1> PICK m : m = Find(bytes, ChecksumMarker, 1)
    OBVIOUS
  <1> PICK e : e = Find(bytes, SOH, m + 1)
    OBVIOUS
  <1>1. Len(ChecksumMarker) \in Nat /\ Len(SOH) \in Nat /\ Len(bytes) \in Nat
    BY DEF ChecksumMarker, SOH
  <1> PICK marks : marks = Spots(bytes, ChecksumMarker, 1)
    OBVIOUS
  <1>2. marks = {i \in 1 .. n - 3 : Marks(bytes, i)}
    BY PatternsAre
  <1>3. m = 0 \/ (m \in marks /\ \A i \in marks : m <= i)
    BY <1>1, FirstFound
  <1>4. CASE m = 0
    BY <1>4 DEF MessageEnd
  <1>5. CASE m # 0
    <2>1. m \in 1 .. n - 3 /\ Marks(bytes, m) /\ \A i \in 1 .. m - 1 : ~Marks(bytes, i)
      BY <1>2, <1>3, <1>5
    <2> PICK ends : ends = Spots(bytes, SOH, m + 1)
      OBVIOUS
    <2>2. ends = {i \in m + 1 .. n : bytes[i] = "|"}
      BY <2>1, PatternsAre
    <2>3. e = 0 \/ (e \in ends /\ \A i \in ends : e <= i)
      BY <1>1, <2>1, FirstFound
    <2>4. MessageEnd(bytes) = e
      BY <1>5 DEF MessageEnd
    <2>5. e = 0 \/ EndsAt(bytes, m, e)
      BY <2>1, <2>2, <2>3 DEF EndsAt
    <2> QED BY <2>4, <2>5
  <1> QED BY <1>4, <1>5

LEMMA EndIsThere ==
    ASSUME NEW bytes, Sequence(bytes), NEW k, NEW f, EndsAt(bytes, k, f)
    PROVE  MessageEnd(bytes) = f
  <1> PICK S : bytes \in Seq(S)
    BY DEF Sequence
  <1> PICK n \in Nat : n = Len(bytes)
    OBVIOUS
  <1> PICK m : m = Find(bytes, ChecksumMarker, 1)
    OBVIOUS
  <1>1. Len(ChecksumMarker) \in Nat /\ Len(SOH) \in Nat /\ Len(bytes) \in Nat
    BY DEF ChecksumMarker, SOH
  <1>2. /\ k \in 1 .. n - 3 /\ Marks(bytes, k)
        /\ \A i \in 1 .. k - 1 : ~Marks(bytes, i)
        /\ f \in k + 1 .. n /\ bytes[f] = "|"
        /\ \A i \in k + 1 .. f - 1 : bytes[i] # "|"
    BY DEF EndsAt
  <1> PICK marks : marks = Spots(bytes, ChecksumMarker, 1)
    OBVIOUS
  <1>3. marks = {i \in 1 .. n - 3 : Marks(bytes, i)}
    BY PatternsAre
  <1>4. k \in marks /\ \A i \in marks : k <= i /\ i \in Nat
    BY <1>2, <1>3
  <1>5. m \in marks /\ \A i \in marks : m <= i
    BY <1>1, <1>4, FirstFound
  <1>6. m = k /\ m # 0 /\ k + 1 \in Nat \ {0}
    BY <1>2, <1>4, <1>5
  <1> PICK e : e = Find(bytes, SOH, k + 1)
    OBVIOUS
  <1> PICK ends : ends = Spots(bytes, SOH, k + 1)
    OBVIOUS
  <1>7. ends = {i \in k + 1 .. n : bytes[i] = "|"}
    BY <1>6, PatternsAre
  <1>8. f \in ends /\ \A i \in ends : f <= i /\ i \in Nat
    BY <1>2, <1>7
  <1>9. e \in ends /\ \A i \in ends : e <= i
    BY <1>1, <1>6, <1>8, FirstFound
  <1>10. e = f
    BY <1>8, <1>9
  <1> QED BY <1>6, <1>10 DEF MessageEnd

(* What has arrived of a sequence is its beginning.                        *)
BeginningOf(bytes, whole) ==
    /\ Sequence(bytes) /\ Sequence(whole)
    /\ Len(bytes) <= Len(whole)
    /\ \A i \in 1 .. Len(bytes) : bytes[i] = whole[i]

(* A beginning ends a message where the whole does, if it reaches so far.  *)
LEMMA SameEnd ==
    ASSUME NEW bytes, NEW whole, BeginningOf(bytes, whole)
    PROVE  /\ MessageEnd(bytes) \in Nat /\ MessageEnd(whole) \in Nat
           /\ MessageEnd(bytes) <= Len(bytes)
           /\ MessageEnd(bytes) # 0 => MessageEnd(whole) = MessageEnd(bytes)
           /\ MessageEnd(whole) # 0 /\ MessageEnd(whole) <= Len(bytes)
                => MessageEnd(bytes) = MessageEnd(whole)
  <1>1. Sequence(bytes) /\ Sequence(whole)
    BY DEF BeginningOf
  <1> PICK n \in Nat, w \in Nat : n = Len(bytes) /\ w = Len(whole)
    BY <1>1 DEF Sequence
  <1>2. n <= w /\ \A i \in 1 .. n : bytes[i] = whole[i]
    BY DEF BeginningOf
  <1> PICK e, f : e = MessageEnd(bytes) /\ f = MessageEnd(whole)
    OBVIOUS
  <1>3. ASSUME e # 0
        PROVE  e \in Nat /\ e <= n /\ f = e
    <2>1. PICK m : EndsAt(bytes, m, e)
      BY <1>1, <1>3, EndIs
    <2>2. /\ m \in 1 .. n - 3 /\ Marks(bytes, m)
          /\ \A i \in 1 .. m - 1 : ~Marks(bytes, i)
          /\ e \in m + 1 .. n /\ bytes[e] = "|"
          /\ \A i \in m + 1 .. e - 1 : bytes[i] # "|"
      BY <2>1 DEF EndsAt
    <2>3. \A i \in 1 .. n - 3 : Marks(whole, i) <=> Marks(bytes, i)
      BY <1>2 DEF Marks
    <2>4. Marks(whole, m) /\ \A i \in 1 .. m - 1 : ~Marks(whole, i)
      BY <2>2, <2>3
    <2>5. whole[e] = "|" /\ \A i \in m + 1 .. e - 1 : whole[i] # "|"
      BY <1>2, <2>2
    <2>6. m \in 1 .. w - 3 /\ e \in m + 1 .. w
      BY <1>2, <2>2
    <2>7. EndsAt(whole, m, e)
      BY <2>4, <2>5, <2>6 DEF EndsAt
    <2> QED BY <1>1, <2>2, <2>7, EndIsThere
  <1>4. ASSUME f # 0
        PROVE  f \in Nat /\ (f <= n => e = f)
    <2>1. PICK m : EndsAt(whole, m, f)
      BY <1>1, <1>4, EndIs
    <2>2. /\ m \in 1 .. w - 3 /\ Marks(whole, m)
          /\ \A i \in 1 .. m - 1 : ~Marks(whole, i)
          /\ f \in m + 1 .. w /\ whole[f] = "|"
          /\ \A i \in m + 1 .. f - 1 : whole[i] # "|"
      BY <2>1 DEF EndsAt
    <2>3. ASSUME f <= n
          PROVE  e = f
      <3>1. f # m + 1 /\ f # m + 2 /\ f # m + 3
        BY <2>2 DEF Marks
      <3>2. m \in 1 .. n - 3 /\ f \in m + 1 .. n
        BY <2>2, <2>3, <3>1
      <3>3. \A i \in 1 .. n - 3 : Marks(whole, i) <=> Marks(bytes, i)
        BY <1>2 DEF Marks
      <3>4. Marks(bytes, m) /\ \A i \in 1 .. m - 1 : ~Marks(bytes, i)
        BY <2>2, <3>2, <3>3
      <3>5. bytes[f] = "|" /\ \A i \in m + 1 .. f - 1 : bytes[i] # "|"
        BY <1>2, <2>2, <3>2
      <3>6. EndsAt(bytes, m, f)
        BY <3>2, <3>4, <3>5 DEF EndsAt
      <3> QED BY <1>1, <3>6, EndIsThere
    <2> QED BY <2>2, <2>3
  <1> QED BY <1>3, <1>4

-------------------------------------------------------------------------------
(* Where texts and noise lie in the stream, and what of it the reader has. *)
Bytes == (UNION {ToSet(text) : text \in WireTexts \cup Noise}) \cup {"8"}

(* What a text is like, and what precedes the first one.                   *)
IsText(text) ==
    /\ text \in Seq(Bytes) /\ Len(text) >= 2 /\ BeginsText(text, 1)
    /\ MessageEnd(text) = Len(text)

IsNoise(bytes) ==
    /\ bytes \in Seq(Bytes)
    /\ \A i \in 1 .. Len(bytes) - 1 : ~BeginsText(bytes, i)
    /\ MessageEnd(Append(bytes, "8")) = 0

(* pos[k]: where the k-th text ends.                                       *)
LaidOut(noise, pos) ==
    /\ IsNoise(noise)
    /\ pos \in [0 .. Len(written) -> Nat]
    /\ pos[0] = Len(noise)
    /\ \A k \in 1 .. Len(written) : pos[k] = pos[k - 1] + Len(written[k])
    /\ \A k \in 0 .. Len(written) : pos[k] <= pos[Len(written)]
    /\ Len(stream) <= pos[Len(written)]
    /\ writerOpen => Len(stream) = pos[Len(written)]
    /\ \A j \in 1 .. Len(noise) : j <= Len(stream) => stream[j] = noise[j]
    /\ \A k \in 1 .. Len(written) : \A j \in 1 .. Len(written[k]) :
          pos[k - 1] + j <= Len(stream) => stream[pos[k - 1] + j] = written[k][j]

Holds(bytes, start, end) ==
    /\ bytes \in Seq(Bytes)
    /\ start \in Nat /\ end \in Nat /\ start <= end
    /\ Len(bytes) = end - start
    /\ \A j \in 1 .. end - start : bytes[j] = stream[start + j]

(* A buffer begins with the next text, or with what precedes the first.    *)
BeginsAt(pos, start) == start = pos[Len(framed)] \/ (start = 0 /\ framed = <<>>)

ReadAsFarAs(pos, start) ==
    /\ BeginsAt(pos, start)
    /\ Holds(readerBuffer, start, taken)

FramingTyped ==
    /\ written \in Seq(WireTexts)
    /\ stream \in Seq(Bytes)
    /\ writerOpen \in BOOLEAN /\ receiving \in BOOLEAN
    /\ taken \in Nat /\ taken <= Len(stream)
    /\ framed \in Seq(Seq(Bytes)) /\ Len(framed) <= Len(written)
    /\ receiving => ending = "none"

FramingInv ==
    /\ FramingTyped
    /\ \E noise, pos, start : LaidOut(noise, pos) /\ ReadAsFarAs(pos, start)

LEMMA InBytes ==
    ASSUME NEW text \in WireTexts \cup Noise, text \in Seq(ToSet(text))
    PROVE  text \in Seq(Bytes)
  <1> PICK S : S = ToSet(text)
    OBVIOUS
  <1>1. S \subseteq Bytes
    BY DEF Bytes
  <1>2. text \in Seq(S)
    OBVIOUS
  <1> QED BY <1>1, <1>2

LEMMA TextsAre ==
    ASSUME NEW text \in WireTexts
    PROVE  IsText(text)
  <1>1. text \in Seq(ToSet(text)) /\ Find(text, BeginString, 1) = 1 /\ MessageEnd(text) = Len(text)
    BY WireTextsAssumption DEF MessageEnd
  <1>2. text \in Seq(Bytes)
    BY <1>1, InBytes
  <1> PICK n \in Nat : n = Len(text)
    BY <1>2
  <1>3. Spots(text, BeginString, 1) = {i \in 1 .. n - 1 : BeginsText(text, i)}
    BY <1>2, PatternsAre
  <1>4. Len(BeginString) \in Nat /\ Len(text) \in Nat
    BY <1>2 DEF BeginString
  <1>5. 1 \in Spots(text, BeginString, 1)
    BY <1>1, <1>4, FirstFound
  <1>6. n >= 2 /\ BeginsText(text, 1)
    BY <1>3, <1>5
  <1> QED BY <1>1, <1>2, <1>6 DEF IsText

LEMMA NoiseIs ==
    ASSUME NEW bytes \in Noise \cup {<<>>}
    PROVE  IsNoise(bytes)
  <1>1. /\ bytes \in Seq(ToSet(bytes)) /\ Find(Append(bytes, "8"), BeginString, 1) = 0
        /\ MessageEnd(Append(bytes, "8")) = 0
    BY NoiseAssumption DEF MessageEnd
  <1>2. bytes \in Seq(Bytes)
    <2>1. CASE bytes \in Noise
      BY <1>1, <2>1, InBytes
    <2>2. CASE bytes = <<>>
      BY <2>2
    <2> QED BY <2>1, <2>2
  <1> PICK n \in Nat : n = Len(bytes)
    BY <1>2
  <1> PICK more : more = Append(bytes, "8")
    OBVIOUS
  <1>3. /\ more \in Seq(Bytes) /\ Len(more) = n + 1
        /\ \A i \in 1 .. n : more[i] = bytes[i]
    <2>1. "8" \in Bytes
      BY DEF Bytes
    <2> PICK S : S = Bytes
      OBVIOUS
    <2>2. bytes \in Seq(S) /\ "8" \in S
      BY <1>2, <2>1
    <2> QED BY <2>2
  <1>a. PICK l \in Nat : l = n + 1
    OBVIOUS
  <1>b. l = Len(more) /\ l - 1 = n
    BY <1>3, <1>a
  <1>4. Spots(more, BeginString, 1) = {i \in 1 .. l - 1 : BeginsText(more, i)}
    BY <1>3, <1>b, PatternsAre
  <1>5. Len(BeginString) \in Nat /\ Len(more) \in Nat
    BY <1>3 DEF BeginString
  <1>6. Spots(more, BeginString, 1) = {}
    BY <1>1, <1>5, FirstFound
  <1>7. \A i \in 1 .. n - 1 : ~BeginsText(bytes, i)
    <2>1. \A i \in 1 .. n - 1 : BeginsText(bytes, i) <=> BeginsText(more, i)
      BY <1>3 DEF BeginsText
    <2> QED BY <1>4, <1>6, <1>b, <2>1
  <1> QED BY <1>1, <1>2, <1>7 DEF IsNoise

-------------------------------------------------------------------------------
(* Bytes of the stream that begin where the k-th text ends.                *)
Follows(bytes, noise, pos, k, end) ==
    /\ LaidOut(noise, pos)
    /\ written \in Seq(WireTexts)
    /\ k \in 0 .. Len(written)
    /\ Holds(bytes, pos[k], end) /\ end <= Len(stream) /\ Len(stream) \in Nat

StartsText(bytes, text) ==
    /\ IsText(text)
    /\ \A j \in 1 .. Len(bytes) : j <= Len(text) => bytes[j] = text[j]

StartsTextAt(bytes, k) ==
    /\ k = Len(written) => Len(bytes) = 0
    /\ k < Len(written) => StartsText(bytes, written[k + 1])

LEMMA TextFollows ==
    ASSUME NEW bytes, NEW noise, NEW pos, NEW k, NEW end, Follows(bytes, noise, pos, k, end)
    PROVE  StartsTextAt(bytes, k)
  <1> PICK p \in Nat : p = pos[k]
    BY DEF Follows, LaidOut
  <1> PICK n \in Nat : n = Len(written)
    BY DEF Follows
  <1> PICK l \in Nat : l = Len(stream)
    BY DEF Follows
  <1>1. /\ k \in 0 .. n /\ end <= l /\ end \in Nat /\ p <= end /\ Len(bytes) = end - p
        /\ \A j \in 1 .. end - p : bytes[j] = stream[p + j]
    BY DEF Follows, Holds
  <1>2. l <= pos[n]
    BY DEF Follows, LaidOut
  <1>3. CASE k = n
    BY <1>1, <1>2, <1>3 DEF StartsTextAt
  <1>4. CASE k < n
    <2>1. k + 1 \in 1 .. n /\ k + 1 - 1 = k
      BY <1>1, <1>4
    <2> PICK next : next = k + 1
      OBVIOUS
    <2>2. \A j \in 1 .. Len(written[next]) :
            pos[next - 1] + j <= Len(stream) => stream[pos[next - 1] + j] = written[next][j]
      <3>1. \A m \in 1 .. Len(written) : \A j \in 1 .. Len(written[m]) :
              pos[m - 1] + j <= Len(stream) => stream[pos[m - 1] + j] = written[m][j]
        BY DEF Follows, LaidOut
      <3>2. next \in 1 .. Len(written)
        BY <2>1
      <3> QED BY <3>1, <3>2
    <2>3. next - 1 = k
      BY <1>1, <1>4
    <2> PICK text : text = written[next]
      OBVIOUS
    <2>4. \A j \in 1 .. Len(text) : p + j <= l => stream[p + j] = text[j]
      BY <2>2, <2>3
    <2>5. text \in WireTexts
      BY <2>1 DEF Follows
    <2>6. IsText(text)
      BY <2>5, TextsAre
    <2> PICK t \in Nat : t = Len(text)
      BY <2>6 DEF IsText
    <2>7. ASSUME NEW j \in 1 .. Len(bytes), j <= t
          PROVE  bytes[j] = text[j]
      <3>1. j \in 1 .. t /\ p + j <= l /\ j \in 1 .. end - p
        BY <1>1, <2>7
      <3> QED BY <1>1, <2>4, <3>1
    <2>8. StartsText(bytes, text)
      BY <2>6, <2>7 DEF StartsText
    <2> QED BY <1>4, <2>8 DEF StartsTextAt
  <1> QED BY <1>1, <1>3, <1>4

(* What begins a text is not trimmed.                                      *)
LEMMA TextStays ==
    ASSUME NEW bytes \in Seq(Bytes), NEW k, StartsTextAt(bytes, k),
           k < Len(written) \/ k = Len(written)
    PROVE  Trimmed(bytes) = bytes
  <1> PICK n \in Nat : n = Len(bytes)
    OBVIOUS
  <1> PICK spots : spots = Spots(bytes, BeginString, 1)
    OBVIOUS
  <1> PICK f : f = Find(bytes, BeginString, 1)
    OBVIOUS
  <1>1. spots = {i \in 1 .. n - 1 : BeginsText(bytes, i)}
    BY PatternsAre
  <1>2. Len(BeginString) \in Nat /\ Len(bytes) \in Nat
    BY DEF BeginString
  <1>3. \/ spots = {} /\ f = 0
        \/ f \in spots /\ f \in Nat /\ \A i \in spots : f <= i
    BY <1>2, FirstFound
  <1>4. ASSUME f \in spots
        PROVE  f <= 1
    <2>1. n >= 2 /\ n # 0
      BY <1>1, <1>4
    <2>2. k # Len(written)
      BY <2>1 DEF StartsTextAt
    <2> PICK text : text = written[k + 1]
      OBVIOUS
    <2>3. StartsText(bytes, text)
      BY <2>2 DEF StartsTextAt
    <2> PICK t \in Nat : t = Len(text)
      BY <2>3 DEF StartsText, IsText
    <2>4. t >= 2 /\ BeginsText(text, 1)
      BY <2>3 DEF StartsText, IsText
    <2>5. bytes[1] = text[1] /\ bytes[2] = text[2]
      BY <2>1, <2>3, <2>4 DEF StartsText
    <2>6. BeginsText(bytes, 1)
      BY <2>4, <2>5 DEF BeginsText
    <2>7. 1 \in spots
      BY <1>1, <2>1, <2>6
    <2> QED BY <1>3, <2>7
  <1>5. ~(f > 1)
    BY <1>3, <1>4
  <1> QED BY <1>5 DEF Trimmed

(* A message is cut out of it when the text has arrived.                   *)
LEMMA TextIsCut ==
    ASSUME NEW bytes \in Seq(Bytes), NEW text, StartsText(bytes, text), MessageEnd(bytes) # 0
    PROVE  /\ MessageEnd(bytes) = Len(text) /\ Len(text) <= Len(bytes)
           /\ SubSeq(bytes, 1, MessageEnd(bytes)) = text
  <1> PICK n \in Nat : n = Len(bytes)
    OBVIOUS
  <1>1. text \in Seq(Bytes) /\ MessageEnd(text) = Len(text) /\ Len(text) # 0
    BY DEF StartsText, IsText
  <1> PICK t \in Nat : t = Len(text)
    BY <1>1
  <1>2. \A j \in 1 .. n : j <= t => bytes[j] = text[j]
    BY DEF StartsText
  <1> PICK e : e = MessageEnd(bytes)
    OBVIOUS
  <1>3. Sequence(bytes) /\ Sequence(text)
    BY <1>1 DEF Sequence
  <1>4. CASE n <= t
    <2>1. BeginningOf(bytes, text)
      BY <1>2, <1>3, <1>4 DEF BeginningOf
    <2>2. e = t /\ e <= n
      BY <1>1, <2>1, SameEnd
    <2> QED
      <3>1. n = t /\ e = n
        BY <1>4, <2>2
      <3>2. SubSeq(bytes, 1, n) = text
        <4>1. \A j \in 1 .. n : bytes[j] = text[j]
          BY <1>2, <3>1
        <4>2. bytes = text
          BY <1>1, <3>1, <4>1, SeqEqual
        <4>3. SubSeq(text, 1, n) = text
          BY <1>1, <3>1
        <4> QED BY <4>2, <4>3
      <3> QED BY <3>1, <3>2
  <1>5. CASE n > t
    <2>1. \A j \in 1 .. t : text[j] = bytes[j]
      BY <1>2, <1>5
    <2>2. BeginningOf(text, bytes)
      BY <1>3, <1>5, <2>1 DEF BeginningOf
    <2>3. e = t
      BY <1>1, <2>2, SameEnd
    <2>4. SubSeq(bytes, 1, t) = text
      <3> PICK part : part = SubSeq(bytes, 1, t)
        OBVIOUS
      <3>1. part \in Seq(Bytes) /\ Len(part) = t /\ \A j \in 1 .. t : part[j] = bytes[j]
        BY <1>5
      <3>2. \A j \in 1 .. t : part[j] = text[j]
        BY <2>1, <3>1
      <3> QED BY <1>1, <3>1, <3>2, SeqEqual
    <2> QED BY <1>5, <2>3, <2>4
  <1> QED BY <1>4, <1>5

-------------------------------------------------------------------------------
(* Noise stays until a text has begun behind it, and no message is cut out *)
(* of it; then it is deleted.                                              *)
FromTheStart(bytes, noise, pos, end) ==
    /\ LaidOut(noise, pos)
    /\ written \in Seq(WireTexts)
    /\ stream \in Seq(Bytes)
    /\ Holds(bytes, 0, end) /\ end <= Len(stream)

StartsNoise(bytes, noise) ==
    LET n == Len(noise)
        l == Len(bytes)
    IN  /\ n \in Nat /\ l \in Nat
        /\ \A i \in 1 .. l : i <= n => bytes[i] = noise[i]
        /\ l > n => bytes[n + 1] = "8"
        /\ l > n + 1 => bytes[n + 2] = "="

LEMMA NoiseFirst ==
    ASSUME NEW bytes, NEW noise, NEW pos, NEW end, FromTheStart(bytes, noise, pos, end)
    PROVE  StartsNoise(bytes, noise)
  <1>1. noise \in Seq(Bytes) /\ stream \in Seq(Bytes)
    BY DEF FromTheStart, LaidOut, IsNoise
  <1> PICK n \in Nat, l \in Nat, w \in Nat : n = Len(noise) /\ l = Len(stream) /\ w = Len(written)
    BY <1>1 DEF FromTheStart
  <1>2. end \in Nat /\ Len(bytes) = end /\ end <= l /\ \A j \in 1 .. end : bytes[j] = stream[j]
    BY DEF FromTheStart, Holds
  <1>3. pos[0] = n /\ l <= pos[w] /\ \A j \in 1 .. n : j <= l => stream[j] = noise[j]
    BY DEF FromTheStart, LaidOut
  <1>4. \A i \in 1 .. end : i <= n => bytes[i] = noise[i]
    BY <1>2, <1>3
  <1>5. ASSUME end > n
        PROVE  bytes[n + 1] = "8" /\ (end > n + 1 => bytes[n + 2] = "=")
    <2>1. w # 0
      BY <1>2, <1>3, <1>5
    <2> PICK text : text = written[1]
      OBVIOUS
    <2>2. \A j \in 1 .. Len(text) : n + j <= l => stream[n + j] = text[j]
      <3>1. \A m \in 1 .. Len(written) : \A j \in 1 .. Len(written[m]) :
              pos[m - 1] + j <= Len(stream) => stream[pos[m - 1] + j] = written[m][j]
        BY DEF FromTheStart, LaidOut
      <3>2. 1 \in 1 .. Len(written) /\ 1 - 1 = 0
        BY <2>1
      <3>3. \A j \in 1 .. Len(written[1]) :
              pos[1 - 1] + j <= Len(stream) => stream[pos[1 - 1] + j] = written[1][j]
        BY <3>1, <3>2
      <3> QED BY <1>3, <3>2, <3>3
    <2>3. text \in WireTexts
      BY <2>1 DEF FromTheStart
    <2>4. IsText(text)
      BY <2>3, TextsAre
    <2>5. Len(text) \in Nat /\ Len(text) >= 2 /\ text[1] = "8" /\ text[2] = "="
      BY <2>4 DEF IsText, BeginsText
    <2>6. stream[n + 1] = "8" /\ (n + 2 <= l => stream[n + 2] = "=")
      BY <1>2, <1>5, <2>2, <2>5
    <2> QED BY <1>2, <1>5, <2>6
  <1> QED BY <1>2, <1>4, <1>5 DEF StartsNoise

(* The only place a text can begin at is behind the noise.                 *)
LEMMA NoiseIsTrimmed ==
    ASSUME NEW bytes \in Seq(Bytes), NEW noise, IsNoise(noise), StartsNoise(bytes, noise)
    PROVE  \/ /\ Len(bytes) <= Len(noise) + 1
              /\ Trimmed(bytes) = bytes
              /\ Len(noise) # 0 => MessageEnd(bytes) = 0
           \/ /\ Len(bytes) > Len(noise) + 1
              /\ Trimmed(bytes) = SubSeq(bytes, Len(noise) + 1, Len(bytes))
  <1>1. noise \in Seq(Bytes) /\ MessageEnd(Append(noise, "8")) = 0
    BY DEF IsNoise
  <1> PICK n \in Nat, l \in Nat : n = Len(noise) /\ l = Len(bytes)
    BY <1>1
  <1>2. /\ \A i \in 1 .. l : i <= n => bytes[i] = noise[i]
        /\ l > n => bytes[n + 1] = "8"
        /\ l > n + 1 => bytes[n + 2] = "="
        /\ \A i \in 1 .. n - 1 : ~BeginsText(noise, i)
    BY DEF StartsNoise, IsNoise
  <1> PICK spots : spots = Spots(bytes, BeginString, 1)
    OBVIOUS
  <1> PICK f : f = Find(bytes, BeginString, 1)
    OBVIOUS
  <1>3. spots = {i \in 1 .. l - 1 : BeginsText(bytes, i)}
    BY PatternsAre
  <1>4. Len(BeginString) \in Nat /\ Len(bytes) \in Nat
    BY DEF BeginString
  <1>5. \/ spots = {} /\ f = 0
        \/ f \in spots /\ f \in Nat /\ \A i \in spots : f <= i
    BY <1>4, FirstFound
  <1>6. ASSUME NEW i \in spots
        PROVE  i > n /\ i \in Nat /\ i < l
    <2>1. i \in 1 .. l - 1 /\ bytes[i] = "8" /\ bytes[i + 1] = "="
      BY <1>3 DEF BeginsText
    <2>2. ASSUME i <= n - 1
          PROVE  FALSE
      <3>1. bytes[i] = noise[i] /\ bytes[i + 1] = noise[i + 1] /\ i \in 1 .. n - 1
        BY <1>2, <2>1, <2>2
      <3>2. BeginsText(noise, i)
        BY <2>1, <3>1 DEF BeginsText
      <3> QED BY <1>2, <3>1, <3>2
    <2>3. i # n
      BY <1>2, <2>1
    <2> QED BY <2>1, <2>2, <2>3
  <1>7. CASE l > n + 1
    <2>1. BeginsText(bytes, n + 1)
      BY <1>2, <1>7 DEF BeginsText
    <2>2. n + 1 \in spots
      BY <1>3, <1>7, <2>1
    <2>3. f = n + 1
      BY <1>5, <1>6, <2>2
    <2>4. CASE n = 0
      <3>1. Trimmed(bytes) = bytes
        BY <2>3, <2>4 DEF Trimmed
      <3>2. SubSeq(bytes, 1, l) = bytes
        OBVIOUS
      <3> QED BY <1>7, <2>4, <3>1, <3>2
    <2>5. CASE n # 0
      <3>1. Trimmed(bytes) = SubSeq(bytes, n + 1, Len(bytes))
        BY <2>3, <2>5 DEF Trimmed, From
      <3> QED BY <1>7, <3>1
    <2> QED BY <2>4, <2>5
  <1>8. CASE l <= n + 1
    <2>1. f = 0
      BY <1>5, <1>6, <1>8
    <2>2. Trimmed(bytes) = bytes
      BY <2>1 DEF Trimmed
    <2> PICK more : more = Append(noise, "8")
      OBVIOUS
    <2>3. /\ more \in Seq(Bytes) /\ Len(more) = n + 1 /\ more[n + 1] = "8"
          /\ \A i \in 1 .. n : more[i] = noise[i]
      <3>1. "8" \in Bytes
        BY DEF Bytes
      <3> PICK S : S = Bytes
        OBVIOUS
      <3>2. noise \in Seq(S) /\ "8" \in S
        BY <1>1, <3>1
      <3> QED BY <3>2
    <2>4. \A i \in 1 .. l : bytes[i] = more[i]
      BY <1>2, <1>8, <2>3
    <2>5. BeginningOf(bytes, more)
      BY <1>8, <2>3, <2>4 DEF BeginningOf, Sequence
    <2>6. MessageEnd(bytes) = 0
      BY <1>1, <2>5, SameEnd
    <2> QED BY <1>8, <2>2, <2>6
  <1> QED BY <1>7, <1>8


-------------------------------------------------------------------------------
(* The buffer, trimmed, begins with the next text to be cut out of the     *)
(* stream, or with noise that ends no message.                             *)
Trims(noise, pos, start) ==
    /\ Holds(Trimmed(readerBuffer), start, taken)
    /\ BeginsAt(pos, start)
    /\ \/ MessageEnd(Trimmed(readerBuffer)) = 0
       \/ start = pos[Len(framed)] /\ StartsTextAt(Trimmed(readerBuffer), Len(framed))

LEMMA BufferTrims ==
    ASSUME FramingTyped, NEW noise, NEW pos, NEW start,
           LaidOut(noise, pos), ReadAsFarAs(pos, start)
    PROVE  \E from : Trims(noise, pos, from)
  <1> PICK bytes : bytes = readerBuffer
    OBVIOUS
  <1>1. bytes \in Seq(Bytes) /\ Holds(bytes, start, taken)
    BY DEF ReadAsFarAs, Holds
  <1>2. /\ written \in Seq(WireTexts) /\ stream \in Seq(Bytes)
        /\ taken \in Nat /\ taken <= Len(stream) /\ Len(stream) \in Nat
        /\ Len(framed) \in 0 .. Len(written)
    BY DEF FramingTyped
  <1> PICK k : k = Len(framed)
    OBVIOUS
  <1>3. ASSUME NEW from, from = pos[k], NEW b, Holds(b, from, taken)
        PROVE  StartsTextAt(b, k) /\ Trimmed(b) = b
    <2>1. Follows(b, noise, pos, k, taken)
      BY <1>2, <1>3 DEF Follows
    <2>2. StartsTextAt(b, k)
      BY <2>1, TextFollows
    <2>3. b \in Seq(Bytes) /\ (k < Len(written) \/ k = Len(written))
      BY <1>2, <1>3 DEF Holds
    <2> QED BY <2>2, <2>3, TextStays
  <1>4. CASE start = pos[k]
    <2>1. StartsTextAt(bytes, k) /\ Trimmed(bytes) = bytes
      BY <1>1, <1>3, <1>4
    <2>2. Trims(noise, pos, start)
      BY <1>1, <1>4, <2>1 DEF Trims, BeginsAt
    <2> QED BY <2>2
  <1>5. CASE start = 0 /\ framed = <<>>
    <2>1. FromTheStart(bytes, noise, pos, taken)
      BY <1>1, <1>2, <1>5 DEF FromTheStart
    <2>2. StartsNoise(bytes, noise)
      BY <2>1, NoiseFirst
    <2>3. IsNoise(noise) /\ noise \in Seq(Bytes) /\ pos[0] = Len(noise)
      BY DEF LaidOut, IsNoise
    <2> PICK n \in Nat : n = Len(noise)
      BY <2>3
    <2>4. k = 0
      BY <1>5
    <2>5. CASE n = 0
      BY <1>4, <1>5, <2>3, <2>4, <2>5
    <2>6. CASE n # 0 /\ Len(bytes) <= n + 1
      <3>1. Trimmed(bytes) = bytes /\ MessageEnd(bytes) = 0
        BY <1>1, <2>2, <2>3, <2>6, NoiseIsTrimmed
      <3>2. Trims(noise, pos, 0)
        BY <1>1, <1>5, <3>1 DEF Trims, BeginsAt
      <3> QED BY <3>2
    <2>7. CASE n # 0 /\ ~(Len(bytes) <= n + 1)
      <3>1. Trimmed(bytes) = SubSeq(bytes, n + 1, Len(bytes))
        BY <1>1, <2>2, <2>3, <2>7, NoiseIsTrimmed
      <3> PICK b : b = Trimmed(bytes)
        OBVIOUS
      <3>2. Holds(b, n, taken)
        <4>1. /\ Len(bytes) = taken /\ n + 1 < taken
              /\ \A j \in 1 .. taken : bytes[j] = stream[j]
          BY <1>1, <1>2, <1>5, <2>7 DEF Holds
        <4>2. /\ b \in Seq(Bytes) /\ Len(b) = taken - n
              /\ \A j \in 1 .. taken - n : b[j] = bytes[n + j]
          <5>1. b = SubSeq(bytes, n + 1, taken) /\ taken \in Nat
            BY <1>2, <3>1, <4>1
          <5>2. /\ b \in Seq(Bytes) /\ Len(b) = taken - (n + 1) + 1
                /\ \A j \in 1 .. taken - (n + 1) + 1 : b[j] = bytes[n + 1 + j - 1]
            BY <1>1, <4>1, <5>1
          <5>3. taken - (n + 1) + 1 = taken - n
            BY <5>1
          <5>4. Len(b) = taken - n
            BY <5>2, <5>3
          <5>5. ASSUME NEW j \in 1 .. taken - n
                PROVE  b[j] = bytes[n + j]
            <6>1. n + 1 + j - 1 = n + j
              OBVIOUS
            <6> QED BY <5>2, <5>3, <6>1
          <5> QED BY <5>2, <5>4, <5>5
        <4> QED BY <1>2, <4>1, <4>2 DEF Holds
      <3>3. StartsTextAt(b, k)
        BY <1>3, <2>3, <2>4, <3>2
      <3>4. Trims(noise, pos, n)
        BY <2>3, <2>4, <3>2, <3>3 DEF Trims, BeginsAt
      <3> QED BY <3>4
    <2> QED BY <2>5, <2>6, <2>7
  <1> QED BY <1>4, <1>5 DEF ReadAsFarAs, BeginsAt

-------------------------------------------------------------------------------
(* The invariant, and what a step does to the promise of a reader.         *)

LEMMA FramingStarts == FramingInit => FramingInv
  <1> SUFFICES ASSUME FramingInit
               PROVE  FramingInv
    OBVIOUS
  <1> PICK pos : pos = [k \in 0 .. 0 |-> 0]
    OBVIOUS
  <1>1. IsNoise(<<>>)
    BY NoiseIs
  <1>2. LaidOut(<<>>, pos)
    BY <1>1 DEF FramingInit, LaidOut
  <1>3. ReadAsFarAs(pos, 0)
    BY DEF FramingInit, ReadAsFarAs, BeginsAt, Holds
  <1>4. FramingTyped
    BY DEF FramingInit, FramingTyped
  <1> QED BY <1>2, <1>3, <1>4 DEF FramingInv

LEMMA LayoutStays ==
    ASSUME NEW noise, NEW pos, LaidOut(noise, pos), UNCHANGED <<written, stream, writerOpen>>
    PROVE  LaidOut(noise, pos)'
  BY DEF LaidOut

LEMMA FramingStays ==
    ASSUME FramingInv, UNCHANGED framingVars
    PROVE  FramingInv'
  <1> PICK noise, pos, start : LaidOut(noise, pos) /\ ReadAsFarAs(pos, start)
    BY DEF FramingInv
  <1>1. LaidOut(noise, pos)'
    BY LayoutStays DEF framingVars
  <1>2. ReadAsFarAs(pos, start)'
    BY DEF ReadAsFarAs, BeginsAt, Holds, framingVars
  <1>3. FramingTyped'
    BY DEF FramingInv, FramingTyped, framingVars
  <1> QED BY <1>1, <1>2, <1>3 DEF FramingInv

LEMMA TextWritten ==
    ASSUME FramingInv, NEW text \in WireTexts, WriteText(text)
    PROVE  FramingInv'
  <1> PICK noise, pos, start : LaidOut(noise, pos) /\ ReadAsFarAs(pos, start)
    BY DEF FramingInv
  <1>0. /\ writerOpen /\ written' = Append(written, text) /\ stream' = stream \o text
        /\ UNCHANGED <<writerOpen, taken, readerBuffer, receiving, framed, ending>>
    BY DEF WriteText
  <1>1. /\ written \in Seq(WireTexts) /\ stream \in Seq(Bytes) /\ text \in Seq(Bytes)
        /\ Len(text) >= 2
    BY TextsAre DEF FramingInv, FramingTyped, IsText
  <1>n. PICK n \in Nat, l \in Nat, t \in Nat : n = Len(written) /\ l = Len(stream) /\ t = Len(text)
    BY <1>1
  <1>2. /\ written' \in Seq(WireTexts) /\ Len(written') = n + 1 /\ written'[n + 1] = text
        /\ \A k \in 1 .. n : written'[k] = written[k]
    BY <1>0, <1>n, <1>1
  <1>3. /\ stream' \in Seq(Bytes) /\ Len(stream') = l + t
        /\ \A j \in 1 .. l : stream'[j] = stream[j]
        /\ \A j \in 1 .. t : stream'[l + j] = text[j]
    BY <1>0, <1>n, <1>1
  <1>4. /\ IsNoise(noise) /\ noise \in Seq(Bytes) /\ pos \in [0 .. n -> Nat] /\ pos[0] = Len(noise)
        /\ \A k \in 1 .. n : pos[k] = pos[k - 1] + Len(written[k])
        /\ \A k \in 0 .. n : pos[k] <= pos[n]
        /\ l = pos[n]
        /\ \A j \in 1 .. Len(noise) : j <= l => stream[j] = noise[j]
        /\ \A k \in 1 .. n : \A j \in 1 .. Len(written[k]) :
              pos[k - 1] + j <= l => stream[pos[k - 1] + j] = written[k][j]
    BY <1>0, <1>n DEF LaidOut, IsNoise
  <1>p. PICK more : more = [k \in 0 .. n + 1 |-> IF k <= n THEN pos[k] ELSE l + t]
    OBVIOUS
  <1>5. /\ more \in [0 .. n + 1 -> Nat] /\ more[n + 1] = l + t
        /\ \A k \in 0 .. n : more[k] = pos[k]
    BY <1>4, <1>p
  <1>6. LaidOut(noise, more)'
    <2>0. Len(noise) \in Nat /\ Len(noise) <= l
      <3>1. Len(noise) \in Nat /\ 0 \in 0 .. n /\ pos[0] <= pos[n]
        BY <1>4
      <3> QED BY <1>4, <3>1
    <2>1. more[0] = Len(noise)
      BY <1>4, <1>5
    <2>2. ASSUME NEW k \in 1 .. n + 1
          PROVE  more[k] = more[k - 1] + Len(written'[k])
      <3>1. CASE k <= n
        <4>1. k \in 1 .. n /\ k \in 0 .. n /\ k - 1 \in 0 .. n
          BY <3>1
        <4>2. written'[k] = written[k] /\ more[k] = pos[k] /\ more[k - 1] = pos[k - 1]
          BY <1>2, <1>5, <4>1
        <4>3. pos[k] = pos[k - 1] + Len(written[k])
          BY <1>4, <4>1
        <4> QED BY <4>2, <4>3
      <3>2. CASE k = n + 1
        <4>1. k - 1 = n /\ n \in 0 .. n
          BY <3>2
        <4>2. more[k - 1] = l /\ more[k] = l + t
          BY <1>4, <1>5, <3>2, <4>1
        <4>3. written'[k] = text /\ Len(text) = t
          BY <1>2, <1>n, <3>2
        <4> QED BY <4>2, <4>3
      <3>3. k <= n \/ k = n + 1
        OBVIOUS
      <3> QED BY <3>1, <3>2, <3>3
    <2>3. \A k \in 0 .. n + 1 : more[k] <= more[n + 1]
      <3>1. \A k \in 0 .. n : pos[k] \in Nat /\ pos[k] <= l
        BY <1>4
      <3>2. \A k \in 0 .. n : more[k] <= l + t
        BY <1>5, <3>1
      <3>3. \A k \in 0 .. n + 1 : k \in 0 .. n \/ k = n + 1
        OBVIOUS
      <3>4. more[n + 1] = l + t /\ l + t <= l + t
        BY <1>5
      <3> QED BY <3>2, <3>3, <3>4
    <2>4. ASSUME NEW j \in 1 .. Len(noise)
          PROVE  stream'[j] = noise[j]
      <3>1. j \in 1 .. l
        BY <2>0, <2>4
      <3> QED BY <1>3, <1>4, <3>1
    <2>5. ASSUME NEW k \in 1 .. n + 1, NEW j, j \in 1 .. Len(written'[k])
          PROVE  stream'[more[k - 1] + j] = written'[k][j]
      <3>1. CASE k <= n
        <4>0. k - 1 \in 0 .. n /\ k \in 1 .. n /\ k \in 0 .. n
          BY <2>5, <3>1
        <4>1. pos[k - 1] \in Nat /\ Len(written[k]) \in Nat
          <5>1. IsText(written[k])
            BY <1>1, <1>n, <4>0, TextsAre
          <5>2. Len(written[k]) \in Nat
            BY <5>1 DEF IsText
          <5> QED BY <1>4, <4>0, <5>2
        <4>p. PICK p \in Nat, w \in Nat : p = pos[k - 1] /\ w = Len(written[k])
          BY <4>1
        <4>2. written'[k] = written[k] /\ more[k - 1] = p /\ j \in 1 .. w
          BY <1>2, <1>5, <2>5, <4>0, <4>p
        <4>3. p + w <= l
          <5>1. pos[k] = pos[k - 1] + Len(written[k]) /\ pos[k] <= pos[n] /\ l = pos[n]
            BY <1>4, <4>0
          <5> QED BY <4>p, <5>1
        <4>4. p + j <= l /\ p + j \in 1 .. l
          <5>1. \A i \in 1 .. w : p + i <= l /\ p + i \in 1 .. l
            BY <4>3
          <5> QED BY <4>2, <5>1
        <4>5. \A i \in 1 .. Len(written[k]) : pos[k - 1] + i <= l => stream[pos[k - 1] + i] = written[k][i]
          BY <1>4, <4>0
        <4>6. stream[p + j] = written[k][j]
          BY <4>2, <4>4, <4>5, <4>p
        <4> QED BY <1>3, <4>2, <4>4, <4>6
      <3>2. CASE k = n + 1
        <4>1. more[k - 1] = l /\ j \in 1 .. t
          <5>1. k - 1 = n /\ n \in 0 .. n /\ written'[k] = text
            BY <1>2, <3>2
          <5> QED BY <1>4, <1>5, <1>n, <2>5, <5>1
        <4>2. written'[k] = text /\ stream'[l + j] = text[j]
          BY <1>2, <1>3, <3>2, <4>1
        <4> QED BY <4>1, <4>2
      <3>3. k <= n \/ k = n + 1
        OBVIOUS
      <3> QED BY <3>1, <3>2, <3>3
    <2>6. Len(stream') = more[Len(written')]
      BY <1>2, <1>3, <1>5
    <2>7. /\ more \in [0 .. Len(written') -> Nat]
          /\ \A k \in 1 .. Len(written') : more[k] = more[k - 1] + Len(written'[k])
          /\ \A k \in 0 .. Len(written') : more[k] <= more[Len(written')]
      BY <1>2, <1>5, <2>2, <2>3
    <2>8. \A k \in 1 .. Len(written') : \A j \in 1 .. Len(written'[k]) :
            stream'[more[k - 1] + j] = written'[k][j]
      BY <1>2, <2>5
    <2>9. Len(stream') <= more[Len(written')]
      BY <1>3, <2>6
    <2> QED BY <1>4, <2>1, <2>4, <2>6, <2>7, <2>8, <2>9 DEF LaidOut
  <1>7. ReadAsFarAs(more, start)'
    <2>1. /\ BeginsAt(pos, start)
          /\ start \in Nat /\ start <= taken
          /\ readerBuffer \in Seq(Bytes) /\ Len(readerBuffer) = taken - start
          /\ \A j \in 1 .. taken - start : readerBuffer[j] = stream[start + j]
      BY DEF ReadAsFarAs, BeginsAt, Holds
    <2>a. /\ taken \in Nat /\ taken <= l /\ Len(framed) \in 0 .. n
      <3>1. framed \in Seq(Seq(Bytes)) /\ Len(framed) <= n /\ taken \in Nat /\ taken <= l
        BY <1>n DEF FramingInv, FramingTyped
      <3> QED BY <3>1
    <2>2. \A j \in 1 .. taken - start : readerBuffer[j] = stream'[start + j]
      <3>1. \A j \in 1 .. taken - start : start + j \in 1 .. l
        BY <2>1, <2>a
      <3> QED BY <1>3, <2>1, <3>1
    <2>3. pos[Len(framed)] = more[Len(framed)]
      BY <1>5, <2>a
    <2> QED BY <1>0, <2>1, <2>a, <2>2, <2>3 DEF ReadAsFarAs, BeginsAt, Holds
  <1>8. FramingTyped'
    BY <1>0, <1>1, <1>2, <1>3 DEF FramingInv, FramingTyped
  <1> QED BY <1>6, <1>7, <1>8 DEF FramingInv

LEMMA NoiseWritten ==
    ASSUME FramingInv, NEW bytes \in Noise, WriteNoise(bytes)
    PROVE  FramingInv'
  <1> PICK noise, pos, start : LaidOut(noise, pos) /\ ReadAsFarAs(pos, start)
    BY DEF FramingInv
  <1> USE DEF WriteNoise
  <1>1. /\ written \in Seq(WireTexts) /\ stream = <<>> /\ Len(stream) = 0
        /\ taken = 0 /\ framed \in Seq(Seq(Bytes)) /\ Len(framed) <= Len(written)
    BY DEF FramingInv, FramingTyped
  <1>2. IsNoise(bytes) /\ bytes \in Seq(Bytes)
    BY NoiseIs DEF IsNoise
  <1> PICK n \in Nat : n = Len(written)
    BY <1>1
  <1>3. n = 0
    <2>1. SUFFICES ASSUME n # 0
                   PROVE  FALSE
      OBVIOUS
    <2>2. 1 \in 1 .. n /\ 1 - 1 = 0 /\ 0 \in 0 .. n /\ 1 \in 0 .. n
      BY <2>1
    <2>3. pos[1] = pos[1 - 1] + Len(written[1]) /\ pos[1] <= pos[n] /\ pos[n] = 0 /\ pos[0] \in Nat
      BY <1>1, <2>2 DEF LaidOut
    <2>4. IsText(written[1])
      BY <1>1, <2>2, TextsAre
    <2>5. Len(written[1]) >= 2 /\ Len(written[1]) \in Nat
      BY <2>4 DEF IsText
    <2> QED BY <2>2, <2>3, <2>5
  <1>4. written = <<>> /\ framed = <<>>
    <2>1. written = <<>>
      BY <1>1, <1>3, EmptySeq
    <2>2. framed \in Seq(Seq(Bytes)) /\ Len(framed) = 0
      BY <1>1, <1>3
    <2>3. framed = <<>>
      BY <2>2, EmptySeq
    <2> QED BY <2>1, <2>3
  <1> PICK m \in Nat : m = Len(bytes)
    BY <1>2
  <1> PICK more : more = [k \in 0 .. 0 |-> m]
    OBVIOUS
  <1>5. LaidOut(bytes, more)'
    BY <1>2, <1>4 DEF LaidOut
  <1>6. ReadAsFarAs(more, 0)'
    <2>1. readerBuffer \in Seq(Bytes) /\ Len(readerBuffer) = 0
      BY <1>1 DEF ReadAsFarAs, BeginsAt, Holds
    <2> QED BY <1>1, <1>4, <2>1 DEF ReadAsFarAs, BeginsAt, Holds
  <1>7. FramingTyped'
    BY <1>1, <1>2 DEF FramingInv, FramingTyped
  <1> QED BY <1>5, <1>6, <1>7 DEF FramingInv

LEMMA StreamBreaks ==
    ASSUME FramingInv, NEW last \in taken .. Len(stream), Disconnect(last)
    PROVE  FramingInv'
  <1> PICK noise, pos, start : LaidOut(noise, pos) /\ ReadAsFarAs(pos, start)
    BY DEF FramingInv
  <1> USE DEF Disconnect
  <1>1. stream \in Seq(Bytes) /\ taken \in Nat /\ written \in Seq(WireTexts)
    BY DEF FramingInv, FramingTyped
  <1> PICK l \in Nat : l = Len(stream)
    BY <1>1
  <1>2. last \in Nat /\ taken <= last /\ last <= l
    BY <1>1
  <1>3. /\ stream' \in Seq(Bytes) /\ Len(stream') = last
        /\ \A j \in 1 .. last : stream'[j] = stream[j]
    BY <1>1, <1>2
  <1>4. LaidOut(noise, pos)'
    <2>1. /\ IsNoise(noise) /\ pos \in [0 .. Len(written) -> Nat] /\ pos[0] = Len(noise)
          /\ \A k \in 1 .. Len(written) : pos[k] = pos[k - 1] + Len(written[k])
          /\ \A k \in 0 .. Len(written) : pos[k] <= pos[Len(written)]
          /\ l <= pos[Len(written)]
          /\ \A j \in 1 .. Len(noise) : j <= l => stream[j] = noise[j]
          /\ \A k \in 1 .. Len(written) : \A j \in 1 .. Len(written[k]) :
                pos[k - 1] + j <= l => stream[pos[k - 1] + j] = written[k][j]
      BY DEF LaidOut
    <2>2. last <= pos[Len(written)]
      <3>1. Len(written) \in Nat
        BY <1>1
      <3>2. pos[Len(written)] \in Nat
        BY <2>1, <3>1
      <3> QED BY <1>2, <2>1, <3>2
    <2>3. \A j \in 1 .. Len(noise) : j <= last => stream'[j] = noise[j]
      BY <1>2, <1>3, <2>1 DEF IsNoise
    <2>4. ASSUME NEW k \in 1 .. Len(written), NEW j \in 1 .. Len(written[k]),
                 pos[k - 1] + j <= last
          PROVE  stream'[pos[k - 1] + j] = written[k][j]
      <3>1. pos[k - 1] \in Nat
        <4>1. Len(written) \in Nat
          BY <1>1
        <4>2. k - 1 \in 0 .. Len(written)
          BY <4>1
        <4>3. pos \in [0 .. Len(written) -> Nat]
          BY <2>1
        <4> QED BY <4>2, <4>3
      <3>2. Len(written[k]) \in Nat
        BY <1>1, <2>4, TextsAre DEF IsText
      <3> PICK q \in Nat : q = pos[k - 1] + j
        BY <3>1
      <3>3. q \in 1 .. last /\ q <= l
        BY <1>2, <2>4, <3>1, <3>2
      <3>4. stream'[q] = stream[q]
        BY <1>3, <3>3
      <3>5. stream[q] = written[k][j]
        <4>1. \A i \in 1 .. Len(written[k]) :
                 pos[k - 1] + i <= l => stream[pos[k - 1] + i] = written[k][i]
          BY <2>1
        <4> QED BY <3>3, <4>1
      <3> QED BY <3>4, <3>5
    <2> QED BY <1>3, <2>1, <2>2, <2>3, <2>4 DEF LaidOut
  <1>5. ReadAsFarAs(pos, start)'
    <2>1. /\ BeginsAt(pos, start)
          /\ start \in Nat /\ start <= taken
          /\ readerBuffer \in Seq(Bytes) /\ Len(readerBuffer) = taken - start
          /\ \A j \in 1 .. taken - start : readerBuffer[j] = stream[start + j]
      BY DEF ReadAsFarAs, BeginsAt, Holds
    <2>2. \A j \in 1 .. taken - start : readerBuffer[j] = stream'[start + j]
      BY <1>1, <1>2, <1>3, <2>1
    <2> QED BY <1>1, <2>1, <2>2 DEF ReadAsFarAs, BeginsAt, Holds
  <1>6. FramingTyped'
    BY <1>2, <1>3 DEF FramingInv, FramingTyped
  <1> QED BY <1>4, <1>5, <1>6 DEF FramingInv

(* A buffer that was trimmed, and whatever was read after it.              *)
LEMMA BufferMoves ==
    ASSUME FramingInv, UNCHANGED <<written, stream, writerOpen, framed>>,
           receiving' \in BOOLEAN, receiving' => ending' = "none",
           taken' \in Nat, taken' <= Len(stream),
           NEW noise, NEW pos, NEW start, LaidOut(noise, pos),
           BeginsAt(pos, start),
           Holds(readerBuffer', start, taken')
    PROVE  FramingInv'
  <1>1. LaidOut(noise, pos)'
    BY LayoutStays
  <1>2. ReadAsFarAs(pos, start)'
    <2>1. Holds(readerBuffer, start, taken)'
      BY DEF Holds
    <2>2. BeginsAt(pos, start)'
      BY DEF BeginsAt
    <2> QED BY <2>1, <2>2 DEF ReadAsFarAs
  <1>3. FramingTyped'
    BY DEF FramingInv, FramingTyped
  <1> QED BY <1>1, <1>2, <1>3 DEF FramingInv

LEMMA ChunkTaken ==
    ASSUME FramingInv, TakeChunk
    PROVE  FramingInv'
  <1>1. PICK noise, pos, old : LaidOut(noise, pos) /\ ReadAsFarAs(pos, old)
    BY DEF FramingInv
  <1>2. PICK start : Trims(noise, pos, start)
    BY <1>1, BufferTrims DEF FramingInv
  <1>3. PICK size \in ChunkSizes :
          /\ readerBuffer' = Trimmed(readerBuffer) \o SubSeq(Arriving, 1, size)
          /\ taken' = taken + size
    BY DEF TakeChunk
  <1>4. /\ UNCHANGED <<written, stream, writerOpen, receiving, framed, ending>>
        /\ Arriving # <<>> /\ receiving
    BY DEF TakeChunk, Reading
  <1>5. stream \in Seq(Bytes) /\ taken \in Nat /\ taken <= Len(stream) /\ Len(stream) \in Nat
    BY DEF FramingInv, FramingTyped
  <1>6. /\ Arriving \in Seq(Bytes) /\ Len(Arriving) = Len(stream) - taken
        /\ \A j \in 1 .. Len(stream) - taken : Arriving[j] = stream[taken + j]
    <2>1. /\ Arriving \in Seq(Bytes) /\ Len(Arriving) = Len(stream) - (taken + 1) + 1
          /\ \A j \in 1 .. Len(stream) - (taken + 1) + 1 : Arriving[j] = stream[taken + 1 + j - 1]
      BY <1>5 DEF Arriving
    <2> QED BY <1>5, <2>1
  <1>7. size \in Nat /\ size <= Len(stream) - taken
    <2>1. PICK sizes : sizes = {ReadSize, Len(Arriving)}
      OBVIOUS
    <2>2. sizes \in SUBSET Nat /\ sizes # {}
      BY <1>5, <1>6, <2>1, ReadSizeAssumption
    <2>3. Min(sizes) \in Nat /\ Min(sizes) <= Len(Arriving)
      <3>1. Min(sizes) \in sizes /\ \A n \in sizes : Min(sizes) <= n
        BY <2>2, LeastPlace
      <3> QED BY <2>1, <2>2, <3>1
    <2>4. size \in 1 .. Min(sizes)
      BY <1>3, <2>1 DEF ChunkSizes
    <2> QED BY <1>5, <1>6, <2>3, <2>4
  <1>8. PICK bytes : bytes = Trimmed(readerBuffer)
    OBVIOUS
  <1>9. /\ bytes \in Seq(Bytes) /\ start \in Nat /\ start <= taken /\ Len(bytes) = taken - start
        /\ \A j \in 1 .. taken - start : bytes[j] = stream[start + j]
    BY <1>2, <1>8 DEF Trims, Holds
  <1>10. PICK chunk : chunk = SubSeq(Arriving, 1, size)
    OBVIOUS
  <1>11. /\ chunk \in Seq(Bytes) /\ Len(chunk) = size
         /\ \A j \in 1 .. size : chunk[j] = stream[taken + j]
    <2>1. chunk \in Seq(Bytes) /\ Len(chunk) = size /\ \A j \in 1 .. size : chunk[j] = Arriving[j]
      BY <1>5, <1>6, <1>7, <1>10
    <2>2. ASSUME NEW j \in 1 .. size
          PROVE  chunk[j] = stream[taken + j]
      <3>1. j \in 1 .. Len(stream) - taken
        BY <1>5, <1>7, <2>2
      <3> QED BY <1>6, <2>1, <2>2, <3>1
    <2> QED BY <2>1, <2>2
  <1>12. Holds(readerBuffer', start, taken')
    <2>1. PICK joined : joined = bytes \o chunk
      OBVIOUS
    <2>2. PICK b \in Nat : b = taken - start
      BY <1>5, <1>9
    <2>3. /\ joined \in Seq(Bytes) /\ Len(joined) = b + size
          /\ \A j \in 1 .. b : joined[j] = bytes[j]
          /\ \A j \in b + 1 .. b + size : joined[j] = chunk[j - b]
      <3>1. size \in Nat /\ Len(bytes) = b /\ bytes \in Seq(Bytes)
        BY <1>7, <1>9, <2>2
      <3>2. chunk \in Seq(Bytes) /\ Len(chunk) = size
        BY <1>11
      <3>3. /\ joined \in Seq(Bytes) /\ Len(joined) = Len(bytes) + Len(chunk)
            /\ \A j \in 1 .. Len(bytes) + Len(chunk) :
                  joined[j] = IF j <= Len(bytes) THEN bytes[j] ELSE chunk[j - Len(bytes)]
        BY <2>1, <3>1, <3>2, ConcatProperties
      <3>4. \A j \in 1 .. b + size : joined[j] = IF j <= b THEN bytes[j] ELSE chunk[j - b]
        BY <3>1, <3>2, <3>3
      <3> QED BY <3>1, <3>2, <3>3, <3>4
    <2>4. ASSUME NEW j \in 1 .. b + size
          PROVE  joined[j] = stream[start + j]
      <3>1. CASE j <= b
        BY <1>9, <2>2, <2>3, <2>4, <3>1
      <3>2. CASE j > b
        <4>1. j \in b + 1 .. b + size /\ j - b \in 1 .. size
          BY <1>7, <2>2, <2>4, <3>2
        <4>2. joined[j] = stream[taken + (j - b)]
          BY <1>11, <2>3, <4>1
        <4>3. taken + (j - b) = start + j
          BY <1>5, <1>9, <2>2, <2>4
        <4> QED BY <4>2, <4>3
      <3> QED BY <2>2, <2>4, <3>1, <3>2
    <2>5. /\ taken' \in Nat /\ start <= taken' /\ taken' - start = b + size
      BY <1>3, <1>5, <1>7, <1>9, <2>2
    <2>6. readerBuffer' = joined
      BY <1>3, <1>8, <1>10, <2>1
    <2>7. \A j \in 1 .. taken' - start : joined[j] = stream[start + j]
      BY <2>4, <2>5
    <2> QED BY <1>9, <2>3, <2>5, <2>6, <2>7 DEF Holds
  <1>13. taken' \in Nat /\ taken' <= Len(stream)
    BY <1>3, <1>5, <1>7
  <1>14. BeginsAt(pos, start)
    BY <1>2 DEF Trims
  <1>15. receiving' \in BOOLEAN /\ (receiving' => ending' = "none")
    BY <1>4 DEF FramingInv, FramingTyped
  <1> QED BY <1>1, <1>4, <1>12, <1>13, <1>14, <1>15, BufferMoves

LEMMA ReceiveRaises ==
    ASSUME FramingInv, RecvTimesOut \/ EndOfStream
    PROVE  FramingInv'
  <1>1. PICK noise, pos, old : LaidOut(noise, pos) /\ ReadAsFarAs(pos, old)
    BY DEF FramingInv
  <1>2. PICK start : Trims(noise, pos, start)
    BY <1>1, BufferTrims DEF FramingInv
  <1>3. /\ UNCHANGED <<written, stream, writerOpen, taken, framed>>
        /\ readerBuffer' = Trimmed(readerBuffer) /\ receiving' = FALSE
    BY DEF RecvTimesOut, EndOfStream
  <1>4. Holds(readerBuffer', start, taken')
    BY <1>2, <1>3 DEF Trims
  <1>5. BeginsAt(pos, start)
    BY <1>2 DEF Trims
  <1>6. taken' \in Nat /\ taken' <= Len(stream)
    BY <1>3 DEF FramingInv, FramingTyped
  <1> QED BY <1>1, <1>3, <1>4, <1>5, <1>6, BufferMoves

(* What is cut out is the next text.                                       *)
NextIsCut ==
    /\ ending = "none"
    /\ Len(framed) < Len(written)
    /\ framed' = Append(framed, written[Len(framed) + 1])

LEMMA MessageIsCut ==
    ASSUME FramingInv, CutMessage
    PROVE  FramingInv' /\ NextIsCut
  <1>1. PICK noise, pos, old : LaidOut(noise, pos) /\ ReadAsFarAs(pos, old)
    BY DEF FramingInv
  <1>2. PICK start : Trims(noise, pos, start)
    BY <1>1, BufferTrims DEF FramingInv
  <1>3. PICK bytes : bytes = Trimmed(readerBuffer)
    OBVIOUS
  <1>4. /\ MessageEnd(bytes) > 0
        /\ framed' = Append(framed, SubSeq(bytes, 1, MessageEnd(bytes)))
        /\ readerBuffer' = From(bytes, MessageEnd(bytes) + 1)
        /\ receiving /\ receiving' = FALSE
        /\ UNCHANGED <<written, stream, writerOpen, taken, ending>>
    BY <1>3 DEF CutMessage
  <1>5. /\ written \in Seq(WireTexts) /\ stream \in Seq(Bytes) /\ taken \in Nat
        /\ taken <= Len(stream) /\ framed \in Seq(Seq(Bytes)) /\ Len(framed) <= Len(written)
        /\ ending = "none"
    BY <1>4 DEF FramingInv, FramingTyped
  <1>6. PICK k \in Nat, n \in Nat : k = Len(framed) /\ n = Len(written)
    BY <1>5
  <1>7. start = pos[k] /\ StartsTextAt(bytes, k)
    BY <1>2, <1>3, <1>4, <1>6 DEF Trims
  <1>8. /\ bytes \in Seq(Bytes) /\ start \in Nat /\ start <= taken /\ Len(bytes) = taken - start
        /\ \A j \in 1 .. taken - start : bytes[j] = stream[start + j]
    BY <1>2, <1>3 DEF Trims, Holds
  <1>9. k # n
    <2>1. SUFFICES ASSUME k = n
                   PROVE  FALSE
      OBVIOUS
    <2>2. Len(bytes) = 0
      BY <1>6, <1>7, <2>1 DEF StartsTextAt
    <2>3. BeginningOf(bytes, bytes)
      BY <1>8 DEF BeginningOf, Sequence
    <2>4. MessageEnd(bytes) \in Nat /\ MessageEnd(bytes) <= Len(bytes)
      BY <2>3, SameEnd
    <2> QED BY <1>4, <2>2, <2>4
  <1>10. k < n
    BY <1>5, <1>6, <1>9
  <1>11. PICK text : text = written[k + 1]
    OBVIOUS
  <1>12. StartsText(bytes, text)
    BY <1>6, <1>7, <1>10, <1>11 DEF StartsTextAt
  <1>13. PICK t \in Nat : t = Len(text)
    BY <1>12 DEF StartsText, IsText
  <1>14. /\ MessageEnd(bytes) = t /\ t <= Len(bytes)
         /\ SubSeq(bytes, 1, MessageEnd(bytes)) = text
    <2>1. MessageEnd(bytes) # 0
      BY <1>4
    <2> QED BY <1>8, <1>12, <1>13, <2>1, TextIsCut
  <1>15. framed' = Append(framed, text)
    BY <1>4, <1>14
  <1>16. NextIsCut
    BY <1>5, <1>6, <1>10, <1>11, <1>15 DEF NextIsCut
  <1>17. text \in Seq(Bytes)
    BY <1>12 DEF StartsText, IsText
  <1>18. framed' \in Seq(Seq(Bytes)) /\ Len(framed') = k + 1
    BY <1>5, <1>6, <1>15, <1>17
  <1>19. pos[k + 1] = start + t
    <2>1. k + 1 \in 1 .. Len(written) /\ k + 1 - 1 = k
      BY <1>6, <1>10
    <2>2. pos[k + 1] = pos[k + 1 - 1] + Len(written[k + 1])
      BY <1>1, <2>1 DEF LaidOut
    <2> QED BY <1>7, <1>11, <1>13, <2>1, <2>2
  <1>20. LaidOut(noise, pos)'
    BY <1>1, <1>4, LayoutStays
  <1>a. PICK s : s = start + t
    OBVIOUS
  <1>21. Holds(readerBuffer, s, taken)'
    <2>1. PICK left : left = SubSeq(bytes, t + 1, Len(bytes))
      OBVIOUS
    <2>2. readerBuffer' = left
      BY <1>4, <1>14, <2>1 DEF From
    <2>3. PICK b \in Nat : b = Len(bytes)
      BY <1>8
    <2>4. b = taken - start /\ t <= b
      BY <1>8, <1>14, <2>3
    <2>5. /\ left \in Seq(Bytes) /\ Len(left) = b - (t + 1) + 1
          /\ \A j \in 1 .. b - (t + 1) + 1 : left[j] = bytes[t + 1 + j - 1]
      BY <1>8, <1>13, <2>1, <2>3, <2>4
    <2>6. b - (t + 1) + 1 = b - t /\ taken - (start + t) = b - t /\ start + t <= taken
          /\ start + t \in Nat
      BY <1>5, <1>8, <1>13, <2>3, <2>4
    <2>7. ASSUME NEW j \in 1 .. b - t
          PROVE  left[j] = stream[start + t + j]
      <3>1. t + 1 + j - 1 = t + j /\ t + j \in 1 .. b /\ start + (t + j) = start + t + j
        BY <1>8, <1>13, <2>3, <2>4, <2>7
      <3>2. left[j] = bytes[t + j]
        BY <2>5, <2>6, <2>7, <3>1
      <3>3. bytes[t + j] = stream[start + (t + j)]
        BY <1>8, <2>4, <3>1
      <3> QED BY <3>1, <3>2, <3>3
    <2>8. \A j \in 1 .. taken - (start + t) : left[j] = stream[start + t + j]
      BY <2>6, <2>7
    <2>9. Len(left) = taken - (start + t)
      BY <2>5, <2>6
    <2>10. Holds(left, s, taken)
      BY <1>5, <1>a, <2>5, <2>6, <2>8, <2>9 DEF Holds
    <2> QED BY <1>4, <2>2, <2>10 DEF Holds
  <1>22. ReadAsFarAs(pos, s)'
    <2>1. BeginsAt(pos, s)'
      BY <1>18, <1>19, <1>a DEF BeginsAt
    <2> QED BY <1>21, <2>1 DEF ReadAsFarAs
  <1>23. FramingTyped'
    <2>1. Len(framed') <= Len(written')
      BY <1>4, <1>6, <1>10, <1>18
    <2>2. writerOpen \in BOOLEAN
      BY DEF FramingInv, FramingTyped
    <2> QED BY <1>4, <1>5, <1>18, <2>1, <2>2 DEF FramingTyped
  <1> QED BY <1>16, <1>20, <1>22, <1>23 DEF FramingInv

LEMMA FramingKeeps == FramingInv /\ [FramingNext]_framingVars => FramingInv'
  <1> SUFFICES ASSUME FramingInv, [FramingNext]_framingVars
               PROVE  FramingInv'
    OBVIOUS
  <1>1. ASSUME NEW text \in WireTexts, WriteText(text)
        PROVE  FramingInv'
    BY <1>1, TextWritten
  <1>2. ASSUME NEW bytes \in Noise, WriteNoise(bytes)
        PROVE  FramingInv'
    BY <1>2, NoiseWritten
  <1>3. ASSUME NEW last \in taken .. Len(stream), Disconnect(last)
        PROVE  FramingInv'
    BY <1>3, StreamBreaks
  <1>4. CASE CallReceive
    <2>1. PICK noise, pos, start : LaidOut(noise, pos) /\ ReadAsFarAs(pos, start)
      BY DEF FramingInv
    <2>2. UNCHANGED <<written, stream, writerOpen, taken, readerBuffer, framed, ending>>
          /\ receiving' = TRUE /\ ending = "none"
      BY <1>4 DEF CallReceive
    <2>3. BeginsAt(pos, start)
      BY <2>1 DEF ReadAsFarAs
    <2>4. Holds(readerBuffer', start, taken')
      BY <2>1, <2>2 DEF ReadAsFarAs
    <2>5. taken' \in Nat /\ taken' <= Len(stream)
      BY <2>2 DEF FramingInv, FramingTyped
    <2> QED BY <2>1, <2>2, <2>3, <2>4, <2>5, BufferMoves
  <1>5. CASE CutMessage
    BY <1>5, MessageIsCut
  <1>6. CASE TakeChunk
    BY <1>6, ChunkTaken
  <1>7. CASE RecvTimesOut \/ EndOfStream
    BY <1>7, ReceiveRaises
  <1>8. CASE UNCHANGED framingVars
    BY <1>8, FramingStays
  <1> QED BY <1>1, <1>2, <1>3, <1>4, <1>5, <1>6, <1>7, <1>8 DEF FramingNext

LEMMA StreamStarts == FramingInit => Stream!Init
  BY DEF FramingInit, Stream!Init

LEMMA StreamSteps ==
    FramingInv /\ [FramingNext]_framingVars
      => [Stream!Next]_<<written, framed, ending # "none">>
  <1> SUFFICES ASSUME FramingInv, [FramingNext]_framingVars
               PROVE  [Stream!Next]_<<written, framed, ending # "none">>
    OBVIOUS
  <1>1. ASSUME NEW text \in WireTexts, WriteText(text)
        PROVE  Stream!Write
    BY <1>1 DEF WriteText, Stream!Write
  <1>2. ASSUME NEW bytes \in Noise, WriteNoise(bytes)
        PROVE  UNCHANGED <<written, framed, ending>>
    BY <1>2 DEF WriteNoise
  <1>3. ASSUME NEW last \in taken .. Len(stream), Disconnect(last)
        PROVE  UNCHANGED <<written, framed, ending>>
    BY <1>3 DEF Disconnect
  <1>4. CASE CutMessage
    <2>1. NextIsCut
      BY <1>4, MessageIsCut
    <2>2. written' = written /\ ending' = ending
      BY <1>4 DEF CutMessage
    <2>3. Stream!Deliver
      BY <2>1, <2>2 DEF NextIsCut, Stream!Deliver
    <2> QED BY <2>3 DEF Stream!Next
  <1>5. CASE EndOfStream
    <2>1. ending' # "none" /\ written' = written /\ framed' = framed
      BY <1>5 DEF EndOfStream
    <2>2. Stream!Finish
      BY <2>1 DEF Stream!Finish
    <2> QED BY <2>2 DEF Stream!Next
  <1>6. CASE CallReceive \/ TakeChunk \/ RecvTimesOut \/ UNCHANGED framingVars
    <2>1. UNCHANGED <<written, framed, ending>>
      BY <1>6 DEF CallReceive, TakeChunk, RecvTimesOut, framingVars
    <2> QED BY <2>1
  <1> QED BY <1>1, <1>2, <1>3, <1>4, <1>5, <1>6 DEF FramingNext, Stream!Next

(* However the bytes of the stream are cut into chunks, whatever precedes  *)
(* the first message and wherever the connection breaks, the reader        *)
(* implements MessageStream (framing.py:23-46): for any messages that end  *)
(* with their first checksum and any noise that starts none.               *)
THEOREM ReaderImplementsStream == FramingSpec => ImplementsStream
  <1>1. FramingInit /\ [][FramingNext]_framingVars => []FramingInv
    BY FramingStarts, FramingKeeps, PTL
  <1> QED
    BY <1>1, StreamStarts, StreamSteps, PTL
      DEF FramingSpec, ImplementsStream, Stream!Spec

-------------------------------------------------------------------------------
(* Clients and their connections.                                          *)

Messages == ClientRequests \cup {Logon}

(* The types of all but what the callers have been given.                  *)
CoreTypeOK ==
    /\ connection \in [FixClients -> Numbers \cup {0}]
    /\ opened \in 0 .. MaxConnections
    /\ toExchange \in [Numbers -> Seq(ClientRequests \cup {Logon})]
    /\ toClient \in [Numbers -> Seq(Reply)]
    /\ peer \in [Numbers -> {"none", "logon", "turn", "closed"}]
    /\ reported \in [Numbers -> Nat]
    /\ served \in SUBSET ClientRequests
    /\ phase \in [FixClients -> {"idle", "connecting", "calling"}]
    /\ asked \in [FixClients -> ClientRequests \cup {Logon}]
    /\ repeats \in [FixClients -> Nat]
    /\ \A c \in FixClients : repeats[c] <= RetryLimit[c]
    /\ kept \in [FixClients -> Seq(Reply)]
    /\ known \in [FixClients -> SUBSET ExecIds]
    /\ ended \in [FixClients -> Ending]
    /\ unread \subseteq Numbers
    /\ sends \in [FixClients -> 0 .. MaxSends]

(* A message a session thread may send over connection n.                  *)
GoodReply(reply, n) ==
    /\ reply.over = n
    /\ reply.kind = "report" => reply.about \in OrderRequests
    /\ reply.kind = "logon" => reply.about = Logon
    /\ reply.part > 0 => ExecId(reply) \in ExecIds

GoodConnection(n) ==
    /\ n > opened => peer[n] = "none" /\ toExchange[n] = <<>> /\ toClient[n] = <<>> /\ n \notin unread
    /\ peer[n] = "logon" => toExchange[n] # <<>> /\ Head(toExchange[n]) = Logon
    /\ \A i \in DOMAIN toExchange[n] :
          toExchange[n][i] = Logon => i = 1 /\ peer[n] \in {"logon", "closed"}
    /\ \A i \in DOMAIN toClient[n] : GoodReply(toClient[n][i], n)

(* At most one message is under way, and belongs to the wait in progress.  *)
OneUnderWay(c, n) ==
    \/ /\ toClient[n] = <<>>
       /\ \/ peer[n] = "closed"
          \/ toExchange[n] = <<>>
          \/ /\ phase[c] # "idle"
             /\ toExchange[n] = <<asked[c]>>
             /\ ReportCount(asked[c]) <= 1
    \/ /\ phase[c] # "idle"
       /\ peer[n] = "closed" \/ toExchange[n] = <<>>
       /\ \E reply \in Reply : toClient[n] = <<reply>> /\ reply.about = asked[c]

Belongs(c) ==
    ended[c].how = "returned" /\ asked[c] # Logon =>
        \/ ended[c].got.about = asked[c]
        \/ /\ connection[c] \in unread
           /\ ended[c].got.kind = "report" => asked[c] \in RawRequests

GoodClient(c) ==
    /\ connection[c] <= opened
    /\ phase[c] # "idle" => connection[c] # 0
    /\ phase[c] = "connecting" => asked[c] = Logon
    /\ phase[c] = "calling" => asked[c] \in ClientRequests
    /\ connection[c] = 0 \/ phase[c] = "connecting" => kept[c] = <<>>
    /\ \A i \in DOMAIN kept[c] : kept[c][i].over = connection[c]
    /\ ended[c].how \in {"connected", "returned"} => ended[c].got.over = connection[c]
    /\ Belongs(c)
    /\ connection[c] \in Numbers \ unread => kept[c] = <<>> /\ OneUnderWay(c, connection[c])

NoneShared ==
    \A c, d \in FixClients : connection[c] = connection[d] /\ connection[c] # 0 => c = d

SessionInv ==
    /\ CoreTypeOK
    /\ NoneShared
    /\ \A n \in Numbers : GoodConnection(n)
    /\ \A c \in FixClients : GoodClient(c)

LEMMA InvariantParts ==
    SessionInv => NothingFromBefore /\ LogonComesFirst /\ AnswersBelong
  <1> SUFFICES ASSUME SessionInv PROVE NothingFromBefore /\ LogonComesFirst /\ AnswersBelong
    OBVIOUS
  <1>1. NothingFromBefore
    BY DEF SessionInv, GoodClient, NothingFromBefore
  <1>2. LogonComesFirst
    BY DEF SessionInv, GoodConnection, LogonComesFirst
  <1>3. AnswersBelong
    BY DEF SessionInv, GoodClient, Belongs, AnswersBelong
  <1> QED BY <1>1, <1>2, <1>3

-------------------------------------------------------------------------------
(* Sequences                                                               *)

LEMMA LeastNatural ==
    ASSUME NEW S \in SUBSET Nat, S # {}
    PROVE  \E m \in S : \A n \in S : m <= n
  <1>1. PICK m \in S : \A n \in S : ~(<<n, m>> \in OpToRel(<, Nat))
    BY NatLessThanWellFounded, WFMin
  <1>2. \A n \in S : ~(n < m)
    BY <1>1 DEF OpToRel
  <1> QED BY <1>2

LEMMA KeptAnswerIsKept ==
    ASSUME NEW c \in FixClients, NEW r, kept[c] \in Seq(Reply), KeptAnswer(c, r) > 0,
           NEW k, k = KeptAnswer(c, r)
    PROVE  k \in DOMAIN kept[c] /\ kept[c][k].kind = "report" /\ kept[c][k].about = r
  <1> DEFINE I == {i \in 1 .. Len(kept[c]) :
                      kept[c][i].kind = "report" /\ kept[c][i].about = r}
  <1>1. k = IF I # {} THEN CHOOSE x \in I : \A y \in I : x <= y ELSE 0
    BY DEF KeptAnswer, SelectInSeq, Min
  <1>2. I \in SUBSET Nat
    OBVIOUS
  <1> HIDE DEF I
  <1>3. I # {}
    BY <1>1
  <1>4. k \in I
    BY <1>1, <1>2, <1>3, LeastNatural
  <1> QED BY <1>4 DEF I

(* The elements after the one removed move up by one place.                *)
LEMMA RemoveAtShifts ==
    ASSUME NEW S, NEW s \in Seq(S), NEW k \in DOMAIN s
    PROVE  /\ RemoveAt(s, k) \in Seq(S)
           /\ DOMAIN RemoveAt(s, k) = 1 .. Len(s) - 1
           /\ \A i \in 1 .. Len(s) - 1 :
                 RemoveAt(s, k)[i] = s[IF i < k THEN i ELSE i + 1]
  <1> DEFINE a == SubSeq(s, 1, k - 1)
             b == SubSeq(s, k + 1, Len(s))
  <1>1. k \in 1 .. Len(s) /\ Len(s) \in Nat /\ k \in Nat
    OBVIOUS
  <1>2. /\ a \in Seq(S) /\ Len(a) = k - 1
        /\ \A i \in 1 .. k - 1 : a[i] = s[i]
    BY <1>1
  <1>3. /\ b \in Seq(S) /\ Len(b) = Len(s) - k
        /\ \A i \in 1 .. Len(s) - k : b[i] = s[i + k]
    BY <1>1
  <1> HIDE DEF a, b
  <1>4. /\ a \o b \in Seq(S)
        /\ Len(a \o b) = Len(s) - 1
        /\ \A i \in 1 .. Len(s) - 1 : (a \o b)[i] = IF i <= k - 1 THEN a[i] ELSE b[i - (k - 1)]
    <2> PICK c, n : c = a \o b /\ n = Len(s) - 1
      OBVIOUS
    <2>1. Len(a) + Len(b) = n
      BY <1>1, <1>2, <1>3
    <2>2. /\ c \in Seq(S) /\ Len(c) = n
          /\ \A i \in 1 .. n : c[i] = IF i <= Len(a) THEN a[i] ELSE b[i - Len(a)]
      <3>1. a \in Seq(S) /\ b \in Seq(S)
        BY <1>2, <1>3
      <3>2. /\ c \in Seq(S) /\ Len(c) = Len(a) + Len(b)
            /\ \A i \in 1 .. Len(a) + Len(b) : c[i] = IF i <= Len(a) THEN a[i] ELSE b[i - Len(a)]
        BY <3>1, ConcatProperties
      <3> QED BY <2>1, <3>2
    <2> QED BY <1>2, <2>2
  <1>5. ASSUME NEW i \in 1 .. Len(s) - 1
        PROVE  (a \o b)[i] = s[IF i < k THEN i ELSE i + 1]
    <2>1. CASE i < k
      BY <1>1, <1>2, <1>4, <2>1
    <2>2. CASE ~(i < k)
      <3>1. (a \o b)[i] = b[i - (k - 1)] /\ i - (k - 1) \in 1 .. Len(s) - k
        BY <1>1, <1>4, <2>2
      <3>2. (a \o b)[i] = s[i + 1]
        BY <1>1, <1>3, <3>1
      <3> QED BY <2>2, <3>2
    <2> QED BY <2>1, <2>2
  <1>6. RemoveAt(s, k) = a \o b
    BY DEF RemoveAt, a, b
  <1>7. DOMAIN (a \o b) = 1 .. Len(s) - 1
    BY <1>1, <1>4
  <1> QED BY <1>4, <1>5, <1>6, <1>7

LEMMA RemoveAtKeeps ==
    ASSUME NEW S, NEW s \in Seq(S), NEW k \in DOMAIN s
    PROVE  /\ RemoveAt(s, k) \in Seq(S)
           /\ \A i \in DOMAIN RemoveAt(s, k) : \E j \in DOMAIN s : RemoveAt(s, k)[i] = s[j]
  <1>1. /\ RemoveAt(s, k) \in Seq(S) /\ DOMAIN RemoveAt(s, k) = 1 .. Len(s) - 1
        /\ \A i \in 1 .. Len(s) - 1 : RemoveAt(s, k)[i] = s[IF i < k THEN i ELSE i + 1]
    BY RemoveAtShifts
  <1>2. \A i \in 1 .. Len(s) - 1 : i \in DOMAIN s /\ i + 1 \in DOMAIN s
    OBVIOUS
  <1> QED BY <1>1, <1>2

LEMMA Queues ==
    ASSUME NEW S, NEW s \in Seq(S)
    PROVE  /\ Len(s) \in Nat
           /\ DOMAIN s = 1 .. Len(s)
           /\ s = <<>> <=> Len(s) = 0
           /\ s # <<>> =>
                /\ 1 \in DOMAIN s
                /\ Head(s) = s[1] /\ Head(s) \in S
                /\ Tail(s) \in Seq(S)
                /\ DOMAIN Tail(s) = 1 .. Len(s) - 1
                /\ \A i \in DOMAIN Tail(s) : Tail(s)[i] = s[i + 1] /\ i + 1 \in DOMAIN s
           /\ \A x \in S :
                /\ Append(s, x) \in Seq(S)
                /\ Append(s, x) # <<>>
                /\ DOMAIN Append(s, x) = 1 .. Len(s) + 1
                /\ \A i \in DOMAIN s : Append(s, x)[i] = s[i]
                /\ Append(s, x)[Len(s) + 1] = x
                /\ Head(Append(s, x)) = IF s = <<>> THEN x ELSE Head(s)
  <1>1. ASSUME s # <<>>
        PROVE  /\ 1 \in DOMAIN s
               /\ Head(s) = s[1] /\ Head(s) \in S
               /\ Tail(s) \in Seq(S)
               /\ DOMAIN Tail(s) = 1 .. Len(s) - 1
               /\ \A i \in DOMAIN Tail(s) : Tail(s)[i] = s[i + 1] /\ i + 1 \in DOMAIN s
    BY <1>1
  <1>2. ASSUME NEW x \in S
        PROVE  /\ Append(s, x) \in Seq(S)
               /\ Append(s, x) # <<>>
               /\ DOMAIN Append(s, x) = 1 .. Len(s) + 1
               /\ \A i \in DOMAIN s : Append(s, x)[i] = s[i]
               /\ Append(s, x)[Len(s) + 1] = x
               /\ Head(Append(s, x)) = IF s = <<>> THEN x ELSE Head(s)
    OBVIOUS
  <1> QED BY <1>1, <1>2

(* What a client waits for does not change while others move.              *)
LEMMA OtherClient ==
    ASSUME CoreTypeOK, NEW d \in FixClients, GoodClient(d),
           connection'[d] = connection[d], phase'[d] = phase[d], asked'[d] = asked[d],
           kept'[d] = kept[d], ended'[d] = ended[d],
           opened' \in Nat, opened <= opened',
           \A n \in Numbers : n = connection[d] =>
               /\ toExchange'[n] = toExchange[n] /\ toClient'[n] = toClient[n]
               /\ peer'[n] = peer[n]
               /\ n \in unread' <=> n \in unread,
           unread \subseteq unread'
    PROVE  GoodClient(d)'
  <1>1. connection[d] \in Numbers \cup {0} /\ opened \in Nat
    BY BoundsAssumption DEF CoreTypeOK
  <1>2. connection'[d] <= opened'
    BY <1>1, BoundsAssumption DEF GoodClient, Numbers
  <1>3. Belongs(d)'
    BY DEF GoodClient, Belongs
  <1>4. connection'[d] \in Numbers \ unread' =>
            kept'[d] = <<>> /\ OneUnderWay(d, connection[d])'
    <2> SUFFICES ASSUME connection[d] \in Numbers \ unread'
                 PROVE  kept'[d] = <<>> /\ OneUnderWay(d, connection[d])'
      OBVIOUS
    <2> PICK n \in Numbers : n = connection[d]
      OBVIOUS
    <2>1. kept[d] = <<>> /\ OneUnderWay(d, n)
      BY DEF GoodClient
    <2>2. OneUnderWay(d, n)'
      BY <2>1 DEF OneUnderWay
    <2>3. connection'[d] = n
      OBVIOUS
    <2> QED BY <2>1, <2>2, <2>3
  <1> QED BY <1>2, <1>3, <1>4 DEF GoodClient

LEMMA OtherConnection ==
    ASSUME NEW n \in Numbers, GoodConnection(n),
           toExchange'[n] = toExchange[n], toClient'[n] = toClient[n], peer'[n] = peer[n],
           opened' = opened \/ n <= opened', opened \in Nat, opened' \in Nat,
           n \in unread' => n \in unread \/ n <= opened'
    PROVE  GoodConnection(n)'
  BY DEF GoodConnection, GoodReply, Numbers

(* The values a client's operations leave it with.                         *)
LEMMA Typed ==
    ASSUME CoreTypeOK
    PROVE  /\ opened \in Nat /\ MaxConnections \in Nat
           /\ \A c \in FixClients :
                /\ connection[c] \in Numbers \cup {0}
                /\ phase[c] \in {"idle", "connecting", "calling"}
                /\ asked[c] \in Messages
                /\ kept[c] \in Seq(Reply)
                /\ known[c] \in SUBSET ExecIds
                /\ ended[c] \in Ending
           /\ \A n \in Numbers :
                /\ toExchange[n] \in Seq(Messages)
                /\ toClient[n] \in Seq(Reply)
                /\ peer[n] \in {"none", "logon", "turn", "closed"}
  BY BoundsAssumption DEF CoreTypeOK, Messages

LEMMA Endings ==
    /\ End("none", NoReply) \in Ending /\ End("raised", NoReply) \in Ending
    /\ End("closed", NoReply) \in Ending
    /\ \A reply \in Reply : End("returned", reply) \in Ending /\ End("connected", reply) \in Ending
    /\ \A how, got : End(how, got).how = how /\ End(how, got).got = got
  BY DEF End, Ending

LEMMA Counts ==
    ASSUME NEW r
    PROVE  /\ ReportCount(r) \in Nat
           /\ ~(ReportCount(r) > 1) => ReportCount(r) <= 1
           /\ \A part \in 1 .. ReportCount(r) : <<r, part>> \in ExecIds
  BY RequestsAssumption DEF ReportCount, ExecIds

(* The head of a client's queue.                                           *)
LEMMA Received ==
    ASSUME SessionInv, NEW c \in FixClients, connection[c] # 0, ~Silent(c)
    PROVE  /\ connection[c] \in Numbers
           /\ Head(Incoming(c)) \in Reply
           /\ GoodReply(Head(Incoming(c)), connection[c])
           /\ Tail(toClient[connection[c]]) \in Seq(Reply)
           /\ \A i \in DOMAIN Tail(toClient[connection[c]]) :
                 GoodReply(Tail(toClient[connection[c]])[i], connection[c])
  <1> PICK n : n = connection[c]
    OBVIOUS
  <1>1. n \in Numbers /\ toClient[n] \in Seq(Reply) /\ toClient[n] # <<>> /\ GoodConnection(n)
    BY Typed DEF SessionInv, Silent, Incoming
  <1>2. /\ 1 \in DOMAIN toClient[n]
        /\ Head(toClient[n]) = toClient[n][1] /\ Head(toClient[n]) \in Reply
        /\ Tail(toClient[n]) \in Seq(Reply)
        /\ \A i \in DOMAIN Tail(toClient[n]) :
              Tail(toClient[n])[i] = toClient[n][i + 1] /\ i + 1 \in DOMAIN toClient[n]
    BY <1>1, Queues
  <1>3. \A i \in DOMAIN toClient[n] : GoodReply(toClient[n][i], n)
    BY <1>1 DEF GoodConnection
  <1>4. \A i \in DOMAIN Tail(toClient[n]) : GoodReply(Tail(toClient[n])[i], n)
    BY <1>2, <1>3
  <1> QED BY <1>1, <1>2, <1>3, <1>4 DEF Incoming

(* A client that takes the next message from its connection leaves the     *)
(* connection in order.                                                    *)
LEMMA TakenFrom ==
    ASSUME SessionInv, NEW c \in FixClients, connection[c] # 0, ~Silent(c),
           toClient' = [toClient EXCEPT ![connection[c]] = Tail(@)],
           toExchange' = toExchange, peer' = peer, opened' = opened, unread' = unread
    PROVE  /\ toClient' \in [Numbers -> Seq(Reply)]
           /\ \A n \in Numbers : GoodConnection(n)'
  <1>1. /\ connection[c] \in Numbers
        /\ Tail(toClient[connection[c]]) \in Seq(Reply)
        /\ \A i \in DOMAIN Tail(toClient[connection[c]]) :
              GoodReply(Tail(toClient[connection[c]])[i], connection[c])
    BY Received
  <1>2. toClient \in [Numbers -> Seq(Reply)] /\ opened \in Nat
    BY Typed DEF SessionInv, CoreTypeOK
  <1>3. ASSUME NEW n \in Numbers PROVE GoodConnection(n)'
    <2>1. CASE n # connection[c]
      <3>1. GoodConnection(n)
        BY DEF SessionInv
      <3> QED BY <1>2, <2>1, <3>1, OtherConnection
    <2>2. CASE n = connection[c]
      <3>1. toClient'[n] = Tail(toClient[n]) /\ n <= opened
        BY <1>1, <1>2, <2>2 DEF SessionInv, GoodClient
      <3>2. GoodConnection(n) /\ ~(n > opened)
        BY <1>2, <3>1 DEF SessionInv, Numbers
      <3>3. \A i \in DOMAIN toClient'[n] : GoodReply(toClient'[n][i], n)
        BY <1>1, <2>2, <3>1
      <3> QED BY <3>2, <3>3 DEF GoodConnection, GoodReply
    <2> QED BY <2>1, <2>2
  <1> QED BY <1>1, <1>2, <1>3

LEMMA OnlyOne ==
    ASSUME NEW c \in FixClients, NEW n \in Numbers, OneUnderWay(c, n), toClient[n] # <<>>
    PROVE  /\ phase[c] # "idle"
           /\ peer[n] = "closed" \/ toExchange[n] = <<>>
           /\ Tail(toClient[n]) = <<>>
           /\ Head(toClient[n]).about = asked[c]
  <1>1. PICK reply \in Reply : toClient[n] = <<reply>> /\ reply.about = asked[c]
    BY DEF OneUnderWay
  <1>2. Tail(<<reply>>) = <<>> /\ Head(<<reply>>) = reply
    OBVIOUS
  <1> QED BY <1>1, <1>2 DEF OneUnderWay

LEMMA LogonAnsweredKeeps ==
    ASSUME SessionInv, NEW c \in FixClients, LogonAnswered(c)
    PROVE  SessionInv'
  <1> DEFINE reply == Head(Incoming(c))
  <1>1. /\ phase[c] = "connecting" /\ ~Silent(c)
        /\ toClient' = [toClient EXCEPT ![connection[c]] = Tail(@)]
        /\ UNCHANGED <<opened, toExchange, peer, reported, served, asked, repeats, kept, known,
                       unread, sends>>
        /\ phase' = [phase EXCEPT ![c] = "idle"]
    BY DEF LogonAnswered, At, Ends
  <1>2. \/ /\ reply.kind = "logon"
           /\ ended' = [ended EXCEPT ![c] = End("connected", reply)]
           /\ connection' = connection
        \/ /\ ended' = [ended EXCEPT ![c] = End("raised", NoReply)]
           /\ connection' = [connection EXCEPT ![c] = 0]
    BY DEF LogonAnswered, Ends
  <1>3. GoodClient(c) /\ connection[c] # 0 /\ CoreTypeOK
    BY <1>1 DEF SessionInv, GoodClient
  <1>4. reply \in Reply /\ GoodReply(reply, connection[c]) /\ connection[c] \in Numbers
    BY <1>1, <1>3, Received
  <1>5. toClient' \in [Numbers -> Seq(Reply)] /\ \A n \in Numbers : GoodConnection(n)'
    BY <1>1, <1>3, TakenFrom
  <1> HIDE DEF reply
  <1>6. connection' \in [FixClients -> Numbers \cup {0}] /\ ended' \in [FixClients -> Ending]
    BY <1>2, <1>3, <1>4, Endings DEF CoreTypeOK
  <1>7. CoreTypeOK'
    BY <1>1, <1>3, <1>5, <1>6 DEF CoreTypeOK
  <1>8. NoneShared'
    BY <1>2, <1>3, <1>4 DEF SessionInv, NoneShared, CoreTypeOK
  <1>9. GoodClient(c)'
    <2>0. /\ connection \in [FixClients -> Numbers \cup {0}]
          /\ ended \in [FixClients -> Ending]
          /\ phase \in [FixClients -> {"idle", "connecting", "calling"}]
      BY <1>3 DEF CoreTypeOK
    <2>1. /\ phase'[c] = "idle" /\ kept'[c] = <<>> /\ asked'[c] = Logon
          /\ connection'[c] = 0 \/ connection'[c] = connection[c]
          /\ \/ ended'[c] = End("raised", NoReply)
             \/ ended'[c] = End("connected", reply) /\ connection'[c] = connection[c]
      <3>1. phase'[c] = "idle" /\ kept'[c] = <<>> /\ asked'[c] = Logon
        BY <1>1, <1>3, <2>0 DEF GoodClient
      <3> QED BY <1>2, <2>0, <3>1
    <2>5. connection'[c] <= opened'
      BY <1>1, <1>3, <2>1, Typed DEF GoodClient
    <2>2. ended'[c].how # "returned" /\
          (ended'[c].how = "connected" => ended'[c].got.over = connection'[c])
      BY <1>4, <2>1, Endings DEF GoodReply
    <2>3. ASSUME connection[c] \in Numbers \ unread, connection'[c] = connection[c]
          PROVE  OneUnderWay(c, connection[c])'
      <3> PICK n : n = connection[c]
        OBVIOUS
      <3>1. OneUnderWay(c, n) /\ toClient[n] # <<>> /\ toClient'[n] = Tail(toClient[n])
        <4>1. OneUnderWay(c, n)
          BY <1>3, <2>3 DEF GoodClient
        <4>2. toClient[n] # <<>>
          BY <1>1 DEF Silent, Incoming
        <4>3. toClient \in [Numbers -> Seq(Reply)]
          BY <1>3 DEF CoreTypeOK
        <4>4. toClient'[n] = Tail(toClient[n])
          BY <1>1, <1>4, <4>3
        <4> QED BY <4>1, <4>2, <4>4
      <3>2. (peer[n] = "closed" \/ toExchange[n] = <<>>) /\ toClient'[n] = <<>>
        BY <1>4, <3>1, OnlyOne
      <3>3. OneUnderWay(c, n)'
        BY <1>1, <3>2 DEF OneUnderWay
      <3> QED BY <2>3, <3>3
    <2> QED BY <1>1, <1>4, <2>1, <2>2, <2>3, <2>5 DEF GoodClient, Belongs, Numbers
  <1>10. ASSUME NEW d \in FixClients, d # c PROVE GoodClient(d)'
    <2>1. connection[d] # connection[c]
      BY <1>3, <1>10 DEF SessionInv, NoneShared
    <2>2. GoodClient(d)
      BY DEF SessionInv
    <2>3. /\ connection'[d] = connection[d] /\ phase'[d] = phase[d] /\ ended'[d] = ended[d]
          /\ \A n \in Numbers : n = connection[d] => toClient'[n] = toClient[n]
      BY <1>1, <1>2, <1>3, <1>10, <2>1 DEF CoreTypeOK
    <2> QED BY <1>1, <1>3, <2>2, <2>3, Typed, OtherClient
  <1> QED BY <1>5, <1>7, <1>8, <1>9, <1>10 DEF SessionInv

(* A step of one client, over one connection.                              *)
OnlyOf(c, m) ==
    /\ \A d \in FixClients \ {c} :
          /\ connection'[d] = connection[d] /\ phase'[d] = phase[d] /\ asked'[d] = asked[d]
          /\ kept'[d] = kept[d] /\ ended'[d] = ended[d]
    /\ \A n \in Numbers \ {m} :
          /\ toExchange'[n] = toExchange[n] /\ toClient'[n] = toClient[n]
          /\ peer'[n] = peer[n]
          /\ n \in unread' <=> n \in unread
    /\ unread \subseteq unread'
    /\ opened' \in {opened, opened + 1}

LEMMA TheRestStays ==
    ASSUME SessionInv, NEW c \in FixClients, NEW m \in Numbers, OnlyOf(c, m),
           \A d \in FixClients \ {c} : connection[d] # m
    PROVE  \A d \in FixClients \ {c} : GoodClient(d)'
  <1> SUFFICES ASSUME NEW d \in FixClients, d # c PROVE GoodClient(d)'
    OBVIOUS
  <1>1. CoreTypeOK /\ GoodClient(d) /\ opened \in Nat
    BY Typed DEF SessionInv
  <1>2. opened' \in Nat /\ opened <= opened'
    BY <1>1 DEF OnlyOf
  <1>3. \A n \in Numbers : n = connection[d] =>
            /\ toExchange'[n] = toExchange[n] /\ toClient'[n] = toClient[n]
            /\ peer'[n] = peer[n]
            /\ n \in unread' <=> n \in unread
    BY DEF OnlyOf
  <1>4. /\ connection'[d] = connection[d] /\ phase'[d] = phase[d] /\ asked'[d] = asked[d]
        /\ kept'[d] = kept[d] /\ ended'[d] = ended[d] /\ unread \subseteq unread'
    BY DEF OnlyOf
  <1> QED BY <1>1, <1>2, <1>3, <1>4, OtherClient

(* A client that moves over the connection it has open shares it with      *)
(* nobody, before and after.                                               *)
LEMMA OwnConnection ==
    ASSUME SessionInv, NEW c \in FixClients, NEW m \in Numbers, m = connection[c],
           OnlyOf(c, m), connection'[c] \in {m, 0}, GoodConnection(m)', GoodClient(c)',
           opened' = opened, CoreTypeOK'
    PROVE  SessionInv'
  <1>1. m # 0 /\ \A d \in FixClients \ {c} : connection[d] # m
    BY DEF SessionInv, NoneShared, Numbers
  <1>2. \A d \in FixClients : GoodClient(d)'
    BY <1>1, TheRestStays
  <1>3. NoneShared'
    BY <1>1 DEF SessionInv, NoneShared, OnlyOf
  <1>4. ASSUME NEW n \in Numbers, n # m PROVE GoodConnection(n)'
    <2>1. GoodConnection(n) /\ opened \in Nat
      BY Typed DEF SessionInv
    <2>2. /\ toExchange'[n] = toExchange[n] /\ toClient'[n] = toClient[n]
          /\ peer'[n] = peer[n]
          /\ n \in unread' <=> n \in unread
      BY <1>4 DEF OnlyOf
    <2> QED BY <2>1, <2>2, OtherConnection
  <1> QED BY <1>2, <1>3, <1>4 DEF SessionInv

(* A wait that ends without an answer.                                     *)
LEMMA WaitEndsKeeps ==
    ASSUME SessionInv, NEW c \in FixClients, phase[c] # "idle",
           phase' = [phase EXCEPT ![c] = "idle"],
           ended' = [ended EXCEPT ![c] = End("raised", NoReply)],
           \/ unread' = unread \cup {connection[c]}
           \/ unread' = unread /\ peer[connection[c]] = "closed" /\ Silent(c),
           connection' = connection, opened' = opened, toExchange' = toExchange,
           toClient' = toClient, peer' = peer, reported' = reported,
           served' = served, asked' = asked,
           repeats' = repeats, kept' = kept, known' = known, sends' = sends
    PROVE  SessionInv'
  <1>1. PICK m : m = connection[c]
    OBVIOUS
  <1>2. CoreTypeOK /\ GoodClient(c) /\ m \in Numbers /\ GoodConnection(m)
    BY <1>1, Typed DEF SessionInv, GoodClient
  <1>3. CoreTypeOK'
    <2>1. phase' \in [FixClients -> {"idle", "connecting", "calling"}]
          /\ ended' \in [FixClients -> Ending] /\ unread' \subseteq Numbers
      BY <1>1, <1>2, Endings DEF CoreTypeOK
    <2> QED BY <1>2, <2>1 DEF CoreTypeOK
  <1>4. phase'[c] = "idle" /\ ended'[c] = End("raised", NoReply)
    BY <1>2 DEF CoreTypeOK
  <1>5. OnlyOf(c, m)
    BY <1>1, <1>2 DEF OnlyOf, CoreTypeOK
  <1>6. GoodConnection(m)'
    <2>1. m <= opened /\ opened \in Nat
      BY <1>1, <1>2, Typed DEF GoodClient
    <2> QED BY <1>2, <2>1 DEF GoodConnection, GoodReply, Numbers
  <1>7. GoodClient(c)'
    <2>1. ended'[c].how = "raised"
      BY <1>4, Endings
    <2>2. connection[c] \in Numbers \ unread' => kept[c] = <<>> /\ OneUnderWay(c, connection[c])'
      <3> SUFFICES ASSUME m \in Numbers \ unread' PROVE kept[c] = <<>> /\ OneUnderWay(c, m)'
        BY <1>1
      <3>1. unread' = unread /\ peer[m] = "closed" /\ toClient[m] = <<>>
        BY <1>1 DEF Silent, Incoming
      <3>2. OneUnderWay(c, m)'
        BY <3>1 DEF OneUnderWay
      <3>3. kept[c] = <<>>
        BY <1>1, <1>2, <3>1 DEF GoodClient
      <3> QED BY <3>2, <3>3
    <2>3. phase[c] = "connecting" => kept[c] = <<>>
      BY <1>2 DEF GoodClient
    <2>4. connection'[c] = m /\ m # 0 /\ m <= opened'
      BY <1>1, <1>2 DEF GoodClient, Numbers
    <2>5. \A i \in DOMAIN kept'[c] : kept'[c][i].over = connection'[c]
      BY <1>2 DEF GoodClient
    <2> QED BY <1>1, <1>4, <2>1, <2>2, <2>3, <2>4, <2>5 DEF GoodClient, Belongs
  <1> QED BY <1>1, <1>2, <1>3, <1>5, <1>6, <1>7, OwnConnection

LEMMA CloseKeeps ==
    ASSUME SessionInv, NEW c \in FixClients, CloseConnection(c)
    PROVE  SessionInv'
  <1>1. PICK m : m = connection[c]
    OBVIOUS
  <1>2. CoreTypeOK /\ m \in Numbers /\ GoodConnection(m)
    BY <1>1, Typed DEF SessionInv, CloseConnection, Open
  <1>3. /\ connection' = [connection EXCEPT ![c] = 0]
        /\ kept' = [kept EXCEPT ![c] = <<>>]
        /\ phase' = [phase EXCEPT ![c] = "idle"]
        /\ ended' = [ended EXCEPT ![c] = End("closed", NoReply)]
    BY DEF CloseConnection, Ends
  <1>4. /\ opened' = opened /\ toExchange' = toExchange /\ toClient' = toClient
        /\ peer' = peer /\ reported' = reported
        /\ served' = served /\ asked' = asked /\ repeats' = repeats
        /\ known' = known /\ unread' = unread /\ sends' = sends
    BY DEF CloseConnection, peerVars
  <1>5. CoreTypeOK'
    <2>1. connection' \in [FixClients -> Numbers \cup {0}]
          /\ phase' \in [FixClients -> {"idle", "connecting", "calling"}]
          /\ ended' \in [FixClients -> Ending]
      BY <1>2, <1>3, Endings DEF CoreTypeOK
    <2>2. kept' \in [FixClients -> Seq(Reply)]
      <3>1. <<>> \in Seq(Reply)
        OBVIOUS
      <3> QED BY <1>2, <1>3, <3>1 DEF CoreTypeOK
    <2> QED BY <1>2, <1>4, <2>1, <2>2 DEF CoreTypeOK
  <1>6. /\ connection'[c] = 0 /\ kept'[c] = <<>> /\ phase'[c] = "idle"
        /\ ended'[c] = End("closed", NoReply)
    BY <1>2, <1>3 DEF CoreTypeOK
  <1>7. OnlyOf(c, m)
    BY <1>2, <1>3, <1>4 DEF OnlyOf, CoreTypeOK
  <1>8. GoodConnection(m)'
    BY <1>2, <1>4 DEF GoodConnection, GoodReply
  <1>9. GoodClient(c)'
    <2>1. ended'[c].how = "closed" /\ 0 <= opened' /\ 0 \notin Numbers
      BY <1>2, <1>4, <1>6, Endings, Typed DEF Numbers
    <2> QED BY <1>6, <2>1 DEF GoodClient, Belongs
  <1> QED BY <1>1, <1>2, <1>4, <1>5, <1>6, <1>7, <1>8, <1>9, OwnConnection

LEMMA ConnectKeeps ==
    ASSUME SessionInv, NEW c \in FixClients, Connect(c)
    PROVE  SessionInv'
  <1>1. PICK m : m = opened + 1
    OBVIOUS
  <1>2. CoreTypeOK /\ GoodClient(c) /\ opened \in Nat
    BY Typed DEF SessionInv
  <1>3. m \in Numbers /\ m > opened /\ GoodConnection(m)
    BY <1>1, <1>2, BoundsAssumption DEF Connect, Numbers, SessionInv
  <1>4. /\ opened' = m
        /\ connection' = [connection EXCEPT ![c] = m]
        /\ peer' = [peer EXCEPT ![m] = "logon"]
        /\ toExchange' = [toExchange EXCEPT ![m] = Append(@, Logon)]
        /\ phase' = [phase EXCEPT ![c] = "connecting"]
        /\ ended' = [ended EXCEPT ![c] = End("none", NoReply)]
        /\ asked' = [asked EXCEPT ![c] = Logon]
    BY <1>1 DEF Connect, Begins, Transmit
  <1>5. /\ toClient' = toClient /\ reported' = reported
        /\ served' = served /\ repeats' = repeats /\ kept' = kept
        /\ known' = known /\ unread' = unread /\ sends' = sends
        /\ connection[c] = 0 /\ phase[c] = "idle"
    BY DEF Connect, Open, At
  <1>6. toExchange[m] = <<>> /\ toClient[m] = <<>> /\ peer[m] = "none" /\ m \notin unread
    BY <1>3 DEF GoodConnection
  <1>7. Append(toExchange[m], Logon) = <<Logon>> /\ <<Logon>> \in Seq(Messages)
    BY <1>6 DEF Messages
  <1>8. CoreTypeOK'
    <2>1. /\ connection' \in [FixClients -> Numbers \cup {0}]
          /\ peer' \in [Numbers -> {"none", "logon", "turn", "closed"}]
          /\ phase' \in [FixClients -> {"idle", "connecting", "calling"}]
      BY <1>2, <1>3, <1>4 DEF CoreTypeOK
    <2>2. /\ toExchange' \in [Numbers -> Seq(ClientRequests \cup {Logon})]
          /\ ended' \in [FixClients -> Ending]
          /\ asked' \in [FixClients -> ClientRequests \cup {Logon}]
      BY <1>2, <1>3, <1>4, <1>7, Endings DEF CoreTypeOK, Messages
    <2>3. opened' \in 0 .. MaxConnections
      BY <1>3, <1>4, BoundsAssumption DEF Numbers
    <2> QED BY <1>2, <1>5, <2>1, <2>2, <2>3 DEF CoreTypeOK
  <1>9. /\ connection'[c] = m /\ phase'[c] = "connecting" /\ asked'[c] = Logon
        /\ ended'[c] = End("none", NoReply)
        /\ peer'[m] = "logon" /\ toExchange'[m] = <<Logon>>
    BY <1>2, <1>3, <1>4, <1>7 DEF CoreTypeOK
  <1>10. OnlyOf(c, m)
    BY <1>1, <1>2, <1>3, <1>4, <1>5 DEF OnlyOf, CoreTypeOK
  <1>11. ASSUME NEW d \in FixClients PROVE connection[d] # m
    <2>1. connection[d] <= opened /\ connection[d] \in Numbers \cup {0}
      BY <1>2, Typed DEF SessionInv, GoodClient
    <2> QED BY <1>2, <1>3, <2>1 DEF Numbers
  <1>12. NoneShared'
    BY <1>10, <1>11, <1>9 DEF SessionInv, NoneShared, OnlyOf
  <1>13. ASSUME NEW n \in Numbers PROVE GoodConnection(n)'
    <2>1. CASE n # m
      <3>1. /\ GoodConnection(n)
            /\ toExchange'[n] = toExchange[n] /\ toClient'[n] = toClient[n]
            /\ peer'[n] = peer[n] /\ (n \in unread' <=> n \in unread)
        BY <1>10, <2>1 DEF OnlyOf, SessionInv
      <3>2. n > opened' => n > opened
        BY <1>1, <1>2, <1>4 DEF Numbers
      <3> QED BY <3>1, <3>2 DEF GoodConnection, GoodReply
    <2>2. CASE n = m
      <3>1. /\ Len(<<Logon>>) = 1 /\ DOMAIN <<Logon>> = {1} /\ <<Logon>>[1] = Logon
            /\ Head(<<Logon>>) = Logon /\ <<Logon>> # <<>>
        OBVIOUS
      <3>2. DOMAIN toClient'[n] = {} /\ ~(n > opened')
        BY <1>3, <1>4, <1>5, <1>6, <2>2 DEF Numbers
      <3> QED BY <1>9, <2>2, <3>1, <3>2 DEF GoodConnection
    <2> QED BY <2>1, <2>2
  <1>14. GoodClient(c)'
    <2>1. kept'[c] = <<>> /\ DOMAIN kept'[c] = {}
      BY <1>2, <1>5 DEF GoodClient
    <2>2. OneUnderWay(c, m)'
      <3>1. ReportCount(Logon) <= 1
        BY RequestsAssumption DEF ReportCount, ClientRequests
      <3> QED BY <1>5, <1>6, <1>9, <3>1 DEF OneUnderWay
    <2>3. ended'[c].how = "none"
      BY <1>9, Endings
    <2>4. m <= opened' /\ m # 0
      BY <1>3, <1>4 DEF Numbers
    <2> QED BY <1>9, <2>1, <2>2, <2>3, <2>4 DEF GoodClient, Belongs
  <1>15. \A d \in FixClients \ {c} : GoodClient(d)'
    BY <1>3, <1>10, <1>11, TheRestStays
  <1> QED BY <1>8, <1>12, <1>13, <1>14, <1>15 DEF SessionInv

(* Sending a request, the first time or again, ends the call with a report *)
(* kept for it or begins the wait for one.                                 *)
LEMMA SendKeeps ==
    ASSUME SessionInv, NEW c \in FixClients, NEW r \in ClientRequests, NEW k,
           connection[c] # 0, SendAndLook(c, r, k), k \in Nat, k <= RetryLimit[c],
           asked' = [asked EXCEPT ![c] = r],
           \/ /\ phase[c] = "idle"
              /\ unread' = IF ReportCount(r) > 1 THEN unread \cup {connection[c]} ELSE unread
           \/ phase[c] = "calling" /\ unread' = unread \cup {connection[c]},
           connection' = connection, opened' = opened, toClient' = toClient, peer' = peer,
           reported' = reported,
           served' = served, known' = known, sends' \in [FixClients -> 0 .. MaxSends]
    PROVE  SessionInv'
  <1>1. PICK m : m = connection[c]
    OBVIOUS
  <1>2. CoreTypeOK /\ GoodClient(c) /\ m \in Numbers /\ GoodConnection(m)
    BY <1>1, Typed DEF SessionInv
  <1>3. PICK place : place = KeptAnswer(c, r)
    OBVIOUS
  <1>4. /\ toExchange' = [toExchange EXCEPT ![m] = Append(@, r)]
        /\ repeats' = [repeats EXCEPT ![c] = k]
    BY <1>1 DEF SendAndLook, Transmit
  <1>5. \/ /\ place > 0
           /\ phase' = [phase EXCEPT ![c] = "idle"]
           /\ ended' = [ended EXCEPT ![c] = End("returned", kept[c][place])]
           /\ kept' = [kept EXCEPT ![c] = RemoveAt(@, place)]
        \/ /\ phase' = [phase EXCEPT ![c] = "calling"]
           /\ ended' = [ended EXCEPT ![c] = End("none", NoReply)]
           /\ kept' = kept
    BY <1>3 DEF SendAndLook, Ends, Begins
  <1>6. /\ kept[c] \in Seq(Reply)
        /\ place > 0 =>
              /\ place \in DOMAIN kept[c] /\ kept[c][place] \in Reply
              /\ kept[c][place].about = r
    <2>1. kept[c] \in Seq(Reply)
      BY <1>2 DEF CoreTypeOK
    <2>2. place > 0 => place \in DOMAIN kept[c] /\ kept[c][place].about = r
      BY <1>3, <2>1, KeptAnswerIsKept
    <2>3. \A i \in DOMAIN kept[c] : kept[c][i] \in Reply
      BY <2>1
    <2> QED BY <2>1, <2>2, <2>3
  <1>7. place > 0 =>
            /\ RemoveAt(kept[c], place) \in Seq(Reply)
            /\ \A i \in DOMAIN RemoveAt(kept[c], place) :
                  \E j \in DOMAIN kept[c] : RemoveAt(kept[c], place)[i] = kept[c][j]
    BY <1>6, RemoveAtKeeps
  <1>8. /\ toExchange[m] \in Seq(Messages) /\ r \in Messages /\ r # Logon
        /\ Append(toExchange[m], r) \in Seq(Messages)
    BY <1>2, Typed, RequestsAssumption DEF Messages
  <1>9. CoreTypeOK'
    <2>1. /\ toExchange' \in [Numbers -> Seq(ClientRequests \cup {Logon})]
          /\ asked' \in [FixClients -> ClientRequests \cup {Logon}]
          /\ repeats' \in [FixClients -> Nat]
          /\ \A d \in FixClients : repeats'[d] <= RetryLimit[d]
      BY <1>2, <1>4, <1>8 DEF CoreTypeOK, Messages
    <2>2. phase' \in [FixClients -> {"idle", "connecting", "calling"}]
          /\ unread' \subseteq Numbers
      BY <1>1, <1>2, <1>5 DEF CoreTypeOK
    <2>3. kept' \in [FixClients -> Seq(Reply)]
      BY <1>2, <1>5, <1>7 DEF CoreTypeOK
    <2>4. ended' \in [FixClients -> Ending]
      BY <1>2, <1>5, <1>6, Endings DEF CoreTypeOK
    <2> QED BY <1>2, <2>1, <2>2, <2>3, <2>4 DEF CoreTypeOK
  <1>10. OnlyOf(c, m)
    BY <1>1, <1>2, <1>4, <1>5 DEF OnlyOf, CoreTypeOK
  <1>11. toExchange'[m] = Append(toExchange[m], r) /\ asked'[c] = r
    BY <1>2, <1>4 DEF CoreTypeOK
  <1>12. GoodConnection(m)'
    <2>1. m <= opened /\ opened \in Nat
      BY <1>1, <1>2, Typed DEF GoodClient
    <2>2. peer[m] = "logon" => toExchange'[m] # <<>> /\ Head(toExchange'[m]) = Logon
      BY <1>2, <1>8, <1>11, Queues DEF GoodConnection
    <2>3. ASSUME NEW i \in DOMAIN toExchange'[m], toExchange'[m][i] = Logon
          PROVE  i = 1 /\ peer[m] \in {"logon", "closed"}
      <3>1. i \in DOMAIN toExchange[m] /\ toExchange'[m][i] = toExchange[m][i]
        BY <1>8, <1>11, <2>3, Queues
      <3> QED BY <1>2, <2>3, <3>1 DEF GoodConnection
    <2> QED BY <1>2, <2>1, <2>2, <2>3 DEF GoodConnection, GoodReply, Numbers
  <1>13. \A i \in DOMAIN kept[c] : kept[c][i].over = m
    BY <1>1, <1>2 DEF GoodClient
  <1>14. connection'[c] = m /\ m <= opened' /\ m # 0
    BY <1>1, <1>2 DEF GoodClient, Numbers
  <1>15. GoodClient(c)'
    <2>1. CASE /\ place > 0
               /\ phase' = [phase EXCEPT ![c] = "idle"]
               /\ ended' = [ended EXCEPT ![c] = End("returned", kept[c][place])]
               /\ kept' = [kept EXCEPT ![c] = RemoveAt(@, place)]
      <3>1. /\ phase'[c] = "idle" /\ ended'[c] = End("returned", kept[c][place])
            /\ kept'[c] = RemoveAt(kept[c], place)
        BY <1>2, <2>1 DEF CoreTypeOK
      <3>2. ended'[c].how = "returned" /\ ended'[c].got.about = r /\ ended'[c].got.over = m
        BY <1>6, <1>13, <2>1, <3>1, Endings
      <3>3. \A i \in DOMAIN kept'[c] : kept'[c][i].over = m
        BY <1>7, <1>13, <2>1, <3>1
      <3>4. m \in unread'
        <4>1. kept[c] # <<>>
          BY <1>6, <2>1
        <4> QED BY <1>1, <1>2, <4>1 DEF GoodClient
      <3> QED BY <1>11, <1>14, <3>1, <3>2, <3>3, <3>4 DEF GoodClient, Belongs
    <2>2. CASE /\ phase' = [phase EXCEPT ![c] = "calling"]
               /\ ended' = [ended EXCEPT ![c] = End("none", NoReply)]
               /\ kept' = kept
      <3>1. phase'[c] = "calling" /\ ended'[c].how = "none" /\ kept'[c] = kept[c]
        BY <1>2, <2>2, Endings DEF CoreTypeOK
      <3>2. ASSUME m \in Numbers \ unread' PROVE kept[c] = <<>> /\ OneUnderWay(c, m)'
        <4>1. phase[c] = "idle" /\ m \notin unread
          BY <1>1, <3>2
        <4>2. kept[c] = <<>> /\ OneUnderWay(c, m)
          BY <1>1, <1>2, <4>1 DEF GoodClient
        <4>3. toClient[m] = <<>> /\ (peer[m] = "closed" \/ toExchange[m] = <<>>)
          BY <4>1, <4>2 DEF OneUnderWay
        <4>4. Append(<<>>, r) = <<r>>
          OBVIOUS
        <4>5. ReportCount(r) <= 1
          BY <1>1, <3>2, <4>1, Counts
        <4>6. phase'[c] # "idle" /\ toClient'[m] = toClient[m] /\ peer'[m] = peer[m]
          BY <3>1
        <4>7. peer[m] = "closed" \/ toExchange'[m] = <<asked'[c]>>
          BY <1>11, <4>3, <4>4
        <4>8. OneUnderWay(c, m)'
          BY <1>11, <4>3, <4>5, <4>6, <4>7 DEF OneUnderWay
        <4> QED BY <4>2, <4>8
      <3> QED BY <1>11, <1>13, <1>14, <3>1, <3>2 DEF GoodClient, Belongs
    <2> QED BY <1>5, <2>1, <2>2
  <1> QED BY <1>1, <1>2, <1>9, <1>10, <1>12, <1>14, <1>15, OwnConnection

LEMMA SendNoWaitKeeps ==
    ASSUME SessionInv, NEW c \in FixClients, NEW r \in Asks[c], SendNoWait(c, r)
    PROVE  SessionInv'
  <1>1. PICK m : m = connection[c]
    OBVIOUS
  <1>2. /\ phase[c] = "idle" /\ m # 0
        /\ asked' = [asked EXCEPT ![c] = Logon]
        /\ toExchange' = [toExchange EXCEPT ![m] = Append(@, r)]
        /\ phase' = [phase EXCEPT ![c] = "idle"]
        /\ ended' = [ended EXCEPT ![c] = End("sent", NoReply)]
        /\ unread' = unread \cup {m}
        /\ sends[c] < MaxSends /\ sends' = [sends EXCEPT ![c] = @ + 1]
        /\ connection' = connection /\ opened' = opened /\ toClient' = toClient
        /\ peer' = peer /\ reported' = reported /\ served' = served /\ repeats' = repeats
        /\ kept' = kept /\ known' = known
    BY <1>1 DEF SendNoWait, At, Open, Transmit, Ends
  <1>3. /\ CoreTypeOK /\ GoodClient(c) /\ m \in Numbers /\ GoodConnection(m)
        /\ r \in ClientRequests /\ r # Logon
    BY <1>1, <1>2, Typed, RequestsAssumption DEF SessionInv
  <1>4. toExchange[m] \in Seq(Messages) /\ r \in Messages
        /\ Append(toExchange[m], r) \in Seq(Messages)
    BY <1>3, Typed DEF Messages
  <1>5. CoreTypeOK'
    <2>1. sends' \in [FixClients -> 0 .. MaxSends]
      BY <1>2, <1>3, BoundsAssumption DEF CoreTypeOK
    <2>2. /\ asked' \in [FixClients -> ClientRequests \cup {Logon}]
          /\ phase' \in [FixClients -> {"idle", "connecting", "calling"}]
          /\ ended' \in [FixClients -> Ending] /\ unread' \subseteq Numbers
      <3>1. End("sent", NoReply) \in Ending
        BY DEF End, Ending
      <3> QED BY <1>2, <1>3, <3>1 DEF CoreTypeOK
    <2>3. toExchange' \in [Numbers -> Seq(ClientRequests \cup {Logon})]
      BY <1>2, <1>3, <1>4 DEF CoreTypeOK, Messages
    <2> QED BY <1>2, <1>3, <2>1, <2>2, <2>3 DEF CoreTypeOK
  <1>6. OnlyOf(c, m)
    BY <1>2, <1>3 DEF OnlyOf, CoreTypeOK
  <1>7. toExchange'[m] = Append(toExchange[m], r) /\ m <= opened /\ opened \in Nat
    BY <1>1, <1>2, <1>3, Typed DEF CoreTypeOK, GoodClient
  <1>8. GoodConnection(m)'
    <2>1. ~(m > opened') /\ m \in Nat
      BY <1>2, <1>3, <1>7 DEF Numbers
    <2>2. peer[m] = "logon" => toExchange'[m] # <<>> /\ Head(toExchange'[m]) = Logon
      BY <1>3, <1>4, <1>7, Queues DEF GoodConnection
    <2>3. ASSUME NEW i \in DOMAIN toExchange'[m], toExchange'[m][i] = Logon
          PROVE  i = 1 /\ peer[m] \in {"logon", "closed"}
      <3>1. i \in DOMAIN toExchange[m] /\ toExchange'[m][i] = toExchange[m][i]
        BY <1>3, <1>4, <1>7, <2>3, Queues
      <3> QED BY <1>3, <2>3, <3>1 DEF GoodConnection
    <2> QED BY <1>2, <1>3, <2>1, <2>2, <2>3 DEF GoodConnection, GoodReply
  <1>9. GoodClient(c)'
    <2>1. phase'[c] = "idle" /\ ended'[c].how = "sent" /\ m \in unread'
      BY <1>2, <1>3, Endings DEF CoreTypeOK
    <2>2. connection'[c] = m /\ m <= opened' /\ kept'[c] = kept[c]
      BY <1>1, <1>2, <1>7
    <2>3. \A i \in DOMAIN kept[c] : kept[c][i].over = m
      BY <1>1, <1>3 DEF GoodClient
    <2> QED BY <1>2, <2>1, <2>2, <2>3 DEF GoodClient, Belongs
  <1> QED BY <1>1, <1>2, <1>3, <1>5, <1>6, <1>8, <1>9, OwnConnection

LEMMA ReadReplyKeeps ==
    ASSUME SessionInv, NEW c \in FixClients, ReadReply(c)
    PROVE  SessionInv'
  <1>1. PICK m : m = connection[c]
    OBVIOUS
  <1>2. PICK reply : reply = Head(Incoming(c))
    OBVIOUS
  <1>3. /\ phase[c] = "calling" /\ ~Silent(c)
        /\ toClient' = [toClient EXCEPT ![m] = Tail(@)]
        /\ connection' = connection /\ opened' = opened /\ toExchange' = toExchange
        /\ peer' = peer /\ reported' = reported
        /\ served' = served /\ asked' = asked /\ repeats' = repeats
        /\ unread' = unread /\ sends' = sends
    BY <1>1 DEF ReadReply, At
  <1>4. \/ /\ Skips(c, reply)
           /\ phase' = phase /\ ended' = ended /\ kept' = kept /\ known' = known
        \/ /\ Matches(reply, asked[c])
           /\ Noted(c, reply)
           /\ phase' = [phase EXCEPT ![c] = "idle"]
           /\ ended' = [ended EXCEPT ![c] = End("returned", reply)]
           /\ kept' = kept
        \/ /\ ~Matches(reply, asked[c])
           /\ Noted(c, reply)
           /\ kept' = [kept EXCEPT ![c] = Append(@, reply)]
           /\ phase' = phase /\ ended' = ended
    BY <1>2 DEF ReadReply, Ends
  <1>5. /\ CoreTypeOK /\ GoodClient(c) /\ connection[c] # 0
        /\ asked[c] \in ClientRequests /\ m \in Numbers
    BY <1>1, <1>3, Typed DEF SessionInv, GoodClient
  <1>6. reply \in Reply /\ GoodReply(reply, m)
    BY <1>1, <1>2, <1>3, <1>5, Received
  <1>7. toClient' \in [Numbers -> Seq(Reply)] /\ \A n \in Numbers : GoodConnection(n)'
    BY <1>1, <1>3, <1>5, TakenFrom
  <1>8. CoreTypeOK'
    <2>1. /\ phase' \in [FixClients -> {"idle", "connecting", "calling"}]
          /\ ended' \in [FixClients -> Ending]
      <3>1. /\ phase \in [FixClients -> {"idle", "connecting", "calling"}]
            /\ ended \in [FixClients -> Ending]
        BY <1>5 DEF CoreTypeOK
      <3>2. phase' = phase \/ phase' = [phase EXCEPT ![c] = "idle"]
        BY <1>4
      <3>3. ended' = ended \/ ended' = [ended EXCEPT ![c] = End("returned", reply)]
        BY <1>4
      <3>4. End("returned", reply) \in Ending
        BY <1>6, Endings
      <3>5. phase' \in [FixClients -> {"idle", "connecting", "calling"}]
        BY <3>1, <3>2
      <3>6. ended' \in [FixClients -> Ending]
        BY <3>1, <3>3, <3>4
      <3> QED BY <3>5, <3>6
    <2>2. kept' \in [FixClients -> Seq(Reply)]
      <3>1. kept \in [FixClients -> Seq(Reply)] /\ kept[c] \in Seq(Reply)
        BY <1>5 DEF CoreTypeOK
      <3>2. Append(kept[c], reply) \in Seq(Reply)
        BY <1>6, <3>1, Queues
      <3> QED BY <1>4, <3>1, <3>2
    <2>3. known' \in [FixClients -> SUBSET ExecIds]
      <3>1. /\ known \in [FixClients -> SUBSET ExecIds]
            /\ reply.part > 0 => ExecId(reply) \in ExecIds
        BY <1>5, <1>6 DEF CoreTypeOK, GoodReply
      <3>2. Noted(c, reply) => known' \in [FixClients -> SUBSET ExecIds]
        BY <3>1 DEF Noted
      <3> QED BY <1>4, <3>1, <3>2
    <2> QED BY <1>3, <1>5, <1>7, <2>1, <2>2, <2>3 DEF CoreTypeOK
  <1>9. OnlyOf(c, m)
    BY <1>1, <1>3, <1>4, <1>5 DEF OnlyOf, CoreTypeOK
  <1>10. toClient'[m] = Tail(toClient[m]) /\ toClient[m] # <<>> /\ reply = Head(toClient[m])
    BY <1>1, <1>2, <1>3, <1>5 DEF CoreTypeOK, Silent, Incoming
  <1>11. m \notin unread =>
            /\ kept[c] = <<>>
            /\ peer[m] = "closed" \/ toExchange[m] = <<>>
            /\ toClient'[m] = <<>>
            /\ reply.about = asked[c]
    <2> SUFFICES ASSUME m \notin unread
                 PROVE  /\ kept[c] = <<>>
                        /\ peer[m] = "closed" \/ toExchange[m] = <<>>
                        /\ toClient'[m] = <<>>
                        /\ reply.about = asked[c]
      OBVIOUS
    <2>1. kept[c] = <<>> /\ OneUnderWay(c, m)
      BY <1>1, <1>5 DEF GoodClient
    <2> QED BY <1>5, <1>10, <2>1, OnlyOne
  <1>12. m \notin unread => OneUnderWay(c, m)'
    BY <1>3, <1>11 DEF OneUnderWay
  <1>13. /\ connection'[c] = m /\ m <= opened' /\ m # 0 /\ asked'[c] = asked[c]
         /\ \A i \in DOMAIN kept[c] : kept[c][i].over = m
    BY <1>1, <1>3, <1>5 DEF GoodClient
  <1>14. asked[c] # Logon
    BY <1>5, RequestsAssumption
  <1>15. GoodClient(c)'
    <2>1. CASE phase' = phase /\ ended' = ended /\ kept' = kept
      BY <1>1, <1>3, <1>5, <1>12, <1>13, <2>1, <1>11 DEF GoodClient, Belongs
    <2>2. CASE /\ Matches(reply, asked[c])
               /\ phase' = [phase EXCEPT ![c] = "idle"]
               /\ ended' = [ended EXCEPT ![c] = End("returned", reply)]
               /\ kept' = kept
      <3>1. phase'[c] = "idle" /\ ended'[c] = End("returned", reply) /\ kept'[c] = kept[c]
        BY <1>5, <2>2 DEF CoreTypeOK
      <3>2. ended'[c].how = "returned" /\ ended'[c].got = reply /\ reply.over = m
        BY <1>6, <3>1, Endings DEF GoodReply
      <3>3. reply.about # asked[c] => (reply.kind = "report" => asked[c] \in RawRequests)
        BY <2>2 DEF Matches
      <3>4. Belongs(c)'
        BY <1>3, <1>11, <1>13, <3>2, <3>3 DEF Belongs
      <3> QED BY <1>3, <1>11, <1>12, <1>13, <3>1, <3>2, <3>4 DEF GoodClient
    <2>3. CASE /\ ~Matches(reply, asked[c])
               /\ kept' = [kept EXCEPT ![c] = Append(@, reply)]
               /\ phase' = phase /\ ended' = ended
      <3>1. m \in unread
        <4>1. reply.kind # "report" => reply.kind = "logon"
          BY <1>6, <2>3 DEF Matches, Reply
        <4> QED BY <1>6, <1>11, <1>14, <2>3, <4>1 DEF Matches, GoodReply
      <3>2. kept'[c] = Append(kept[c], reply) /\ kept[c] \in Seq(Reply) /\ reply.over = m
        BY <1>5, <1>6, <2>3 DEF CoreTypeOK, GoodReply
      <3>3. \A i \in DOMAIN kept'[c] : kept'[c][i].over = m
        BY <1>6, <1>13, <3>2
      <3> QED BY <1>1, <1>3, <1>5, <1>13, <2>3, <3>1, <3>3 DEF GoodClient, Belongs
    <2> QED BY <1>4, <2>1, <2>2, <2>3
  <1> QED BY <1>1, <1>3, <1>5, <1>7, <1>8, <1>9, <1>13, <1>15, OwnConnection

LEMMA TakeMessageKeeps ==
    ASSUME SessionInv, NEW c \in FixClients, TakeMessage(c)
    PROVE  SessionInv'
  <1>1. PICK m : m = connection[c]
    OBVIOUS
  <1>2. /\ phase[c] = "idle" /\ connection[c] # 0
        /\ asked' = [asked EXCEPT ![c] = Logon]
        /\ connection' = connection /\ opened' = opened /\ toExchange' = toExchange
        /\ peer' = peer /\ reported' = reported /\ served' = served /\ repeats' = repeats
        /\ unread' = unread /\ sends' = sends
    BY DEF TakeMessage, At, Open
  <1>3. /\ CoreTypeOK /\ GoodClient(c) /\ m \in Numbers /\ GoodConnection(m)
        /\ kept[c] \in Seq(Reply)
    BY <1>1, <1>2, Typed DEF SessionInv
  <1>4. m \in unread
    <2> SUFFICES ASSUME m \notin unread PROVE FALSE
      OBVIOUS
    <2>1. kept[c] = <<>> /\ OneUnderWay(c, m)
      BY <1>1, <1>3 DEF GoodClient
    <2>2. toClient[m] = <<>>
      BY <1>2, <2>1 DEF OneUnderWay
    <2> QED BY <1>1, <2>1, <2>2 DEF TakeMessage, Silent, Incoming
  <1>5. asked' \in [FixClients -> ClientRequests \cup {Logon}] /\ asked'[c] = Logon
    BY <1>2, <1>3 DEF CoreTypeOK
  <1>6. /\ connection'[c] = m /\ m <= opened' /\ m # 0 /\ m \in unread'
        /\ \A i \in DOMAIN kept[c] : kept[c][i].over = m
    BY <1>1, <1>2, <1>3, <1>4 DEF GoodClient
  <1>7. CASE /\ kept[c] # <<>>
             /\ kept' = [kept EXCEPT ![c] = Tail(@)]
             /\ phase' = [phase EXCEPT ![c] = "idle"]
             /\ ended' = [ended EXCEPT ![c] = End("returned", Head(kept[c]))]
             /\ toClient' = toClient /\ known' = known
    <2>1. /\ Head(kept[c]) \in Reply /\ Head(kept[c]).over = m
          /\ Tail(kept[c]) \in Seq(Reply)
          /\ \A i \in DOMAIN Tail(kept[c]) : Tail(kept[c])[i].over = m
      BY <1>3, <1>6, <1>7, Queues
    <2>2. CoreTypeOK'
      <3>1. /\ kept' \in [FixClients -> Seq(Reply)]
            /\ phase' \in [FixClients -> {"idle", "connecting", "calling"}]
            /\ ended' \in [FixClients -> Ending]
        BY <1>3, <1>7, <2>1, Endings DEF CoreTypeOK
      <3> QED BY <1>2, <1>3, <1>5, <1>7, <3>1 DEF CoreTypeOK
    <2>3. OnlyOf(c, m)
      BY <1>2, <1>3, <1>7 DEF OnlyOf, CoreTypeOK
    <2>4. GoodConnection(m)'
      BY <1>2, <1>3, <1>7 DEF GoodConnection, GoodReply
    <2>5. /\ kept'[c] = Tail(kept[c]) /\ phase'[c] = "idle"
          /\ ended'[c] = End("returned", Head(kept[c]))
      BY <1>3, <1>7 DEF CoreTypeOK
    <2>6. ended'[c].got.over = m
      BY <2>1, <2>5, Endings
    <2>7. GoodClient(c)'
      BY <1>5, <1>6, <2>1, <2>5, <2>6 DEF GoodClient, Belongs
    <2> QED BY <1>1, <1>2, <1>3, <1>6, <2>2, <2>3, <2>4, <2>7, OwnConnection
  <1>8. CASE /\ ~Silent(c)
             /\ toClient' = [toClient EXCEPT ![m] = Tail(@)]
             /\ Noted(c, Head(Incoming(c)))
             /\ \/ phase' = phase /\ ended' = ended
                \/ /\ phase' = [phase EXCEPT ![c] = "idle"]
                   /\ ended' = [ended EXCEPT ![c] = End("returned", Head(Incoming(c)))]
             /\ kept' = kept
    <2>1. PICK reply : reply = Head(Incoming(c))
      OBVIOUS
    <2>2. reply \in Reply /\ GoodReply(reply, m)
      BY <1>1, <1>2, <1>8, <2>1, Received
    <2>3. toClient' \in [Numbers -> Seq(Reply)] /\ \A n \in Numbers : GoodConnection(n)'
      BY <1>1, <1>2, <1>8, TakenFrom
    <2>4. CoreTypeOK'
      <3>1. /\ phase' \in [FixClients -> {"idle", "connecting", "calling"}]
            /\ ended' \in [FixClients -> Ending]
        BY <1>3, <1>8, <2>1, <2>2, Endings DEF CoreTypeOK
      <3>2. known' \in [FixClients -> SUBSET ExecIds]
        BY <1>3, <1>8, <2>1, <2>2 DEF CoreTypeOK, Noted, GoodReply
      <3> QED BY <1>2, <1>3, <1>5, <1>8, <2>3, <3>1, <3>2 DEF CoreTypeOK
    <2>5. OnlyOf(c, m)
      BY <1>2, <1>3, <1>8 DEF OnlyOf, CoreTypeOK
    <2>6. /\ phase'[c] = "idle"
          /\ ended'[c].how \in {"connected", "returned"} => ended'[c].got.over = m
      <3>1. CASE phase' = phase /\ ended' = ended
        BY <1>1, <1>2, <1>3, <3>1 DEF GoodClient
      <3>2. CASE /\ phase' = [phase EXCEPT ![c] = "idle"]
                 /\ ended' = [ended EXCEPT ![c] = End("returned", reply)]
        <4>1. phase'[c] = "idle" /\ ended'[c] = End("returned", reply)
          BY <1>3, <3>2 DEF CoreTypeOK
        <4> QED BY <2>2, <4>1, Endings DEF GoodReply
      <3> QED BY <1>8, <2>1, <3>1, <3>2
    <2>7. GoodClient(c)'
      BY <1>5, <1>6, <1>8, <2>6 DEF GoodClient, Belongs
    <2> QED BY <1>1, <1>2, <1>3, <1>6, <2>3, <2>4, <2>5, <2>7, OwnConnection
  <1>9. \/ /\ kept[c] # <<>>
           /\ kept' = [kept EXCEPT ![c] = Tail(@)]
           /\ phase' = [phase EXCEPT ![c] = "idle"]
           /\ ended' = [ended EXCEPT ![c] = End("returned", Head(kept[c]))]
           /\ toClient' = toClient /\ known' = known
        \/ /\ ~Silent(c)
           /\ toClient' = [toClient EXCEPT ![m] = Tail(@)]
           /\ Noted(c, Head(Incoming(c)))
           /\ \/ phase' = phase /\ ended' = ended
              \/ /\ phase' = [phase EXCEPT ![c] = "idle"]
                 /\ ended' = [ended EXCEPT ![c] = End("returned", Head(Incoming(c)))]
           /\ kept' = kept
    BY <1>1 DEF TakeMessage, Ends
  <1> QED BY <1>7, <1>8, <1>9

-------------------------------------------------------------------------------
(* The session threads                                                     *)

(* A step at the far end of connection n concerns the client that has it   *)
(* open, if there is one.                                                  *)
LEMMA FarEnd ==
    ASSUME SessionInv, NEW n \in Numbers, peer[n] \in {"logon", "turn"},
           UNCHANGED <<connection, opened, phase, asked, repeats, kept, known, ended,
                       unread, sends>>,
           toExchange' \in [Numbers -> Seq(ClientRequests \cup {Logon})],
           toClient' \in [Numbers -> Seq(Reply)], reported' \in [Numbers -> Nat],
           peer' \in [Numbers -> {"none", "logon", "turn", "closed"}],
           served' \in SUBSET ClientRequests,
           \A k \in Numbers \ {n} :
               toExchange'[k] = toExchange[k] /\ toClient'[k] = toClient[k] /\ peer'[k] = peer[k],
           n <= opened => GoodConnection(n)',
           \A c \in FixClients : OneUnderWay(c, n) => OneUnderWay(c, n)'
    PROVE  SessionInv'
  <1>1. CoreTypeOK /\ opened \in Nat
    BY Typed DEF SessionInv
  <1>2. CoreTypeOK'
    BY <1>1 DEF CoreTypeOK
  <1>3. NoneShared'
    BY DEF SessionInv, NoneShared
  <1>4. n <= opened
    BY <1>1 DEF SessionInv, GoodConnection, Numbers
  <1>5. ASSUME NEW k \in Numbers PROVE GoodConnection(k)'
    <2>1. CASE k = n
      BY <1>4, <2>1
    <2>2. CASE k # n
      <3>1. GoodConnection(k)
        BY DEF SessionInv
      <3> QED BY <1>1, <2>2, <3>1, OtherConnection
    <2> QED BY <2>1, <2>2
  <1>6. ASSUME NEW c \in FixClients PROVE GoodClient(c)'
    <2>1. GoodClient(c)
      BY DEF SessionInv
    <2>2. CASE connection[c] # n
      BY <1>1, <2>1, <2>2, OtherClient
    <2>3. CASE connection[c] = n
      <3>1. connection'[c] = n
        BY <2>3
      <3>2. n \notin unread => kept[c] = <<>> /\ OneUnderWay(c, n)'
        BY <2>1, <2>3 DEF GoodClient
      <3> QED BY <2>1, <2>3, <3>1, <3>2 DEF GoodClient, Belongs
    <2> QED BY <2>2, <2>3
  <1> QED BY <1>2, <1>3, <1>5, <1>6 DEF SessionInv

(* The exchange answers the first message under way on connection n, or    *)
(* drops the answer; the message is done with or has more reports.         *)
LEMMA AnswerKeeps ==
    ASSUME SessionInv, NEW n \in Numbers, toExchange[n] # <<>>,
           NEW kind \in {"logon", "report", "reject"}, NEW part \in Nat, NEW dropped \in BOOLEAN,
           \/ toExchange' = [toExchange EXCEPT ![n] = Tail(@)]
           \/ toExchange' = toExchange /\ ReportCount(Head(toExchange[n])) > 1,
           IF dropped THEN toClient' = toClient ELSE Answers(n, kind, Head(toExchange[n]), part),
           IF Head(toExchange[n]) = Logon
           THEN /\ peer[n] = "logon" /\ peer' = [peer EXCEPT ![n] = "turn"] /\ served' = served
                /\ toExchange' = [toExchange EXCEPT ![n] = Tail(@)]
           ELSE peer[n] = "turn" /\ peer' = peer /\ served' = served \cup {Head(toExchange[n])},
           kind = "report" => Head(toExchange[n]) \in OrderRequests,
           kind = "logon" => Head(toExchange[n]) = Logon,
           part > 0 => <<Head(toExchange[n]), part>> \in ExecIds,
           reported' \in [Numbers -> Nat],
           UNCHANGED <<connection, opened, phase, asked, repeats, kept, known, ended,
                       unread, sends>>
    PROVE  SessionInv'
  <1>1. PICK message : message = Head(toExchange[n])
    OBVIOUS
  <1>2. PICK reply : reply = [kind |-> kind, about |-> message, part |-> part, over |-> n]
    OBVIOUS
  <1>3. CoreTypeOK /\ GoodConnection(n) /\ toExchange[n] \in Seq(Messages)
        /\ toClient[n] \in Seq(Reply)
    BY Typed DEF SessionInv
  <1>4. /\ message \in Messages /\ message = toExchange[n][1] /\ 1 \in DOMAIN toExchange[n]
        /\ Tail(toExchange[n]) \in Seq(Messages)
        /\ \A i \in DOMAIN Tail(toExchange[n]) :
              /\ Tail(toExchange[n])[i] = toExchange[n][i + 1]
              /\ i + 1 \in DOMAIN toExchange[n] /\ i \in Nat /\ i >= 1
    BY <1>1, <1>3, Queues
  <1>5. reply \in Reply /\ GoodReply(reply, n) /\ reply.about = message
    BY <1>1, <1>2, <1>4 DEF Reply, GoodReply, Messages, ExecId
  <1>6. toClient' = IF dropped THEN toClient ELSE [toClient EXCEPT ![n] = Append(@, reply)]
    BY <1>1, <1>2 DEF Answers
  <1>7. /\ Append(toClient[n], reply) \in Seq(Reply)
        /\ \A i \in DOMAIN Append(toClient[n], reply) :
              \/ Append(toClient[n], reply)[i] = reply
              \/ i \in DOMAIN toClient[n] /\ Append(toClient[n], reply)[i] = toClient[n][i]
    <2> PICK queue : queue = toClient[n]
      OBVIOUS
    <2>1. queue \in Seq(Reply) /\ reply \in Reply
      BY <1>3, <1>5
    <2>2. /\ Append(queue, reply) \in Seq(Reply)
          /\ DOMAIN queue = 1 .. Len(queue) /\ Len(queue) \in Nat
          /\ DOMAIN Append(queue, reply) = 1 .. Len(queue) + 1
          /\ \A i \in DOMAIN queue : Append(queue, reply)[i] = queue[i]
          /\ Append(queue, reply)[Len(queue) + 1] = reply
      BY <2>1, Queues
    <2>3. \A i \in 1 .. Len(queue) + 1 : i = Len(queue) + 1 \/ i \in 1 .. Len(queue)
      BY <2>2
    <2>4. \A i \in DOMAIN Append(queue, reply) :
              \/ Append(queue, reply)[i] = reply
              \/ i \in DOMAIN queue /\ Append(queue, reply)[i] = queue[i]
      BY <2>2, <2>3, Zenon
    <2> QED BY <2>2, <2>4
  <1>8. /\ toExchange' \in [Numbers -> Seq(ClientRequests \cup {Logon})]
        /\ \/ toExchange'[n] = Tail(toExchange[n])
           \/ toExchange'[n] = toExchange[n] /\ ReportCount(message) > 1 /\ message # Logon
    <2>1. CASE toExchange' = [toExchange EXCEPT ![n] = Tail(@)]
      BY <1>3, <1>4, <2>1 DEF CoreTypeOK, Messages
    <2>2. CASE toExchange' = toExchange /\ ReportCount(Head(toExchange[n])) > 1
      BY <1>1, <1>3, <1>4, <2>2, Counts, RequestsAssumption
        DEF CoreTypeOK, Messages, ReportCount, ClientRequests
    <2> QED BY <2>1, <2>2
  <1>9. toClient' \in [Numbers -> Seq(Reply)]
        /\ toClient'[n] = IF dropped THEN toClient[n] ELSE Append(toClient[n], reply)
    BY <1>3, <1>6, <1>7 DEF CoreTypeOK
  <1>10. /\ peer' \in [Numbers -> {"none", "logon", "turn", "closed"}] /\ peer'[n] = "turn"
         /\ peer[n] \in {"logon", "turn"}
    BY <1>3 DEF CoreTypeOK
  <1>11. served' \in SUBSET ClientRequests
    BY <1>1, <1>3, <1>4 DEF CoreTypeOK, Messages
  <1>12. \A k \in Numbers \ {n} :
             toExchange'[k] = toExchange[k] /\ toClient'[k] = toClient[k] /\ peer'[k] = peer[k]
    BY <1>3, <1>6 DEF CoreTypeOK
  <1>13. n <= opened => GoodConnection(n)'
    <2> SUFFICES ASSUME n <= opened PROVE GoodConnection(n)'
      OBVIOUS
    <2>1. \A i \in DOMAIN toExchange'[n] : toExchange'[n][i] # Logon
      <3>1. CASE toExchange'[n] = Tail(toExchange[n])
        BY <1>3, <1>4, <3>1 DEF GoodConnection
      <3>2. CASE toExchange'[n] = toExchange[n] /\ message # Logon
        BY <1>3, <1>4, <3>2 DEF GoodConnection
      <3> QED BY <1>8, <3>1, <3>2
    <2>2. \A i \in DOMAIN toClient'[n] : GoodReply(toClient'[n][i], n)
      BY <1>3, <1>5, <1>7, <1>9 DEF GoodConnection
    <2>3. ~(n > opened')
      BY <1>3, Typed DEF Numbers
    <2> QED BY <1>10, <2>1, <2>2, <2>3 DEF GoodConnection, GoodReply
  <1>14. ASSUME NEW c \in FixClients, OneUnderWay(c, n) PROVE OneUnderWay(c, n)'
    <2>1. /\ toClient[n] = <<>> /\ phase[c] # "idle" /\ toExchange[n] = <<asked[c]>>
          /\ ReportCount(asked[c]) <= 1
      BY <1>10, <1>14 DEF OneUnderWay
    <2>2. Head(<<asked[c]>>) = asked[c] /\ Tail(<<asked[c]>>) = <<>> /\ Append(<<>>, reply) = <<reply>>
      OBVIOUS
    <2>3. toExchange'[n] = <<>> /\ message = asked[c]
      BY <1>1, <1>8, <2>1, <2>2, Counts
    <2>4. toClient'[n] = <<>> \/ toClient'[n] = <<reply>>
      BY <1>9, <2>1, <2>2
    <2> QED BY <1>5, <2>1, <2>3, <2>4 DEF OneUnderWay
  <1> QED BY <1>8, <1>9, <1>10, <1>11, <1>12, <1>13, <1>14, FarEnd

LEMMA PeerKeeps ==
    ASSUME SessionInv, PeerStep
    PROVE  SessionInv'
  <1> PICK n \in Numbers : TakeLogon(n) \/ Serve(n) \/ PeerCloses(n)
    BY DEF PeerStep
  <1>1. /\ GoodConnection(n) /\ toExchange[n] \in Seq(Messages)
        /\ toExchange[n] # <<>> =>
              Head(toExchange[n]) \in Messages /\ Head(toExchange[n]) = toExchange[n][1]
              /\ 1 \in DOMAIN toExchange[n]
    BY Typed, Queues DEF SessionInv
  <1>2. CASE TakeLogon(n)
    <2>1. Head(toExchange[n]) = Logon
      BY <1>1, <1>2 DEF TakeLogon, GoodConnection
    <2>2. reported' \in [Numbers -> Nat]
      BY <1>2 DEF TakeLogon, SessionInv, CoreTypeOK
    <2> DEFINE dropped == FALSE
               kind == "logon"
               part == 0
    <2>3. dropped \in BOOLEAN /\ kind \in {"logon", "report", "reject"} /\ part \in Nat
          /\ ~(part > 0)
      OBVIOUS
    <2>4. /\ toExchange[n] # <<>> /\ toExchange' = [toExchange EXCEPT ![n] = Tail(@)]
          /\ Answers(n, kind, Head(toExchange[n]), part)
          /\ peer[n] = "logon" /\ peer' = [peer EXCEPT ![n] = "turn"] /\ served' = served
          /\ UNCHANGED <<connection, opened, phase, asked, repeats, kept, known, ended,
                         unread, sends>>
      BY <1>2, <2>1 DEF TakeLogon
    <2> QED BY <2>1, <2>2, <2>3, <2>4, AnswerKeeps
  <1>3. CASE Serve(n)
    <2>1. PICK r, part : r = Head(toExchange[n])
                         /\ part = IF ReportCount(r) = 0 THEN 0 ELSE reported[n] + 1
      OBVIOUS
    <2>2. r # Logon /\ reported \in [Numbers -> Nat] /\ ReportCount(r) \in Nat
      BY <1>1, <1>3, <2>1, Counts DEF Serve, GoodConnection, SessionInv, CoreTypeOK
    <2>3. \/ r \in OrderRequests /\ Answers(n, "report", r, part)
          \/ toClient' = toClient
          \/ Answers(n, "reject", r, part)
      BY <1>3, <2>1 DEF Serve
    <2>4. /\ toExchange[n] # <<>> /\ peer[n] = "turn" /\ peer' = peer
          /\ served' = served \cup {r}
          /\ \/ /\ part < ReportCount(r) /\ reported' = [reported EXCEPT ![n] = part]
                /\ toExchange' = toExchange
             \/ /\ part = ReportCount(r) /\ reported' = [reported EXCEPT ![n] = 0]
                /\ toExchange' = [toExchange EXCEPT ![n] = Tail(@)]
          /\ UNCHANGED <<connection, opened, phase, asked, repeats, kept, known, ended,
                         unread, sends>>
      BY <1>3, <2>1 DEF Serve
    <2>5. part \in Nat /\ (part > 0 => part \in 1 .. ReportCount(r))
      BY <2>1, <2>2, <2>4
    <2>6. /\ part > 0 => <<r, part>> \in ExecIds
          /\ reported' \in [Numbers -> Nat]
          /\ \/ toExchange' = [toExchange EXCEPT ![n] = Tail(@)]
             \/ toExchange' = toExchange /\ ReportCount(r) > 1
      <3>1. part > 0 => <<r, part>> \in ExecIds
        BY <2>5, Counts
      <3>2. reported' \in [Numbers -> Nat]
        BY <2>2, <2>4, <2>5
      <3>3. part < ReportCount(r) => ReportCount(r) > 1
        BY <2>1, <2>2, <2>5
      <3> QED BY <2>4, <3>1, <3>2, <3>3
    <2>7. CASE r \in OrderRequests /\ Answers(n, "report", r, part)
      <3> DEFINE dropped == FALSE
                 kind == "report"
      <3> QED BY <2>1, <2>2, <2>4, <2>5, <2>6, <2>7, AnswerKeeps
    <2>8. CASE toClient' = toClient
      <3> DEFINE dropped == TRUE
                 kind == "reject"
      <3> QED BY <2>1, <2>2, <2>4, <2>5, <2>6, <2>8, AnswerKeeps
    <2>9. CASE Answers(n, "reject", r, part)
      <3> DEFINE dropped == FALSE
                 kind == "reject"
      <3> QED BY <2>1, <2>2, <2>4, <2>5, <2>6, <2>9, AnswerKeeps
    <2> QED BY <2>3, <2>7, <2>8, <2>9
  <1>4. CASE PeerCloses(n)
    <2>1. CoreTypeOK
      BY DEF SessionInv
    <2>2. /\ peer[n] \in {"logon", "turn"} /\ peer' = [peer EXCEPT ![n] = "closed"]
          /\ toExchange' = toExchange /\ toClient' = toClient
          /\ reported' = reported /\ served' = served
          /\ UNCHANGED <<connection, opened, phase, asked, repeats, kept, known, ended,
                         unread, sends>>
      BY <1>4 DEF PeerCloses
    <2>3. peer' \in [Numbers -> {"none", "logon", "turn", "closed"}] /\ peer'[n] = "closed"
          /\ \A k \in Numbers \ {n} : peer'[k] = peer[k]
      BY <2>1, <2>2 DEF CoreTypeOK
    <2>4. n <= opened => GoodConnection(n)'
      BY <1>1, <2>1, <2>2, <2>3, Typed DEF GoodConnection, GoodReply, Numbers
    <2>5. \A c \in FixClients : OneUnderWay(c, n) => OneUnderWay(c, n)'
      BY <2>2, <2>3 DEF OneUnderWay
    <2>6. /\ toExchange' \in [Numbers -> Seq(ClientRequests \cup {Logon})]
          /\ toClient' \in [Numbers -> Seq(Reply)] /\ served' \in SUBSET ClientRequests
          /\ reported' \in [Numbers -> Nat]
      <3>1. /\ toExchange \in [Numbers -> Seq(ClientRequests \cup {Logon})]
            /\ toClient \in [Numbers -> Seq(Reply)] /\ served \in SUBSET ClientRequests
            /\ reported \in [Numbers -> Nat]
        BY <2>1 DEF CoreTypeOK
      <3>2. toExchange' = toExchange /\ toClient' = toClient /\ served' = served
            /\ reported' = reported
        BY <2>2
      <3> QED BY <3>1, <3>2, Zenon
    <2> QED BY <2>2, <2>3, <2>4, <2>5, <2>6, FarEnd
  <1> QED BY <1>2, <1>3, <1>4

-------------------------------------------------------------------------------
LEMMA InitGood == SessionInit => SessionInv
  <1> SUFFICES ASSUME SessionInit PROVE SessionInv
    OBVIOUS
  <1>1. \A S : <<>> \in Seq(S)
    OBVIOUS
  <1>2. CoreTypeOK
    BY <1>1, BoundsAssumption, Endings DEF SessionInit, CoreTypeOK
  <1>3. NoneShared
    BY DEF SessionInit, NoneShared
  <1>4. \A n \in Numbers : GoodConnection(n)
    BY DEF SessionInit, GoodConnection
  <1>5. ASSUME NEW c \in FixClients PROVE GoodClient(c)
    <2>1. /\ connection[c] = 0 /\ opened = 0 /\ phase[c] = "idle" /\ kept[c] = <<>>
          /\ ended[c] = End("none", NoReply) /\ 0 \notin Numbers
      BY DEF SessionInit, Numbers
    <2> QED BY <2>1, Endings DEF GoodClient, Belongs
  <1> QED BY <1>2, <1>3, <1>4, <1>5 DEF SessionInv

LEMMA ClientKeeps ==
    ASSUME SessionInv, NEW c \in FixClients, UserStep(c) \/ Waits(c)
    PROVE  SessionInv'
  <1>1. GoodClient(c) /\ CoreTypeOK
    BY DEF SessionInv
  <1>2. CASE LogonTimesOut(c)
    BY <1>2, WaitEndsKeeps DEF LogonTimesOut, At, Ends, peerVars
  <1>3. CASE FindsClosed(c)
    BY <1>3, WaitEndsKeeps DEF FindsClosed, Ends, peerVars
  <1>4. CASE CallTimesOut(c)
    <2>1. phase[c] = "calling" /\ connection[c] # 0 /\ asked[c] \in ClientRequests
          /\ repeats[c] \in Nat /\ RetryLimit[c] \in Nat
      BY <1>1, <1>4, BoundsAssumption DEF CallTimesOut, At, GoodClient, CoreTypeOK
    <2>2. /\ unread' = unread \cup {connection[c]}
          /\ connection' = connection /\ opened' = opened /\ toClient' = toClient
          /\ peer' = peer /\ reported' = reported
          /\ served' = served /\ asked' = asked /\ known' = known
          /\ sends' = sends
      BY <1>4 DEF CallTimesOut
    <2>3. CASE repeats[c] < RetryLimit[c] /\ SendAndLook(c, asked[c], repeats[c] + 1)
      <3>1. repeats[c] + 1 \in Nat /\ repeats[c] + 1 <= RetryLimit[c]
        BY <2>1, <2>3, BoundsAssumption
      <3>2. asked' = [asked EXCEPT ![c] = asked[c]] /\ sends' \in [FixClients -> 0 .. MaxSends]
        BY <1>1, <2>2 DEF CoreTypeOK
      <3> QED BY <2>1, <2>2, <2>3, <3>1, <3>2, SendKeeps
    <2>4. CASE /\ Ends(c, "raised", NoReply)
               /\ toExchange' = toExchange /\ repeats' = repeats /\ kept' = kept
      BY <2>1, <2>2, <2>4, WaitEndsKeeps DEF Ends
    <2> QED BY <1>4, <2>3, <2>4 DEF CallTimesOut
  <1>5. ASSUME NEW r \in Asks[c], SendRequest(c, r) PROVE SessionInv'
    <2>1. r \in ClientRequests /\ 0 \in Nat /\ 0 <= RetryLimit[c]
      BY RequestsAssumption, BoundsAssumption
    <2>2. sends' \in [FixClients -> 0 .. MaxSends]
      <3>1. sends \in [FixClients -> 0 .. MaxSends] /\ sends[c] < MaxSends
            /\ sends' = [sends EXCEPT ![c] = @ + 1]
        BY <1>1, <1>5 DEF CoreTypeOK, SendRequest
      <3> QED BY <3>1, BoundsAssumption
    <2>3. /\ phase[c] = "idle" /\ connection[c] # 0 /\ SendAndLook(c, r, 0)
          /\ asked' = [asked EXCEPT ![c] = r]
          /\ unread' = IF ReportCount(r) > 1 THEN unread \cup {connection[c]} ELSE unread
          /\ connection' = connection /\ opened' = opened /\ toClient' = toClient
          /\ peer' = peer /\ reported' = reported /\ served' = served /\ known' = known
      BY <1>5 DEF SendRequest, At, Open
    <2> QED BY <2>1, <2>2, <2>3, SendKeeps
  <1> QED
    BY <1>2, <1>3, <1>4, <1>5, ConnectKeeps, CloseKeeps, LogonAnsweredKeeps, ReadReplyKeeps,
       TakeMessageKeeps, SendNoWaitKeeps DEF UserStep, Waits

LEMMA SessionInvStays ==
    ASSUME SessionInv, UNCHANGED sessionVars
    PROVE  SessionInv'
  BY DEF sessionVars, peerVars, SessionInv, CoreTypeOK, NoneShared,
         GoodConnection, GoodReply, GoodClient, Belongs, OneUnderWay

LEMMA SessionInvHolds == SessionSpec => []SessionInv
  <1>1. SessionInv /\ [SessionNext]_sessionVars => SessionInv'
    <2> SUFFICES ASSUME SessionInv, [SessionNext]_sessionVars PROVE SessionInv'
      OBVIOUS
    <2>1. CASE SessionNext
      BY <2>1, PeerKeeps, ClientKeeps, UsersAssumption DEF SessionNext
    <2>2. CASE UNCHANGED sessionVars
      BY <2>2, SessionInvStays
    <2> QED BY <2>1, <2>2
  <1> QED BY <1>1, InitGood, PTL DEF SessionSpec

(* close() empties _pending_messages (fix_client.py:125-134), so that what *)
(* a client is given never comes from a connection it had before; and the  *)
(* exchange sees one Logon per connection, before any request, also of a   *)
(* client that carries on after connect() timed out (109-123).             *)
THEOREM ConnectionsAreSeparate == SessionSpec => []ConnectionsKeptApart
  <1>1. SessionInv => ConnectionsKeptApart
    BY InvariantParts DEF ConnectionsKeptApart
  <1> QED BY <1>1, SessionInvHolds, PTL

(* A call returns the answer to its request (294-348) unless something may *)
(* be left unread on the connection: a wait on it has timed out, an order  *)
(* had more reports than the one its call reads (mock_exchange.py:506-527) *)
(* or was sent without waiting (222-245).  Even then the report of another *)
(* order is the answer of none that has a ClOrdID.                         *)
THEOREM CallsGetTheirAnswers == SessionSpec => []AnswersBelong
  BY SessionInvHolds, InvariantParts, PTL

-------------------------------------------------------------------------------
(* No report is given twice                                                *)

Once(k, n, g) ==
    /\ \A id \in ExecIds : g[id] <= 1 /\ (g[id] > 0 => id \in n)
    /\ \A i \in DOMAIN k : k[i].part > 0 => ExecId(k[i]) \in n /\ g[ExecId(k[i])] = 0
    /\ \A i, j \in DOMAIN k :
          k[i].part > 0 /\ k[j].part > 0 /\ ExecId(k[i]) = ExecId(k[j]) => i = j

(* A report is among the processed from the moment it is read, and then    *)
(* it is either kept, in one place, or given.                              *)
OnceInv ==
    /\ SessionInv
    /\ given \in [FixClients -> [ExecIds -> Nat]]
    /\ \A c \in FixClients : Once(kept[c], known[c], given[c])

CountGiven(g, m) == IF m.part > 0 THEN [g EXCEPT ![ExecId(m)] = @ + 1] ELSE g

NoteReport(n, m) == IF m.part > 0 THEN n \cup {ExecId(m)} ELSE n

(* What a step does for its client.                                        *)
Moves(c, k, n, g) ==
    /\ kept'[c] = k /\ known'[c] = n /\ given'[c] = g
    /\ \A d \in FixClients \ {c} :
          kept'[d] = kept[d] /\ known'[d] = known[d] /\ given'[d] = given[d]
    /\ given' = [d \in FixClients |-> given'[d]]

LEMMA MovesKeeps ==
    ASSUME OnceInv, SessionInv', NEW c \in FixClients, NEW k, NEW n, NEW g,
           Moves(c, k, n, g), Once(k, n, g), g \in [ExecIds -> Nat]
    PROVE  OnceInv'
  <1>1. ASSUME NEW d \in FixClients
        PROVE  given'[d] \in [ExecIds -> Nat] /\ Once(kept[d], known[d], given[d])'
    <2>1. CASE d = c
      <3>1. Once(kept'[c], known'[c], given'[c]) /\ given'[c] \in [ExecIds -> Nat]
        BY DEF Moves
      <3> QED BY <2>1, <3>1 DEF Once, ExecId
    <2>2. CASE d # c
      <3>1. kept'[d] = kept[d] /\ known'[d] = known[d] /\ given'[d] = given[d]
        BY <2>2 DEF Moves
      <3>2. Once(kept[d], known[d], given[d]) /\ given[d] \in [ExecIds -> Nat]
        BY DEF OnceInv
      <3>3. Once(kept'[d], known'[d], given'[d]) /\ given'[d] \in [ExecIds -> Nat]
        BY <3>1, <3>2
      <3> QED BY <3>3 DEF Once, ExecId
    <2> QED BY <2>1, <2>2
  <1>2. given' \in [FixClients -> [ExecIds -> Nat]]
    <2>1. given' = [d \in FixClients |-> given'[d]]
      BY DEF Moves
    <2>2. \A d \in FixClients : given'[d] \in [ExecIds -> Nat]
      BY <1>1
    <2> QED BY <2>1, <2>2
  <1> QED BY <1>1, <1>2 DEF OnceInv

(* A message kept is given.                                                *)
LEMMA GivesKept ==
    ASSUME NEW k \in Seq(Reply), NEW n \in SUBSET ExecIds, NEW g \in [ExecIds -> Nat],
           Once(k, n, g), NEW place \in 1 .. Len(k), NEW rest,
           DOMAIN rest = 1 .. Len(k) - 1,
           \A i \in 1 .. Len(k) - 1 : rest[i] = k[IF i < place THEN i ELSE i + 1]
    PROVE  Once(rest, n, CountGiven(g, k[place])) /\ CountGiven(g, k[place]) \in [ExecIds -> Nat]
  <1>1. PICK m, id, h : m = k[place] /\ id = ExecId(m) /\ h = CountGiven(g, m)
    OBVIOUS
  <1>2. Len(k) \in Nat /\ DOMAIN k = 1 .. Len(k)
    OBVIOUS
  <1>3. m.part > 0 => id \in n /\ id \in ExecIds /\ g[id] = 0
    BY <1>1, <1>2 DEF Once
  <1>4. h \in [ExecIds -> Nat]
    BY <1>1, <1>3 DEF CountGiven
  <1>5. \A x \in ExecIds : h[x] = IF m.part > 0 /\ x = id THEN 1 ELSE g[x]
    BY <1>1, <1>3 DEF CountGiven
  <1>6. \A x \in ExecIds : h[x] <= 1 /\ (h[x] > 0 => x \in n)
    BY <1>3, <1>5 DEF Once
  <1>7. PICK f : f = [i \in 1 .. Len(k) - 1 |-> IF i < place THEN i ELSE i + 1]
    OBVIOUS
  <1>8. \A i \in DOMAIN rest :
            /\ f[i] \in DOMAIN k /\ f[i] # place /\ rest[i] = k[f[i]]
            /\ \A j \in DOMAIN rest : f[i] = f[j] => i = j
    BY <1>2, <1>7
  <1>9. ASSUME NEW i \in DOMAIN rest, rest[i].part > 0
        PROVE  ExecId(rest[i]) \in n /\ h[ExecId(rest[i])] = 0
    <2>1. ExecId(rest[i]) \in n /\ g[ExecId(rest[i])] = 0
      BY <1>8, <1>9 DEF Once
    <2>2. m.part > 0 => ExecId(rest[i]) # id
      BY <1>1, <1>2, <1>8, <1>9 DEF Once
    <2> QED BY <1>5, <2>1, <2>2
  <1>10. ASSUME NEW i \in DOMAIN rest, NEW j \in DOMAIN rest, rest[i].part > 0, rest[j].part > 0,
                ExecId(rest[i]) = ExecId(rest[j])
         PROVE  i = j
    <2>1. f[i] = f[j]
      BY <1>8, <1>10 DEF Once
    <2> QED BY <1>8, <2>1
  <1>11. Once(rest, n, h)
    BY <1>6, <1>9, <1>10 DEF Once
  <1> QED BY <1>1, <1>4, <1>11

(* A message read for the first time is given.                             *)
LEMMA GivesNew ==
    ASSUME NEW k \in Seq(Reply), NEW n \in SUBSET ExecIds, NEW g \in [ExecIds -> Nat],
           Once(k, n, g), NEW m, m.part > 0 => ExecId(m) \in ExecIds \ n
    PROVE  Once(k, NoteReport(n, m), CountGiven(g, m)) /\ CountGiven(g, m) \in [ExecIds -> Nat]
  <1>1. PICK id, h, p : id = ExecId(m) /\ h = CountGiven(g, m) /\ p = NoteReport(n, m)
    OBVIOUS
  <1>2. CASE ~(m.part > 0)
    BY <1>2 DEF CountGiven, NoteReport
  <1>3. CASE m.part > 0
    <2>1. id \in ExecIds /\ id \notin n /\ p = n \cup {id} /\ h = [g EXCEPT ![id] = @ + 1]
      BY <1>1, <1>3 DEF CountGiven, NoteReport
    <2>2. g[id] = 0
      BY <2>1 DEF Once
    <2>3. h \in [ExecIds -> Nat] /\ \A x \in ExecIds : h[x] = IF x = id THEN 1 ELSE g[x]
      BY <2>1, <2>2
    <2>4. \A x \in ExecIds : h[x] <= 1 /\ (h[x] > 0 => x \in p)
      BY <2>1, <2>3 DEF Once
    <2>5. \A i \in DOMAIN k : k[i].part > 0 => ExecId(k[i]) \in p /\ h[ExecId(k[i])] = 0
      <3> SUFFICES ASSUME NEW i \in DOMAIN k, k[i].part > 0
                   PROVE  ExecId(k[i]) \in p /\ h[ExecId(k[i])] = 0
        OBVIOUS
      <3>1. ExecId(k[i]) \in n /\ g[ExecId(k[i])] = 0
        BY DEF Once
      <3> QED BY <2>1, <2>3, <3>1
    <2>6. Once(k, p, h)
      BY <2>4, <2>5 DEF Once
    <2> QED BY <1>1, <2>3, <2>6
  <1> QED BY <1>2, <1>3

(* A message read for the first time is kept.                              *)
LEMMA KeepsNew ==
    ASSUME NEW k \in Seq(Reply), NEW n \in SUBSET ExecIds, NEW g \in [ExecIds -> Nat],
           Once(k, n, g), NEW m \in Reply, m.part > 0 => ExecId(m) \in ExecIds \ n
    PROVE  Once(Append(k, m), NoteReport(n, m), g)
  <1>1. PICK l, p, id : l = Append(k, m) /\ p = NoteReport(n, m) /\ id = ExecId(m)
    OBVIOUS
  <1>2. /\ Len(k) \in Nat /\ DOMAIN k = 1 .. Len(k) /\ DOMAIN l = 1 .. Len(k) + 1
        /\ l[Len(k) + 1] = m /\ \A i \in 1 .. Len(k) : l[i] = k[i]
    BY <1>1
  <1>3. n \subseteq p /\ (m.part > 0 => id \in p /\ id \notin n /\ g[id] = 0)
    BY <1>1 DEF NoteReport, Once
  <1>4. \A x \in ExecIds : g[x] <= 1 /\ (g[x] > 0 => x \in p)
    BY <1>3 DEF Once
  <1>5. \A i \in 1 .. Len(k) : k[i].part > 0 => ExecId(k[i]) \in n /\ g[ExecId(k[i])] = 0
    BY <1>2 DEF Once
  <1>6. \A i \in DOMAIN l :
            (i \in 1 .. Len(k) /\ l[i] = k[i]) \/ (i = Len(k) + 1 /\ l[i] = m)
    <2>1. \A i \in DOMAIN l : i \in 1 .. Len(k) \/ i = Len(k) + 1
      BY <1>2
    <2> QED BY <1>2, <2>1
  <1>7. \A i \in DOMAIN l : l[i].part > 0 => ExecId(l[i]) \in p /\ g[ExecId(l[i])] = 0
    BY <1>1, <1>3, <1>5, <1>6
  <1>8. ASSUME NEW i \in DOMAIN l, NEW j \in DOMAIN l, l[i].part > 0, l[j].part > 0,
               ExecId(l[i]) = ExecId(l[j])
        PROVE  i = j
    <2>1. CASE i \in 1 .. Len(k) /\ j \in 1 .. Len(k)
      BY <1>2, <1>8, <2>1 DEF Once
    <2>2. CASE i = Len(k) + 1 /\ j = Len(k) + 1
      BY <2>2
    <2>3. CASE i \in 1 .. Len(k) /\ j = Len(k) + 1
      BY <1>1, <1>2, <1>3, <1>5, <1>8, <2>3
    <2>4. CASE i = Len(k) + 1 /\ j \in 1 .. Len(k)
      BY <1>1, <1>2, <1>3, <1>5, <1>8, <2>4
    <2> QED BY <1>6, <2>1, <2>2, <2>3, <2>4
  <1>9. Once(l, p, g)
    BY <1>4, <1>7, <1>8 DEF Once
  <1> QED BY <1>1, <1>9

LEMMA PeerOnce ==
    ASSUME OnceInv, SessionInv', kept' = kept, known' = known, given' = given
    PROVE  OnceInv'
  BY DEF OnceInv, Once, ExecId

(* A step that gives its client nothing.                                   *)
LEMMA NothingGiven ==
    ASSUME OnceInv, SessionInv', NEW c \in FixClients, known' = known, given' = given,
           kept' = kept \/ kept' = [kept EXCEPT ![c] = <<>>]
    PROVE  OnceInv'
  <1>1. CASE kept' = kept
    BY <1>1, PeerOnce
  <1>2. CASE kept' = [kept EXCEPT ![c] = <<>>]
    <2>1. /\ kept \in [FixClients -> Seq(Reply)] /\ given \in [FixClients -> [ExecIds -> Nat]]
          /\ Once(kept[c], known[c], given[c])
      BY DEF OnceInv, SessionInv, CoreTypeOK
    <2>2. Moves(c, <<>>, known[c], given[c])
      BY <1>2, <2>1 DEF Moves
    <2>3. Once(<<>>, known[c], given[c])
      BY <2>1 DEF Once
    <2> QED BY <2>1, <2>2, <2>3, MovesKeeps
  <1> QED BY <1>1, <1>2

(* An operation that ends gives what it is said to give.                   *)
LEMMA EndsCounts ==
    ASSUME NEW c \in FixClients, NEW how, NEW got, Ends(c, how, got),
           given \in [FixClients -> [ExecIds -> Nat]], got.part > 0 => ExecId(got) \in ExecIds
    PROVE  /\ given'[c] = CountGiven(given[c], got)
           /\ \A d \in FixClients \ {c} : given'[d] = given[d]
           /\ given' = [d \in FixClients |-> given'[d]]
  BY DEF Ends, CountGiven

LEMMA KeptIsGiven ==
    ASSUME OnceInv, SessionInv', NEW c \in FixClients, NEW place \in DOMAIN kept[c], NEW rest,
           DOMAIN rest = 1 .. Len(kept[c]) - 1,
           \A i \in 1 .. Len(kept[c]) - 1 : rest[i] = kept[c][IF i < place THEN i ELSE i + 1],
           kept' = [kept EXCEPT ![c] = rest], known' = known,
           Ends(c, "returned", kept[c][place])
    PROVE  OnceInv'
  <1>1. /\ kept \in [FixClients -> Seq(Reply)] /\ known \in [FixClients -> SUBSET ExecIds]
        /\ given \in [FixClients -> [ExecIds -> Nat]] /\ Once(kept[c], known[c], given[c])
    BY DEF OnceInv, SessionInv, CoreTypeOK
  <1>2. kept[c] \in Seq(Reply) /\ place \in 1 .. Len(kept[c]) /\ known[c] \in SUBSET ExecIds
        /\ given[c] \in [ExecIds -> Nat]
    BY <1>1
  <1>3. kept[c][place].part > 0 => ExecId(kept[c][place]) \in ExecIds
    BY <1>1, <1>2 DEF Once
  <1>4. PICK g : g = CountGiven(given[c], kept[c][place])
    OBVIOUS
  <1>5. Once(rest, known[c], g) /\ g \in [ExecIds -> Nat]
    BY <1>1, <1>2, <1>4, GivesKept
  <1>6. Moves(c, rest, known[c], g)
    <2>1. /\ given'[c] = g /\ \A d \in FixClients \ {c} : given'[d] = given[d]
          /\ given' = [d \in FixClients |-> given'[d]]
      BY <1>1, <1>3, <1>4, EndsCounts
    <2> QED BY <1>1, <2>1 DEF Moves
  <1> QED BY <1>5, <1>6, MovesKeeps

LEMMA SendOnce ==
    ASSUME OnceInv, SessionInv', NEW c \in FixClients, NEW r, NEW n, SendAndLook(c, r, n),
           known' = known
    PROVE  OnceInv'
  <1>1. PICK place : place = KeptAnswer(c, r)
    OBVIOUS
  <1>2. kept[c] \in Seq(Reply)
    BY DEF OnceInv, SessionInv, CoreTypeOK
  <1>3. CASE place > 0
    <2>1. place \in DOMAIN kept[c]
      BY <1>1, <1>2, <1>3, KeptAnswerIsKept
    <2>2. kept' = [kept EXCEPT ![c] = RemoveAt(kept[c], place)]
          /\ Ends(c, "returned", kept[c][place])
      BY <1>1, <1>3 DEF SendAndLook
    <2>3. PICK rest : rest = RemoveAt(kept[c], place)
      OBVIOUS
    <2>4. /\ DOMAIN rest = 1 .. Len(kept[c]) - 1
          /\ \A i \in 1 .. Len(kept[c]) - 1 : rest[i] = kept[c][IF i < place THEN i ELSE i + 1]
      BY <1>2, <2>1, <2>3, RemoveAtShifts
    <2> QED BY <2>1, <2>2, <2>3, <2>4, KeptIsGiven
  <1>4. CASE ~(place > 0)
    <2>1. kept' = kept /\ given' = given
      BY <1>1, <1>4 DEF SendAndLook, Begins
    <2> QED BY <2>1, PeerOnce
  <1> QED BY <1>3, <1>4

(* A message read from the connection.                                     *)
LEMMA ReadOnce ==
    ASSUME OnceInv, SessionInv', NEW c \in FixClients, connection[c] # 0, ~Silent(c), NEW reply,
           reply = Head(Incoming(c)), ~Skips(c, reply), Noted(c, reply),
           \/ kept' = kept /\ Ends(c, "returned", reply)
           \/ kept' = [kept EXCEPT ![c] = Append(@, reply)] /\ given' = given
    PROVE  OnceInv'
  <1>1. /\ kept \in [FixClients -> Seq(Reply)] /\ known \in [FixClients -> SUBSET ExecIds]
        /\ given \in [FixClients -> [ExecIds -> Nat]] /\ Once(kept[c], known[c], given[c])
    BY DEF OnceInv, SessionInv, CoreTypeOK
  <1>2. kept[c] \in Seq(Reply) /\ known[c] \in SUBSET ExecIds /\ given[c] \in [ExecIds -> Nat]
    BY <1>1
  <1>3. reply \in Reply /\ GoodReply(reply, connection[c])
    BY Received DEF OnceInv
  <1>4. reply.part > 0 => ExecId(reply) \in ExecIds \ known[c]
    BY <1>3 DEF GoodReply, Skips
  <1>5. PICK n : n = NoteReport(known[c], reply)
    OBVIOUS
  <1>6. known'[c] = n /\ \A d \in FixClients \ {c} : known'[d] = known[d]
    BY <1>1, <1>5 DEF Noted, NoteReport
  <1>7. CASE kept' = kept /\ Ends(c, "returned", reply)
    <2>1. PICK g : g = CountGiven(given[c], reply)
      OBVIOUS
    <2>2. Once(kept[c], n, g) /\ g \in [ExecIds -> Nat]
      BY <1>1, <1>2, <1>4, <1>5, <2>1, GivesNew
    <2>3. /\ given'[c] = g /\ \A d \in FixClients \ {c} : given'[d] = given[d]
          /\ given' = [d \in FixClients |-> given'[d]]
      BY <1>1, <1>4, <1>7, <2>1, EndsCounts
    <2>4. Moves(c, kept[c], n, g)
      BY <1>6, <1>7, <2>3 DEF Moves
    <2> QED BY <2>2, <2>4, MovesKeeps
  <1>8. CASE kept' = [kept EXCEPT ![c] = Append(@, reply)] /\ given' = given
    <2>1. PICK k : k = Append(kept[c], reply)
      OBVIOUS
    <2>2. Once(k, n, given[c])
      BY <1>1, <1>2, <1>3, <1>4, <1>5, <2>1, KeepsNew
    <2>3. Moves(c, k, n, given[c])
      BY <1>1, <1>6, <1>8, <2>1 DEF Moves
    <2> QED BY <1>2, <2>2, <2>3, MovesKeeps
  <1> QED BY <1>7, <1>8

LEMMA ClientOnce ==
    ASSUME OnceInv, SessionInv', NEW c \in FixClients, UserStep(c) \/ Waits(c)
    PROVE  OnceInv'
  <1>1. SessionInv /\ GoodClient(c) /\ NoReply.part = 0 /\ ~(NoReply.part > 0)
    BY DEF OnceInv, SessionInv, NoReply
  <1>2. CASE Connect(c)
    BY <1>2, NothingGiven DEF Connect, Begins
  <1>3. CASE CloseConnection(c)
    <2>1. kept' = [kept EXCEPT ![c] = <<>>] /\ known' = known /\ given' = given
      BY <1>1, <1>3 DEF CloseConnection, Ends
    <2> QED BY <2>1, NothingGiven
  <1>4. ASSUME NEW r \in Asks[c], SendRequest(c, r) PROVE OnceInv'
    <2>1. SendAndLook(c, r, 0) /\ known' = known
      BY <1>4 DEF SendRequest
    <2> QED BY <2>1, SendOnce
  <1>5. ASSUME NEW r \in Asks[c] \cap OrderRequests, SendNoWait(c, r) PROVE OnceInv'
    <2>1. kept' = kept /\ known' = known /\ given' = given
      BY <1>1, <1>5 DEF SendNoWait, Ends
    <2> QED BY <2>1, NothingGiven
  <1>6. CASE TakeMessage(c)
    <2>1. connection[c] # 0 /\ kept[c] \in Seq(Reply)
      BY <1>1, <1>6, Typed DEF TakeMessage, Open, SessionInv
    <2>2. CASE /\ kept[c] # <<>> /\ kept' = [kept EXCEPT ![c] = Tail(@)]
               /\ Ends(c, "returned", Head(kept[c])) /\ known' = known
      <3>1. PICK rest : rest = Tail(kept[c])
        OBVIOUS
      <3>2. /\ Len(kept[c]) \in Nat /\ Len(kept[c]) # 0 /\ 1 \in DOMAIN kept[c]
            /\ Head(kept[c]) = kept[c][1]
            /\ DOMAIN rest = 1 .. Len(kept[c]) - 1
            /\ \A i \in 1 .. Len(kept[c]) - 1 : rest[i] = kept[c][i + 1]
        BY <2>1, <2>2, <3>1
      <3>3. \A i \in 1 .. Len(kept[c]) - 1 : rest[i] = kept[c][IF i < 1 THEN i ELSE i + 1]
        BY <3>2
      <3>4. kept' = [kept EXCEPT ![c] = rest] /\ Ends(c, "returned", kept[c][1])
        BY <2>2, <3>1, <3>2
      <3> QED BY <2>2, <3>2, <3>3, <3>4, KeptIsGiven
    <2>3. CASE /\ ~Silent(c) /\ Noted(c, Head(Incoming(c))) /\ kept' = kept
               /\ IF Skips(c, Head(Incoming(c)))
                  THEN given' = given
                  ELSE Ends(c, "returned", Head(Incoming(c)))
      <3>1. CASE Skips(c, Head(Incoming(c)))
        <4>1. known' = known
          <5>1. known \in [FixClients -> SUBSET ExecIds]
            BY <1>1 DEF SessionInv, CoreTypeOK
          <5> QED BY <2>3, <3>1, <5>1 DEF Noted, Skips
        <4> QED BY <2>3, <3>1, <4>1, PeerOnce
      <3>2. CASE ~Skips(c, Head(Incoming(c)))
        BY <2>1, <2>3, <3>2, ReadOnce
      <3> QED BY <3>1, <3>2
    <2> QED BY <1>6, <2>2, <2>3 DEF TakeMessage
  <1>7. CASE LogonAnswered(c)
    <2>1. connection[c] # 0 /\ ~Silent(c) /\ kept' = kept /\ known' = known
      BY <1>1, <1>7 DEF LogonAnswered, At, GoodClient
    <2>2. GoodReply(Head(Incoming(c)), connection[c])
      BY <1>1, <2>1, Received
    <2>3. Head(Incoming(c)).kind = "logon" => ~(Head(Incoming(c)).part > 0)
      <3>1. \A id \in ExecIds : id[1] \in OrderRequests
        BY DEF ExecIds
      <3> QED BY <2>2, <3>1, RequestsAssumption DEF GoodReply, ExecId, ClientRequests
    <2>4. given' = given
      BY <1>1, <1>7, <2>3 DEF LogonAnswered, Ends
    <2> QED BY <2>1, <2>4, NothingGiven
  <1>8. CASE LogonTimesOut(c)
    <2>1. kept' = kept /\ known' = known /\ given' = given
      BY <1>1, <1>8 DEF LogonTimesOut, Ends
    <2> QED BY <2>1, NothingGiven
  <1>9. CASE ReadReply(c)
    <2>1. connection[c] # 0 /\ ~Silent(c)
      BY <1>1, <1>9 DEF ReadReply, At, GoodClient
    <2>2. PICK reply : reply = Head(Incoming(c))
      OBVIOUS
    <2>3. \/ given' = given /\ kept' = kept /\ known' = known
          \/ ~Skips(c, reply) /\ Noted(c, reply) /\ Ends(c, "returned", reply) /\ kept' = kept
          \/ /\ ~Skips(c, reply) /\ Noted(c, reply) /\ given' = given
             /\ kept' = [kept EXCEPT ![c] = Append(@, reply)]
      BY <1>9, <2>2 DEF ReadReply
    <2> QED BY <2>1, <2>2, <2>3, PeerOnce, ReadOnce
  <1>10. CASE CallTimesOut(c)
    <2>1. /\ known' = known
          /\ \/ SendAndLook(c, asked[c], repeats[c] + 1)
             \/ Ends(c, "raised", NoReply) /\ kept' = kept
      BY <1>10 DEF CallTimesOut
    <2>2. CASE Ends(c, "raised", NoReply) /\ kept' = kept
      <3>1. given' = given
        BY <1>1, <2>2 DEF Ends
      <3> QED BY <2>1, <2>2, <3>1, NothingGiven
    <2> QED BY <2>1, <2>2, SendOnce
  <1>11. CASE FindsClosed(c)
    <2>1. kept' = kept /\ known' = known /\ given' = given
      BY <1>1, <1>11 DEF FindsClosed, Ends
    <2> QED BY <2>1, NothingGiven
  <1> QED BY <1>2, <1>3, <1>4, <1>5, <1>6, <1>7, <1>8, <1>9, <1>10, <1>11 DEF UserStep, Waits

LEMMA OnceInvHolds == SessionSpec => []OnceInv
  <1>1. SessionInit => OnceInv
    <2> SUFFICES ASSUME SessionInit PROVE OnceInv
      OBVIOUS
    <2>1. given = [c \in FixClients |-> [id \in ExecIds |-> 0]]
          /\ \A c \in FixClients : kept[c] = <<>>
      BY DEF SessionInit
    <2>2. \A c \in FixClients : Once(kept[c], known[c], given[c])
      BY <2>1 DEF Once
    <2> QED BY <2>1, <2>2, InitGood DEF OnceInv
  <1>2. OnceInv /\ [SessionNext]_sessionVars => OnceInv'
    <2> SUFFICES ASSUME OnceInv, [SessionNext]_sessionVars PROVE OnceInv'
      OBVIOUS
    <2>1. SessionInv
      BY DEF OnceInv
    <2>2. CASE PeerStep
      <3>1. kept' = kept /\ known' = known /\ given' = given
        BY <2>2 DEF PeerStep, TakeLogon, Serve, PeerCloses
      <3> QED BY <2>1, <2>2, <3>1, PeerKeeps, PeerOnce
    <2>3. ASSUME NEW c \in Users, UserStep(c) \/ Waits(c) PROVE OnceInv'
      BY <2>1, <2>3, UsersAssumption, ClientKeeps, ClientOnce
    <2>4. CASE UNCHANGED sessionVars
      <3>1. SessionInv'
        BY <2>1, <2>4, SessionInvStays
      <3> QED BY <2>4, <3>1, PeerOnce DEF sessionVars
    <2> QED BY <2>2, <2>3, <2>4 DEF SessionNext
  <1> QED BY <1>1, <1>2, PTL DEF SessionSpec

(* Types; no call is retried more than max_retries times.                  *)
THEOREM SessionTypes == SessionSpec => []SessionTypeOK
  <1>1. OnceInv => SessionTypeOK
    BY DEF OnceInv, SessionInv, CoreTypeOK, SessionTypeOK
  <1> QED BY <1>1, OnceInvHolds, PTL

(* A report comes again when its order is sent again (mock_exchange.py:    *)
(* 489-493 replays its reports), over a connection opened later too, and   *)
(* may wait among the messages kept: the ExecIDs processed, which outlive  *)
(* close() (fix_client.py:165-180), let it be given out once.              *)
THEOREM ReportsGivenOnce == SessionSpec => []GivenOnce
  <1>1. OnceInv => GivenOnce
    BY DEF OnceInv, Once, GivenOnce
  <1> QED BY <1>1, OnceInvHolds, PTL

-------------------------------------------------------------------------------
(* A batch of orders                                                       *)

TaskTypeOK ==
    /\ task \in [Workers -> {"waiting", "entering", "sending", "done", "failed", "canceled"}]
    /\ results \in [Workers -> Reply \cup {NoReply}]
    /\ batch \in {"none", "running", "returned", "raised"}
    /\ limit \in Nat

(* Connection n carries the request of c and answers to it, and no more.   *)
OnlyItsOrder(c, n) ==
    /\ \/ peer[n] = "closed"
       \/ \A i \in DOMAIN toExchange[n] : toExchange[n][i] = asked[c]
    /\ \A i \in DOMAIN toClient[n] : toClient[n][i].about = asked[c] /\ asked[c] \in served

Entering(c) ==
    /\ sends[c] = 0
    /\ phase[c] # "calling"
    /\ phase[c] = "connecting" \/ ended[c].how = "connected" => connection[c] \in Numbers \ unread

Sending(c) ==
    /\ phase[c] # "connecting"
    /\ connection[c] \in Numbers
    /\ asked[c] \in Asks[c]
    /\ kept[c] = <<>>
    /\ OnlyItsOrder(c, connection[c])
    /\ ended[c].how = "returned" => ended[c].got.about = asked[c] /\ asked[c] \in served

Answered(c) ==
    /\ results[c].about \in Asks[c] \cap served
    /\ results[c].over \in 1 .. opened

WorkerInv(c) ==
    /\ task[c] \notin {"entering", "sending"} => phase[c] = "idle"
    /\ task[c] \in {"waiting", "done", "canceled"} => connection[c] = 0
    /\ task[c] \in {"waiting", "canceled"} => sends[c] = 0
    /\ task[c] = "failed" => connection[c] = 0 \/ sends[c] = 0
    /\ task[c] = "entering" => Entering(c)
    /\ task[c] = "sending" => Sending(c)
    /\ task[c] = "done" => Answered(c)

(* The connection an answer came over is not used again.                   *)
ItsOwn(c, d) ==
    task[c] = "done" =>
        /\ connection[d] # results[c].over
        /\ task[d] = "done" => results[d].over # results[c].over

LimitKept ==
    /\ IsFiniteSet(Running)
    /\ Cardinality(Running) <= limit
    /\ batch = "none" => limit = 0
    /\ batch = "returned" => \A c \in Workers : task[c] = "done"

BatchInv ==
    /\ SessionInv
    /\ TaskTypeOK
    /\ \A c \in Workers : WorkerInv(c)
    /\ \A c, d \in Workers : c # d => ItsOwn(c, d)
    /\ LimitKept

LEMMA BatchInvParts == BatchInv => BatchAccounted
  <1> SUFFICES ASSUME BatchInv PROVE BatchAccounted
    OBVIOUS
  <1>1. BatchIsAnswered
    BY DEF BatchInv, BatchIsAnswered, LimitKept, WorkerInv, Answered, ItsOwn
  <1>2. Cardinality({c \in Workers : Open(c) /\ task[c] # "failed"}) <= limit
    <2> DEFINE Held == {c \in Workers : Open(c) /\ task[c] # "failed"}
    <2>1. Held \subseteq Running
      BY DEF BatchInv, WorkerInv, TaskTypeOK, Open, Running
    <2>2. IsFiniteSet(Running) /\ Cardinality(Running) <= limit /\ limit \in Nat
      BY DEF BatchInv, LimitKept, TaskTypeOK
    <2> HIDE DEF Held
    <2>3. /\ IsFiniteSet(Held) /\ Cardinality(Held) <= Cardinality(Running)
          /\ Cardinality(Held) \in Nat /\ Cardinality(Running) \in Nat
      BY <2>1, <2>2, FS_Subset, FS_CardinalityType
    <2>4. Cardinality(Held) <= limit
      BY <2>2, <2>3
    <2> QED BY <2>4 DEF Held
  <1>3. \A c \in Workers :
            Open(c) /\ task[c] \notin {"entering", "sending"} => task[c] = "failed" /\ sends[c] = 0
    BY DEF BatchInv, WorkerInv, TaskTypeOK, Open
  <1>4. batch = "returned" => \A c \in Workers : ~Open(c)
    BY DEF BatchInv, WorkerInv, LimitKept, Open
  <1> QED BY <1>1, <1>2, <1>3, <1>4 DEF BatchAccounted, SocketsAccounted

(* What a step of a client leaves to the others.                           *)
Untouched(n) ==
    /\ toExchange'[n] = toExchange[n] /\ toClient'[n] = toClient[n] /\ peer'[n] = peer[n]
    /\ n \in unread' <=> n \in unread

Unmoved(d) ==
    /\ connection'[d] = connection[d] /\ phase'[d] = phase[d] /\ asked'[d] = asked[d]
    /\ kept'[d] = kept[d] /\ ended'[d] = ended[d] /\ sends'[d] = sends[d]

OthersStay(c) ==
    /\ \A d \in FixClients \ {c} :
          Unmoved(d) /\ (connection[d] \in Numbers => Untouched(connection[d]))
    /\ served' = served
    /\ opened' \in {opened, opened + 1}

LEMMA ClientsKeepApart ==
    ASSUME SessionInv, NEW c \in FixClients,
           Connect(c) \/ CloseConnection(c) \/ (\E r \in Asks[c] : SendRequest(c, r)) \/ Waits(c)
    PROVE  OthersStay(c)
  <1>1. /\ connection \in [FixClients -> Numbers \cup {0}]
        /\ phase \in [FixClients -> {"idle", "connecting", "calling"}]
        /\ asked \in [FixClients -> ClientRequests \cup {Logon}]
        /\ kept \in [FixClients -> Seq(Reply)]
        /\ ended \in [FixClients -> Ending]
        /\ sends \in [FixClients -> 0 .. MaxSends]
        /\ toExchange \in [Numbers -> Seq(ClientRequests \cup {Logon})]
        /\ toClient \in [Numbers -> Seq(Reply)]
        /\ peer \in [Numbers -> {"none", "logon", "turn", "closed"}]
        /\ opened \in Nat
    BY Typed DEF SessionInv, CoreTypeOK
  <1>2. \A d \in FixClients \ {c} :
            connection[d] \in Numbers => connection[d] # connection[c] /\ connection[d] # opened + 1
    BY <1>1 DEF SessionInv, NoneShared, GoodClient, Numbers
  <1>3. CASE Connect(c)
    BY <1>1, <1>2, <1>3 DEF Connect, Transmit, Begins, OthersStay, Unmoved, Untouched
  <1>4. CASE CloseConnection(c)
    BY <1>1, <1>2, <1>4 DEF CloseConnection, Ends, peerVars, OthersStay, Unmoved, Untouched
  <1>5. ASSUME NEW r, SendRequest(c, r) PROVE OthersStay(c)
    BY <1>1, <1>2, <1>5 DEF SendRequest, SendAndLook, Transmit, Begins, Ends, OthersStay, Unmoved,
                            Untouched
  <1>6. CASE LogonAnswered(c)
    BY <1>1, <1>2, <1>6 DEF LogonAnswered, Ends, OthersStay, Unmoved, Untouched
  <1>7. CASE LogonTimesOut(c)
    BY <1>1, <1>2, <1>7 DEF LogonTimesOut, Ends, peerVars, OthersStay, Unmoved, Untouched
  <1>8. CASE ReadReply(c)
    BY <1>1, <1>2, <1>8 DEF ReadReply, Ends, OthersStay, Unmoved, Untouched
  <1>9. CASE CallTimesOut(c)
    BY <1>1, <1>2, <1>9 DEF CallTimesOut, SendAndLook, Transmit, Begins, Ends, OthersStay, Unmoved,
                            Untouched
  <1>10. CASE FindsClosed(c)
    BY <1>1, <1>2, <1>10 DEF FindsClosed, Ends, peerVars, OthersStay, Unmoved, Untouched
  <1> QED BY <1>3, <1>4, <1>5, <1>6, <1>7, <1>8, <1>9, <1>10 DEF Waits

LEMMA OtherWorker ==
    ASSUME SessionInv, NEW c \in FixClients, OthersStay(c), NEW d \in Workers, d # c, WorkerInv(d),
           task'[d] = task[d], results'[d] = results[d]
    PROVE  WorkerInv(d)'
  <1>1. d \in FixClients /\ opened \in Nat
    BY WorkersAssumption, Typed DEF SessionInv
  <1>2. Unmoved(d) /\ (connection[d] \in Numbers => Untouched(connection[d])) /\ served' = served
    BY <1>1 DEF OthersStay
  <1>3. Entering(d) => Entering(d)'
    BY <1>2 DEF Entering, Unmoved, Untouched
  <1>4. ASSUME Sending(d) PROVE Sending(d)'
    <2> PICK n : n = connection[d]
      OBVIOUS
    <2>1. n \in Numbers /\ OnlyItsOrder(d, n) /\ Untouched(n)
      BY <1>2, <1>4 DEF Sending
    <2>2. asked'[d] = asked[d] /\ connection'[d] = n
      BY <1>2 DEF Unmoved
    <2>3. OnlyItsOrder(d, n)'
      BY <1>2, <2>1, <2>2 DEF OnlyItsOrder, Untouched
    <2> QED BY <1>2, <1>4, <2>1, <2>2, <2>3 DEF Sending, Unmoved
  <1>5. Answered(d) => Answered(d)'
    BY <1>1, <1>2 DEF Answered, OthersStay
  <1> QED BY <1>2, <1>3, <1>4, <1>5 DEF WorkerInv, Unmoved

(* A worker changes its own task only, and the numbers that are taken stay *)
(* taken.                                                                  *)
LEMMA WorkersApart ==
    ASSUME BatchInv, NEW c \in Workers, OthersStay(c), SessionInv', TaskTypeOK',
           \A d \in Workers \ {c} : task'[d] = task[d] /\ results'[d] = results[d],
           WorkerInv(c)',
           connection'[c] \in {0, connection[c], opened + 1},
           task'[c] = "done" =>
               /\ task[c] = "sending" /\ ended[c].how = "returned" /\ results'[c] = ended[c].got
               /\ connection'[c] = 0,
           task[c] # "done",
           batch' = batch, limit' = limit,
           \/ task'[c] \notin {"entering", "sending"}
           \/ c \in Running
           \/ Cardinality(Running) < limit
    PROVE  BatchInv'
  <1>1. c \in FixClients /\ SessionInv /\ opened \in Nat
    BY WorkersAssumption, Typed DEF BatchInv, SessionInv
  <1>2. \A d \in Workers : WorkerInv(d)'
    BY <1>1, OtherWorker DEF BatchInv
  <1>3. ASSUME NEW a \in Workers, NEW b \in Workers, a # b PROVE ItsOwn(a, b)'
    <2>1. ItsOwn(a, b) /\ ItsOwn(b, a)
      BY <1>3 DEF BatchInv
    <2>2. \A d \in Workers \ {c} : connection'[d] = connection[d] /\ d \in FixClients
      BY WorkersAssumption DEF OthersStay, Unmoved
    <2>3. \A d \in Workers : task[d] = "done" => results[d].over \in 1 .. opened
      BY DEF BatchInv, WorkerInv, Answered
    <2>4. task'[c] = "done" =>
              results'[c].over = connection[c] /\ connection[c] \in Numbers
      BY <1>1 DEF BatchInv, WorkerInv, Sending, SessionInv, GoodClient
    <2>5. \A d \in Workers \ {c} : connection[d] = connection[c] => connection[c] = 0
      BY <1>1, <2>2 DEF SessionInv, NoneShared
    <2>6. CASE a # c /\ b # c
      BY <2>1, <2>2, <2>6 DEF ItsOwn
    <2>7. CASE a = c /\ b # c
      BY <2>1, <2>2, <2>3, <2>4, <2>5, <2>7 DEF ItsOwn, Numbers
    <2>8. CASE a # c /\ b = c
      BY <1>1, <2>1, <2>2, <2>3, <2>4, <2>8 DEF ItsOwn, Numbers
    <2> QED BY <1>3, <2>6, <2>7, <2>8
  <1>4. LimitKept'
    <2>1. IsFiniteSet(Running) /\ Cardinality(Running) <= limit /\ limit \in Nat
          /\ Cardinality(Running) \in Nat
      BY FS_CardinalityType DEF BatchInv, LimitKept, TaskTypeOK
    <2>2. \A d \in Workers \ {c} : d \in Running' <=> d \in Running
      BY DEF Running
    <2>3. IsFiniteSet(Running') /\ Cardinality(Running') <= limit
      <3>1. CASE Running' \subseteq Running
        <4>1. IsFiniteSet(Running') /\ Cardinality(Running') <= Cardinality(Running)
              /\ Cardinality(Running') \in Nat
          BY <2>1, <3>1, FS_Subset, FS_CardinalityType
        <4> QED BY <2>1, <4>1
      <3>2. CASE ~(Running' \subseteq Running)
        <4>1. c \notin Running /\ c \in Running'
          BY <2>2, <3>2 DEF Running
        <4>2. Running' = Running \cup {c}
          BY <2>2, <4>1 DEF Running
        <4>3. Cardinality(Running) < limit
          BY <4>1 DEF Running
        <4>4. IsFiniteSet(Running \cup {c}) /\ Cardinality(Running \cup {c}) = Cardinality(Running) + 1
          BY <2>1, <4>1, FS_AddElement
        <4> QED BY <2>1, <4>2, <4>3, <4>4
      <3> QED BY <3>1, <3>2
    <2>4. (batch = "none" => limit = 0) /\ (batch = "returned" => \A d \in Workers : task[d] = "done")
      BY DEF BatchInv, LimitKept
    <2> QED BY <2>3, <2>4 DEF LimitKept
  <1> QED BY <1>2, <1>3, <1>4 DEF BatchInv

LEMMA WorkerTyped ==
    ASSUME BatchInv, NEW c \in Workers
    PROVE  /\ c \in FixClients
           /\ SessionInv /\ CoreTypeOK /\ TaskTypeOK /\ WorkerInv(c) /\ GoodClient(c)
           /\ Asks[c] \subseteq ClientRequests /\ Logon \notin Asks[c]
  BY WorkersAssumption, RequestsAssumption DEF BatchInv, SessionInv

LEMMA EnterKeeps ==
    ASSUME BatchInv, NEW c \in Workers, Enter(c)
    PROVE  BatchInv'
  <1>1. c \in FixClients /\ SessionInv /\ CoreTypeOK /\ TaskTypeOK /\ WorkerInv(c)
    BY WorkerTyped
  <1>2. /\ task[c] = "waiting" /\ Cardinality(Running) < limit
        /\ Connect(c)
        /\ task' = [task EXCEPT ![c] = "entering"]
        /\ results' = results /\ batch' = batch /\ limit' = limit
    BY DEF Enter, Becomes
  <1>3. SessionInv' /\ OthersStay(c)
    BY <1>1, <1>2, ClientKeeps, ClientsKeepApart DEF UserStep
  <1>4. /\ connection'[c] = opened + 1 /\ phase'[c] = "connecting" /\ sends'[c] = sends[c]
        /\ opened + 1 \in Numbers \ unread /\ unread' = unread
    <2>1. opened + 1 \in Numbers /\ opened + 1 > opened
      BY <1>1, <1>2, Typed DEF Connect, Numbers
    <2>2. GoodConnection(opened + 1)
      BY <1>1, <2>1 DEF SessionInv
    <2>3. opened + 1 \notin unread
      BY <2>1, <2>2 DEF GoodConnection
    <2>4. /\ connection' = [connection EXCEPT ![c] = opened + 1] /\ sends' = sends /\ unread' = unread
          /\ phase' = [phase EXCEPT ![c] = "connecting"]
      BY <1>2 DEF Connect, Begins
    <2> QED BY <1>1, <2>1, <2>3, <2>4 DEF CoreTypeOK
  <1>5. task'[c] = "entering" /\ TaskTypeOK'
    BY <1>1, <1>2 DEF TaskTypeOK
  <1>6. WorkerInv(c)'
    BY <1>1, <1>2, <1>4, <1>5 DEF WorkerInv, Entering
  <1>7. \A d \in Workers \ {c} : task'[d] = task[d] /\ results'[d] = results[d]
    BY <1>1, <1>2 DEF TaskTypeOK
  <1> QED BY <1>2, <1>3, <1>4, <1>5, <1>6, <1>7, WorkersApart

(* Steps that leave the connections alone.                                 *)
LEMMA SessionsStay ==
    ASSUME SessionInv, UNCHANGED sessionVars
    PROVE  SessionInv' /\ \A c \in FixClients : OthersStay(c)
  BY DEF sessionVars, peerVars, SessionInv, CoreTypeOK, NoneShared,
         GoodConnection, GoodReply, GoodClient, Belongs, OneUnderWay,
         OthersStay, Unmoved, Untouched

LEMMA EnterEndsKeeps ==
    ASSUME BatchInv, NEW c \in Workers, EnterRefused(c) \/ EnterFails(c)
    PROVE  BatchInv'
  <1>1. c \in FixClients /\ SessionInv /\ TaskTypeOK /\ WorkerInv(c)
    BY WorkerTyped
  <1>2. /\ task[c] \in {"waiting", "entering"} /\ phase[c] = "idle"
        /\ task' = [task EXCEPT ![c] = "failed"]
        /\ UNCHANGED sessionVars
        /\ results' = results /\ batch' = batch /\ limit' = limit
    BY <1>1 DEF EnterRefused, EnterFails, Becomes, At, WorkerInv
  <1>3. SessionInv' /\ OthersStay(c)
    BY <1>1, <1>2, SessionsStay
  <1>4. task'[c] = "failed" /\ TaskTypeOK'
        /\ \A d \in Workers \ {c} : task'[d] = task[d] /\ results'[d] = results[d]
    BY <1>1, <1>2 DEF TaskTypeOK
  <1>5. connection' = connection /\ phase' = phase /\ sends' = sends
    BY <1>2 DEF sessionVars
  <1>6. WorkerInv(c)'
    BY <1>1, <1>2, <1>4, <1>5 DEF WorkerInv, Entering
  <1> QED BY <1>2, <1>3, <1>4, <1>5, <1>6, WorkersApart

LEMMA NothingKept ==
    ASSUME CoreTypeOK, NEW c \in FixClients, kept[c] = <<>>, NEW r, NEW n, SendAndLook(c, r, n)
    PROVE  Transmit(connection[c], r) /\ Begins(c, "calling") /\ kept' = kept
  <1>1. ~(KeptAnswer(c, r) > 0)
    <2> SUFFICES ASSUME KeptAnswer(c, r) > 0 PROVE FALSE
      OBVIOUS
    <2> PICK k : k = KeptAnswer(c, r)
      OBVIOUS
    <2>1. k \in DOMAIN kept[c]
      BY Typed, KeptAnswerIsKept
    <2> QED BY <2>1
  <1> QED BY <1>1 DEF SendAndLook

LEMMA SendOrderKeeps ==
    ASSUME BatchInv, NEW c \in Workers, SendOrder(c)
    PROVE  BatchInv'
  <1>1. c \in FixClients /\ SessionInv /\ CoreTypeOK /\ TaskTypeOK /\ WorkerInv(c)
        /\ GoodClient(c) /\ Asks[c] \subseteq ClientRequests
    BY WorkerTyped
  <1>2. PICK r \in Asks[c] : SendRequest(c, r)
    BY DEF SendOrder
  <1>3. /\ task[c] = "entering" /\ ended[c].how = "connected"
        /\ task' = [task EXCEPT ![c] = "sending"]
        /\ results' = results /\ batch' = batch /\ limit' = limit
    BY DEF SendOrder, Becomes
  <1>4. SessionInv' /\ OthersStay(c)
    BY <1>1, <1>2, ClientKeeps, ClientsKeepApart DEF UserStep
  <1>5. PICK n : n = connection[c]
    OBVIOUS
  <1>6. /\ n \in Numbers \ unread /\ phase[c] = "idle" /\ kept[c] = <<>>
        /\ toClient[n] = <<>> /\ (peer[n] = "closed" \/ toExchange[n] = <<>>)
    <2>1. n \in Numbers \ unread /\ phase[c] = "idle"
      BY <1>1, <1>2, <1>3, <1>5 DEF WorkerInv, Entering, SendRequest, At
    <2>2. kept[c] = <<>> /\ OneUnderWay(c, n)
      BY <1>1, <1>5, <2>1 DEF GoodClient
    <2> QED BY <2>1, <2>2 DEF OneUnderWay
  <1>7. /\ toExchange' = [toExchange EXCEPT ![n] = Append(@, r)]
        /\ phase' = [phase EXCEPT ![c] = "calling"]
        /\ ended' = [ended EXCEPT ![c] = End("none", NoReply)]
        /\ kept' = kept /\ connection' = connection /\ toClient' = toClient /\ peer' = peer
        /\ asked' = [asked EXCEPT ![c] = r]
    BY <1>1, <1>2, <1>5, <1>6, NothingKept DEF SendRequest, Transmit, Begins
  <1>8. /\ phase'[c] = "calling" /\ ended'[c].how = "none" /\ asked'[c] = r
        /\ toExchange'[n] = Append(toExchange[n], r)
    BY <1>1, <1>6, <1>7, Endings DEF CoreTypeOK
  <1>9. OnlyItsOrder(c, n)'
    <2>1. DOMAIN toClient'[n] = {}
      BY <1>6, <1>7
    <2>2. toExchange[n] = <<>> => toExchange'[n] = <<r>>
      BY <1>8
    <2>3. \A i \in DOMAIN <<r>> : <<r>>[i] = r
      OBVIOUS
    <2> QED BY <1>6, <1>7, <1>8, <2>1, <2>2, <2>3 DEF OnlyItsOrder
  <1>10. task'[c] = "sending" /\ TaskTypeOK'
         /\ \A d \in Workers \ {c} : task'[d] = task[d] /\ results'[d] = results[d]
    BY <1>1, <1>3 DEF TaskTypeOK
  <1>11. WorkerInv(c)'
    <2>1. connection'[c] = n /\ n \in Numbers /\ asked'[c] \in Asks[c] /\ kept'[c] = <<>>
      BY <1>5, <1>6, <1>7, <1>8
    <2>2. Sending(c)'
      BY <1>8, <1>9, <2>1 DEF Sending
    <2> QED BY <1>10, <2>2 DEF WorkerInv
  <1>12. c \in Running
    BY <1>3 DEF Running
  <1> QED BY <1>3, <1>4, <1>5, <1>7, <1>10, <1>11, <1>12, WorkersApart

LEMMA LeaveKeeps ==
    ASSUME BatchInv, NEW c \in Workers, Leave(c)
    PROVE  BatchInv'
  <1>1. c \in FixClients /\ SessionInv /\ CoreTypeOK /\ TaskTypeOK /\ WorkerInv(c)
        /\ GoodClient(c)
    BY WorkerTyped
  <1>2. /\ task[c] = "sending" /\ CloseConnection(c)
        /\ results' = [results EXCEPT ![c] = ended[c].got]
        /\ task' = [task EXCEPT ![c] = IF ended[c].how = "returned" THEN "done" ELSE "failed"]
        /\ batch' = batch /\ limit' = limit
    BY DEF Leave, Becomes
  <1>3. SessionInv' /\ OthersStay(c)
    BY <1>1, <1>2, ClientKeeps, ClientsKeepApart DEF UserStep
  <1>4. connection'[c] = 0 /\ phase'[c] = "idle" /\ reported' = reported
                           /\ served' = served /\ opened' = opened
    BY <1>1, <1>2 DEF CloseConnection, Ends, peerVars, CoreTypeOK
  <1>5. ended[c].got \in Reply \cup {NoReply}
    BY <1>1 DEF CoreTypeOK, Ending
  <1>6. /\ TaskTypeOK'
        /\ task'[c] = IF ended[c].how = "returned" THEN "done" ELSE "failed"
        /\ results'[c] = ended[c].got
        /\ \A d \in Workers \ {c} : task'[d] = task[d] /\ results'[d] = results[d]
    BY <1>1, <1>2, <1>5 DEF TaskTypeOK
  <1>7. ASSUME ended[c].how = "returned" PROVE Answered(c)'
    <2>1. Sending(c) /\ connection[c] \in Numbers
      BY <1>1, <1>2 DEF WorkerInv, Sending
    <2>2. ended[c].got.over = connection[c] /\ connection[c] <= opened
      BY <1>1, <1>7 DEF GoodClient
    <2>3. opened \in Nat
      BY <1>1, Typed
    <2> QED BY <1>4, <1>6, <1>7, <2>1, <2>2, <2>3 DEF Answered, Sending, Numbers
  <1>8. WorkerInv(c)'
    BY <1>4, <1>6, <1>7 DEF WorkerInv
  <1>9. c \in Running
    BY <1>2 DEF Running
  <1> QED BY <1>2, <1>3, <1>4, <1>6, <1>8, <1>9, WorkersApart

LEMMA WaitsKeeps ==
    ASSUME BatchInv, NEW c \in Workers, c \in Running, Waits(c), UNCHANGED taskVars
    PROVE  BatchInv'
  <1>1. c \in FixClients /\ SessionInv /\ CoreTypeOK /\ TaskTypeOK /\ WorkerInv(c)
        /\ GoodClient(c) /\ Logon \notin Asks[c]
    BY WorkerTyped
  <1>2. SessionInv' /\ OthersStay(c)
    BY <1>1, ClientKeeps, ClientsKeepApart
  <1>3. task' = task /\ results' = results /\ batch' = batch /\ limit' = limit
        /\ task[c] \in {"entering", "sending"}
    BY DEF taskVars, Running
  <1>4. phase \in [FixClients -> {"idle", "connecting", "calling"}]
        /\ connection \in [FixClients -> Numbers \cup {0}]
        /\ ended \in [FixClients -> Ending]
    BY <1>1 DEF CoreTypeOK
  <1>5. connection'[c] \in {0, connection[c]}
    BY <1>4, <1>1 DEF Waits, LogonAnswered, LogonTimesOut, ReadReply, CallTimesOut, FindsClosed
  <1>6. ASSUME task[c] = "entering" PROVE Entering(c)'
    <2>1. sends[c] = 0 /\ phase[c] # "calling"
          /\ (phase[c] = "connecting" => connection[c] \in Numbers \ unread)
      BY <1>1, <1>6 DEF WorkerInv, Entering
    <2>2. sends' = sends /\ phase' = [phase EXCEPT ![c] = "idle"]
      BY <2>1 DEF Waits, LogonAnswered, LogonTimesOut, ReadReply, CallTimesOut, FindsClosed, At, Ends
    <2>3. \/ ended' = [ended EXCEPT ![c] = End("raised", NoReply)]
          \/ phase[c] = "connecting" /\ connection' = connection /\ unread' = unread
      BY <2>1 DEF Waits, LogonAnswered, LogonTimesOut, ReadReply, CallTimesOut, FindsClosed, At, Ends
    <2>4. ended'[c].how = "raised" \/ connection'[c] \in Numbers \ unread'
      BY <1>4, <1>1, <2>1, <2>3, Endings
    <2> QED BY <1>1, <1>4, <2>1, <2>2, <2>4 DEF Entering
  <1>7. ASSUME task[c] = "sending" PROVE Sending(c)'
    <2>1. Sending(c)
      BY <1>1, <1>7 DEF WorkerInv
    <2>2. PICK n : n = connection[c]
      OBVIOUS
    <2>3. /\ n \in Numbers /\ phase[c] # "connecting" /\ kept[c] = <<>> /\ asked[c] \in Asks[c]
          /\ OnlyItsOrder(c, n) /\ n # 0
          /\ toClient[n] \in Seq(Reply) /\ toExchange[n] \in Seq(Messages) /\ asked[c] \in Messages
      BY <1>1, <2>1, <2>2, Typed DEF Sending, Numbers
    <2>4. CASE ReadReply(c)
      <3>1. PICK reply : reply = Head(Incoming(c))
        OBVIOUS
      <3>2. /\ ~Silent(c) /\ phase[c] = "calling"
            /\ toClient' = [toClient EXCEPT ![n] = Tail(@)]
            /\ connection' = connection /\ asked' = asked /\ served' = served
            /\ toExchange' = toExchange /\ peer' = peer
        BY <2>2, <2>4 DEF ReadReply, At
      <3>3. /\ reply \in Reply /\ GoodReply(reply, n)
            /\ reply.about = asked[c] /\ asked[c] \in served
            /\ \A i \in DOMAIN Tail(toClient[n]) : Tail(toClient[n])[i].about = asked[c]
        <4>1. reply \in Reply /\ GoodReply(reply, n)
          BY <1>1, <2>2, <2>3, <3>1, <3>2, Received
        <4>2. /\ 1 \in DOMAIN toClient[n] /\ Head(toClient[n]) = toClient[n][1]
              /\ \A i \in DOMAIN Tail(toClient[n]) :
                    Tail(toClient[n])[i] = toClient[n][i + 1] /\ i + 1 \in DOMAIN toClient[n]
          BY <2>2, <2>3, <3>2, Queues DEF Silent, Incoming
        <4>3. \A i \in DOMAIN toClient[n] : toClient[n][i].about = asked[c] /\ asked[c] \in served
          BY <2>3 DEF OnlyItsOrder
        <4> QED BY <2>2, <3>1, <4>1, <4>2, <4>3 DEF Incoming
      <3>4. Matches(reply, asked[c])
        BY <1>1, <2>3, <3>3 DEF Matches, GoodReply, Reply
      <3>5. /\ kept' = kept
            /\ phase' = phase \/ phase' = [phase EXCEPT ![c] = "idle"]
            /\ ended' = ended \/ ended' = [ended EXCEPT ![c] = End("returned", reply)]
        BY <2>4, <3>1, <3>4 DEF ReadReply, Ends
      <3>6. phase'[c] # "connecting"
        BY <1>1, <1>4, <2>3, <3>5
      <3>7. ended'[c].how = "returned" => ended'[c].got.about = asked[c] /\ asked[c] \in served
        BY <1>1, <1>4, <2>1, <3>3, <3>5, Endings DEF Sending
      <3>8. toClient'[n] = Tail(toClient[n])
        BY <1>1, <2>3, <3>2 DEF CoreTypeOK
      <3>9. OnlyItsOrder(c, n)'
        BY <2>3, <3>2, <3>3, <3>8 DEF OnlyItsOrder
      <3> QED BY <2>2, <2>3, <3>2, <3>5, <3>6, <3>7, <3>9 DEF Sending
    <2>5. CASE CallTimesOut(c) /\ SendAndLook(c, asked[c], repeats[c] + 1)
      <3>1. /\ connection' = connection /\ toClient' = toClient /\ peer' = peer /\ served' = served
            /\ asked' = asked
        BY <2>5 DEF CallTimesOut
      <3>2. /\ toExchange' = [toExchange EXCEPT ![n] = Append(@, asked[c])]
            /\ phase' = [phase EXCEPT ![c] = "calling"]
            /\ ended' = [ended EXCEPT ![c] = End("none", NoReply)]
            /\ kept' = kept
        BY <1>1, <2>2, <2>3, <2>5, NothingKept DEF Transmit, Begins
      <3>3. /\ phase'[c] = "calling" /\ ended'[c].how = "none"
            /\ toExchange'[n] = Append(toExchange[n], asked[c])
        BY <1>1, <1>4, <2>3, <3>2, Endings DEF CoreTypeOK
      <3>4. \A i \in DOMAIN toExchange'[n] :
                \/ i \in DOMAIN toExchange[n] /\ toExchange'[n][i] = toExchange[n][i]
                \/ toExchange'[n][i] = asked[c]
        <4> PICK queue : queue = toExchange[n]
          OBVIOUS
        <4>1. queue \in Seq(Messages) /\ asked[c] \in Messages
          BY <2>3
        <4>2. /\ DOMAIN queue = 1 .. Len(queue) /\ Len(queue) \in Nat
              /\ DOMAIN Append(queue, asked[c]) = 1 .. Len(queue) + 1
              /\ \A i \in DOMAIN queue : Append(queue, asked[c])[i] = queue[i]
              /\ Append(queue, asked[c])[Len(queue) + 1] = asked[c]
          BY <4>1, Queues
        <4>3. \A i \in 1 .. Len(queue) + 1 : i = Len(queue) + 1 \/ i \in 1 .. Len(queue)
          BY <4>2
        <4> QED BY <3>3, <4>2, <4>3
      <3>5. OnlyItsOrder(c, n)'
        BY <2>3, <3>1, <3>4 DEF OnlyItsOrder
      <3> QED BY <2>2, <2>3, <3>1, <3>2, <3>3, <3>5 DEF Sending
    <2>6. CASE /\ ended' = [ended EXCEPT ![c] = End("raised", NoReply)]
               /\ phase' = [phase EXCEPT ![c] = "idle"]
               /\ connection' = connection /\ toExchange' = toExchange /\ toClient' = toClient
               /\ peer' = peer /\ reported' = reported
               /\ served' = served /\ asked' = asked /\ kept' = kept
      <3>1. phase'[c] = "idle" /\ ended'[c].how = "raised"
        BY <1>1, <1>4, <2>6, Endings
      <3>2. OnlyItsOrder(c, n)'
        BY <2>3, <2>6 DEF OnlyItsOrder
      <3> QED BY <2>2, <2>3, <2>6, <3>1, <3>2 DEF Sending
    <2>7. ReadReply(c) \/ CallTimesOut(c) \/ FindsClosed(c)
      BY <2>3 DEF Waits, LogonAnswered, LogonTimesOut, At
    <2>8. CASE CallTimesOut(c)
      <3>1. CASE Ends(c, "raised", NoReply) /\ UNCHANGED <<toExchange, repeats, kept>>
        BY <2>6, <2>8, <3>1 DEF CallTimesOut, Ends
      <3> QED BY <2>5, <2>8, <3>1 DEF CallTimesOut
    <2>9. CASE FindsClosed(c)
      BY <2>6, <2>9 DEF FindsClosed, Ends, peerVars
    <2> QED BY <2>4, <2>7, <2>8, <2>9
  <1>8. WorkerInv(c)'
    BY <1>3, <1>6, <1>7 DEF WorkerInv
  <1>9. TaskTypeOK'
    BY <1>1, <1>3 DEF TaskTypeOK
  <1> QED BY <1>2, <1>3, <1>5, <1>8, <1>9, WorkersApart

(* A step at the far end of a connection.                                  *)
LEMMA PeerKeepsBatch ==
    ASSUME BatchInv, PeerStep, UNCHANGED taskVars
    PROVE  BatchInv'
  <1>1. SessionInv /\ CoreTypeOK /\ TaskTypeOK /\ SessionInv'
    BY PeerKeeps DEF BatchInv, SessionInv
  <1>2. task' = task /\ results' = results /\ batch' = batch /\ limit' = limit
    BY DEF taskVars
  <1> PICK n \in Numbers : TakeLogon(n) \/ Serve(n) \/ PeerCloses(n)
    BY DEF PeerStep
  <1>3. /\ connection' = connection /\ phase' = phase /\ asked' = asked /\ kept' = kept
        /\ ended' = ended /\ unread' = unread /\ sends' = sends /\ opened' = opened
    BY DEF TakeLogon, Serve, PeerCloses
  <1>4. /\ served \subseteq served'
        /\ \A k \in Numbers \ {n} :
              toExchange'[k] = toExchange[k] /\ toClient'[k] = toClient[k] /\ peer'[k] = peer[k]
    BY <1>1 DEF TakeLogon, Serve, PeerCloses, Answers, CoreTypeOK
  <1>5. ASSUME NEW c \in Workers, task[c] = "sending", connection[c] = n
        PROVE  OnlyItsOrder(c, n)'
    <2>1. OnlyItsOrder(c, n) /\ asked[c] \in Asks[c] /\ Logon \notin Asks[c]
      BY <1>5, WorkerTyped DEF WorkerInv, Sending
    <2>2. /\ toExchange[n] \in Seq(Messages) /\ toClient[n] \in Seq(Reply)
          /\ GoodConnection(n) /\ GoodConnection(n)'
          /\ asked[c] \in Messages
      BY <1>1, <1>5, WorkersAssumption, Typed DEF SessionInv
    <2>3. toExchange[n] # <<>> =>
              /\ 1 \in DOMAIN toExchange[n] /\ Head(toExchange[n]) = toExchange[n][1]
              /\ \A i \in DOMAIN Tail(toExchange[n]) :
                    /\ Tail(toExchange[n])[i] = toExchange[n][i + 1]
                    /\ i + 1 \in DOMAIN toExchange[n]
      BY <2>2, Queues
    <2>4. CASE TakeLogon(n)
      BY <2>1, <2>2, <2>3, <2>4 DEF TakeLogon, OnlyItsOrder, GoodConnection
    <2>5. CASE Serve(n)
      <3>1. /\ peer[n] = "turn" /\ toExchange[n] # <<>> /\ peer' = peer
            /\ \/ toExchange' = toExchange
               \/ toExchange' = [toExchange EXCEPT ![n] = Tail(@)]
            /\ served' = served \cup {Head(toExchange[n])}
        BY <2>5 DEF Serve
      <3>2. Head(toExchange[n]) = asked[c]
        BY <2>1, <2>3, <3>1 DEF OnlyItsOrder
      <3>3. /\ toExchange'[n] \in {toExchange[n], Tail(toExchange[n])}
            /\ asked[c] \in served'
        BY <1>1, <3>1, <3>2 DEF CoreTypeOK
      <3>4. \A i \in DOMAIN toExchange'[n] : toExchange'[n][i] = asked[c]
        BY <2>1, <2>3, <3>1, <3>3 DEF OnlyItsOrder
      <3>5. \A i \in DOMAIN toClient'[n] : toClient'[n][i].about = asked[c]
        <4>1. \A i \in DOMAIN toClient[n] : toClient[n][i].about = asked[c]
          BY <2>1 DEF OnlyItsOrder
        <4>2. CASE toClient' = toClient
          BY <4>1, <4>2
        <4>3. ASSUME NEW kind \in {"report", "reject"}, NEW part \in Nat,
                     Answers(n, kind, asked[c], part)
              PROVE  \A i \in DOMAIN toClient'[n] : toClient'[n][i].about = asked[c]
          <5>1. PICK reply :
                    reply = [kind |-> kind, about |-> asked[c], part |-> part, over |-> n]
            OBVIOUS
          <5>2. reply \in Reply /\ reply.about = asked[c]
            BY <2>2, <5>1 DEF Reply, Messages
          <5>3. toClient'[n] = Append(toClient[n], reply)
            BY <1>1, <4>3, <5>1 DEF Answers, CoreTypeOK
          <5>4. /\ DOMAIN toClient[n] = 1 .. Len(toClient[n]) /\ Len(toClient[n]) \in Nat
                /\ DOMAIN Append(toClient[n], reply) = 1 .. Len(toClient[n]) + 1
                /\ \A i \in DOMAIN toClient[n] : Append(toClient[n], reply)[i] = toClient[n][i]
                /\ Append(toClient[n], reply)[Len(toClient[n]) + 1] = reply
            BY <2>2, <5>2, Queues
          <5> PICK queue : queue = toClient[n]
            OBVIOUS
          <5>5. \A i \in 1 .. Len(queue) + 1 : i = Len(queue) + 1 \/ i \in 1 .. Len(queue)
            BY <5>4
          <5> QED BY <4>1, <5>2, <5>3, <5>4, <5>5
        <4>4. PICK part :
                  /\ part = IF ReportCount(asked[c]) = 0 THEN 0 ELSE reported[n] + 1
                  /\ \/ toClient' = toClient
                     \/ Answers(n, "report", asked[c], part)
                     \/ Answers(n, "reject", asked[c], part)
          BY <2>5, <3>2 DEF Serve
        <4>5. part \in Nat
          BY <1>1, <4>4 DEF CoreTypeOK
        <4> QED BY <4>2, <4>3, <4>4, <4>5
      <3> QED BY <1>3, <3>3, <3>4, <3>5 DEF OnlyItsOrder
    <2>6. CASE PeerCloses(n)
      <3>1. peer'[n] = "closed" /\ toClient' = toClient /\ served' = served
        BY <1>1, <2>6 DEF PeerCloses, CoreTypeOK
      <3> QED BY <1>3, <2>1, <3>1 DEF OnlyItsOrder
    <2> QED BY <2>4, <2>5, <2>6
  <1>6. ASSUME NEW c \in Workers PROVE WorkerInv(c)'
    <2>1. WorkerInv(c)
      BY DEF BatchInv
    <2>2. Entering(c) => Entering(c)'
      BY <1>3 DEF Entering
    <2>3. ASSUME task[c] = "sending" PROVE Sending(c)'
      <3>1. Sending(c)
        BY <2>1, <2>3 DEF WorkerInv
      <3>2. PICK k : k = connection[c]
        OBVIOUS
      <3>3. k \in Numbers /\ OnlyItsOrder(c, k)
        BY <3>1, <3>2 DEF Sending
      <3>4. OnlyItsOrder(c, k)'
        BY <1>3, <1>4, <1>5, <2>3, <3>2, <3>3 DEF OnlyItsOrder
      <3> QED BY <1>3, <1>4, <3>1, <3>2, <3>4 DEF Sending
    <2>4. Answered(c) => Answered(c)'
      BY <1>2, <1>3, <1>4 DEF Answered
    <2> QED BY <1>2, <1>3, <2>1, <2>2, <2>3, <2>4 DEF WorkerInv
  <1>7. (\A c, d \in Workers : c # d => ItsOwn(c, d))'
    BY <1>2, <1>3 DEF BatchInv, ItsOwn
  <1>8. LimitKept'
    BY <1>2 DEF BatchInv, LimitKept, Running
  <1> QED BY <1>1, <1>2, <1>6, <1>7, <1>8 DEF BatchInv, TaskTypeOK

(* The call itself: it starts, gathers its answers, or is given up.        *)
LEMMA BatchCallKeeps ==
    ASSUME BatchInv, StartBatch \/ Gather \/ Abandon \/ UNCHANGED concurrentVars
    PROVE  BatchInv'
  <1>1. UNCHANGED sessionVars /\ results' = results
    BY DEF StartBatch, Gather, Abandon, concurrentVars, taskVars
  <1>2. SessionInv' /\ TaskTypeOK
    BY <1>1, SessionsStay DEF BatchInv
  <1>3. /\ connection' = connection /\ phase' = phase /\ asked' = asked /\ kept' = kept
        /\ ended' = ended /\ unread' = unread /\ sends' = sends /\ opened' = opened
        /\ toExchange' = toExchange /\ toClient' = toClient /\ peer' = peer /\ served' = served
    BY <1>1 DEF sessionVars, peerVars
  <1>4. \A c \in Workers : task'[c] = task[c] \/ (task[c] = "waiting" /\ task'[c] = "canceled")
    <2>1. CASE task' = task
      BY <2>1
    <2>2. CASE task' = [c \in Workers |-> IF task[c] = "waiting" THEN "canceled" ELSE task[c]]
      BY <2>2
    <2> QED BY <2>1, <2>2 DEF StartBatch, Gather, Abandon, concurrentVars, taskVars
  <1>5. ASSUME NEW c \in Workers PROVE WorkerInv(c)'
    <2>1. WorkerInv(c)
      BY DEF BatchInv
    <2>2. (Entering(c) => Entering(c)') /\ (Answered(c) => Answered(c)')
      BY <1>1, <1>3 DEF Entering, Answered
    <2>3. Sending(c) => Sending(c)'
      BY <1>3 DEF Sending, OnlyItsOrder
    <2>4. CASE task'[c] = task[c]
      BY <1>3, <2>1, <2>2, <2>3, <2>4 DEF WorkerInv
    <2>5. CASE task[c] = "waiting" /\ task'[c] = "canceled"
      BY <1>3, <2>1, <2>5 DEF WorkerInv
    <2> QED BY <1>4, <2>4, <2>5
  <1>6. ASSUME NEW c \in Workers, NEW d \in Workers, c # d PROVE ItsOwn(c, d)'
    <2>1. ItsOwn(c, d)
      BY <1>6 DEF BatchInv
    <2>2. (task'[c] = "done" => task[c] = "done") /\ (task'[d] = "done" => task[d] = "done")
      BY <1>4
    <2> QED BY <1>1, <1>3, <2>1, <2>2 DEF ItsOwn
  <1>7. TaskTypeOK'
    <2>1. task' \in [Workers -> {"waiting", "entering", "sending", "done", "failed", "canceled"}]
      BY <1>2 DEF TaskTypeOK, StartBatch, Gather, Abandon, concurrentVars, taskVars
    <2>2. batch' \in {"none", "running", "returned", "raised"} /\ limit' \in Nat
      BY <1>2, MaxConcurrencyAssumption
      DEF TaskTypeOK, StartBatch, Gather, Abandon, concurrentVars, taskVars
    <2> QED BY <1>1, <1>2, <2>1, <2>2 DEF TaskTypeOK
  <1>8. LimitKept'
    <2>1. Running' = Running
      BY <1>4 DEF Running
    <2>2. IsFiniteSet(Running) /\ Cardinality(Running) <= limit /\ Cardinality(Running) \in Nat
          /\ limit \in Nat /\ (batch = "none" => limit = 0)
          /\ (batch = "returned" => \A c \in Workers : task[c] = "done")
      BY <1>2, FS_CardinalityType DEF BatchInv, LimitKept, TaskTypeOK
    <2>3. limit <= limit' /\ (batch' = "none" => limit' = 0)
      BY <2>2, MaxConcurrencyAssumption DEF StartBatch, Gather, Abandon, concurrentVars, taskVars
    <2>4. batch' = "returned" => \A c \in Workers : task'[c] = "done"
      BY <1>4, <2>2 DEF StartBatch, Gather, Abandon, concurrentVars, taskVars
    <2>5. Cardinality(Running) <= limit'
      BY <1>7, <2>2, <2>3 DEF TaskTypeOK
    <2> QED BY <2>1, <2>2, <2>3, <2>4, <2>5 DEF LimitKept
  <1> QED BY <1>2, <1>5, <1>6, <1>7, <1>8 DEF BatchInv

LEMMA BatchInitGood == ConcurrentInit => BatchInv
  <1> SUFFICES ASSUME ConcurrentInit PROVE BatchInv
    OBVIOUS
  <1>1. SessionInv
    BY InitGood DEF ConcurrentInit
  <1>2. \A c \in Workers : connection[c] = 0 /\ phase[c] = "idle" /\ sends[c] = 0
    BY WorkersAssumption DEF ConcurrentInit, SessionInit
  <1>3. TaskTypeOK /\ batch = "none" /\ limit = 0 /\ \A c \in Workers : task[c] = "waiting"
    BY DEF ConcurrentInit, TaskTypeOK
  <1>4. \A c \in Workers : WorkerInv(c)
    BY <1>2, <1>3 DEF WorkerInv
  <1>5. Running = {}
    BY <1>3 DEF Running
  <1>6. LimitKept
    BY <1>3, <1>5, FS_EmptySet DEF LimitKept
  <1>7. \A c, d \in Workers : ItsOwn(c, d)
    BY <1>3 DEF ItsOwn
  <1> QED BY <1>1, <1>3, <1>4, <1>6, <1>7 DEF BatchInv

(* The answers send_orders_concurrently returns (350-381) are the answers  *)
(* to its orders, each from the exchange and over a connection no other    *)
(* order used, also after retries; the sockets in use stay within          *)
(* max_concurrency but for workers whose connect() raised, and none is     *)
(* left open by a batch that returns.                                      *)
THEOREM BatchesAreAccounted == ConcurrentSpec => []BatchAccounted
  <1>1. BatchInv /\ [ConcurrentNext]_concurrentVars => BatchInv'
    <2> SUFFICES ASSUME BatchInv, [ConcurrentNext]_concurrentVars PROVE BatchInv'
      OBVIOUS
    <2>1. CASE StartBatch \/ Gather \/ Abandon \/ UNCHANGED concurrentVars
      BY <2>1, BatchCallKeeps
    <2>2. CASE PeerStep /\ UNCHANGED taskVars
      BY <2>2, PeerKeepsBatch
    <2>3. ASSUME NEW c \in Workers, WorkerStep(c) PROVE BatchInv'
      BY <2>3, EnterKeeps, EnterEndsKeeps, SendOrderKeeps, LeaveKeeps, WaitsKeeps DEF WorkerStep
    <2> QED BY <2>1, <2>2, <2>3 DEF ConcurrentNext
  <1> QED BY <1>1, BatchInitGood, BatchInvParts, PTL DEF ConcurrentSpec

===============================================================================
