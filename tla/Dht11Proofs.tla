---------------------------- MODULE Dht11Proofs ----------------------------
(***************************************************************************)
(* A proof about module Dht11 by counting edges, for any sensor, any       *)
(* timers and any preemptions.                                             *)
(***************************************************************************)
EXTENDS Dht11, FiniteSetTheorems, WellFoundedInduction, TLAPS

\* The edges of a wire up to a time.
Upto(W, u) == {e \in W : e <= u}

Seen(u) == Upto(edges, u)

\* How many the driver has passed.
Count == Cardinality(Seen(t))

Types ==
  /\ edges \subseteq Nat /\ IsFiniteSet(edges)
  /\ t \in Nat /\ sys \in 0 .. Period - 1 /\ hal \in 0 .. Period - 1
  /\ pc \in {"wake", "answer", "low", "high", "rise", "delay", "sample", "fall", "done"}
  /\ k \in Nat /\ (pc # "done" => k \in 1 .. Bits /\ ret = "none")
  /\ pc \in {"wake", "answer", "low", "high"} => k = 1

\* The driver is never ahead of the wire.
Counted == Count >= Due

\* The wire carries what the sensor sends, as long as the sensor is there.
Wired ==
  /\ sent \subseteq 1 .. Bits /\ Checksum(sent) = Sum(sent)
  /\ cut \in Nat /\ edges = CutAt(Wave(sent), cut)

\* Only a read to the end is accepted.
Checked == ret = "accepted" => pc = "done" /\ k = Bits + 1 /\ Checksum(data) = Sum(data)

\* When bit b goes up.
Rise(s, b) == Begin(s, b) + BitLow

\* The sensor was there to the end of the last bit.
Kept == Cardinality(edges) >= 2 * (Bits + 1) + 1

\* The driver has passed more edges than its place tells: it never makes up for them.
Lost == Count >= Due + 2

\* Where the driver is in a bit that nothing has disturbed, and what it has read of
\* those before.
InTime ==
  /\ \A b \in data : b < k
  /\ \A b \in 1 .. Bits : b < k /\ b \notin off => (b \in data <=> b \in sent)
  /\ k \notin off =>
       /\ pc = "rise" => t < Rise(sent, k)
       /\ pc = "delay" => t = Rise(sent, k)
       /\ pc = "sample" => t = Rise(sent, k) + Delay
       /\ pc = "fall" => k \in sent

\* What happens to one bit does nothing to the others, as long as no edge is lost.
Reads == Kept /\ ~ Lost => InTime

Quiet == Whole /\ off = {}

\* Where the driver is at what time.
Timely ==
  /\ data = {b \in sent : b < k}
  /\ pc = "wake" => t = 0
  /\ pc \in {"answer", "low"} => t = Wake
  /\ pc = "high" => t = Answer + AnswerLow
  /\ pc = "rise" => Begin(sent, k) <= t /\ t < Rise(sent, k)
  /\ pc = "delay" => t = Rise(sent, k)
  /\ pc = "sample" => t = Rise(sent, k) + Delay
  /\ pc = "fall" => k \in sent /\ t = Rise(sent, k) + Delay
  /\ pc = "done" => ret = "accepted"

OnTime == Quiet => Timely

IInv == Types /\ TypeOK /\ Counted /\ Wired /\ Checked /\ Reads /\ OnTime
-----------------------------------------------------------------------------
(* Facts about numbers and sets. *)

LEMMA BitsType == Bits \in Nat \ {0}
<1>1. \A f, w \in Nat \ {0} : (f + 1) * w \in Nat \ {0}
  OBVIOUS
<1>2. QED
  BY <1>1, DhtAssumption DEF Bits

LEMMA Rest == ASSUME NEW a \in Nat, NEW p \in Nat \ {0} PROVE a % p \in 0 .. p - 1
OBVIOUS

LEMMA MinNat ==
  ASSUME NEW S \in SUBSET Nat, S # {}
  PROVE  Min(S) \in S /\ \A y \in S : Min(S) <= y
<1>1. PICK x \in S : \A y \in S : <<y, x>> \notin OpToRel(<, Nat)
  BY ONLY WFMin, NatLessThanWellFounded, S \in SUBSET Nat, S # {}
<1>2. \A y \in S : ~ (y < x)
  BY <1>1 DEF OpToRel
<1>3. \A y \in S : x <= y
  BY <1>2
<1>4. QED
  BY <1>3 DEF Min

LEMMA SetInduction ==
  ASSUME NEW S, 0 \in S, \A n \in Nat : n \in S => n + 1 \in S
  PROVE  \A n \in Nat : n \in S
<1> DEFINE rest == Nat \ S
<1>1. SUFFICES ASSUME rest # {} PROVE FALSE
  OBVIOUS
<1>2. Min(rest) \in rest /\ \A y \in rest : Min(rest) <= y
  BY ONLY <1>1, MinNat
<1> DEFINE m == Min(rest)
<1>3. m \in Nat /\ m \notin S /\ \A y \in Nat : y \notin S => m <= y
  BY <1>2
<1> HIDE DEF m
<1>4. m # 0 /\ m - 1 \in Nat
  BY <1>3
<1>5. m - 1 \in S
  BY <1>3, <1>4
<1>6. m - 1 + 1 = m
  BY <1>3
<1>7. QED
  BY <1>3, <1>4, <1>5, <1>6

LEMMA MaxZero == ASSUME NEW a \in Int PROVE Max({0, a}) \in Nat
<1>1. \E x \in {0, a} : \A y \in {0, a} : x >= y
  OBVIOUS
<1>2. Max({0, a}) \in {0, a} /\ \A y \in {0, a} : Max({0, a}) >= y
  BY <1>1 DEF Max
<1>3. QED
  BY <1>2

LEMMA MinTwo == ASSUME NEW a \in Nat, NEW b \in Nat PROVE Min({a, b}) \in {a, b}
BY MinNat
-----------------------------------------------------------------------------
(* The wire. *)

LEMMA SeenFacts ==
  ASSUME edges \subseteq Nat, NEW u \in Nat, NEW v \in Nat, u <= v
  PROVE  /\ IsFiniteSet(Seen(u)) /\ Cardinality(Seen(u)) \in Nat
         /\ Cardinality(Seen(u)) <= Cardinality(Seen(v))
<1>1. \A w \in Nat : IsFiniteSet(Seen(w))
  <2>1. ASSUME NEW w \in Nat PROVE IsFiniteSet(Seen(w))
    <3>1. Seen(w) \in SUBSET Nat /\ \A e \in Seen(w) : e <= w
      BY DEF Seen, Upto
    <3>2. QED
      BY <3>1, FS_BoundedSetOfNaturals
  <2>2. QED
    BY <2>1
<1>2. Seen(u) \in SUBSET Seen(v)
  <2>1. \A e \in edges : e <= u => e <= v
    BY \A e \in edges : e \in Nat
  <2>2. QED
    BY <2>1 DEF Seen, Upto
<1>3. QED
  BY <1>1, <1>2, FS_CardinalityType, FS_Subset

\* A wait ends at the level it waits for, and not before it began.
LEMMA WaitFacts ==
  ASSUME edges \subseteq Nat, t \in Nat, NEW low \in BOOLEAN, Comes(low)
  PROVE  /\ FirstTime(low) \in Nat /\ FirstTime(low) >= t
         /\ (Cardinality(Seen(FirstTime(low))) % 2 = 1) = low
<1>1. CASE Low = low
  <2>1. FirstTime(low) = t
    BY <1>1 DEF FirstTime
  <2>2. QED
    BY <1>1, <2>1 DEF Low, Passed, Seen, Upto
<1>2. CASE Low # low
  <2> DEFINE ahead == {e \in edges : e > t}
             m == Min(ahead)
  <2>1. ahead \in SUBSET Nat /\ ahead # {}
    BY <1>2 DEF Comes
  <2>2. m \in ahead /\ \A y \in ahead : m <= y
    BY ONLY <2>1, MinNat
  <2>3. FirstTime(low) = m
    BY <1>2 DEF FirstTime
  <2> HIDE DEF m
  <2>4. Seen(m) = Seen(t) \union {m} /\ m \notin Seen(t) /\ m \in Nat /\ m > t
    <3>1. m \in edges /\ m \in Nat /\ m > t
      BY <2>2
    <3>2. \A e \in edges : e <= m <=> e <= t \/ e = m
      <4>1. \A e \in edges : e \in Nat /\ (e > t => m <= e)
        BY <2>2
      <4>2. QED
        BY <3>1, <4>1
    <3>3. m \notin Seen(t)
      BY <3>1 DEF Seen, Upto
    <3>4. \A e : e \in Seen(m) <=> e \in Seen(t) \/ e = m
      BY ONLY <3>1, <3>2, m <= m DEF Seen, Upto
    <3>5. QED
      BY <3>1, <3>3, <3>4
  <2>5. IsFiniteSet(Seen(t)) /\ Cardinality(Seen(t)) \in Nat
    BY SeenFacts
  <2>6. Cardinality(Seen(m)) = Cardinality(Seen(t)) + 1
    BY <2>4, <2>5, FS_AddElement
  <2>7. Low = (Cardinality(Seen(t)) % 2 = 1)
    BY DEF Low, Passed, Seen, Upto
  <2>8. \A n \in Nat : ((n + 1) % 2 = 1) = ~ (n % 2 = 1)
    OBVIOUS
  <2>9. (Cardinality(Seen(m)) % 2 = 1) = ~ Low
    BY ONLY <2>5, <2>6, <2>7, <2>8
  <2>10. QED
    BY <1>2, <2>3, <2>4, <2>9 DEF Low
<1>3. QED
  BY <1>1, <1>2

\* No edge is passed over by a wait.
LEMMA FirstEdge ==
  ASSUME edges \subseteq Nat, t \in Nat, NEW low \in BOOLEAN, NEW e \in edges, e > t
  PROVE  Comes(low) /\ FirstTime(low) <= e
<1>1. Comes(low) /\ e \in Nat /\ t <= e
  BY DEF Comes
<1>2. CASE Low = low
  <2>1. FirstTime(low) = t
    BY <1>2 DEF FirstTime
  <2>2. QED
    BY <1>1, <2>1
<1>3. CASE Low # low
  <2> DEFINE ahead == {x \in edges : x > t}
  <2>1. ahead \in SUBSET Nat /\ e \in ahead
    OBVIOUS
  <2>2. Min(ahead) <= e
    BY ONLY <2>1, MinNat
  <2>3. FirstTime(low) = Min(ahead)
    BY <1>3 DEF FirstTime
  <2>4. QED
    BY <1>1, <2>2, <2>3
<1>4. QED
  BY <1>2, <1>3

LEMMA CountStays ==
  ASSUME edges \subseteq Nat, t \in Nat, t' \in Nat, t' >= t, edges' = edges
  PROVE  Count' >= Count /\ Count \in Nat /\ Count' \in Nat /\ Count' = Cardinality(Seen(t'))
<1>1. Seen(t)' = Seen(t')
  BY DEF Seen, Upto
<1>2. QED
  BY <1>1, SeenFacts DEF Count
-----------------------------------------------------------------------------
(* The delays. *)

LEMMA DelayFacts ==
  ASSUME Types, NEW d \in 1 .. Period
  PROVE  DelayEnd(d) \in Nat /\ DelayEnd(d) >= t
<1>1. Period \in Nat \ {0}
  BY DhtAssumption
<1>2. NextTick \in Nat /\ NextTick > t
  <2>1. (t + hal) % Period \in 0 .. Period - 1
    BY <1>1, Rest DEF Types
  <2>2. QED
    BY <1>1, <2>1 DEF NextTick, Types
<1>3. \A u \in Nat : SysTickVal(u) \in 0 .. Period - 1
  <2>1. \A u \in Nat : (u + sys) % Period \in 0 .. Period - 1
    BY <1>1, Rest DEF Types
  <2>2. QED
    BY <1>1, <2>1 DEF SysTickVal
<1>4. Max({0, SysTickVal(NextTick) - (Period + SysTickVal(t) - d)}) \in Nat
  BY <1>1, <1>2, <1>3, MaxZero DEF Types
<1>5. Min({t + d, NextTick}) \in {t + d, NextTick}
  BY <1>2, MinTwo DEF Types
<1>6. QED
  BY <1>2, <1>4, <1>5 DEF DelayEnd, Types

-----------------------------------------------------------------------------
(* The wave. *)

LEMMA LengthFacts ==
  /\ Answer \in Nat /\ AnswerLow \in Nat \ {0} /\ AnswerHigh \in Nat \ {0}
  /\ BitLow \in Nat \ {0} /\ High0 \in Nat \ {0} /\ High1 \in Nat \ {0}
  /\ Wake \in 1 .. Period /\ Delay \in 1 .. Period /\ Period \in Nat \ {0}
<1>1. \A d \in 1 .. Period : d \in Nat \ {0}
  BY DhtAssumption
<1>2. QED
  BY <1>1, DhtAssumption

LEMMA BeginType ==
  ASSUME NEW s, NEW b \in 1 .. Bits + 1
  PROVE  Begin(s, b) \in Nat
<1> DEFINE before == 1 .. b - 1
           ones == s \intersect before
<1>1. b - 1 \in Nat /\ IsFiniteSet(before)
  BY BitsType, FS_Interval
<1>2. ones \in SUBSET before /\ before \ ones \in SUBSET before
  OBVIOUS
<1>3. Cardinality(ones) \in Nat /\ Cardinality(before \ ones) \in Nat
  BY ONLY <1>1, <1>2, FS_Subset, FS_CardinalityType
<1>4. /\ Answer \in Nat /\ AnswerLow \in Nat /\ AnswerHigh \in Nat /\ BitLow \in Nat
      /\ High0 \in Nat /\ High1 \in Nat
  BY LengthFacts
<1>5. \A m, n \in Nat : m * n \in Nat
  OBVIOUS
<1>6. /\ (b - 1) * BitLow \in Nat /\ Cardinality(ones) * High1 \in Nat
      /\ Cardinality(before \ ones) * High0 \in Nat
  BY ONLY <1>1, <1>3, <1>4, <1>5
<1>7. Begin(s, b) = Answer + AnswerLow + AnswerHigh + (b - 1) * BitLow
                      + Cardinality(ones) * High1 + Cardinality(before \ ones) * High0
  BY DEF Begin
<1>8. QED
  BY ONLY <1>4, <1>6, <1>7

LEMMA WaveFacts == ASSUME NEW s PROVE Wave(s) \subseteq Nat /\ IsFiniteSet(Wave(s))
<1> DEFINE B == 1 .. Bits + 1
           ups == [b \in B |-> Begin(s, b)]
           downs == [b \in B |-> Begin(s, b) + BitLow]
           U == {Begin(s, b) : b \in B}
           D == {Begin(s, b) + BitLow : b \in B}
           R == {Answer, Answer + AnswerLow}
<1>1. IsFiniteSet(B)
  BY BitsType, FS_Interval
<1>2. ups \in Surjection(B, U) /\ downs \in Surjection(B, D)
  BY DEF Surjection
<1>3. IsFiniteSet(U) /\ IsFiniteSet(D)
  BY ONLY <1>1, <1>2, FS_Surjection
<1>4. IsFiniteSet(R)
  <2>1. R = {Answer} \union {Answer + AnswerLow}
    OBVIOUS
  <2>2. IsFiniteSet({Answer}) /\ IsFiniteSet({Answer + AnswerLow})
    BY ONLY FS_Singleton
  <2>3. IsFiniteSet({Answer} \union {Answer + AnswerLow})
    BY ONLY <2>2, FS_Union
  <2>4. QED
    BY ONLY <2>1, <2>3
<1>5. U \subseteq Nat /\ D \subseteq Nat /\ R \subseteq Nat
  BY BeginType, DhtAssumption
<1>6. Wave(s) = R \union U \union D
  BY DEF Wave
<1> HIDE DEF R, U, D
<1>7. IsFiniteSet(R \union U \union D)
  BY <1>3, <1>4, FS_Union
<1>8. QED
  BY <1>5, <1>6, <1>7

LEMMA FirstBegin == ASSUME NEW s PROVE Begin(s, 1) = Answer + AnswerLow + AnswerHigh
<1>1. s \intersect (1 .. 1 - 1) = {} /\ (1 .. 1 - 1) \ (s \intersect (1 .. 1 - 1)) = {}
  OBVIOUS
<1>2. Cardinality({}) = 0
  BY FS_EmptySet
<1>3. /\ Answer \in Nat /\ AnswerLow \in Nat /\ AnswerHigh \in Nat /\ BitLow \in Nat
      /\ High0 \in Nat /\ High1 \in Nat
  BY LengthFacts
<1>4. Begin(s, 1) = Answer + AnswerLow + AnswerHigh + (1 - 1) * BitLow + 0 * High1 + 0 * High0
  BY <1>1, <1>2 DEF Begin
<1>5. \A x \in Nat : 0 * x = 0 /\ (1 - 1) * x = 0
  OBVIOUS
<1>6. QED
  BY <1>3, <1>4, <1>5

\* A bit lasts as long as its level says.
LEMMA NextBegin ==
  ASSUME NEW s, NEW b \in 1 .. Bits
  PROVE  Begin(s, b + 1) = Rise(s, b) + (IF b \in s THEN High1 ELSE High0)
<1> DEFINE before == 1 .. b - 1
           ones == s \intersect before
           zeros == before \ ones
           before2 == 1 .. b + 1 - 1
           ones2 == s \intersect before2
           zeros2 == before2 \ ones2
<1>1. b - 1 \in Nat /\ IsFiniteSet(before) /\ before2 = before \union {b} /\ b \notin before
  BY BitsType, FS_Interval
<1>2. ones \in SUBSET before /\ zeros \in SUBSET before
  OBVIOUS
<1>3. /\ IsFiniteSet(ones) /\ IsFiniteSet(zeros)
      /\ Cardinality(ones) \in Nat /\ Cardinality(zeros) \in Nat
  BY ONLY <1>1, <1>2, FS_Subset, FS_CardinalityType
<1>4. /\ Answer \in Nat /\ AnswerLow \in Nat /\ AnswerHigh \in Nat /\ BitLow \in Nat
      /\ High0 \in Nat /\ High1 \in Nat
  BY LengthFacts
<1>5. /\ Begin(s, b) = Answer + AnswerLow + AnswerHigh + (b - 1) * BitLow
                         + Cardinality(ones) * High1 + Cardinality(zeros) * High0
      /\ Begin(s, b + 1) = Answer + AnswerLow + AnswerHigh + (b + 1 - 1) * BitLow
                         + Cardinality(ones2) * High1 + Cardinality(zeros2) * High0
  BY DEF Begin
<1>6. \A m, n \in Nat : (m + 1) * n = m * n + n /\ m * n \in Nat
  OBVIOUS
<1>7. (b + 1 - 1) * BitLow = (b - 1) * BitLow + BitLow /\ (b - 1) * BitLow \in Nat
  <2>1. b + 1 - 1 = (b - 1) + 1
    BY <1>1
  <2>2. QED
    BY ONLY <1>1, <1>4, <1>6, <2>1
<1>8. CASE b \in s
  <2>1. ones2 = ones \union {b} /\ zeros2 = zeros /\ b \notin ones
    BY ONLY <1>1, <1>8
  <2>2. Cardinality(ones2) = Cardinality(ones) + 1 /\ Cardinality(zeros2) = Cardinality(zeros)
    BY ONLY <1>3, <2>1, FS_AddElement
  <2>3. /\ Cardinality(ones2) * High1 = Cardinality(ones) * High1 + High1
        /\ Cardinality(ones) * High1 \in Nat /\ Cardinality(zeros) * High0 \in Nat
    BY ONLY <1>3, <1>4, <1>6, <2>2
  <2> HIDE DEF ones, zeros, ones2, zeros2
  <2>4. QED
    BY <1>4, <1>5, <1>7, <1>8, <2>2, <2>3 DEF Rise
<1>9. CASE b \notin s
  <2>1. ones2 = ones /\ zeros2 = zeros \union {b} /\ b \notin zeros
    BY ONLY <1>1, <1>9
  <2>2. Cardinality(zeros2) = Cardinality(zeros) + 1 /\ Cardinality(ones2) = Cardinality(ones)
    BY ONLY <1>3, <2>1, FS_AddElement
  <2>3. /\ Cardinality(zeros2) * High0 = Cardinality(zeros) * High0 + High0
        /\ Cardinality(ones) * High1 \in Nat /\ Cardinality(zeros) * High0 \in Nat
    BY ONLY <1>3, <1>4, <1>6, <2>2
  <2> HIDE DEF ones, zeros, ones2, zeros2
  <2>4. QED
    BY <1>4, <1>5, <1>7, <1>9, <2>2, <2>3 DEF Rise
<1>10. QED
  BY <1>8, <1>9

\* The edges of the bits come one after the other.
LEMMA EdgesInOrder ==
  ASSUME NEW s, NEW b \in 1 .. Bits + 1
  PROVE  /\ Answer + AnswerLow < Begin(s, b)
         /\ \A c \in 1 .. b - 1 : Rise(s, c) < Begin(s, b)
<1> DEFINE S == {n \in Nat : n + 1 \in 1 .. Bits + 1 =>
                   /\ Answer + AnswerLow < Begin(s, n + 1)
                   /\ \A c \in 1 .. n : Rise(s, c) < Begin(s, n + 1)}
<1>1. 0 \in S
  <2>1. Begin(s, 0 + 1) = Answer + AnswerLow + AnswerHigh
    BY FirstBegin
  <2>2. \A c \in 1 .. 0 : FALSE
    OBVIOUS
  <2>3. QED
    BY <2>1, <2>2, LengthFacts
<1>2. ASSUME NEW n \in Nat, n \in S PROVE n + 1 \in S
  <2>1. SUFFICES ASSUME n + 1 + 1 \in 1 .. Bits + 1
                 PROVE  /\ Answer + AnswerLow < Begin(s, n + 1 + 1)
                        /\ \A c \in 1 .. n + 1 : Rise(s, c) < Begin(s, n + 1 + 1)
    OBVIOUS
  <2>2. n + 1 \in 1 .. Bits /\ n + 1 \in 1 .. Bits + 1
    BY <2>1, BitsType
  <2>3. Answer + AnswerLow < Begin(s, n + 1) /\ \A c \in 1 .. n : Rise(s, c) < Begin(s, n + 1)
    BY <1>2, <2>2
  <2>4. Rise(s, n + 1) < Begin(s, n + 1 + 1) /\ Begin(s, n + 1) < Begin(s, n + 1 + 1)
    <3>1. Begin(s, n + 1) \in Nat
      BY <2>2, BeginType
    <3>2. Begin(s, n + 1 + 1) = Rise(s, n + 1) + (IF n + 1 \in s THEN High1 ELSE High0)
      BY <2>2, NextBegin
    <3>3. QED
      BY <3>1, <3>2, LengthFacts DEF Rise
  <2>5. Begin(s, n + 1) \in Nat /\ Begin(s, n + 1 + 1) \in Nat
    BY <2>1, <2>2, BeginType
  <2>6. ASSUME NEW c \in 1 .. n + 1 PROVE Rise(s, c) < Begin(s, n + 1 + 1)
    <3>1. CASE c = n + 1
      BY <2>4, <3>1
    <3>2. CASE c \in 1 .. n
      <4>1. c \in 1 .. Bits + 1
        BY <2>2, <3>2, BitsType
      <4>2. Rise(s, c) \in Nat
        BY <4>1, BeginType, LengthFacts DEF Rise
      <4>3. QED
        BY <2>3, <2>4, <2>5, <3>2, <4>2
    <3>3. QED
      BY <3>1, <3>2
  <2>7. QED
    BY <2>3, <2>4, <2>5, <2>6, LengthFacts
<1>3. b - 1 \in Nat /\ b - 1 + 1 = b
  BY BitsType
<1>4. b - 1 \in S
  <2> HIDE DEF S
  <2>1. \A n \in Nat : n \in S
    BY ONLY <1>1, <1>2, SetInduction
  <2>2. QED
    BY <1>3, <2>1
<1>5. QED
  BY <1>3, <1>4

\* Begin(s, b), Rise(s, b) and what is known of two of them.
LEMMA OrderFacts ==
  ASSUME NEW s, NEW b \in 1 .. Bits + 1, NEW c \in 1 .. Bits + 1
  PROVE  /\ Begin(s, b) \in Nat /\ Rise(s, b) \in Nat /\ Begin(s, b) < Rise(s, b)
         /\ Answer + AnswerLow < Begin(s, b)
         /\ c < b => Rise(s, c) < Begin(s, b)
<1>1. c < b => c \in 1 .. b - 1
  BY BitsType
<1>2. QED
  BY <1>1, BeginType, EdgesInOrder, LengthFacts DEF Rise

\* No edge lies between two that follow each other.
LEMMA NoEdgeBetween ==
  ASSUME NEW s, NEW z \in Wave(s)
  PROVE  /\ z >= Answer /\ ~ (Answer < z /\ z < Answer + AnswerLow)
         /\ ~ (Answer + AnswerLow < z /\ z < Begin(s, 1))
         /\ \A b \in 1 .. Bits : /\ ~ (Begin(s, b) < z /\ z < Rise(s, b))
                                /\ ~ (Rise(s, b) < z /\ z < Begin(s, b + 1))
<1>1. Bits \in Nat \ {0} /\ 1 \in 1 .. Bits + 1
  BY BitsType
<1>2. CASE z \in {Answer, Answer + AnswerLow}
  <2>1. z \in Nat /\ z <= Answer + AnswerLow /\ Answer <= z /\ ~ (Answer < z /\ z < Answer + AnswerLow)
    BY <1>2, LengthFacts
  <2>2. \A b \in 1 .. Bits + 1 : z < Begin(s, b) /\ z < Rise(s, b) /\ Begin(s, b) \in Nat /\ Rise(s, b) \in Nat
    BY <2>1, OrderFacts, LengthFacts
  <2>3. \A b \in 1 .. Bits : b \in 1 .. Bits + 1 /\ b + 1 \in 1 .. Bits + 1
    BY <1>1
  <2>4. QED
    BY <2>1, <2>2, <2>3, LengthFacts
<1>3. ASSUME NEW c \in 1 .. Bits + 1, z = Begin(s, c) \/ z = Rise(s, c)
      PROVE  /\ Answer + AnswerLow < z /\ z >= Begin(s, 1)
             /\ \A b \in 1 .. Bits : /\ ~ (Begin(s, b) < z /\ z < Rise(s, b))
                                    /\ ~ (Rise(s, b) < z /\ z < Begin(s, b + 1))
  <2>1. /\ Begin(s, c) \in Nat /\ Rise(s, c) \in Nat /\ Begin(s, c) < Rise(s, c)
        /\ Answer + AnswerLow < Begin(s, c)
    BY OrderFacts
  <2>2. Answer + AnswerLow < z
    BY <1>3, <2>1, LengthFacts
  <2>3. z >= Begin(s, 1)
    <3>1. CASE c = 1
      BY <1>3, <2>1, <3>1
    <3>2. CASE 1 < c
      <4>1. Rise(s, 1) < Begin(s, c) /\ Begin(s, 1) < Rise(s, 1) /\ Begin(s, 1) \in Nat /\ Rise(s, 1) \in Nat
        BY <1>1, <3>2, OrderFacts
      <4>2. QED
        BY <1>3, <2>1, <4>1
    <3>3. QED
      BY <3>1, <3>2
  <2>4. ASSUME NEW b \in 1 .. Bits
        PROVE  /\ ~ (Begin(s, b) < z /\ z < Rise(s, b))
               /\ ~ (Rise(s, b) < z /\ z < Begin(s, b + 1))
    <3>1. b \in 1 .. Bits + 1 /\ b + 1 \in 1 .. Bits + 1 /\ b < b + 1
      BY <1>1
    <3>2. /\ Begin(s, b) \in Nat /\ Rise(s, b) \in Nat /\ Begin(s, b) < Rise(s, b)
          /\ Begin(s, b + 1) \in Nat /\ Rise(s, b + 1) \in Nat /\ Rise(s, b) < Begin(s, b + 1)
          /\ Begin(s, b + 1) < Rise(s, b + 1)
      BY <3>1, OrderFacts
    <3>3. CASE c < b
      <4>1. Rise(s, c) < Begin(s, b)
        BY <3>1, <3>3, OrderFacts
      <4>2. QED
        BY ONLY <1>3, <2>1, <3>2, <4>1
    <3>4. CASE c = b \/ c = b + 1
      BY ONLY <1>3, <2>1, <3>2, <3>4
    <3>5. CASE b + 1 < c
      <4>1. Rise(s, b + 1) < Begin(s, c)
        BY <3>1, <3>5, OrderFacts
      <4>2. QED
        BY ONLY <1>3, <2>1, <3>2, <4>1
    <3>6. QED
      BY <1>1, <3>3, <3>4, <3>5
  <2>5. QED
    BY <2>2, <2>3, <2>4
<1>4. CASE \E c \in 1 .. Bits + 1 : z = Begin(s, c) \/ z = Rise(s, c)
  <2>1. z \in Nat /\ Answer + AnswerLow < z
    BY <1>3, <1>4, OrderFacts
  <2>2. QED
    BY <1>3, <1>4, <2>1, OrderFacts, <1>1, LengthFacts
<1>5. QED
  BY <1>2, <1>4 DEF Wave, Rise

LEMMA OneMore ==
  ASSUME NEW W \in SUBSET Nat, NEW x \in Nat, NEW y \in W, x < y,
         \A z \in W : ~ (x < z /\ z < y)
  PROVE  Cardinality(Upto(W, y)) = Cardinality(Upto(W, x)) + 1
<1>1. IsFiniteSet(Upto(W, x))
  <2>1. Upto(W, x) \in SUBSET Nat /\ \A e \in Upto(W, x) : e <= x
    BY DEF Upto
  <2>2. QED
    BY <2>1, FS_BoundedSetOfNaturals
<1>2. \A z \in W : z \in Nat /\ (z <= y <=> z <= x \/ z = y)
  OBVIOUS
<1>3. Upto(W, y) = Upto(W, x) \union {y} /\ y \notin Upto(W, x)
  <2>1. y \notin Upto(W, x)
    BY DEF Upto
  <2>2. \A z : z \in Upto(W, y) <=> z \in Upto(W, x) \/ z = y
    BY ONLY <1>2, y \in W, y <= y DEF Upto
  <2>3. QED
    BY <2>1, <2>2
<1>4. QED
  BY <1>1, <1>3, FS_AddElement

\* The wave of an answer, counted; W has its edges up to the end of the last bit.
LEMMA WaveCounts ==
  ASSUME NEW s, NEW W \in SUBSET Nat,
         \A u \in Nat : u <= Begin(s, Bits + 1) => (u \in W <=> u \in Wave(s))
  PROVE  /\ Cardinality(Upto(W, Answer)) = 1
         /\ Cardinality(Upto(W, Answer + AnswerLow)) = 2
         /\ \A b \in 1 .. Bits + 1 : Cardinality(Upto(W, Begin(s, b))) = 2 * b + 1
         /\ \A b \in 1 .. Bits : Cardinality(Upto(W, Rise(s, b))) = 2 * b + 2
<1>1. Bits \in Nat \ {0} /\ 1 \in 1 .. Bits + 1 /\ Bits + 1 \in 1 .. Bits + 1
  BY BitsType
<1> DEFINE last == Begin(s, Bits + 1)
<1>2. last \in Nat /\ Answer + AnswerLow < last
  BY <1>1, OrderFacts
<1>3. \A b \in 1 .. Bits + 1 : Begin(s, b) \in Nat /\ Begin(s, b) <= last /\ Begin(s, b) \in Wave(s)
  <2>1. ASSUME NEW b \in 1 .. Bits + 1
        PROVE  Begin(s, b) \in Nat /\ Begin(s, b) <= last
    <3>1. /\ Begin(s, b) \in Nat /\ Rise(s, b) \in Nat /\ Begin(s, b) < Rise(s, b)
          /\ b < Bits + 1 => Rise(s, b) < last
      BY <1>1, OrderFacts
    <3>2. b < Bits + 1 \/ b = Bits + 1
      BY <1>1
    <3>3. QED
      BY <1>1, <1>2, <3>1, <3>2
  <2>2. QED
    BY <2>1 DEF Wave
<1>4. \A b \in 1 .. Bits : Rise(s, b) \in Nat /\ Rise(s, b) <= last /\ Rise(s, b) \in Wave(s)
  <2>1. ASSUME NEW b \in 1 .. Bits
        PROVE  Rise(s, b) \in Nat /\ Rise(s, b) <= last /\ Rise(s, b) \in Wave(s)
    <3>1. b \in 1 .. Bits + 1 /\ b < Bits + 1
      BY <1>1
    <3>2. Rise(s, b) \in Nat /\ Rise(s, b) < last
      BY <1>1, <3>1, OrderFacts
    <3>3. Rise(s, b) \in Wave(s)
      BY <3>1 DEF Wave, Rise
    <3>4. QED
      BY <1>2, <3>2, <3>3
  <2>2. QED
    BY <2>1
<1>5. /\ Answer \in W /\ Answer + AnswerLow \in W
      /\ \A b \in 1 .. Bits + 1 : Begin(s, b) \in W
      /\ \A b \in 1 .. Bits : Rise(s, b) \in W
  <2>1. Answer \in Wave(s) /\ Answer + AnswerLow \in Wave(s)
    BY DEF Wave
  <2>2. \A b \in 1 .. Bits : b \in 1 .. Bits + 1 /\ b <= Bits
    BY <1>1
  <2>3. Answer \in Nat /\ Answer + AnswerLow \in Nat /\ Answer <= last /\ Answer + AnswerLow <= last
    BY <1>2, LengthFacts
  <2>4. \A u \in Nat : u <= last /\ u \in Wave(s) => u \in W
    OBVIOUS
  <2> HIDE DEF last
  <2>5. QED
    BY ONLY <1>3, <1>4, <2>1, <2>2, <2>3, <2>4
<1>6. \A z \in W : z \in Nat /\ (z <= last => z \in Wave(s))
  OBVIOUS
<1> HIDE DEF last
<1>7. Cardinality(Upto(W, Answer)) = 1
  <2>1. \A z \in W : z <= Answer => z = Answer
    BY <1>2, <1>6, NoEdgeBetween, LengthFacts
  <2>2. Upto(W, Answer) = {Answer}
    <3>1. Answer <= Answer
      BY LengthFacts
    <3>2. \A z : z \in Upto(W, Answer) <=> z = Answer
      BY ONLY <1>5, <2>1, <3>1 DEF Upto
    <3>3. QED
      BY <3>2
  <2>3. QED
    BY <2>2, FS_Singleton
<1>8. Cardinality(Upto(W, Answer + AnswerLow)) = 2
  <2>1. \A z \in W : ~ (Answer < z /\ z < Answer + AnswerLow)
    BY <1>2, <1>6, NoEdgeBetween, LengthFacts
  <2>2. QED
    BY <1>5, <1>7, <2>1, OneMore, LengthFacts
<1>9. Cardinality(Upto(W, Begin(s, 1))) = 3
  <2>1. ASSUME NEW z \in W PROVE ~ (Answer + AnswerLow < z /\ z < Begin(s, 1))
    <3>1. z \in Nat /\ Begin(s, 1) \in Nat /\ Begin(s, 1) <= last
      BY ONLY <1>1, <1>3, <1>6, z \in W
    <3>2. z < Begin(s, 1) => z \in Wave(s)
      BY <1>2, <1>6, <3>1
    <3>3. QED
      BY <3>2, NoEdgeBetween
  <2>2. Answer + AnswerLow < Begin(s, 1) /\ Answer + AnswerLow \in Nat
    BY <1>1, OrderFacts, LengthFacts
  <2>3. QED
    <3>1. Begin(s, 1) \in W
      BY ONLY <1>1, <1>5
    <3>2. Cardinality(Upto(W, Begin(s, 1))) = Cardinality(Upto(W, Answer + AnswerLow)) + 1
      BY ONLY W \in SUBSET Nat, <2>1, <2>2, <3>1, OneMore
    <3>3. QED
      BY <1>8, <3>2
<1>10. \A b \in 1 .. Bits : Cardinality(Upto(W, Rise(s, b))) = Cardinality(Upto(W, Begin(s, b))) + 1
  <2>1. ASSUME NEW b \in 1 .. Bits
        PROVE  Cardinality(Upto(W, Rise(s, b))) = Cardinality(Upto(W, Begin(s, b))) + 1
    <3>1. b \in 1 .. Bits + 1 /\ b <= Bits
      BY <1>1
    <3>2. ASSUME NEW z \in W PROVE ~ (Begin(s, b) < z /\ z < Rise(s, b))
      <4>1. z < Rise(s, b) => z \in Wave(s)
        BY ONLY <1>2, <1>6, <1>4, z \in W, b \in 1 .. Bits
      <4>2. QED
        BY <4>1, NoEdgeBetween
    <3>3. Begin(s, b) < Rise(s, b)
      BY <3>1, OrderFacts
    <3>4. QED
      BY <1>3, <1>5, <1>4, <3>1, <3>2, <3>3, OneMore
  <2>2. QED
    BY <2>1
<1>11. \A b \in 1 .. Bits : Cardinality(Upto(W, Begin(s, b + 1))) = Cardinality(Upto(W, Rise(s, b))) + 1
  <2>1. ASSUME NEW b \in 1 .. Bits
        PROVE  Cardinality(Upto(W, Begin(s, b + 1))) = Cardinality(Upto(W, Rise(s, b))) + 1
    <3>1. b \in 1 .. Bits + 1 /\ b + 1 \in 1 .. Bits + 1 /\ b < b + 1
      BY <1>1
    <3>2. ASSUME NEW z \in W PROVE ~ (Rise(s, b) < z /\ z < Begin(s, b + 1))
      <4>1. z < Begin(s, b + 1) => z \in Wave(s)
        BY ONLY <1>2, <1>3, <1>6, <3>1, z \in W
      <4>2. QED
        BY <4>1, NoEdgeBetween
    <3>3. Rise(s, b) < Begin(s, b + 1)
      BY <3>1, OrderFacts
    <3>4. QED
      BY <1>3, <1>5, <1>4, <3>1, <3>2, <3>3, OneMore
  <2>2. QED
    BY <2>1
<1> DEFINE S == {n \in Nat : n + 1 \in 1 .. Bits + 1 => Cardinality(Upto(W, Begin(s, n + 1))) = 2 * n + 3}
<1>12. 0 \in S
  BY <1>9
<1>13. ASSUME NEW n \in Nat, n \in S PROVE n + 1 \in S
  <2>1. SUFFICES ASSUME n + 1 + 1 \in 1 .. Bits + 1
                 PROVE  Cardinality(Upto(W, Begin(s, n + 1 + 1))) = 2 * (n + 1) + 3
    OBVIOUS
  <2>2. n + 1 \in 1 .. Bits /\ n + 1 \in 1 .. Bits + 1
    BY <1>1, <2>1
  <2>3. Cardinality(Upto(W, Begin(s, n + 1))) = 2 * n + 3
    BY <1>13, <2>2
  <2>4. Cardinality(Upto(W, Begin(s, n + 1 + 1))) = 2 * n + 3 + 1 + 1
    BY <1>10, <1>11, <2>2, <2>3
  <2>5. QED
    BY <2>4
<1>14. \A b \in 1 .. Bits + 1 : Cardinality(Upto(W, Begin(s, b))) = 2 * b + 1
  <2>1. \A n \in Nat : n \in S
    <3> HIDE DEF S
    <3>1. QED
      BY ONLY <1>12, <1>13, SetInduction
  <2>2. \A b \in 1 .. Bits + 1 : b - 1 \in Nat /\ b - 1 + 1 = b /\ 2 * (b - 1) + 3 = 2 * b + 1
    BY <1>1
  <2>3. QED
    BY <2>1, <2>2
<1>15. \A b \in 1 .. Bits : Cardinality(Upto(W, Rise(s, b))) = 2 * b + 2
  <2>1. \A b \in 1 .. Bits : b \in 1 .. Bits + 1 /\ 2 * b + 1 + 1 = 2 * b + 2
    BY <1>1
  <2>2. QED
    BY <1>10, <1>14, <2>1
<1>16. QED
  BY <1>7, <1>8, <1>14, <1>15

\* The wave ends with the low behind the last bit.
LEMMA LastEdges ==
  ASSUME NEW s, NEW z \in Wave(s)
  PROVE  z <= Begin(s, Bits + 1) \/ z = Rise(s, Bits + 1)
<1> DEFINE last == Begin(s, Bits + 1)
           end  == Rise(s, Bits + 1)
<1>1. Bits \in Nat \ {0} /\ Bits + 1 \in 1 .. Bits + 1
  BY BitsType
<1>2. CASE z \in {Answer, Answer + AnswerLow}
  BY <1>1, <1>2, OrderFacts, LengthFacts
<1>3. CASE \E c \in 1 .. Bits + 1 : z = Begin(s, c) \/ z = Rise(s, c)
  <2>1. PICK c \in 1 .. Bits + 1 : z = Begin(s, c) \/ z = Rise(s, c)
    BY <1>3
  <2>2. CASE c = Bits + 1
    BY <1>1, <2>1, <2>2, OrderFacts
  <2>3. CASE c < Bits + 1
    <3>1. /\ Begin(s, c) \in Nat /\ Rise(s, c) \in Nat /\ Begin(s, c) < Rise(s, c)
          /\ Rise(s, c) < last /\ last \in Nat
      BY <1>1, <2>3, OrderFacts
    <3>2. QED
      BY <2>1, <3>1
  <2>4. QED
    BY <1>1, <2>2, <2>3
<1>4. QED
  BY <1>2, <1>3 DEF Wave, Rise

LEMMA WaveSize ==
  ASSUME NEW s
  PROVE  Cardinality(Wave(s)) <= 2 * Bits + 4
<1> DEFINE last == Begin(s, Bits + 1)
           body == Upto(Wave(s), last)
           end  == Rise(s, Bits + 1)
<1>1. Bits \in Nat \ {0} /\ Bits + 1 \in 1 .. Bits + 1
  BY BitsType
<1>2. Cardinality(body) = 2 * (Bits + 1) + 1
  BY <1>1, WaveFacts, WaveCounts
<1>3. IsFiniteSet(body)
  BY WaveFacts, FS_Subset DEF Upto
<1>4. Wave(s) \subseteq body \union {end}
  BY LastEdges DEF Upto
<1> HIDE DEF last, body, end
<1>5. IsFiniteSet(body \union {end}) /\ Cardinality(body \union {end}) <= Cardinality(body) + 1
  BY <1>1, <1>2, <1>3, FS_AddElement
<1>6. Cardinality(Wave(s)) <= Cardinality(body \union {end})
  BY <1>4, <1>5, FS_Subset
<1>7. Cardinality(Wave(s)) \in Nat /\ Cardinality(body \union {end}) \in Nat
  BY <1>5, WaveFacts, FS_CardinalityType
<1>8. QED
  BY <1>1, <1>2, <1>5, <1>6, <1>7

\* A sensor that leaves enough edges was there to the end of the last bit.
LEMMA CutFacts ==
  ASSUME NEW s, NEW c \in Nat, NEW E, E = CutAt(Wave(s), c)
  PROVE  /\ Cardinality(E) <= 2 * Bits + 4
         /\ Cardinality(E) >= 2 * Bits + 3 =>
              \A u \in Nat : u <= Begin(s, Bits + 1) => (u \in E <=> u \in Wave(s))
<1> DEFINE last == Begin(s, Bits + 1)
           stays == {e \in Wave(s) : e < c}
<1>1. Bits \in Nat \ {0} /\ Bits + 1 \in 1 .. Bits + 1 /\ last \in Nat
  BY BitsType, BeginType
<1>2. E = IF Cardinality(stays) % 2 = 1 THEN stays \union {c} ELSE stays
  BY DEF CutAt
<1>3. IsFiniteSet(stays) /\ Cardinality(stays) \in Nat /\ Cardinality(stays) <= 2 * Bits + 4
  <2>1. IsFiniteSet(Wave(s)) /\ stays \in SUBSET Wave(s)
    BY WaveFacts
  <2>2. IsFiniteSet(stays) /\ Cardinality(stays) <= Cardinality(Wave(s))
    BY ONLY <2>1, FS_Subset
  <2>3. Cardinality(stays) \in Nat /\ Cardinality(Wave(s)) \in Nat
    BY ONLY <2>1, <2>2, FS_CardinalityType
  <2>4. QED
    BY ONLY <1>1, <2>2, <2>3, WaveSize
<1>4. Cardinality(E) = IF Cardinality(stays) % 2 = 1 THEN Cardinality(stays) + 1 ELSE Cardinality(stays)
  <2>1. c \notin stays
    OBVIOUS
  <2> HIDE DEF stays
  <2>2. QED
    BY <1>2, <1>3, <2>1, FS_AddElement
<1>5. Cardinality(E) <= 2 * Bits + 4
  <2>1. \A n \in Nat : n <= 2 * Bits + 4 /\ n % 2 = 1 => n + 1 <= 2 * Bits + 4
    BY <1>1
  <2> HIDE DEF stays
  <2>2. QED
    BY <1>1, <1>3, <1>4, <2>1
<1>6. CASE c <= last
  <2> DEFINE body == Upto(Wave(s), last)
  <2>1. last \in body /\ IsFiniteSet(body) /\ Cardinality(body) = 2 * (Bits + 1) + 1
    <3>1. last \in body
      BY <1>1 DEF Wave, Upto
    <3>2. IsFiniteSet(body)
      BY WaveFacts, FS_Subset DEF Upto
    <3>3. Cardinality(body) = 2 * (Bits + 1) + 1
      BY <1>1, WaveFacts, WaveCounts
    <3>4. QED
      BY <3>1, <3>2, <3>3
  <2>2. stays \subseteq body \ {last}
    <3>1. \A e \in Wave(s) : e < c => e <= last /\ e # last
      BY <1>1, <1>6, WaveFacts
    <3>2. QED
      BY <3>1 DEF Upto
  <2> HIDE DEF stays, body, last
  <2>3. IsFiniteSet(body \ {last}) /\ Cardinality(body \ {last}) = 2 * Bits + 2
    BY <1>1, <2>1, FS_RemoveElement
  <2>4. Cardinality(stays) <= 2 * Bits + 2
    BY <2>2, <2>3, FS_Subset
  <2>5. \A n \in Nat : n <= 2 * Bits + 2 /\ n % 2 = 1 => n + 1 <= 2 * Bits + 2
    BY <1>1
  <2>6. Cardinality(E) <= 2 * Bits + 2 /\ Cardinality(E) \in Nat
    BY <1>1, <1>3, <1>4, <2>4, <2>5
  <2>7. ~ (Cardinality(E) >= 2 * Bits + 3)
    BY <1>1, <2>6
  <2>8. QED
    BY <1>5, <2>7
<1>7. CASE c > last
  <2>1. \A u \in Nat : u <= last => (u \in stays <=> u \in Wave(s)) /\ u # c
    BY <1>1, <1>7
  <2> HIDE DEF stays, last
  <2>2. \A u \in Nat : u <= last => (u \in E <=> u \in Wave(s))
    BY <1>2, <2>1
  <2>3. QED
    BY <1>5, <2>2 DEF last
<1>8. QED
  BY <1>1, <1>6, <1>7

LEMMA Reached ==
  ASSUME NEW W \in SUBSET Nat, NEW e \in W, NEW u \in Nat
  PROVE  Cardinality(Upto(W, u)) >= Cardinality(Upto(W, e)) <=> u >= e
<1>1. \A v \in Nat : IsFiniteSet(Upto(W, v)) /\ Cardinality(Upto(W, v)) \in Nat
  <2>1. ASSUME NEW v \in Nat PROVE IsFiniteSet(Upto(W, v))
    <3>1. Upto(W, v) \in SUBSET Nat /\ \A x \in Upto(W, v) : x <= v
      BY DEF Upto
    <3>2. QED
      BY <3>1, FS_BoundedSetOfNaturals
  <2>2. QED
    BY <2>1, FS_CardinalityType
<1>2. CASE u >= e
  <2>1. Upto(W, e) \in SUBSET Upto(W, u)
    <3>1. \A x \in W : x <= e => x <= u
      BY <1>2
    <3>2. QED
      BY <3>1 DEF Upto
  <2>2. Cardinality(Upto(W, e)) <= Cardinality(Upto(W, u))
    BY ONLY <1>1, <2>1, FS_Subset, u \in Nat
  <2>3. QED
    BY <1>1, <1>2, <2>2
<1>3. CASE u < e
  <2>1. Upto(W, u) \in SUBSET Upto(W, e) /\ e \in Upto(W, e) /\ e \notin Upto(W, u)
    <3>1. (\A x \in W : x <= u => x <= e) /\ e <= e /\ ~ (e <= u)
      BY <1>3
    <3>2. QED
      BY <3>1 DEF Upto
  <2>2. IsFiniteSet(Upto(W, e)) /\ Cardinality(Upto(W, e)) \in Nat /\ Cardinality(Upto(W, u)) \in Nat
    BY <1>1
  <2>3. /\ Cardinality(Upto(W, u)) <= Cardinality(Upto(W, e))
        /\ Cardinality(Upto(W, u)) # Cardinality(Upto(W, e))
    BY ONLY <2>1, <2>2, FS_Subset
  <2>4. QED
    BY <1>3, <2>2, <2>3
<1>4. QED
  BY <1>2, <1>3

\* With a sensor that is there to the end of the last bit, the number of edges
\* passed tells the time and the time tells the number.
LEMMA ClockFacts ==
  ASSUME edges \subseteq Nat, NEW u \in Nat,
         \A v \in Nat : v <= Begin(sent, Bits + 1) => (v \in edges <=> v \in Wave(sent))
  PROVE  /\ Cardinality(Seen(u)) >= 1 <=> u >= Answer
         /\ Cardinality(Seen(u)) >= 2 <=> u >= Answer + AnswerLow
         /\ \A b \in 1 .. Bits + 1 : Cardinality(Seen(u)) >= 2 * b + 1 <=> u >= Begin(sent, b)
         /\ \A b \in 1 .. Bits : Cardinality(Seen(u)) >= 2 * b + 2 <=> u >= Rise(sent, b)
         /\ \A b \in 1 .. Bits : Rise(sent, b) \in edges
<1>1. Bits \in Nat \ {0} /\ Bits + 1 \in 1 .. Bits + 1
  BY BitsType
<1> DEFINE last == Begin(sent, Bits + 1)
<1>2. last \in Nat /\ Answer + AnswerLow < last /\ Answer \in Nat /\ AnswerLow \in Nat
  BY <1>1, OrderFacts, LengthFacts
<1>3. ASSUME NEW b \in 1 .. Bits + 1 PROVE Begin(sent, b) \in edges
  <2>1. Begin(sent, b) \in Nat /\ Begin(sent, b) \in Wave(sent)
    BY OrderFacts DEF Wave
  <2>2. Begin(sent, b) <= last
    <3>1. CASE b = Bits + 1
      BY <1>2, <3>1
    <3>2. CASE b < Bits + 1
      <4>1. Rise(sent, b) < last /\ Begin(sent, b) < Rise(sent, b) /\ Rise(sent, b) \in Nat
        BY <1>1, <3>2, OrderFacts
      <4>2. QED
        BY ONLY <1>2, <2>1, <4>1
    <3>3. QED
      BY <1>1, <3>1, <3>2
  <2>3. QED
    BY <2>1, <2>2
<1>4. ASSUME NEW b \in 1 .. Bits PROVE Rise(sent, b) \in edges
  <2>1. b \in 1 .. Bits + 1 /\ b < Bits + 1
    BY <1>1
  <2>2. Rise(sent, b) \in Nat /\ Rise(sent, b) \in Wave(sent) /\ Rise(sent, b) < last
    BY <1>1, <2>1, OrderFacts DEF Wave, Rise
  <2>3. QED
    BY <1>2, <2>2
<1>5. Answer \in edges /\ Answer + AnswerLow \in edges
  <2>1. Answer \in Wave(sent) /\ Answer + AnswerLow \in Wave(sent)
    BY DEF Wave
  <2>2. Answer <= last /\ Answer + AnswerLow <= last /\ Answer + AnswerLow \in Nat
    BY <1>2
  <2>3. QED
    BY <1>2, <2>1, <2>2
<1> HIDE DEF last
<1>6. /\ Cardinality(Upto(edges, Answer)) = 1
      /\ Cardinality(Upto(edges, Answer + AnswerLow)) = 2
      /\ \A b \in 1 .. Bits + 1 : Cardinality(Upto(edges, Begin(sent, b))) = 2 * b + 1
      /\ \A b \in 1 .. Bits : Cardinality(Upto(edges, Rise(sent, b))) = 2 * b + 2
  BY WaveCounts
<1>7. \A e \in edges : Cardinality(Upto(edges, u)) >= Cardinality(Upto(edges, e)) <=> u >= e
  BY Reached
<1>8. QED
  BY ONLY <1>3, <1>4, <1>5, <1>6, <1>7 DEF Seen
-----------------------------------------------------------------------------
(* The steps of the driver. *)

\* No step goes back in time or changes the sensor.
LEMMA StepTypes == ASSUME Types, Next PROVE Types' /\ UNCHANGED sensor /\ t' >= t
<1>1. t \in Nat /\ edges \subseteq Nat
  BY DEF Types
<1>2. CASE WakeDelay \/ BitDelay
  <2>1. Wake \in 1 .. Period /\ Delay \in 1 .. Period
    BY DhtAssumption
  <2>2. t' \in Nat /\ t' >= t
    BY <1>2, <2>1, DelayFacts DEF WakeDelay, BitDelay, DelayTo
  <2>3. QED
    BY <1>2, <2>2 DEF WakeDelay, BitDelay, DelayTo, Goto, Types, sensor
<1>3. CASE TestAnswer
  BY <1>1, <1>3 DEF TestAnswer, Goto, Types, sensor
<1>4. CASE WaitAnswerLow \/ WaitAnswerHigh \/ WaitRise
  <2>1. t' \in Nat /\ t' >= t
    BY <1>1, <1>4, WaitFacts DEF WaitAnswerLow, WaitAnswerHigh, WaitRise, WaitFor
  <2>2. QED
    BY <1>4, <2>1 DEF WaitAnswerLow, WaitAnswerHigh, WaitRise, WaitFor, Goto, Types, sensor
<1>5. CASE Sample
  BY <1>1, <1>5, BitsType DEF Sample, NextBit, Types, sensor
<1>6. CASE WaitFall
  <2>1. t' \in Nat /\ t' >= t
    BY <1>1, <1>6, WaitFacts DEF WaitFall
  <2>2. /\ k \in 1 .. Bits /\ k' = k + 1 /\ UNCHANGED sensor
        /\ (k < Bits => pc' = "rise" /\ ret' = ret) /\ (~ (k < Bits) => pc' = "done")
    BY <1>6 DEF WaitFall, NextBit, Types
  <2>3. k' \in Nat /\ (pc' # "done" => k' \in 1 .. Bits /\ pc' = "rise" /\ ret' = ret)
    BY ONLY <2>2, BitsType
  <2>4. pc = "fall"
    BY <1>6 DEF WaitFall
  <2>5. QED
    BY <2>1, <2>2, <2>3, <2>4 DEF Types, sensor
<1>7. CASE Preempt
  <2>1. t' \in Nat /\ t' >= t
    BY <1>1, <1>7, DhtAssumption DEF Preempt
  <2>2. QED
    BY <1>7, <2>1 DEF Preempt, Types, sensor
<1>8. QED
  BY <1>2, <1>3, <1>4, <1>5, <1>6, <1>7 DEF Next, Step

\* A wait ends with the parity of its level.
LEMMA WaitPasses ==
  ASSUME Types, NEW low \in BOOLEAN, Comes(low), t' = FirstTime(low), edges' = edges
  PROVE  /\ t' \in Nat /\ t' >= t
         /\ Count' % 2 = IF low THEN 1 ELSE 0
<1>1. t \in Nat /\ edges \subseteq Nat
  BY DEF Types
<1>2. t' \in Nat /\ t' >= t /\ (Cardinality(Seen(t')) % 2 = 1) = low
  BY <1>1, WaitFacts
<1>3. Count' = Cardinality(Seen(t')) /\ Count' \in Nat
  BY <1>1, <1>2, CountStays
<1>4. QED
  BY <1>2, <1>3

\* A bit leaves the driver one edge behind it: the place after it asks for no more.
LEMMA BitDue ==
  ASSUME Types, pc # "done", k' = k + 1,
         k < Bits => pc' = "rise", ~ (k < Bits) => pc' = "done"
  PROVE  Due' <= 2 * k + 3 /\ Due' \in Nat
<1>1. k \in 1 .. Bits /\ Bits \in Nat
  BY BitsType DEF Types
<1>2. CASE k < Bits
  <2>1. Due' = 2 * k' + 1
    BY <1>2 DEF Due
  <2>2. QED
    BY <1>1, <2>1
<1>3. CASE k = Bits
  <2>1. pc' = "done"
    BY <1>1, <1>3
  <2>2. Due' \in {2 * (Bits + 1) + 1, 0}
    BY <2>1 DEF Due, Bits
  <2>3. QED
    BY <1>1, <1>3, <2>2
<1>4. QED
  BY <1>1, <1>2, <1>3

\* Edges that were passed ahead of what was due are never got back: a wait goes on
\* to an edge of the level it waits for.
LEMMA StepCounts ==
  ASSUME Types, Next, NEW x \in {0, 2}, Count >= Due + x
  PROVE  Count' >= Due' + x
<1>1. edges \subseteq Nat /\ t \in Nat /\ t' \in Nat /\ t' >= t /\ edges' = edges /\ k \in Nat
  BY StepTypes DEF Types, sensor
<1>2. Count' >= Count /\ Count \in Nat /\ Count' \in Nat
  BY <1>1, CountStays
<1>3. \A m, n \in Nat : /\ m % 2 = 1 /\ m >= 2 * n + x => m >= 2 * n + 1 + x
                        /\ m % 2 = 0 /\ m >= 2 * n + 1 + x => m >= 2 * n + 2 + x
  <2>1. CASE x = 0
    BY <2>1
  <2>2. CASE x = 2
    BY <2>2
  <2>3. QED
    BY <2>1, <2>2
<1>4. Low <=> Count % 2 = 1
  BY DEF Low, Passed, Count, Seen, Upto
<1>5. CASE UNCHANGED <<pc, k, ret>>
  <2>1. Due' = Due
    BY <1>5 DEF Due, Bits
  <2>2. Due \in Nat
    BY <1>1, BitsType DEF Due
  <2>3. QED
    BY <1>2, <2>1, <2>2
<1>7. CASE WakeDelay
  <2>1. Due = 0 /\ Due' = 0
    BY <1>7 DEF WakeDelay, DelayTo, Goto, Due, Types
  <2>2. QED
    BY <1>2, <2>1
<1>8. CASE TestAnswer
  <2>1. pc = "answer" /\ Due = 0 /\ Count' = Count
    BY <1>8 DEF TestAnswer, Goto, Due, Types, Count, Seen, sensor
  <2>2. CASE Low
    <3>1. Due' = 1
      BY <1>8, <2>2 DEF TestAnswer, Goto, Due
    <3>2. QED
      BY <1>2, <1>4, <2>1, <2>2, <3>1
  <2>3. CASE ~ Low
    <3>1. Due' = 0
      BY <1>8, <2>3 DEF TestAnswer, Goto, Due
    <3>2. QED
      BY <1>2, <2>1, <3>1
  <2>4. QED
    BY <2>2, <2>3
<1>9. CASE WaitAnswerLow
  <2>1. pc = "low" /\ pc' = "high" /\ Comes(FALSE) /\ t' = FirstTime(FALSE)
    BY <1>9 DEF WaitAnswerLow, WaitFor, Goto
  <2>2. Due = 1 /\ Due' = 2 /\ Count' % 2 = 0
    BY <1>1, <2>1, WaitPasses DEF Due
  <2>3. Count' >= 2 * 0 + 1 + x
    BY <1>2, <2>2
  <2>4. Count' >= 2 * 0 + 2 + x
    BY ONLY <1>2, <1>3, <2>2, <2>3, 0 \in Nat
  <2>5. QED
    BY <2>2, <2>4
<1>10. CASE WaitAnswerHigh
  <2>1. pc = "high" /\ pc' = "rise" /\ k' = k /\ Comes(TRUE) /\ t' = FirstTime(TRUE)
    BY <1>10 DEF WaitAnswerHigh, WaitFor, Goto
  <2>2. k = 1
    BY <2>1 DEF Types
  <2>3. Count' % 2 = 1
    BY <1>1, <2>1, WaitPasses
  <2>4. Due = 2 * 1 /\ Due' = 2 * 1 + 1
    BY <2>1, <2>2 DEF Due
  <2>5. Count' >= 2 * 1 + x
    BY <1>2, <2>4
  <2>6. Count' >= 2 * 1 + 1 + x
    BY ONLY <1>2, <1>3, <2>3, <2>5, 1 \in Nat
  <2>7. QED
    BY <2>4, <2>6
<1>11. CASE WaitRise
  <2>1. pc = "rise" /\ pc' = "delay" /\ k' = k /\ Comes(FALSE) /\ t' = FirstTime(FALSE)
    BY <1>11 DEF WaitRise, WaitFor, Goto
  <2>2. Due = 2 * k + 1 /\ Due' = 2 * k + 2 /\ Count' % 2 = 0
    BY <1>1, <2>1, WaitPasses DEF Due
  <2>3. Count' >= 2 * k + 1 + x
    BY <1>1, <1>2, <2>2
  <2>4. Count' >= 2 * k + 2 + x
    BY ONLY <1>1, <1>2, <1>3, <2>2, <2>3
  <2>5. QED
    BY <2>2, <2>4
<1>12. CASE BitDelay
  <2>1. Due = 2 * k + 2 /\ Due' = 2 * k + 2
    BY <1>12 DEF BitDelay, DelayTo, Goto, Due
  <2>2. QED
    BY <1>1, <1>2, <2>1
<1>13. CASE Sample
  <2>1. pc = "sample" /\ Due = 2 * k + 2
    BY <1>13 DEF Sample, Due
  <2>2. CASE Low
    <3>1. k' = k + 1 /\ (k < Bits => pc' = "rise") /\ (~ (k < Bits) => pc' = "done")
      BY <1>13, <2>2 DEF Sample, NextBit
    <3>2. Due' <= 2 * k + 3 /\ Due' \in Nat
      BY ONLY <2>1, <3>1, Types, BitDue
    <3>3. Count % 2 = 1 /\ Count >= 2 * (k + 1) + x /\ k + 1 \in Nat
      BY <1>1, <1>4, <2>1, <2>2
    <3>4. Count >= 2 * (k + 1) + 1 + x
      BY ONLY <1>2, <1>3, <3>3
    <3>5. k \in Nat /\ x \in Nat
      BY <1>1
    <3>6. 2 * (k + 1) + 1 + x = 2 * k + 3 + x /\ 2 * k + 3 \in Nat
      BY ONLY <3>5
    <3>7. \A c, cc, d, e, y \in Nat : c >= e + y /\ cc >= c /\ d <= e => cc >= d + y
      OBVIOUS
    <3>8. QED
      BY ONLY <1>2, <3>2, <3>4, <3>5, <3>6, <3>7
  <2>3. CASE ~ Low
    <3>1. Due' = 2 * k + 2
      BY <1>13, <2>3 DEF Sample, Due
    <3>2. QED
      BY <1>1, <1>2, <2>1, <3>1
  <2>4. QED
    BY <2>2, <2>3
<1>14. CASE WaitFall
  <2>1. /\ pc = "fall" /\ Comes(TRUE) /\ t' = FirstTime(TRUE) /\ k' = k + 1
        /\ (k < Bits => pc' = "rise") /\ (~ (k < Bits) => pc' = "done")
    BY <1>14 DEF WaitFall, NextBit
  <2>2. Due' <= 2 * k + 3 /\ Due' \in Nat
    BY ONLY <2>1, Types, BitDue
  <2>3. Due = 2 * k + 2 /\ Count' % 2 = 1
    BY <1>1, <2>1, WaitPasses DEF Due
  <2>4. Count' >= 2 * (k + 1) + x /\ k + 1 \in Nat
    BY <1>1, <1>2, <2>3
  <2>5. Count' >= 2 * (k + 1) + 1 + x
    BY ONLY <1>2, <1>3, <2>3, <2>4
  <2>6. k \in Nat /\ x \in Nat
    BY <1>1
  <2>7. 2 * (k + 1) + 1 + x = 2 * k + 3 + x /\ 2 * k + 3 \in Nat
    BY ONLY <2>6
  <2>8. \A c, d, e, y \in Nat : c >= e + y /\ d <= e => c >= d + y
    OBVIOUS
  <2>9. QED
    BY ONLY <1>2, <2>2, <2>5, <2>6, <2>7, <2>8
<1>15. CASE Preempt
  BY <1>5, <1>15 DEF Preempt
<1>16. QED
  BY <1>7, <1>8, <1>9, <1>10, <1>11, <1>12, <1>13, <1>14, <1>15 DEF Next, Step
-----------------------------------------------------------------------------
(* The checksum. *)

Units(bits) == UNION {{b} \X (1 .. Weight[b]) : b \in bits}

LEMMA UnitsFinite ==
  ASSUME NEW P \in SUBSET (1 .. Bits)
  PROVE  IsFiniteSet(Units(P)) /\ Worth(P) = Cardinality(Units(P)) /\ Worth(P) \in Nat
<1> DEFINE unit == [b \in P |-> {b} \X (1 .. Weight[b])]
           all == {{b} \X (1 .. Weight[b]) : b \in P}
<1>1. IsFiniteSet(P)
  <2>1. IsFiniteSet(1 .. Bits)
    BY BitsType, FS_Interval
  <2>2. QED
    BY ONLY <2>1, P \in SUBSET (1 .. Bits), FS_Subset
<1>2. unit \in Surjection(P, all)
  BY DEF Surjection
<1>3. IsFiniteSet(all)
  BY ONLY <1>1, <1>2, FS_Surjection
<1>4. ASSUME NEW b \in P PROVE IsFiniteSet({b} \X (1 .. Weight[b]))
  <2>1. Weight[b] \in Int /\ 1 \in Int
    BY DhtAssumption
  <2>2. IsFiniteSet(1 .. Weight[b]) /\ IsFiniteSet({b})
    BY ONLY <2>1, FS_Interval, FS_Singleton
  <2>3. QED
    BY ONLY <2>2, FS_Product
<1>5. IsFiniteSet(UNION all)
  <2>1. \A T \in all : IsFiniteSet(T)
    BY ONLY <1>4
  <2>2. QED
    BY ONLY <1>3, <2>1, FS_UNION
<1>6. QED
  BY <1>5, FS_CardinalityType DEF Units, Worth

\* A bit that is missing is missed.
LEMMA WorthLess ==
  ASSUME NEW Q \in SUBSET (1 .. Bits), NEW P \in SUBSET Q, P # Q
  PROVE  Worth(P) # Worth(Q)
<1>1. PICK b \in Q : b \notin P
  OBVIOUS
<1>2. Units(P) \in SUBSET Units(Q)
  BY DEF Units
<1>3. <<b, 1>> \in Units(Q) /\ <<b, 1>> \notin Units(P)
  <2>1. 1 \in 1 .. Weight[b]
    BY DhtAssumption
  <2>2. QED
    BY <1>1, <2>1 DEF Units
<1>4. IsFiniteSet(Units(Q)) /\ Worth(P) = Cardinality(Units(P)) /\ Worth(Q) = Cardinality(Units(Q))
  BY UnitsFinite
<1>5. Units(P) # Units(Q)
  BY <1>3
<1>6. QED
  BY ONLY <1>2, <1>4, <1>5, FS_Subset

\* One bit that was read as 0 is found: it makes either the sum or the checksum wrong.
LEMMA ChecksumFinds ==
  ASSUME NEW s \in SUBSET (1 .. Bits), NEW d \in SUBSET s,
         Checksum(s) = Sum(s), Checksum(d) = Sum(d),
         \A b, c \in s \ d : b = c
  PROVE  d = s
<1> SUFFICES ASSUME d # s PROVE FALSE
  OBVIOUS
<1> DEFINE front(x) == {b \in x : b <= Fields * Width}
           back(x)  == {b \in x : b > Fields * Width}
<1>1. Checksum(s) = Worth(back(s)) /\ Sum(s) = Worth(front(s))
  BY DEF Checksum, Sum
<1>2. Checksum(d) = Worth(back(d)) /\ Sum(d) = Worth(front(d))
  BY DEF Checksum, Sum
<1>3. PICK b \in s : b \notin d
  OBVIOUS
<1>4. \A c \in s : c # b => c \in d
  BY <1>3
<1>5. Fields * Width \in Int /\ \A c \in s : c \in Int
  <2>1. \A m, n \in Nat : m * n \in Int
    OBVIOUS
  <2>2. QED
    BY <2>1, DhtAssumption, BitsType
<1>6. /\ front(s) \in SUBSET (1 .. Bits) /\ front(d) \in SUBSET front(s)
      /\ back(s) \in SUBSET (1 .. Bits) /\ back(d) \in SUBSET back(s)
  OBVIOUS
<1>7. CASE b <= Fields * Width
  <2>1. \A c : c \in back(d) <=> c \in back(s)
    <3>1. ASSUME NEW c \in s, c > Fields * Width PROVE c \in d
      <4>1. c # b
        BY ONLY <1>5, <1>7, <3>1, b \in s
      <4>2. QED
        BY ONLY <1>4, <4>1, c \in s
    <3>2. QED
      BY <3>1
  <2>5. back(d) = back(s)
    <3> HIDE DEF back
    <3>1. QED
      BY <2>1
  <2>2. front(d) # front(s)
    BY <1>3, <1>7
  <2>3. Worth(front(d)) # Worth(front(s))
    BY ONLY <1>6, <2>2, WorthLess
  <2>4. QED
    BY <1>1, <1>2, <2>5, <2>3
<1>8. CASE b > Fields * Width
  <2>1. \A c : c \in front(d) <=> c \in front(s)
    <3>1. ASSUME NEW c \in s, c <= Fields * Width PROVE c \in d
      <4>1. c # b
        BY ONLY <1>5, <1>8, <3>1, b \in s
      <4>2. QED
        BY ONLY <1>4, <4>1, c \in s
    <3>2. QED
      BY <3>1
  <2>5. front(d) = front(s)
    <3> HIDE DEF front
    <3>1. QED
      BY <2>1
  <2>2. back(d) # back(s)
    BY <1>3, <1>8
  <2>3. Worth(back(d)) # Worth(back(s))
    BY ONLY <1>6, <2>2, WorthLess
  <2>4. QED
    BY <1>1, <1>2, <2>5, <2>3
<1>9. QED
  BY <1>5, <1>7, <1>8
-----------------------------------------------------------------------------
(* A read whose bits are disturbed. *)

\* The place of the driver in its bit, by the number of edges it has passed.
LEMMA Clock ==
  ASSUME Types, Wired, Kept
  PROVE  \A u \in Nat :
           /\ \A b \in 1 .. Bits + 1 : Cardinality(Seen(u)) >= 2 * b + 1 <=> u >= Begin(sent, b)
           /\ \A b \in 1 .. Bits : Cardinality(Seen(u)) >= 2 * b + 2 <=> u >= Rise(sent, b)
           /\ \A b \in 1 .. Bits : Rise(sent, b) \in edges
<1>1. \A v \in Nat : v <= Begin(sent, Bits + 1) => (v \in edges <=> v \in Wave(sent))
  <2>1. 2 * (Bits + 1) + 1 = 2 * Bits + 3
    BY BitsType
  <2>2. Cardinality(edges) >= 2 * Bits + 3
    BY <2>1 DEF Kept
  <2>3. edges = CutAt(Wave(sent), cut) /\ cut \in Nat
    BY DEF Wired
  <2>4. QED
    BY ONLY <2>2, <2>3, CutFacts
<1>2. edges \subseteq Nat
  BY DEF Types
<1>3. QED
  BY ONLY <1>1, <1>2, ClockFacts

LEMMA CheckedStays == ASSUME Types, Checked, Next PROVE Checked'
<1>1. CASE WakeDelay \/ BitDelay \/ WaitAnswerLow \/ WaitAnswerHigh \/ WaitRise \/ Preempt
  <2>1. ret' = ret /\ pc # "done"
    BY <1>1 DEF WakeDelay, BitDelay, DelayTo, WaitAnswerLow, WaitAnswerHigh, WaitRise, WaitFor, Preempt, Goto
  <2>2. ret = "none"
    BY <2>1 DEF Types
  <2>3. QED
    BY <2>1, <2>2 DEF Checked
<1>2. CASE TestAnswer
  <2>1. pc = "answer" /\ (ret' = ret \/ ret' = "refused")
    BY <1>2 DEF TestAnswer, Goto
  <2>2. ret = "none"
    BY <2>1 DEF Types
  <2>3. QED
    BY <2>1, <2>2 DEF Checked
<1>3. CASE Sample \/ WaitFall
  <2>1. pc # "done" /\ (ret' = ret \/ NextBit(data'))
    BY <1>3 DEF Sample, WaitFall
  <2>2. ret = "none" /\ k \in 1 .. Bits /\ Bits \in Nat
    BY <2>1, BitsType DEF Types
  <2>3. CASE ret' = ret
    BY <2>2, <2>3 DEF Checked
  <2>4. CASE NextBit(data') /\ ret' # ret
    <3>1. ret' = "accepted" => pc' = "done" /\ k' = k + 1 /\ ~ (k < Bits) /\ Checksum(data') = Sum(data')
      BY <2>2, <2>4 DEF NextBit
    <3>2. Checksum(data)' = Checksum(data') /\ Sum(data)' = Sum(data')
      BY DEF Checksum, Sum, Worth
    <3>3. ~ (k < Bits) => k + 1 = Bits + 1
      BY <2>2
    <3>4. QED
      BY <3>1, <3>2, <3>3 DEF Checked, Bits
  <2>5. QED
    BY <2>1, <2>3, <2>4
<1>4. QED
  BY <1>1, <1>2, <1>3 DEF Next, Step

LEMMA StepTypeOK == ASSUME Types, TypeOK, Next PROVE TypeOK'
<1>1. UNCHANGED sensor /\ t' \in Nat
  BY StepTypes DEF Types
<1>2. pc # "done" => k \in 1 .. Bits /\ k \in 1 .. Bits + 1 /\ k + 1 \in 1 .. Bits + 1
  BY BitsType DEF Types
<1>9. off' \subseteq 0 .. Bits
  <2>1. off \subseteq 0 .. Bits
    BY DEF TypeOK
  <2>2. pc # "done" => Bit \in 0 .. Bits
    BY BitsType DEF Bit, Types
  <2>3. off' = off \/ (pc # "done" /\ off' \subseteq off \union {Bit})
    BY DEF Next, Step, WakeDelay, BitDelay, DelayTo, TestAnswer, WaitAnswerLow, WaitAnswerHigh, WaitRise,
      WaitFor, Sample, WaitFall, Preempt, Goto
  <2>4. QED
    BY ONLY <2>1, <2>2, <2>3
<1>3. CASE WakeDelay \/ BitDelay \/ WaitAnswerLow \/ WaitAnswerHigh \/ WaitRise
  BY <1>1, <1>9, <1>3 DEF WakeDelay, BitDelay, DelayTo, WaitAnswerLow, WaitAnswerHigh, WaitRise, WaitFor, Goto,
    TypeOK, sensor, Bits
<1>4. CASE TestAnswer
  BY <1>1, <1>9, <1>4 DEF TestAnswer, Goto, TypeOK, sensor, Bits
<1>5. CASE Preempt
  <2>1. preempts \in 0 .. MaxPreempts /\ preempts < MaxPreempts /\ MaxPreempts \in Nat /\ preempts' = preempts + 1
    BY <1>5, DhtAssumption DEF Preempt, TypeOK
  <2>2. preempts' \in 0 .. MaxPreempts
    BY ONLY <2>1
  <2>3. UNCHANGED <<pc, k, data, ret>>
    BY <1>5 DEF Preempt
  <2>4. QED
    BY <1>1, <1>9, <2>2, <2>3 DEF TypeOK, sensor, Bits
<1>6. CASE Sample
  <2>1. /\ UNCHANGED <<data, preempts>>
        /\ k' \in {k, k + 1} /\ pc # "done" /\ pc' \in {"rise", "done", "fall"}
        /\ ret' \in {ret, "accepted", "refused"}
    BY <1>6 DEF Sample, NextBit
  <2>2. k' \in 1 .. Bits + 1
    BY ONLY <1>2, <2>1
  <2>3. QED
    BY <1>1, <1>9, <2>1, <2>2 DEF TypeOK, sensor, Bits
<1>7. CASE WaitFall
  <2>1. /\ UNCHANGED preempts /\ data' = data \union {k}
        /\ k' = k + 1 /\ pc # "done" /\ pc' \in {"rise", "done"}
        /\ ret' \in {ret, "accepted", "refused"}
    BY <1>7 DEF WaitFall, NextBit, SetBit
  <2>2. k' \in 1 .. Bits + 1 /\ data' \subseteq 1 .. Bits
    BY <1>2, <2>1 DEF TypeOK
  <2>3. QED
    BY <1>1, <1>9, <2>1, <2>2 DEF TypeOK, sensor, Bits
<1>8. QED
  BY <1>3, <1>4, <1>5, <1>6, <1>7 DEF Next, Step

\* What is the same on both sides of a step.
LEMMA Both ==
  ASSUME Types, Wired, Kept, Next
  PROVE  /\ t \in Nat /\ t' \in Nat /\ t' >= t /\ edges \subseteq Nat /\ UNCHANGED sensor
         /\ Count \in Nat /\ Count' \in Nat /\ Count' >= Count
         /\ pc # "done" => k \in 1 .. Bits
         /\ \A b \in 1 .. Bits :
              /\ Rise(sent, b) \in Nat /\ Rise(sent, b) \in edges
              /\ Count >= 2 * b + 2 <=> t >= Rise(sent, b)
              /\ Count' >= 2 * b + 2 <=> t' >= Rise(sent, b)
              /\ Count >= 2 * b + 3 <=> t >= Begin(sent, b + 1)
              /\ Begin(sent, b + 1) = Rise(sent, b) + (IF b \in sent THEN High1 ELSE High0)
<1>1. t \in Nat /\ t' \in Nat /\ t' >= t /\ edges \subseteq Nat /\ UNCHANGED sensor
  BY StepTypes DEF Types
<1>2. Count \in Nat /\ Count' \in Nat /\ Count' >= Count /\ Count' = Cardinality(Seen(t'))
  BY ONLY <1>1, CountStays DEF sensor
<1>3. Count = Cardinality(Seen(t))
  BY DEF Count
<1>4. pc # "done" => k \in 1 .. Bits
  BY DEF Types
<1>5. ASSUME NEW b \in 1 .. Bits
      PROVE  /\ Rise(sent, b) \in Nat /\ Rise(sent, b) \in edges
             /\ Count >= 2 * b + 2 <=> t >= Rise(sent, b)
             /\ Count' >= 2 * b + 2 <=> t' >= Rise(sent, b)
             /\ Count >= 2 * b + 3 <=> t >= Begin(sent, b + 1)
             /\ Begin(sent, b + 1) = Rise(sent, b) + (IF b \in sent THEN High1 ELSE High0)
  <2>1. b \in 1 .. Bits + 1 /\ b + 1 \in 1 .. Bits + 1 /\ 2 * (b + 1) + 1 = 2 * b + 3
    BY BitsType
  <2>2. Rise(sent, b) \in Nat
    BY <2>1, OrderFacts
  <2>3. \A u \in Nat :
           /\ Cardinality(Seen(u)) >= 2 * (b + 1) + 1 <=> u >= Begin(sent, b + 1)
           /\ Cardinality(Seen(u)) >= 2 * b + 2 <=> u >= Rise(sent, b)
           /\ Rise(sent, b) \in edges
    BY <2>1, Clock
  <2>4. QED
    BY ONLY <1>1, <1>2, <1>3, <2>1, <2>2, <2>3, NextBegin, b \in 1 .. Bits
<1>6. QED
  BY ONLY <1>1, <1>2, <1>4, <1>5

\* A driver that begins a bit on a low wire, with no edge lost, is not late for it.
LEMMA NotLate ==
  ASSUME Types, Wired, Kept, Next, Types', Counted', ~ Lost', pc' = "rise", Count' % 2 = 1
  PROVE  t' < Rise(sent, k')
<1>1. k' \in 1 .. Bits /\ k' \in Nat
  BY DEF Types, Bits
<1>2. Due' = 2 * k' + 1
  BY DEF Due
<1>3. Count' \in Nat /\ Count' < 2 * k' + 3
  BY <1>1, <1>2, Both DEF Lost
<1>4. Count' < 2 * k' + 2
  <2>1. \A m, n \in Nat : m % 2 = 1 /\ m < 2 * n + 3 => m < 2 * n + 2
    OBVIOUS
  <2>2. k' \in Nat
    BY <1>1
  <2>3. QED
    BY ONLY <1>3, <2>1, <2>2, Count' % 2 = 1
<1>5. ~ (t' >= Rise(sent, k'))
  <2>1. ~ (Count' >= 2 * k' + 2)
    <3>1. k' \in Nat /\ \A m, n \in Nat : m < 2 * n + 2 => ~ (m >= 2 * n + 2)
      BY ONLY <1>1
    <3>2. QED
      BY ONLY <1>3, <1>4, <3>1
  <2>2. Count' >= 2 * k' + 2 <=> t' >= Rise(sent, k')
    BY <1>1, Both
  <2>3. QED
    BY <2>1, <2>2
<1>6. t' \in Nat /\ Rise(sent, k') \in Nat
  BY <1>1, Both
<1>7. QED
  BY <1>5, <1>6

LEMMA OffGrows == ASSUME Next PROVE off \subseteq off'
BY DEF Next, Step, WakeDelay, BitDelay, DelayTo, TestAnswer, WaitAnswerLow, WaitAnswerHigh, WaitRise,
  WaitFor, Sample, WaitFall, Preempt

\* A step within a bit keeps what is known of the bits before.
LEMMA SameBit ==
  ASSUME sent' = sent, UNCHANGED <<k, data>>, off \subseteq off', InTime,
         pc' = "rise" /\ k \notin off' => t' < Rise(sent, k),
         pc' = "delay" /\ k \notin off' => t' = Rise(sent, k),
         pc' = "sample" /\ k \notin off' => t' = Rise(sent, k) + Delay,
         pc' = "fall" /\ k \notin off' => k \in sent
  PROVE  InTime'
<1>1. Rise(sent, k)' = Rise(sent, k)
  BY DEF Rise, Begin
<1>2. \A b \in data' : b < k'
  BY DEF InTime
<1>3. \A b \in 1 .. Bits : b < k' /\ b \notin off' => (b \in data' <=> b \in sent')
  BY DEF InTime
<1>4. k' \notin off' =>
        /\ pc' = "rise" => t' < Rise(sent, k)'
        /\ pc' = "delay" => t' = Rise(sent, k)'
        /\ pc' = "sample" => t' = Rise(sent, k)' + Delay
        /\ pc' = "fall" => k' \in sent'
  BY <1>1
<1>5. QED
  BY ONLY <1>2, <1>3, <1>4 DEF InTime, Bits

\* A bit ends: it is as it was sent, or disturbed.
LEMMA NextInTime ==
  ASSUME Types, sent' = sent, off' = off, k' = k + 1, k \in 1 .. Bits,
         pc' \in {"rise", "done"}, pc' = "rise" => t' < Rise(sent, k'),
         TypeOK, InTime, data' = data \/ data' = data \union {k},
         k \notin off => (k \in data' <=> k \in sent)
  PROVE  InTime'
<1>1. \A b \in 1 .. Bits : b < k + 1 <=> b < k \/ b = k
  BY BitsType
<1>2. \A b \in data : b < k
  BY DEF InTime
<1>3. k \in Nat /\ \A b \in data : b < k + 1
  <2>1. \A b \in data : b < k => b < k + 1
    BY BitsType DEF TypeOK
  <2>2. QED
    BY <1>2, <2>1
<1>4. \A b \in data' : b < k'
  BY <1>3
<1>5. \A b \in 1 .. Bits : b < k' /\ b \notin off' => (b \in data' <=> b \in sent')
  <2>1. ASSUME NEW b \in 1 .. Bits, b < k + 1, b \notin off PROVE b \in data' <=> b \in sent
    <3>1. CASE b = k
      BY <2>1, <3>1
    <3>2. CASE b # k
      <4>1. b < k
        BY <1>1, <2>1, <3>2
      <4>2. b \in data <=> b \in sent
        BY <2>1, <4>1 DEF InTime
      <4>3. QED
        BY <3>2, <4>2
    <3>3. QED
      BY <3>1, <3>2
  <2>2. QED
    BY <2>1
<1>6. Rise(sent, k)' = Rise(sent, k')
  BY DEF Rise, Begin
<1>7. pc' = "rise" => t' < Rise(sent, k)'
  BY <1>6
<1>8. QED
  BY ONLY <1>4, <1>5, <1>7, pc' \in {"rise", "done"} DEF InTime, Bits

\* A step that loses no edge for good keeps the driver in time in every bit that is
\* not disturbed.
LEMMA StepInTime ==
  ASSUME Types, TypeOK, Wired, Kept, Counted, ~ Lost, InTime, Next,
         Types', Counted', ~ Lost'
  PROVE  InTime'
<1>1. /\ t \in Nat /\ t' \in Nat /\ t' >= t /\ edges \subseteq Nat
      /\ sent' = sent /\ edges' = edges /\ sys' = sys /\ hal' = hal
      /\ Count \in Nat /\ Count' \in Nat /\ Count' >= Count
  BY Both DEF sensor
<1>2. Bits \in Nat /\ off \subseteq off'
  BY BitsType, OffGrows
<1>3. k \in Nat /\ (pc # "done" => k \in 1 .. Bits)
  BY DEF Types
<1> DEFINE R == Rise(sent, k)
<1>4. pc # "done" =>
        /\ R \in Nat /\ R \in edges
        /\ Count >= 2 * k + 2 <=> t >= R
        /\ Count' >= 2 * k + 2 <=> t' >= R
        /\ Count >= 2 * k + 3 <=> t >= Begin(sent, k + 1)
        /\ Begin(sent, k + 1) = R + (IF k \in sent THEN High1 ELSE High0)
  BY <1>3, Both
<1> HIDE DEF R
<1>6. Count % 2 = 1 <=> Low
  BY DEF Low, Passed, Count, Seen, Upto
<1>7. CASE WakeDelay \/ TestAnswer \/ WaitAnswerLow
  <2>1. UNCHANGED <<k, data>> /\ pc' \in {"answer", "low", "done", "high"}
    BY <1>7 DEF WakeDelay, DelayTo, TestAnswer, WaitAnswerLow, WaitFor, Goto
  <2>2. QED
    BY <1>1, <1>2, <2>1, SameBit
<1>8. CASE WaitAnswerHigh
  <2>1. Count' % 2 = 1 /\ pc' = "rise" /\ UNCHANGED <<k, data>>
    BY <1>1, <1>8, WaitPasses DEF WaitAnswerHigh, WaitFor, Goto
  <2>2. t' < Rise(sent, k)
    BY <2>1, NotLate
  <2>3. QED
    BY <1>1, <1>2, <2>1, <2>2, SameBit
<1>9. CASE WaitRise
  <2>1. /\ Count' % 2 = 0 /\ pc = "rise" /\ pc' = "delay" /\ UNCHANGED <<k, data, off>>
        /\ Comes(FALSE) /\ t' = FirstTime(FALSE)
    BY <1>1, <1>9, WaitPasses DEF WaitRise, WaitFor, Goto
  <2>2. Due' = 2 * k + 2
    BY <2>1 DEF Due
  <2>3. t' >= R
    BY <1>3, <1>4, <2>1, <2>2 DEF Counted
  <2>4. ASSUME k \notin off PROVE t' = R
    <3>1. t < R
      BY <2>1, <2>4 DEF InTime, R
    <3>2. R \in edges /\ R > t /\ R \in Nat
      BY <1>1, <1>4, <2>1, <3>1
    <3>3. t' <= R
      BY ONLY <1>1, <2>1, <3>2, FirstEdge
    <3>4. QED
      BY ONLY <1>1, <2>3, <3>2, <3>3
  <2>5. QED
    BY <1>1, <1>2, <2>1, <2>4, SameBit DEF R
<1>10. CASE BitDelay
  <2>1. /\ pc = "delay" /\ pc' = "sample" /\ UNCHANGED <<k, data>>
        /\ k \notin off' => t' = t + Delay /\ k \notin off
    BY <1>10 DEF BitDelay, DelayTo, Goto, Bit
  <2>2. k \notin off' => t' = R + Delay
    BY <2>1 DEF InTime, R
  <2>3. QED
    BY <1>1, <1>2, <2>1, <2>2, SameBit DEF R
<1>11. CASE Sample
  <2>1. pc = "sample" /\ UNCHANGED <<t, data, off>> /\ Due = 2 * k + 2 /\ Count' = Count
    BY <1>1, <1>11 DEF Sample, Due, Count, Seen, Upto
  <2>2. k \notin off => t = R + Delay
    BY <2>1 DEF InTime, R
  <2>3. Count >= 2 * k + 2 /\ Count < 2 * k + 4
    BY <1>1, <1>3, <2>1 DEF Counted, Lost
  <2>4. CASE Low
    <3>1. k' = k + 1 /\ pc' \in {"rise", "done"}
      BY <1>11, <2>4 DEF Sample, NextBit
    <3>2. pc' = "rise" => t' < Rise(sent, k')
      BY <1>6, <2>1, <2>4, NotLate
    <3>3. Count >= 2 * k + 3
      <4>1. \A m, n \in Nat : m % 2 = 1 /\ m >= 2 * n + 2 => m >= 2 * n + 3
        OBVIOUS
      <4>2. QED
        BY ONLY <1>1, <1>3, <1>6, <2>3, <2>4, <4>1
    <3>4. k \notin off => k \notin sent
      <4>1. SUFFICES ASSUME k \in sent, k \notin off PROVE FALSE
        OBVIOUS
      <4>2. t >= R + High1
        BY <1>4, <2>1, <3>3, <4>1
      <4>3. High1 \in Nat /\ Delay \in Nat /\ Delay < High1 /\ R \in Nat
        BY <1>4, <2>1, LengthFacts, PulseAssumption
      <4>4. QED
        BY ONLY <1>1, <2>2, <4>1, <4>2, <4>3
    <3>5. k \notin data'
      <4>1. ~ (k < k)
        BY <1>3
      <4>2. QED
        BY <2>1, <4>1 DEF InTime
    <3>6. QED
      BY <1>1, <1>3, <2>1, <3>1, <3>2, <3>4, <3>5, NextInTime
  <2>5. CASE ~ Low
    <3>1. k' = k /\ pc' = "fall"
      BY <1>11, <2>5 DEF Sample
    <3>2. ~ (Count >= 2 * k + 3)
      <4>1. \A m, n \in Nat : ~ (m % 2 = 1) /\ m < 2 * n + 4 => ~ (m >= 2 * n + 3)
        OBVIOUS
      <4>2. QED
        BY ONLY <1>1, <1>3, <1>6, <2>3, <2>5, <4>1
    <3>3. k \notin off => k \in sent
      <4>1. SUFFICES ASSUME k \notin sent, k \notin off PROVE FALSE
        OBVIOUS
      <4>2. ~ (t >= R + High0)
        BY <1>4, <2>1, <3>2, <4>1
      <4>3. High0 \in Nat /\ Delay \in Nat /\ High0 <= Delay /\ R \in Nat
        BY <1>4, <2>1, LengthFacts, PulseAssumption
      <4>4. QED
        BY ONLY <1>1, <2>2, <4>1, <4>2, <4>3
    <3>4. QED
      BY <1>1, <1>2, <2>1, <3>1, <3>3, SameBit
  <2>6. QED
    BY <2>4, <2>5
<1>12. CASE WaitFall
  <2>1. /\ pc = "fall" /\ Comes(TRUE) /\ t' = FirstTime(TRUE) /\ off' = off
        /\ data' = data \union {k} /\ k' = k + 1 /\ pc' \in {"rise", "done"}
    BY <1>12 DEF WaitFall, NextBit, SetBit
  <2>2. k \notin off => k \in sent
    BY <2>1 DEF InTime
  <2>3. Count' % 2 = 1
    BY <1>1, <2>1, WaitPasses
  <2>4. pc' = "rise" => t' < Rise(sent, k')
    BY <2>3, NotLate
  <2>5. QED
    BY <1>1, <1>3, <2>1, <2>2, <2>4, NextInTime
<1>13. CASE Preempt
  <2>1. UNCHANGED <<pc, k, data>> /\ Bit \in off'
    BY <1>13 DEF Preempt
  <2>2. pc \in {"rise", "delay", "sample", "fall"} => k \in off'
    BY <2>1 DEF Bit
  <2>3. QED
    BY <1>1, <1>2, <2>1, <2>2, SameBit
<1>14. QED
  BY <1>7, <1>8, <1>9, <1>10, <1>11, <1>12, <1>13 DEF Next, Step

\* What the driver is to have passed when it accepts shows that it has lost no edge.
LEMMA AcceptedFacts ==
  ASSUME Types, Wired, Counted, Checked, ret = "accepted"
  PROVE  Kept /\ ~ Lost /\ k = Bits + 1 /\ Checksum(data) = Sum(data)
<1>1. Bits \in Nat \ {0}
  BY BitsType
<1>2. pc = "done" /\ k = Bits + 1 /\ Checksum(data) = Sum(data)
  BY DEF Checked
<1>3. Due = 2 * (Bits + 1) + 1
  BY <1>2 DEF Due
<1>4. /\ Count \in Nat /\ Cardinality(edges) \in Nat /\ Count <= Cardinality(edges)
      /\ Cardinality(edges) <= 2 * Bits + 4
  <2>1. Seen(t) \in SUBSET edges /\ IsFiniteSet(edges)
    BY DEF Seen, Upto, Types
  <2>2. Cardinality(edges) <= 2 * Bits + 4
    BY CutFacts DEF Wired
  <2>3. QED
    BY <2>1, <2>2, FS_Subset, FS_CardinalityType DEF Count
<1>5. Kept /\ ~ Lost
  BY <1>1, <1>3, <1>4 DEF Kept, Lost, Counted
<1>6. QED
  BY <1>2, <1>5

\* What is read in time is wrong in disturbed bits only, and not in one bit only.
LEMMA ReadInStep ==
  ASSUME Types, TypeOK, Wired, Counted, Reads, Checked, ret = "accepted"
  PROVE  Wrong \subseteq off /\ \A b \in Wrong : Wrong # {b}
<1>1. Bits \in Nat \ {0} /\ sent \in SUBSET (1 .. Bits) /\ data \in SUBSET (1 .. Bits)
  BY BitsType DEF TypeOK
<1>2. InTime /\ k = Bits + 1 /\ Checksum(data) = Sum(data) /\ Checksum(sent) = Sum(sent)
  BY AcceptedFacts DEF Reads, Wired
<1>3. Wrong \subseteq off
  <2>1. \A b \in 1 .. Bits : b < k
    BY <1>1, <1>2
  <2>2. \A b \in 1 .. Bits : b \notin off => (b \in data <=> b \in sent)
    BY <1>2, <2>1 DEF InTime
  <2>3. QED
    BY <1>1, <2>2 DEF Wrong
<1>4. ASSUME NEW b \in Wrong, Wrong = {b} PROVE FALSE
  <2>1. CASE b \in sent
    <3>1. b \notin data /\ data \in SUBSET sent /\ \A c, d \in sent \ data : c = d
      BY <1>4, <2>1 DEF Wrong
    <3>2. data = sent
      BY ONLY <1>1, <1>2, <3>1, ChecksumFinds
    <3>3. QED
      BY <2>1, <3>1, <3>2
  <2>2. CASE b \notin sent
    <3>1. b \in data /\ sent \in SUBSET data /\ \A c, d \in data \ sent : c = d
      BY <1>4, <2>2 DEF Wrong
    <3>2. sent = data
      BY ONLY <1>1, <1>2, <3>1, ChecksumFinds
    <3>3. QED
      BY <2>2, <3>1, <3>2
  <2>3. QED
    BY <2>1, <2>2
<1>5. QED
  BY <1>3, <1>4
-----------------------------------------------------------------------------
(* A read that nothing disturbs. *)

\* A whole wave, by the clock.
LEMMA WholeClock ==
  ASSUME Types, Whole
  PROVE  \A u \in Nat :
           /\ Cardinality(Seen(u)) \in Nat
           /\ Cardinality(Seen(u)) >= 1 <=> u >= Answer
           /\ Cardinality(Seen(u)) >= 2 <=> u >= Answer + AnswerLow
           /\ \A b \in 1 .. Bits + 1 :
                /\ Cardinality(Seen(u)) >= 2 * b + 1 <=> u >= Begin(sent, b)
                /\ Cardinality(Seen(u)) >= 2 * b + 2 => u >= Rise(sent, b)
           /\ \A b \in 1 .. Bits : u >= Rise(sent, b) => Cardinality(Seen(u)) >= 2 * b + 2
<1>1. edges \subseteq Nat /\ edges = Wave(sent)
  BY DEF Types, Whole
<1>2. \A u \in Nat : IsFiniteSet(Seen(u)) /\ Cardinality(Seen(u)) \in Nat
  <2>1. \A u \in Nat : u <= u
    OBVIOUS
  <2>2. QED
    BY ONLY <1>1, <2>1, SeenFacts
<1>3. ASSUME NEW u \in Nat
      PROVE  /\ Cardinality(Seen(u)) >= 1 <=> u >= Answer
             /\ Cardinality(Seen(u)) >= 2 <=> u >= Answer + AnswerLow
             /\ \A b \in 1 .. Bits + 1 : Cardinality(Seen(u)) >= 2 * b + 1 <=> u >= Begin(sent, b)
             /\ \A b \in 1 .. Bits : Cardinality(Seen(u)) >= 2 * b + 2 <=> u >= Rise(sent, b)
  BY <1>1, ClockFacts
<1>4. ASSUME NEW u \in Nat, Cardinality(Seen(u)) >= 2 * (Bits + 1) + 2
      PROVE  u >= Rise(sent, Bits + 1)
  <2> DEFINE last == Begin(sent, Bits + 1)
             end  == Rise(sent, Bits + 1)
  <2>1. Bits \in Nat /\ Bits + 1 \in 1 .. Bits + 1 /\ last \in Nat /\ end \in Nat
    BY BitsType, OrderFacts
  <2>2. SUFFICES ASSUME u < end PROVE FALSE
    BY <2>1
  <2>3. Seen(u) \in SUBSET Seen(last)
    <3>1. \A z \in edges : z <= u => z <= last
      BY <1>1, <2>1, <2>2, LastEdges
    <3>2. QED
      BY <3>1 DEF Seen, Upto
  <2>4. Cardinality(Seen(last)) = 2 * (Bits + 1) + 1
    BY <1>1, <2>1, WaveCounts DEF Seen
  <2>5. Cardinality(Seen(u)) <= Cardinality(Seen(last))
    BY ONLY <1>2, <2>1, <2>3, FS_Subset
  <2>6. QED
    BY <1>2, <1>4, <2>1, <2>4, <2>5
<1>5. \A b \in 1 .. Bits + 1 : b \in 1 .. Bits \/ b = Bits + 1
  BY BitsType
<1>6. QED
  BY ONLY <1>2, <1>3, <1>4, <1>5

\* The edges a quiet driver waits for.
LEMMA WholeEdges ==
  ASSUME Types, Whole
  PROVE  /\ Answer + AnswerLow \in edges /\ Answer + AnswerLow \in Nat
         /\ \A b \in 1 .. Bits + 1 :
              /\ Begin(sent, b) \in edges /\ Rise(sent, b) \in edges
              /\ Begin(sent, b) \in Nat /\ Rise(sent, b) \in Nat
              /\ Begin(sent, b) < Rise(sent, b) /\ Answer + AnswerLow < Begin(sent, b)
BY OrderFacts, LengthFacts DEF Whole, Wave, Rise

\* A wait ends at the next edge when the wire has the other level.
LEMMA WaitEnds ==
  ASSUME Types, edges' = edges, NEW low \in BOOLEAN, Comes(low), t' = FirstTime(low),
         NEW e \in edges, NEW n \in Nat,
         t < e, Count >= n, n % 2 = IF low THEN 0 ELSE 1,
         \A u \in Nat : Cardinality(Seen(u)) >= n + 1 => u >= e
  PROVE  t' = e
<1>1. t \in Nat /\ edges \subseteq Nat /\ e \in Nat
  BY DEF Types
<1>2. t' \in Nat /\ t' >= t /\ Count' % 2 = IF low THEN 1 ELSE 0
  BY WaitPasses
<1>3. Count' \in Nat /\ Count \in Nat /\ Count' >= Count /\ Count' = Cardinality(Seen(t'))
  BY ONLY <1>1, <1>2, CountStays, edges' = edges
<1>4. t' <= e
  BY ONLY <1>1, t < e, e \in edges, low \in BOOLEAN, t' = FirstTime(low), FirstEdge
<1>5. Count' >= n + 1
  BY ONLY <1>2, <1>3, n \in Nat, Count >= n, n % 2 = IF low THEN 0 ELSE 1, low \in BOOLEAN
<1>6. QED
  BY <1>1, <1>2, <1>3, <1>4, <1>5

LEMMA StepTimely ==
  ASSUME Types, TypeOK, Wired, Whole, off' = {}, Timely, Step
  PROVE  Timely'
<1>1. /\ t \in Nat /\ t' \in Nat /\ t' >= t /\ edges \subseteq Nat
      /\ sent' = sent /\ edges' = edges
  BY StepTypes DEF Types, sensor, Next
<1>2. sent \subseteq 1 .. Bits /\ Bits \in Nat \ {0} /\ k \in Nat /\ (pc # "done" => k \in 1 .. Bits)
  BY BitsType DEF TypeOK, Types
<1>3. \A b \in sent : b \in Nat /\ b < Bits + 1
  BY <1>2
<1> DEFINE R == Rise(sent, k)
           B == Begin(sent, k)
           N == Begin(sent, k + 1)
<1>4. pc # "done" =>
        /\ B \in Nat /\ R \in Nat /\ N \in Nat /\ B < R /\ R < Rise(sent, k + 1) /\ N < Rise(sent, k + 1)
        /\ R \in edges /\ N \in edges /\ B \in edges /\ Rise(sent, k + 1) \in Nat
        /\ N = R + (IF k \in sent THEN High1 ELSE High0)
        /\ Rise(sent, k + 1) = N + BitLow
  <2>1. SUFFICES ASSUME pc # "done"
                 PROVE  /\ B \in Nat /\ R \in Nat /\ N \in Nat /\ B < R /\ R < Rise(sent, k + 1) /\ N < Rise(sent, k + 1)
                        /\ R \in edges /\ N \in edges /\ B \in edges /\ Rise(sent, k + 1) \in Nat
                        /\ N = R + (IF k \in sent THEN High1 ELSE High0)
                        /\ Rise(sent, k + 1) = N + BitLow
    OBVIOUS
  <2>2. k \in 1 .. Bits /\ k \in 1 .. Bits + 1 /\ k + 1 \in 1 .. Bits + 1
    BY <1>2, <2>1
  <2>3. /\ B \in Nat /\ R \in Nat /\ N \in Nat /\ B < R /\ N < Rise(sent, k + 1)
        /\ R \in edges /\ N \in edges /\ B \in edges /\ Rise(sent, k + 1) \in Nat
    BY <2>2, WholeEdges
  <2>4. N = R + (IF k \in sent THEN High1 ELSE High0)
    BY <2>2, NextBegin
  <2>5. R < N
    BY <2>3, <2>4, LengthFacts
  <2>6. Rise(sent, k + 1) = N + BitLow
    BY DEF Rise
  <2>7. QED
    BY <2>3, <2>4, <2>5, <2>6
<1>5. Rise(sent, k)' = Rise(sent, k') /\ Begin(sent, k)' = Begin(sent, k')
  BY <1>1 DEF Rise, Begin
<1>6. /\ Answer \in Nat /\ AnswerLow \in Nat /\ Delay \in Nat /\ Wake \in Nat /\ BitLow \in Nat
      /\ High0 \in Nat /\ High1 \in Nat
      /\ Delay \in 1 .. Period /\ Wake \in 1 .. Period
  BY LengthFacts
<1>7. (Count % 2 = 1 <=> Low) /\ Count = Cardinality(Seen(t)) /\ Count \in Nat
  BY <1>1, SeenFacts, t <= t DEF Low, Passed, Count, Seen, Upto
<1> HIDE DEF R, B, N
<1>8. k' = k /\ data' = data => data' = {b \in sent : b < k}'
  BY <1>1 DEF Timely
<1>9. CASE WakeDelay
  <2>1. pc = "wake" /\ pc' = "answer" /\ UNCHANGED <<k, data>> /\ t' = t + Wake
    BY <1>9 DEF WakeDelay, DelayTo, Goto
  <2>2. t' = Wake
    BY <1>6, <2>1 DEF Timely
  <2>3. QED
    BY <1>8, <2>1, <2>2 DEF Timely
<1>10. CASE TestAnswer
  <2>1. pc = "answer" /\ UNCHANGED <<t, k, data>> /\ t = Wake
    BY <1>10 DEF TestAnswer, Goto, Timely
  <2>2. Count >= 1 /\ ~ (Count >= 2)
    <3>1. t >= Answer /\ ~ (t >= Answer + AnswerLow)
      BY <1>6, <2>1, PulseAssumption
    <3>2. QED
      BY <1>1, <1>7, <3>1, WholeClock
  <2>3. Low
    BY <1>7, <2>2
  <2>4. pc' = "low"
    BY <1>10, <2>3 DEF TestAnswer, Goto
  <2>5. QED
    BY <1>8, <2>1, <2>4 DEF Timely
<1>11. CASE WaitAnswerLow
  <2>1. /\ pc = "low" /\ pc' = "high" /\ UNCHANGED <<k, data>> /\ t = Wake
        /\ Comes(FALSE) /\ t' = FirstTime(FALSE)
    BY <1>11 DEF WaitAnswerLow, WaitFor, Goto, Timely
  <2>2. t >= Answer /\ t < Answer + AnswerLow
    BY <1>6, <2>1, PulseAssumption
  <2>3. Count >= 1
    BY <1>1, <1>7, <2>2, WholeClock
  <2>4. \A u \in Nat : Cardinality(Seen(u)) >= 1 + 1 => u >= Answer + AnswerLow
    BY WholeClock
  <2>5. Answer + AnswerLow \in edges
    BY WholeEdges
  <2>6. t' = Answer + AnswerLow
    <3>1. 1 % 2 = (IF FALSE THEN 0 ELSE 1) /\ 1 \in Nat
      OBVIOUS
    <3>2. QED
      BY ONLY <1>1, <2>1, <2>2, <2>3, <2>4, <2>5, <3>1, WaitEnds, Types
  <2>7. QED
    BY <1>8, <2>1, <2>6 DEF Timely
<1>12. CASE WaitAnswerHigh
  <2>1. /\ pc = "high" /\ pc' = "rise" /\ UNCHANGED <<k, data>> /\ t = Answer + AnswerLow /\ k = 1
        /\ Comes(TRUE) /\ t' = FirstTime(TRUE)
    BY <1>12 DEF WaitAnswerHigh, WaitFor, Goto, Timely, Types
  <2>2. Count >= 2 /\ t < B /\ 1 \in 1 .. Bits + 1
    <3>1. 1 \in 1 .. Bits + 1
      BY <1>2
    <3>2. Answer + AnswerLow < B
      BY <2>1, <3>1, WholeEdges DEF B
    <3>3. t >= Answer + AnswerLow
      BY <1>1, <2>1
    <3>4. QED
      BY <1>1, <1>7, <2>1, <3>1, <3>2, <3>3, WholeClock
  <2>3. \A u \in Nat : Cardinality(Seen(u)) >= 2 + 1 => u >= B
    <3>1. 2 * 1 + 1 = 2 + 1
      OBVIOUS
    <3>2. QED
      BY <2>1, <2>2, <3>1, WholeClock DEF B
  <2>4. t' = B
    <3>1. 2 % 2 = (IF TRUE THEN 0 ELSE 1) /\ 2 \in Nat
      OBVIOUS
    <3>2. QED
      BY ONLY <1>1, <1>4, <2>1, <2>2, <2>3, <3>1, WaitEnds, Types
  <2>5. B <= t' /\ t' < R
    <3>1. B \in Nat /\ B < R
      BY <1>4, <2>1
    <3>2. QED
      BY ONLY <2>4, <3>1
  <2>6. QED
    BY <1>5, <1>8, <2>1, <2>5 DEF Timely, B, R
<1>13. CASE WaitRise
  <2>1. /\ pc = "rise" /\ pc' = "delay" /\ UNCHANGED <<k, data>> /\ B <= t /\ t < R
        /\ Comes(FALSE) /\ t' = FirstTime(FALSE) /\ k \in 1 .. Bits /\ k \in 1 .. Bits + 1
    <3>1. /\ pc = "rise" /\ pc' = "delay" /\ UNCHANGED <<k, data>>
          /\ Comes(FALSE) /\ t' = FirstTime(FALSE)
      BY <1>13 DEF WaitRise, WaitFor, Goto
    <3>2. B <= t /\ t < R
      BY <3>1 DEF Timely, B, R
    <3>3. k \in 1 .. Bits /\ k \in 1 .. Bits + 1
      BY <1>2, <3>1
    <3>4. QED
      BY ONLY <3>1, <3>2, <3>3
  <2>2. Count >= 2 * k + 1
    <3>1. t >= B
      BY <1>1, <1>4, <2>1
    <3>2. QED
      BY <1>1, <1>7, <2>1, <3>1, WholeClock DEF B
  <2>3. \A u \in Nat : Cardinality(Seen(u)) >= 2 * k + 1 + 1 => u >= R
    <3>1. 2 * k + 1 + 1 = 2 * k + 2
      BY <1>2
    <3>2. QED
      BY <2>1, <3>1, WholeClock DEF R
  <2>4. t' = R
    <3>1. (2 * k + 1) % 2 = (IF FALSE THEN 0 ELSE 1) /\ 2 * k + 1 \in Nat
      BY <1>2
    <3>2. QED
      BY ONLY <1>1, <1>4, <2>1, <2>2, <2>3, <3>1, WaitEnds, Types
  <2>5. QED
    BY <1>5, <1>8, <2>1, <2>4 DEF Timely, R
<1>14. CASE BitDelay
  <2>1. pc = "delay" /\ pc' = "sample" /\ UNCHANGED <<k, data>> /\ t' = t + Delay
    BY <1>14 DEF BitDelay, DelayTo, Goto
  <2>2. t' = R + Delay
    BY <2>1 DEF Timely, R
  <2>3. QED
    BY <1>5, <1>8, <2>1, <2>2 DEF Timely, R
<1>15. ASSUME pc # "done", NextBit(data'), k \in 1 .. Bits, N <= t', t' < Rise(sent, k + 1),
              \A b \in sent : b \in data' <=> b \in data \/ b = k,
              data' \subseteq sent
       PROVE  Timely'
  <2>1. data = {b \in sent : b < k}
    BY DEF Timely
  <2>2. \A b \in sent : b < k + 1 <=> b < k \/ b = k
    BY <1>2, <1>3
  <2>3. data' = {b \in sent : b < k + 1}
    BY ONLY <1>15, <2>1, <2>2
  <2>4. k' = k + 1
    BY <1>15 DEF NextBit
  <2>5. data' = {b \in sent : b < k}'
    BY <1>1, <2>3, <2>4
  <2>6. CASE k < Bits
    <3>1. pc' = "rise"
      BY <1>15, <2>6 DEF NextBit
    <3>2. Begin(sent, k') <= t' /\ t' < Rise(sent, k')
      BY <1>15, <2>4 DEF N
    <3>3. QED
      BY <1>5, <2>5, <3>1, <3>2 DEF Timely
  <2>7. CASE ~ (k < Bits)
    <3>1. data' = sent
      <4>1. k = Bits
        BY <1>2, <1>15, <2>7
      <4>2. QED
        BY ONLY <1>3, <2>3, <4>1
    <3>2. Checksum(data') = Sum(data')
      BY <3>1 DEF Wired
    <3>3. pc' = "done" /\ ret' = "accepted"
      BY <1>15, <2>7, <3>2 DEF NextBit
    <3>4. QED
      BY <2>5, <3>3 DEF Timely
  <2>8. QED
    BY <2>6, <2>7
<1>16. CASE Sample
  <2>1. /\ pc = "sample" /\ UNCHANGED <<t, data>> /\ t = R + Delay /\ k \in 1 .. Bits
        /\ k \in 1 .. Bits + 1 /\ k + 1 \in 1 .. Bits + 1
    BY <1>2, <1>16 DEF Sample, Timely, R
  <2>2. Count >= 2 * k + 2
    <3>1. t >= R
      BY <1>4, <1>6, <2>1
    <3>2. QED
      BY <1>1, <1>7, <2>1, <3>1, WholeClock DEF R
  <2>3. Count >= 2 * k + 3 <=> t >= N
    <3>1. 2 * (k + 1) + 1 = 2 * k + 3
      BY <1>2
    <3>2. QED
      BY <1>1, <1>7, <2>1, <3>1, WholeClock DEF N
  <2>4. CASE k \in sent
    <3>1. t < N /\ ~ (t >= N)
      BY <1>4, <1>6, <2>1, <2>4, PulseAssumption
    <3>2. ~ Low
      BY <1>2, <1>7, <2>2, <2>3, <3>1
    <3>3. pc' = "fall" /\ k' = k
      BY <1>16, <3>2 DEF Sample
    <3>4. QED
      BY <1>1, <1>5, <1>8, <2>1, <2>4, <3>3 DEF Timely, R
  <2>5. CASE k \notin sent
    <3>1. t >= N /\ t < Rise(sent, k + 1) /\ ~ (t >= Rise(sent, k + 1))
      <4>1. N = R + High0 /\ Rise(sent, k + 1) = N + BitLow /\ R \in Nat
        BY <1>4, <2>1, <2>5
      <4>2. QED
        BY ONLY <1>6, <2>1, <4>1, PulseAssumption
    <3>2. ~ (Count >= 2 * k + 4)
      <4>1. 2 * (k + 1) + 2 = 2 * k + 4
        BY <1>2
      <4>2. QED
        BY <1>1, <1>7, <2>1, <3>1, <4>1, WholeClock
    <3>3. Low
      BY <1>2, <1>7, <2>3, <3>1, <3>2
    <3>4. NextBit(data)
      BY <1>16, <3>3 DEF Sample
    <3>5. NextBit(data')
      BY <2>1, <3>4
    <3>6. N <= t'
      BY <1>1, <1>4, <2>1, <3>1
    <3>7. data' \subseteq sent /\ \A b \in sent : b \in data' <=> b \in data \/ b = k
      BY <2>1, <2>5 DEF Timely
    <3>8. QED
      BY <1>15, <2>1, <3>1, <3>5, <3>6, <3>7
  <2>6. QED
    BY <2>4, <2>5
<1>17. CASE WaitFall
  <2>1. /\ pc = "fall" /\ t = R + Delay /\ k \in 1 .. Bits /\ k \in sent
        /\ k + 1 \in 1 .. Bits + 1 /\ Comes(TRUE) /\ t' = FirstTime(TRUE)
        /\ data' = data \union {k} /\ NextBit(data')
    <3>1. /\ pc = "fall" /\ Comes(TRUE) /\ t' = FirstTime(TRUE)
          /\ data' = data \union {k} /\ NextBit(data')
      BY <1>17 DEF WaitFall, SetBit
    <3>2. t = R + Delay /\ k \in sent
      BY <3>1 DEF Timely, R
    <3>3. k \in 1 .. Bits /\ k + 1 \in 1 .. Bits + 1
      BY <1>2, <3>1
    <3>4. QED
      BY ONLY <3>1, <3>2, <3>3
  <2>2. t < N /\ t >= R
    BY <1>4, <1>6, <2>1, PulseAssumption
  <2>3. Count >= 2 * k + 2
    BY <1>1, <1>7, <2>1, <2>2, WholeClock DEF R
  <2>4. \A u \in Nat : Cardinality(Seen(u)) >= 2 * k + 2 + 1 => u >= N
    <3>1. 2 * (k + 1) + 1 = 2 * k + 2 + 1
      BY <1>2
    <3>2. QED
      BY <2>1, <3>1, WholeClock DEF N
  <2>5. t' = N
    <3>1. (2 * k + 2) % 2 = (IF TRUE THEN 0 ELSE 1) /\ 2 * k + 2 \in Nat
      BY <1>2
    <3>2. QED
      BY ONLY <1>1, <1>4, <2>1, <2>2, <2>3, <2>4, <3>1, WaitEnds, Types
  <2>6. N <= t' /\ t' < Rise(sent, k + 1)
    <3>1. N \in Nat /\ N < Rise(sent, k + 1)
      BY <1>4, <2>1
    <3>2. QED
      BY ONLY <2>5, <3>1
  <2>7. data' \subseteq sent /\ \A b \in sent : b \in data' <=> b \in data \/ b = k
    BY <2>1 DEF Timely
  <2>8. QED
    BY <1>15, <2>1, <2>6, <2>7
<1>18. QED
  BY <1>9, <1>10, <1>11, <1>12, <1>13, <1>14, <1>16, <1>17 DEF Step
-----------------------------------------------------------------------------

LEMMA InitIInv == Init => IInv
<1> SUFFICES ASSUME Init PROVE IInv
  OBVIOUS
<1>1. sent \subseteq 1 .. Bits /\ Wired
  BY DhtAssumption DEF Init, Wired
<1>2. edges \subseteq Wave(sent) \union {cut}
  BY <1>1 DEF CutAt, Wired
<1>3. edges \subseteq Nat /\ IsFiniteSet(edges)
  BY <1>1, <1>2, WaveFacts, FS_AddElement, FS_Subset DEF Wired
<1>4. Types
  BY <1>3, BitsType, DhtAssumption DEF Init, Types
<1>5. TypeOK
  BY <1>3, BitsType, DhtAssumption DEF Init, TypeOK
<1>6. Counted
  <2>1. Count \in Nat
    BY <1>4, SeenFacts DEF Types, Count
  <2>2. QED
    BY <2>1 DEF Init, Counted, Due
<1>7. pc = "wake" /\ k = 1 /\ t = 0 /\ data = {} /\ ret = "none"
  BY DEF Init
<1>8. \A b \in sent : ~ (b < 1)
  BY <1>1, BitsType
<1>9. Checked
  BY <1>7 DEF Checked
<1>10. Reads
  <2>1. \A b \in 1 .. Bits : ~ (b < 1)
    OBVIOUS
  <2>2. QED
    BY <1>7, <2>1 DEF Reads, InTime
<1>11. OnTime
  BY <1>7, <1>8 DEF OnTime, Timely
<1>12. QED
  BY <1>1, <1>4, <1>5, <1>6, <1>9, <1>10, <1>11 DEF IInv

LEMMA DueType == ASSUME Types PROVE Due \in Nat
<1>1. 2 * (Bits + 1) + 1 \in Nat /\ \A n \in Nat : 2 * n + 1 \in Nat /\ 2 * n + 2 \in Nat
  BY BitsType
<1>2. k \in Nat /\ 0 \in Nat /\ 1 \in Nat /\ 2 \in Nat
  BY DEF Types
<1>3. QED
  BY ONLY <1>1, <1>2 DEF Due

LEMMA NextIInv == ASSUME IInv, Next PROVE IInv'
<1>1. Types /\ TypeOK /\ Counted /\ Wired /\ Checked /\ Reads /\ OnTime
  BY DEF IInv
<1>2. Types' /\ UNCHANGED sensor
  BY <1>1, StepTypes
<1>3. TypeOK' /\ Checked'
  BY <1>1, StepTypeOK, CheckedStays
<1>4. Due \in Nat /\ Due' \in Nat /\ Count \in Nat /\ Count' \in Nat
  <2>1. Due \in Nat /\ Due' \in Nat
    <3>1. 2 * (Bits + 1) + 1 \in Nat /\ \A n \in Nat : 2 * n + 1 \in Nat /\ 2 * n + 2 \in Nat
      BY BitsType
    <3>2. k' \in Nat /\ 0 \in Nat /\ 1 \in Nat /\ 2 \in Nat
      BY <1>2 DEF Types
    <3>3. Due' \in Nat
      BY ONLY <3>1, <3>2 DEF Due, Bits
    <3>4. QED
      BY <1>1, <3>3, DueType
  <2>2. edges \subseteq Nat /\ t \in Nat /\ t' \in Nat /\ t' >= t /\ edges' = edges
    BY <1>1, <1>2, StepTypes DEF Types, sensor
  <2>3. QED
    BY <2>1, <2>2, CountStays
<1>5. Counted'
  <2>1. Count >= Due + 0
    BY <1>1, <1>4 DEF Counted
  <2>2. Count' >= Due' + 0
    BY <1>1, <2>1, StepCounts
  <2>3. \A m, n \in Nat : m >= n + 0 => m >= n
    OBVIOUS
  <2>4. Count' >= Due'
    BY ONLY <1>4, <2>2, <2>3
  <2>5. QED
    BY <2>4 DEF Counted
<1>6. Wired'
  <2>1. sent' = sent /\ cut' = cut /\ edges' = edges
    BY <1>2 DEF sensor
  <2>2. QED
    BY <1>1, <2>1 DEF Wired, CutAt, Wave, Begin, Checksum, Sum, Worth, Bits
<1>8. Reads'
  <2>1. SUFFICES ASSUME Kept', ~ Lost' PROVE InTime'
    BY DEF Reads
  <2>2. Kept
    BY <1>2, <2>1 DEF sensor, Kept, Bits
  <2>3. ~ Lost
    <3>1. Lost => Lost'
      BY <1>1, StepCounts DEF Lost
    <3>2. QED
      BY <2>1, <3>1
  <2>4. InTime
    BY <1>1, <2>2, <2>3 DEF Reads
  <2>5. QED
    BY <1>1, <1>2, <1>5, <2>1, <2>2, <2>3, <2>4, StepInTime
<1>9. OnTime'
  <2>1. SUFFICES ASSUME Quiet' PROVE Timely'
    BY DEF OnTime
  <2>2. Whole /\ off' = {} /\ off \subseteq off'
    <3>1. Whole /\ off' = {}
      BY <1>2, <2>1 DEF Quiet, sensor, Whole, Wave, Begin, Bits
    <3>2. QED
      BY <3>1, OffGrows
  <2>3. Timely
    BY <1>1, <2>2 DEF OnTime, Quiet
  <2>4. Step
    BY <2>2 DEF Next, Preempt
  <2>5. QED
    BY <1>1, <2>2, <2>3, <2>4, StepTimely
<1>10. QED
  BY <1>2, <1>3, <1>5, <1>6, <1>8, <1>9 DEF IInv

LEMMA IdleIInv == ASSUME IInv, UNCHANGED vars PROVE IInv'
<1>1. /\ UNCHANGED <<sent, edges, cut, sys, hal>> /\ UNCHANGED <<pc, t, k, data, ret, preempts, off>>
  BY DEF vars, sensor
<1>2. Types' /\ TypeOK' /\ Counted'
  BY <1>1 DEF IInv, Types, TypeOK, Counted, Count, Seen, Upto, Due, Bits
<1>3. Wired' /\ Checked'
  BY <1>1 DEF IInv, Wired, Checked, CutAt, Wave, Begin, Checksum, Sum, Worth, Bits
<1>4. Reads'
  <2>1. Kept' = Kept /\ Lost' = Lost
    BY <1>1 DEF Kept, Lost, Count, Seen, Upto, Due, Bits
  <2>2. InTime' = InTime
    BY <1>1 DEF InTime, Rise, Begin, Bits
  <2>3. QED
    BY <1>1, <2>1, <2>2 DEF IInv, Reads
<1>5. OnTime'
  BY <1>1 DEF IInv, OnTime, Quiet, Timely, Whole, Wave, Rise, Begin, Bits
<1>6. QED
  BY <1>2, <1>3, <1>4, <1>5 DEF IInv

\* The invariant the results below are read from.
THEOREM Invariance == Spec => []IInv
<1>1. IInv /\ [Next]_vars => IInv'
  BY NextIInv, IdleIInv
<1>2. QED
  BY InitIInv, <1>1, PTL DEF Spec

\* TypeOK: in particular the driver never writes a bit outside the five bytes of
\* DHT11_Data and never reads more than forty.
THEOREM TypeCorrect == Spec => []TypeOK
<1>1. IInv => TypeOK
  BY DEF IInv
<1>2. QED
  BY <1>1, Invariance, PTL

\* NothingFromACutSensor: without a timeout and without a look at the length of a
\* low, DHT11_ReadData still returns 1 only for a wire that has had all its edges.
THEOREM CutSensorRefused == Spec => []NothingFromACutSensor
<1>1. IInv => NothingFromACutSensor
  <2> SUFFICES ASSUME IInv, ret = "accepted" PROVE Cardinality(edges) >= 2 * (Bits + 1) + 1
    BY DEF NothingFromACutSensor
  <2>1. Cardinality(Seen(t)) >= 2 * (Bits + 1) + 1
    BY DEF IInv, Types, Counted, Count, Due
  <2>2. Seen(t) \in SUBSET edges /\ IsFiniteSet(edges) /\ IsFiniteSet(Seen(t))
    BY FS_Subset DEF Seen, Upto, IInv, Types
  <2>3. /\ Cardinality(Seen(t)) \in Nat /\ Cardinality(edges) \in Nat
        /\ Cardinality(Seen(t)) <= Cardinality(edges)
    BY <2>2, FS_Subset, FS_CardinalityType
  <2>4. QED
    BY <2>1, <2>3, BitsType
<1>2. QED
  BY <1>1, Invariance, PTL

\* AcceptedIsInStep: for every phase of the timers, every length of a preemption and
\* any number of them, an accepted reading is wrong only in bits that were disturbed
\* themselves, and in two of them or more.
THEOREM AcceptedInStep == Spec => []AcceptedIsInStep
<1>1. IInv => AcceptedIsInStep
  BY ReadInStep DEF IInv, AcceptedIsInStep
<1>2. QED
  BY <1>1, Invariance, PTL

\* A wave has one edge behind the last bit.
LEMMA WaveIsLonger == ASSUME NEW s PROVE Cardinality(Wave(s)) >= 2 * Bits + 4
<1> DEFINE last == Begin(s, Bits + 1)
           body == Upto(Wave(s), last)
           end  == Rise(s, Bits + 1)
<1>1. Bits \in Nat \ {0} /\ Bits + 1 \in 1 .. Bits + 1
  BY BitsType
<1>2. Cardinality(body) = 2 * (Bits + 1) + 1
  BY <1>1, WaveFacts, WaveCounts
<1>3. IsFiniteSet(body) /\ body \subseteq Wave(s)
  BY WaveFacts, FS_Subset DEF Upto
<1>4. end \in Wave(s) /\ end \notin body
  <2>1. last < end /\ last \in Nat /\ end \in Nat
    BY <1>1, OrderFacts
  <2>2. end \in Wave(s)
    BY <1>1 DEF Wave, Rise
  <2>3. ~ (end <= last)
    BY <2>1
  <2>4. QED
    BY <2>2, <2>3 DEF Upto
<1> HIDE DEF last, body, end
<1>5. Cardinality(body \union {end}) = 2 * Bits + 4
  BY <1>1, <1>2, <1>3, <1>4, FS_AddElement
<1>6. Cardinality(body \union {end}) <= Cardinality(Wave(s))
  BY <1>3, <1>4, WaveFacts, FS_Subset
<1>7. Cardinality(Wave(s)) \in Nat
  BY WaveFacts, FS_CardinalityType
<1>8. QED
  BY <1>1, <1>5, <1>6, <1>7

\* What ReadEnds asks for, without its fairness: the edge a driver waits for that
\* keeps in step is still to come, and a read that nothing has disturbed ends with
\* what was sent.
WaitsEnd ==
  Whole =>
    /\ InStep /\ pc \in {"low", "rise"} => Comes(FALSE)
    /\ InStep /\ pc \in {"high", "fall"} => Comes(TRUE)
    /\ pc = "done" /\ off = {} => ret = "accepted" /\ data = sent

\* The waits of DHT11_ReadByte have no timeout: at every phase of the timers and
\* with any preemptions they need none as long as no two edges go by unseen.
THEOREM NoWaitForEver == Spec => []WaitsEnd
<1>1. IInv => WaitsEnd
  <2> SUFFICES ASSUME IInv, Whole
               PROVE  /\ InStep /\ pc \in {"low", "rise"} => Comes(FALSE)
                      /\ InStep /\ pc \in {"high", "fall"} => Comes(TRUE)
                      /\ pc = "done" /\ off = {} => ret = "accepted" /\ data = sent
    BY DEF WaitsEnd
  <2>1. Types /\ Wired /\ Checked /\ OnTime /\ sent \subseteq 1 .. Bits
    BY DEF IInv, Wired
  <2>2. Bits \in Nat \ {0} /\ k \in Nat /\ (pc # "done" => k \in 1 .. Bits)
    BY <2>1, BitsType DEF Types
  <2>3. ASSUME InStep, pc \in {"low", "high", "rise", "fall"} PROVE \E e \in edges : e > t
    <3>1. Passed <= Due + 1 /\ Due <= 2 * k + 2 /\ Due \in Nat
      <4>1. Passed <= Due + 1
        BY <2>3 DEF InStep
      <4>2. Due \in {1, 2, 2 * k + 1, 2 * k + 2}
        BY <2>3 DEF Due
      <4>3. QED
        BY <2>2, <4>1, <4>2
    <3>2. SUFFICES ASSUME \A e \in edges : ~ (e > t) PROVE FALSE
      OBVIOUS
    <3>3. \A e \in edges : e <= t
      BY <2>1, <3>2 DEF Types
    <3>4. {e \in edges : e <= t} = edges
      BY <3>3
    <3>5. Passed = Cardinality(Wave(sent))
      BY <3>4 DEF Passed, Whole
    <3>6. Cardinality(Wave(sent)) \in Nat
      BY WaveFacts, FS_CardinalityType
    <3>7. k <= Bits /\ 2 * k + 3 < 2 * Bits + 4
      BY <2>2, <2>3
    <3>8. QED
      BY <2>2, <3>1, <3>5, <3>6, <3>7, WaveIsLonger
  <2>4. ASSUME pc = "done", off = {} PROVE ret = "accepted" /\ data = sent
    <3>1. Timely
      BY <2>1, <2>4 DEF OnTime, Quiet
    <3>2. ret = "accepted" /\ data = {b \in sent : b < k}
      BY <2>4, <3>1 DEF Timely
    <3>3. k = Bits + 1
      BY <2>1, <3>2 DEF Checked
    <3>4. \A b \in sent : b < k
      BY <2>1, <2>2, <3>3
    <3>5. QED
      BY ONLY <3>2, <3>4
  <2>5. QED
    BY <2>3, <2>4 DEF Comes
<1>2. QED
  BY <1>1, Invariance, PTL
=============================================================================
