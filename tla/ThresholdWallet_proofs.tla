----------------------- MODULE ThresholdWallet_proofs -----------------------
(***************************************************************************)
(* The wallet of a threshold key, whatever the number of parties, signers  *)
(* and rounds, and whatever is lost, overtaken or given up: first the key  *)
(* generation and the wallet, then the signature, however many documents   *)
(* a session has.                                                          *)
(***************************************************************************)
EXTENDS ThresholdWallet, FiniteSetTheorems, SequenceTheorems, WellFoundedInduction, TLAPS

-----------------------------------------------------------------------------
(***************************************************************************)
(* What the operators of TssRounds do to rounds in which no party has two  *)
(* messages and only the last round may be incomplete.                     *)
(***************************************************************************)

RoundsRight(series, parties, size) ==
  /\ parties \subseteq Int /\ size \in Nat \ {0}
  /\ series \in Seq(Seq(parties))
  /\ \A i \in DOMAIN series :
       /\ series[i] # <<>> /\ Len(series[i]) <= size /\ IsInjective(series[i])
       /\ i < Len(series) => Len(series[i]) = size

(* A sequence without repetitions has as many elements as positions.       *)
LEMMA InjectiveCardinality ==
  ASSUME NEW S, NEW s \in Seq(S), IsInjective(s)
  PROVE  IsFiniteSet(ToSet(s)) /\ Cardinality(ToSet(s)) = Len(s)
<1>1. DOMAIN s = 1 .. Len(s) /\ Len(s) \in Nat
  OBVIOUS
<1>2. s \in Surjection(1 .. Len(s), ToSet(s)) /\ s \in Injection(1 .. Len(s), ToSet(s))
  BY <1>1 DEF Surjection, Injection, ToSet, IsInjective
<1>3. IsFiniteSet(1 .. Len(s)) /\ Cardinality(1 .. Len(s)) = Len(s)
  BY <1>1, FS_Interval
<1> QED
  BY <1>1, <1>2, <1>3, FS_Surjection

(* What another message makes of the messages of a round.                  *)
LEMMA AppendAdds ==
  ASSUME NEW S, NEW s \in Seq(S), NEW p \in S
  PROVE  LET t == Append(s, p) IN
         /\ t \in Seq(S) /\ Len(t) = Len(s) + 1 /\ ToSet(t) = ToSet(s) \cup {p}
         /\ IsInjective(s) /\ p \notin ToSet(s) => IsInjective(t)
  BY DEF ToSet, IsInjective

LEMMA SortedAdds ==
  ASSUME NEW S \in SUBSET Int, NEW s \in Seq(S), NEW p \in S
  PROVE  LET t == Sorted(s, p) IN
         /\ t \in Seq(S) /\ Len(t) = Len(s) + 1 /\ ToSet(t) = ToSet(s) \cup {p}
         /\ IsInjective(s) /\ p \notin ToSet(s) => IsInjective(t)
<1> DEFINE smaller == {i \in DOMAIN s : s[i] < p}
           k == Cardinality(smaller)
           t == [i \in 1 .. Len(s) + 1 |->
                  IF i <= k THEN s[i] ELSE IF i = k + 1 THEN p ELSE s[i - 1]]
<1>1. k \in 0 .. Len(s)
  <2>1. IsFiniteSet(1 .. Len(s)) /\ Cardinality(1 .. Len(s)) = Len(s)
    BY FS_Interval, LenProperties
  <2>2. smaller \in SUBSET (1 .. Len(s))
    OBVIOUS
  <2>3. IsFiniteSet(smaller) /\ Cardinality(smaller) <= Len(s)
    BY <2>1, <2>2, FS_Subset
  <2> QED
    BY <2>3, FS_CardinalityType
<1>2. Sorted(s, p) = SubSeq(s, 1, k) \o <<p>> \o SubSeq(s, k + 1, Len(s))
  BY Zenon DEF Sorted
<1> HIDE DEF k, smaller
<1>3. /\ Sorted(s, p) \in Seq(S) /\ Len(Sorted(s, p)) = Len(s) + 1
      /\ \A i \in 1 .. Len(s) + 1 : Sorted(s, p)[i] = t[i]
  <2> DEFINE a == SubSeq(s, 1, k)
             b == SubSeq(s, k + 1, Len(s))
  <2>1. a \in Seq(S) /\ Len(a) = k /\ \A i \in 1 .. k : a[i] = s[i]
    BY <1>1, SubSeqProperties
  <2>2. b \in Seq(S) /\ Len(b) = Len(s) - k /\ \A i \in 1 .. Len(s) - k : b[i] = s[i + k]
    BY <1>1, SubSeqProperties
  <2>3. <<p>> \in Seq(S) /\ Len(<<p>>) = 1 /\ <<p>>[1] = p
    OBVIOUS
  <2> DEFINE c == a \o <<p>>
             d == c \o b
  <2>4. Sorted(s, p) = d
    BY <1>2
  <2> HIDE DEF a, b
  <2>5. c \in Seq(S) /\ Len(c) = k + 1 /\ \A i \in 1 .. k + 1 : c[i] = IF i <= k THEN s[i] ELSE p
    BY <1>1, <2>1, <2>3, ConcatProperties
  <2> HIDE DEF c
  <2>6. /\ d \in Seq(S) /\ Len(d) = Len(s) + 1
        /\ \A i \in 1 .. Len(s) + 1 : d[i] = IF i <= k + 1 THEN c[i] ELSE b[i - (k + 1)]
    <3>1. Len(c) + Len(b) = Len(s) + 1
      BY <1>1, <2>2, <2>5
    <3>2. /\ d \in Seq(S) /\ Len(d) = Len(c) + Len(b)
          /\ \A i \in 1 .. Len(c) + Len(b) : d[i] = IF i <= Len(c) THEN c[i] ELSE b[i - Len(c)]
      BY <2>2, <2>5, ConcatProperties
    <3> HIDE DEF d
    <3> QED
      BY <2>5, <3>1, <3>2
  <2> HIDE DEF d
  <2>7. ASSUME NEW i \in 1 .. Len(s) + 1 PROVE d[i] = t[i]
    <3>1. Len(s) \in Nat /\ k \in Nat /\ i \in Nat
      BY <1>1
    <3>2. CASE i <= k + 1
      BY <2>5, <2>6, <3>1, <3>2
    <3>3. CASE i > k + 1
      <4>1. i - (k + 1) \in 1 .. Len(s) - k /\ i - (k + 1) + k = i - 1
        BY <1>1, <3>1, <3>3
      <4>2. d[i] = b[i - (k + 1)]
        BY <2>6, <3>1, <3>3
      <4>3. t[i] = s[i - 1]
        BY <3>1, <3>3
      <4> QED
        BY <2>2, <4>1, <4>2, <4>3
    <3> QED
      BY <3>1, <3>2, <3>3
  <2> QED
    BY <2>4, <2>6, <2>7
<1> DEFINE u == Sorted(s, p)
<1> HIDE DEF u
<1>4. /\ u \in Seq(S) /\ Len(u) = Len(s) + 1
      /\ \A i \in 1 .. k : u[i] = s[i]
      /\ u[k + 1] = p
      /\ \A i \in k + 2 .. Len(s) + 1 : u[i] = s[i - 1]
  BY <1>1, <1>3 DEF u
<1>5. ToSet(u) = ToSet(s) \cup {p}
  <2>1. ASSUME NEW i \in 1 .. Len(s) PROVE s[i] = u[i] \/ (s[i] = u[i + 1] /\ i + 1 \in 1 .. Len(s) + 1)
    BY <1>1, <1>4
  <2>2. ASSUME NEW i \in 1 .. Len(s) + 1
        PROVE  u[i] = p \/ \E j \in 1 .. Len(s) : u[i] = s[j]
    BY <1>1, <1>4
  <2>3. k + 1 \in 1 .. Len(s) + 1
    BY <1>1
  <2>4. DOMAIN s = 1 .. Len(s) /\ DOMAIN u = 1 .. Len(s) + 1
    BY <1>4
  <2>5. ToSet(s) \subseteq ToSet(u)
    BY <2>1, <2>4 DEF ToSet
  <2>6. ToSet(u) \subseteq ToSet(s) \cup {p}
    BY <2>2, <2>4 DEF ToSet
  <2>7. p \in ToSet(u)
    BY <1>4, <2>3, <2>4 DEF ToSet
  <2> QED
    BY <2>5, <2>6, <2>7
<1>6. ASSUME IsInjective(s), p \notin ToSet(s) PROVE IsInjective(u)
  <2>1. \A i \in 1 .. Len(s) : s[i] # p
    BY <1>6 DEF ToSet
  <2>2. \A i, j \in 1 .. Len(s) : s[i] = s[j] => i = j
    BY <1>6 DEF IsInjective
  <2> DEFINE before(i) == IF i <= k THEN i ELSE i - 1
  <2>3. \A i \in (1 .. Len(s) + 1) \ {k + 1} :
          before(i) \in 1 .. Len(s) /\ u[i] = s[before(i)]
    BY <1>1, <1>4
  <2>4. \A i, j \in (1 .. Len(s) + 1) \ {k + 1} : before(i) = before(j) => i = j
    BY <1>1
  <2> HIDE DEF before
  <2>5. \A i, j \in 1 .. Len(s) + 1 : u[i] = u[j] => i = j
    BY <1>4, <2>1, <2>2, <2>3, <2>4
  <2> QED
    BY <1>4, <2>5 DEF IsInjective
<1> QED
  BY <1>4, <1>5, <1>6 DEF u
-----------------------------------------------------------------------------
(* What is known of each round.                                            *)
LEMMA RoundFacts ==
  ASSUME NEW parties, NEW series, NEW size, RoundsRight(series, parties, size),
         NEW r \in Nat, r < Len(series)
  PROVE  /\ r + 1 \in DOMAIN series /\ series[r + 1] \in Seq(parties)
         /\ Senders(series, r) = ToSet(series[r + 1])
         /\ Senders(series, r) \subseteq parties
         /\ IsInjective(series[r + 1])
         /\ IsFiniteSet(Senders(series, r))
         /\ Cardinality(Senders(series, r)) = Len(series[r + 1])
         /\ Len(series[r + 1]) \in 1 .. size
         /\ r + 1 < Len(series) => Len(series[r + 1]) = size
<1>1. r + 1 \in DOMAIN series /\ series[r + 1] \in Seq(parties)
  BY DEF RoundsRight
<1>2. /\ IsInjective(series[r + 1]) /\ series[r + 1] # <<>> /\ Len(series[r + 1]) <= size
      /\ r + 1 < Len(series) => Len(series[r + 1]) = size
  BY <1>1 DEF RoundsRight
<1>3. Senders(series, r) = ToSet(series[r + 1])
  BY DEF Senders
<1>4. ToSet(series[r + 1]) \subseteq parties
  BY <1>1 DEF ToSet
<1>5. Len(series[r + 1]) \in Nat \ {0}
  BY <1>1, <1>2, EmptySeq
<1> QED
  BY <1>1, <1>2, <1>3, <1>4, <1>5, InjectiveCardinality DEF RoundsRight

LEMMA NoRound ==
  ASSUME NEW series, NEW r, ~ (r < Len(series))
  PROVE  Senders(series, r) = {} /\ \A p : FromOthers(series, r, p) = 0
  BY DEF Senders, FromOthers

(* The messages of the others are those of all senders but the party.      *)
LEMMA OthersInSequence ==
  ASSUME NEW S, NEW s \in Seq(S), IsInjective(s), NEW p
  PROVE  Cardinality({i \in DOMAIN s : s[i] # p}) =
           IF p \in ToSet(s) THEN Cardinality(ToSet(s)) - 1 ELSE Cardinality(ToSet(s))
<1>1. Len(s) \in Nat /\ DOMAIN s = 1 .. Len(s)
  BY LenProperties
<1>2. IsFiniteSet(1 .. Len(s)) /\ Cardinality(1 .. Len(s)) = Len(s)
  BY <1>1, FS_Interval
<1>3. Cardinality(ToSet(s)) = Len(s)
  BY InjectiveCardinality
<1>4. CASE p \notin ToSet(s)
  <2>1. {i \in DOMAIN s : s[i] # p} = 1 .. Len(s)
    BY <1>1, <1>4 DEF ToSet
  <2> QED
    BY <1>2, <1>3, <1>4, <2>1
<1>5. CASE p \in ToSet(s)
  <2>1. PICK k \in 1 .. Len(s) : s[k] = p
    BY <1>1, <1>5 DEF ToSet
  <2>2. {i \in DOMAIN s : s[i] # p} = (1 .. Len(s)) \ {k}
    BY <1>1, <2>1 DEF IsInjective
  <2>3. Cardinality((1 .. Len(s)) \ {k}) = Len(s) - 1
    BY <1>2, <2>1, FS_RemoveElement
  <2> QED
    BY <1>3, <1>5, <2>2, <2>3
<1> QED
  BY <1>4, <1>5

LEMMA OthersCounted ==
  ASSUME NEW parties, NEW series, NEW size, RoundsRight(series, parties, size),
         NEW r \in Nat, r < Len(series), NEW p
  PROVE  FromOthers(series, r, p) =
           IF p \in Senders(series, r) THEN Cardinality(Senders(series, r)) - 1
           ELSE Cardinality(Senders(series, r))
<1>1. /\ series[r + 1] \in Seq(parties) /\ IsInjective(series[r + 1])
      /\ Senders(series, r) = ToSet(series[r + 1])
  BY RoundFacts
<1>2. FromOthers(series, r, p) =
        Cardinality({i \in DOMAIN series[r + 1] : series[r + 1][i] # p})
  BY DEF FromOthers
<1> QED
  BY <1>1, <1>2, OthersInSequence

(* A message that is accepted is of the round whose number is known; the   *)
(* rounds before it are complete, and its own is not.                      *)
LEMMA AcceptedRound ==
  ASSUME NEW parties, NEW series, NEW size, RoundsRight(series, parties, size),
         series # <<>>, NEW p, NEW r, Accepts(series, r, p, size), r \in Nat
  PROVE  /\ r <= Len(series) /\ p \notin Senders(series, r)
         /\ \A q \in 0 .. r - 1 : q < Len(series) /\ Cardinality(Senders(series, q)) = size
         /\ Cardinality(Senders(series, r)) # size
         /\ r < Len(series) => r + 1 = Len(series) /\ Len(series[r + 1]) < size
<1> DEFINE last == Len(series)
           lastLen == Len(series[last])
<1>1. /\ series \in Seq(Seq(parties)) /\ last \in Nat \ {0} /\ size \in Nat \ {0}
      /\ r = CurrentRound(series, size) /\ p \notin Senders(series, r)
  BY EmptySeq DEF Accepts, RoundsRight
<1>2. r = IF lastLen = size THEN last ELSE last - 1
  BY <1>1 DEF CurrentRound
<1>3. ASSUME NEW q \in Nat, q < last
      PROVE  /\ Cardinality(Senders(series, q)) = Len(series[q + 1])
             /\ q + 1 < last => Cardinality(Senders(series, q)) = size
  BY <1>3, RoundFacts
<1>4. lastLen \in 1 .. size /\ Cardinality(Senders(series, last - 1)) = lastLen
  <2>1. last - 1 \in Nat /\ last - 1 < last /\ (last - 1) + 1 = last
    BY <1>1
  <2>2. Cardinality(Senders(series, last - 1)) = Len(series[(last - 1) + 1])
        /\ Len(series[(last - 1) + 1]) \in 1 .. size
    BY <2>1, RoundFacts
  <2> QED
    BY <2>1, <2>2
<1>5. Cardinality(Senders(series, last)) = 0
  <2>1. Senders(series, last) = {}
    BY <1>1 DEF Senders
  <2> QED
    BY <2>1, FS_EmptySet
<1>6. r < last => Len(series[r + 1]) = lastLen
  BY <1>1, <1>2
<1> HIDE DEF lastLen, last
<1>7. r \in {last - 1, last} /\ (r = last <=> lastLen = size)
  BY <1>1, <1>2
<1>8. ASSUME NEW q \in 0 .. r - 1
      PROVE  q < last /\ Cardinality(Senders(series, q)) = size
  <2>1. q \in Nat /\ q < last
    BY <1>1, <1>7
  <2>2. CASE q + 1 < last
    BY <1>3, <2>1, <2>2
  <2>3. CASE ~ (q + 1 < last)
    <3>1. q = last - 1 /\ r = last
      BY <1>1, <1>7, <2>1, <2>3
    <3> QED
      BY <1>4, <1>7, <2>1, <3>1
  <2> QED
    BY <2>2, <2>3
<1>9. Cardinality(Senders(series, r)) # size
  BY <1>1, <1>4, <1>5, <1>7
<1>10. r <= last /\ (r < last => r + 1 = last /\ Len(series[r + 1]) < size)
  BY <1>1, <1>4, <1>6, <1>7
<1> QED
  BY <1>1, <1>8, <1>9, <1>10 DEF last

(* Rounds with another last round, in place of the last or after it.       *)
LEMMA LastRound ==
  ASSUME NEW parties, NEW series, NEW size, NEW after,
         RoundsRight(series, parties, size), after \in Seq(Seq(parties)), after # <<>>,
         Len(series) = Len(after) \/ Len(series) = Len(after) - 1,
         \A i \in 1 .. Len(after) - 1 : after[i] = series[i] /\ Len(series[i]) = size,
         after[Len(after)] # <<>>, Len(after[Len(after)]) <= size, IsInjective(after[Len(after)])
  PROVE  RoundsRight(after, parties, size)
<1>1. DOMAIN after = 1 .. Len(after)
  BY LenProperties
<1> DEFINE last == Len(after)
<1>6. last = Len(after) /\ last \in Nat \ {0} /\ (Len(series) = last \/ Len(series) = last - 1)
  BY LenProperties, EmptySeq
<1>7. /\ \A i \in 1 .. last - 1 : after[i] = series[i] /\ Len(series[i]) = size
      /\ after[last] # <<>> /\ Len(after[last]) <= size /\ IsInjective(after[last])
  OBVIOUS
<1> HIDE DEF last
<1>2. ASSUME NEW i \in 1 .. last
      PROVE  /\ after[i] # <<>> /\ Len(after[i]) <= size /\ IsInjective(after[i])
             /\ i < last => Len(after[i]) = size
  <2>1. CASE i = last
    <3>1. ~ (i < last)
      BY <1>6, <2>1
    <3> QED
      BY <1>7, <2>1, <3>1, Zenon
  <2>2. CASE i # last
    <3>1. i \in 1 .. last - 1
      BY <1>6, <2>2
    <3>2. after[i] = series[i] /\ Len(series[i]) = size
      BY <1>7, <3>1
    <3>3. i \in DOMAIN series
      BY <1>6, <3>1, LenProperties DEF RoundsRight
    <3>4. series[i] # <<>> /\ Len(series[i]) <= size /\ IsInjective(series[i])
      BY <3>3 DEF RoundsRight
    <3> QED
      BY <3>2, <3>4, Zenon
  <2> QED
    BY <2>1, <2>2
<1>3. RoundsRight(after, parties, size)
  <2>1. parties \subseteq Int /\ size \in Nat \ {0}
    BY DEF RoundsRight
  <2> QED
    BY <1>1, <1>2, <1>6, <2>1, Zenon DEF RoundsRight
<1> QED
  BY <1>3

LEMMA LastSenders ==
  ASSUME NEW series, NEW after, Len(after) \in Nat \ {0},
         Len(series) = Len(after) \/ Len(series) = Len(after) - 1,
         \A i \in 1 .. Len(after) - 1 : after[i] = series[i]
  PROVE  /\ Senders(after, Len(after) - 1) = ToSet(after[Len(after)])
         /\ \A q \in Nat \ {Len(after) - 1} : Senders(after, q) = Senders(series, q)
<1> DEFINE last == Len(after)
<1>1. last = Len(after) /\ last \in Nat \ {0} /\ (Len(series) = last \/ Len(series) = last - 1)
  OBVIOUS
<1>4. \A i \in 1 .. last - 1 : after[i] = series[i]
  OBVIOUS
<1> HIDE DEF last
<1>2. Senders(after, last - 1) = ToSet(after[last])
  <2>1. last - 1 < Len(after) /\ (last - 1) + 1 = last
    BY <1>1
  <2> QED
    BY <2>1, Zenon DEF Senders
<1>3. ASSUME NEW q \in Nat \ {last - 1} PROVE Senders(after, q) = Senders(series, q)
  <2>1. CASE q < last - 1
    <3>1. q + 1 \in 1 .. last - 1 /\ q < Len(after) /\ q < Len(series)
      BY <1>1, <2>1
    <3>2. after[q + 1] = series[q + 1]
      BY <1>4, <3>1
    <3> QED
      BY <3>1, <3>2, Zenon DEF Senders
  <2>2. CASE q > last - 1
    <3>1. ~ (q < Len(after)) /\ ~ (q < Len(series))
      BY <1>1, <2>2
    <3> QED
      BY <3>1, Zenon DEF Senders
  <2> QED
    BY <1>1, <2>1, <2>2
<1> QED
  BY <1>1, <1>2, <1>3

LEMMA OneMessage ==
  ASSUME NEW parties, NEW p, p \in parties
  PROVE  /\ <<p>> \in Seq(parties) /\ <<p>> # <<>> /\ Len(<<p>>) = 1
         /\ IsInjective(<<p>>) /\ ToSet(<<p>>) = {p}
  BY DEF IsInjective, ToSet

(* A last round that is there has all parties of the rounds before it.     *)
LEMMA FullRounds ==
  ASSUME NEW parties, NEW series, NEW size, NEW p, NEW r,
         RoundsRight(series, parties, size), series # <<>>,
         Accepts(series, r, p, size), r \in Nat
  PROVE  \A i \in 1 .. r : i <= Len(series) /\ Len(series[i]) = size
<1>1. ASSUME NEW i \in 1 .. r PROVE i <= Len(series) /\ Len(series[i]) = size
  <2>1. i - 1 \in 0 .. r - 1 /\ i - 1 \in Nat /\ (i - 1) + 1 = i
    OBVIOUS
  <2>2. i - 1 < Len(series) /\ Cardinality(Senders(series, i - 1)) = size
    BY <2>1, AcceptedRound
  <2>3. Len(series[(i - 1) + 1]) = size
    BY <2>1, <2>2, RoundFacts
  <2>4. Len(series) \in Nat
    BY LenProperties DEF RoundsRight
  <2> QED
    BY <2>1, <2>2, <2>3, <2>4
<1> QED
  BY <1>1

(* What a message that is accepted makes of the rounds.                    *)
IsPushed(pushed, series, parties, size, r, p) ==
  /\ RoundsRight(pushed, parties, size) /\ pushed # <<>>
  /\ Len(pushed) = IF r = Len(series) THEN Len(series) + 1 ELSE Len(series)
  /\ Senders(pushed, r) = Senders(series, r) \cup {p}
  /\ \A q \in Nat \ {r} : Senders(pushed, q) = Senders(series, q)

LEMMA PushedRight ==
  ASSUME NEW parties, NEW series, NEW size, NEW p, NEW r, NEW ordered,
         RoundsRight(series, parties, size), series # <<>>,
         Accepts(series, r, p, size), r \in Nat, p \in parties, ordered \in BOOLEAN
  PROVE  IsPushed(Pushed(series, r, p, ordered), series, parties, size, r, p)
<1>1. /\ series \in Seq(Seq(parties)) /\ Len(series) \in Nat \ {0}
      /\ size \in Nat \ {0} /\ parties \in SUBSET Int
  BY EmptySeq DEF RoundsRight
<1>2. /\ r <= Len(series) /\ p \notin Senders(series, r)
      /\ \A q \in 0 .. r - 1 : q < Len(series) /\ Cardinality(Senders(series, q)) = size
      /\ r < Len(series) => r + 1 = Len(series) /\ Len(series[r + 1]) < size
  BY AcceptedRound
<1>9. \A i \in 1 .. r : i <= Len(series) /\ Len(series[i]) = size
  BY FullRounds
<1>5. PICK pushed : pushed = Pushed(series, r, p, ordered)
  OBVIOUS
<1>6. CASE r = Len(series)
  <2>1. pushed = Append(series, <<p>>)
    BY <1>5, <1>6, Zenon DEF Pushed
  <2>2. /\ <<p>> \in Seq(parties) /\ <<p>> # <<>> /\ Len(<<p>>) = 1
        /\ IsInjective(<<p>>) /\ ToSet(<<p>>) = {p}
    BY OneMessage, Zenon
  <2>3. /\ pushed \in Seq(Seq(parties)) /\ Len(pushed) = Len(series) + 1
        /\ \A i \in 1 .. Len(series) : pushed[i] = series[i]
        /\ pushed[Len(series) + 1] = <<p>>
    BY <1>1, <2>1, <2>2, AppendProperties
  <2>4. /\ Len(series) + 1 \in Nat \ {0} /\ (Len(series) + 1) - 1 = r
        /\ Len(series) = (Len(series) + 1) - 1
    BY <1>1, <1>6
  <2>5. \A i \in 1 .. (Len(series) + 1) - 1 : pushed[i] = series[i] /\ Len(series[i]) = size
    BY <1>6, <1>9, <2>3, <2>4, Zenon
  <2>6. /\ pushed[Len(series) + 1] # <<>> /\ IsInjective(pushed[Len(series) + 1])
        /\ ToSet(pushed[Len(series) + 1]) = {p}
    BY <2>2, <2>3, Zenon
  <2>7. Len(pushed[Len(series) + 1]) <= size
    <3>1. 1 <= size
      BY <1>1
    <3> QED
      BY <2>2, <2>3, <3>1, Zenon
  <2>12. pushed # <<>>
    BY <2>3, <2>4, EmptySeq
  <2>9. /\ RoundsRight(pushed, parties, size)
        /\ Senders(pushed, Len(pushed) - 1) = ToSet(pushed[Len(pushed)])
        /\ \A q \in Nat \ {Len(pushed) - 1} : Senders(pushed, q) = Senders(series, q)
    <3>1. \A i \in 1 .. Len(pushed) - 1 : pushed[i] = series[i] /\ Len(series[i]) = size
      BY <2>3, <2>5, Zenon
    <3>2. /\ pushed[Len(pushed)] # <<>> /\ Len(pushed[Len(pushed)]) <= size
          /\ IsInjective(pushed[Len(pushed)])
      BY <2>3, <2>6, <2>7, Zenon
    <3>3. Len(series) = Len(pushed) - 1
      BY <2>3, <2>4, Zenon
    <3>4. RoundsRight(pushed, parties, size)
      BY <2>3, <2>12, <3>1, <3>2, <3>3, LastRound
    <3>5. Senders(pushed, Len(pushed) - 1) = ToSet(pushed[Len(pushed)])
      BY <2>3, <2>4, <3>1, <3>3, LastSenders
    <3>6. \A q \in Nat \ {Len(pushed) - 1} : Senders(pushed, q) = Senders(series, q)
      BY <2>3, <2>4, <3>1, <3>3, LastSenders
    <3> QED
      BY <3>4, <3>5, <3>6
  <2>10. Senders(series, r) = {}
    <3>1. ~ (r < Len(series))
      BY <1>1, <1>6
    <3> QED
      BY <3>1, Zenon DEF Senders
  <2>11. Senders(pushed, r) = Senders(series, r) \cup {p}
    BY <2>3, <2>4, <2>6, <2>9, <2>10
  <2>13. IsPushed(pushed, series, parties, size, r, p)
    BY <1>6, <2>3, <2>4, <2>9, <2>11, <2>12, Zenon DEF IsPushed
  <2> QED
    BY <1>5, <2>13
<1>4. CASE r < Len(series)
  <2> DEFINE s == series[r + 1]
             t == IF ordered /\ r = 0 THEN Append(s, p) ELSE Sorted(s, p)
  <2>1. /\ r + 1 = Len(series) /\ r = Len(series) - 1 /\ r # Len(series)
        /\ Len(s) < size /\ Len(series) \in 1 .. Len(series)
    BY <1>1, <1>2, <1>4
  <2>2. s \in Seq(parties) /\ IsInjective(s) /\ Senders(series, r) = ToSet(s)
        /\ Len(s) \in Nat
    BY <1>4, RoundFacts, LenProperties
  <2>3. pushed = [series EXCEPT ![Len(series)] = t]
    BY <1>5, <2>1 DEF Pushed
  <2> HIDE DEF s
  <2>4. /\ t \in Seq(parties) /\ Len(t) = Len(s) + 1 /\ IsInjective(t)
        /\ ToSet(t) = ToSet(s) \cup {p}
    <3>1. p \notin ToSet(s)
      BY <1>2, <2>2
    <3>2. CASE ordered /\ r = 0
      BY <2>2, <3>1, <3>2, AppendAdds
    <3>3. CASE ~ (ordered /\ r = 0)
      BY <1>1, <2>2, <3>1, <3>3, SortedAdds
    <3> QED
      BY <3>2, <3>3
  <2> HIDE DEF t
  <2>5. t # <<>>
    BY <2>2, <2>4, EmptySeq
  <2>6. Len(t) <= size
    <3>1. Len(s) \in Nat /\ size \in Nat /\ Len(s) < size => Len(s) + 1 <= size
      OBVIOUS
    <3> QED
      BY <1>1, <2>1, <2>2, <2>4, <3>1, Zenon
  <2>7. /\ pushed \in Seq(Seq(parties)) /\ Len(pushed) = Len(series)
        /\ \A i \in 1 .. Len(series) : pushed[i] = IF i = Len(series) THEN t ELSE series[i]
    <3>1. t \in Seq(parties) /\ series \in Seq(Seq(parties)) /\ Len(series) \in 1 .. Len(series)
      BY <1>1, <2>1, <2>4, Zenon
    <3> QED
      BY <2>3, <3>1, ExceptSeq
  <2>8. pushed[Len(series)] = t
    BY <2>1, <2>7, Zenon
  <2>9. \A i \in 1 .. Len(series) - 1 : pushed[i] = series[i] /\ Len(series[i]) = size
    <3>2. Len(series) \in Nat => \A i \in 1 .. Len(series) - 1 : i \in 1 .. Len(series) /\ i # Len(series)
      OBVIOUS
    <3>1. \A i \in 1 .. Len(series) - 1 : i \in 1 .. r /\ i \in 1 .. Len(series) /\ i # Len(series)
      BY <1>1, <2>1, <3>2, Zenon
    <3> QED
      BY <1>9, <2>7, <3>1, Zenon
  <2>10. pushed # <<>>
    BY <1>1, <2>7, EmptySeq
  <2>11. /\ RoundsRight(pushed, parties, size)
         /\ Senders(pushed, Len(pushed) - 1) = ToSet(pushed[Len(pushed)])
         /\ \A q \in Nat \ {Len(pushed) - 1} : Senders(pushed, q) = Senders(series, q)
    <3>1. \A i \in 1 .. Len(pushed) - 1 : pushed[i] = series[i] /\ Len(series[i]) = size
      BY <2>7, <2>9, Zenon
    <3>2. /\ pushed[Len(pushed)] # <<>> /\ Len(pushed[Len(pushed)]) <= size
          /\ IsInjective(pushed[Len(pushed)])
      BY <2>4, <2>5, <2>6, <2>7, <2>8, Zenon
    <3>4. RoundsRight(pushed, parties, size)
      BY <2>7, <2>10, <3>1, <3>2, LastRound
    <3>5. Senders(pushed, Len(pushed) - 1) = ToSet(pushed[Len(pushed)])
      BY <1>1, <2>7, <3>1, LastSenders
    <3>6. \A q \in Nat \ {Len(pushed) - 1} : Senders(pushed, q) = Senders(series, q)
      BY <1>1, <2>7, <3>1, LastSenders
    <3> QED
      BY <3>4, <3>5, <3>6
  <2>12. IsPushed(pushed, series, parties, size, r, p)
    BY <2>1, <2>2, <2>4, <2>7, <2>8, <2>10, <2>11, Zenon DEF IsPushed
  <2> QED
    BY <1>5, <2>12
<1> QED
  BY <1>1, <1>2, <1>4, <1>6

(* The first message.                                                      *)
LEMMA FirstRound ==
  ASSUME NEW parties, NEW size, NEW p,
         parties \subseteq Int, size \in Nat \ {0}, p \in parties
  PROVE  LET first == << <<p>> >> IN
         /\ RoundsRight(first, parties, size) /\ first # <<>> /\ Len(first) = 1
         /\ Senders(first, 0) = {p} /\ \A q \in Nat \ {0} : Senders(first, q) = {}
<1> DEFINE first == << <<p>> >>
<1>1. /\ <<p>> \in Seq(parties) /\ <<p>> # <<>> /\ Len(<<p>>) = 1
      /\ IsInjective(<<p>>) /\ ToSet(<<p>>) = {p}
  BY DEF IsInjective, ToSet
<1>2. first \in Seq(Seq(parties)) /\ Len(first) = 1 /\ first[1] = <<p>> /\ first # <<>>
  BY <1>1
<1> HIDE DEF first
<1>3. DOMAIN first = {1}
  BY <1>2
<1>4. RoundsRight(first, parties, size)
  <2>1. 1 <= size
    OBVIOUS
  <2>2. ~ (1 < 1)
    OBVIOUS
  <2>3. \A i \in DOMAIN first :
          /\ first[i] # <<>> /\ Len(first[i]) <= size /\ IsInjective(first[i])
          /\ i < Len(first) => Len(first[i]) = size
    BY <1>1, <1>2, <1>3, <2>1, <2>2, Zenon
  <2> QED
    BY <1>2, <2>3 DEF RoundsRight
<1>5. Senders(first, 0) = {p} /\ \A q \in Nat \ {0} : Senders(first, q) = {}
  BY <1>1, <1>2 DEF Senders
<1> QED
  BY <1>2, <1>4, <1>5 DEF first
-----------------------------------------------------------------------------
(***************************************************************************)
(* Key generation and the wallet.                                          *)
(***************************************************************************)

RoundNumbers == 0..Ready - 2

ClientRec == [at : ClientSteps, round : 0..Ready, wallet : Nat]

PostRec == [party : Parties, round : RoundNumbers, at : PostSteps, view : Seq(Seq(Parties)),
            version : Nat, awaited : BOOLEAN, tag : Nat]

(***************************************************************************)
(* The inductive invariant of key generation.  The session: only its last  *)
(* round may be incomplete, and no party has two messages in a round.      *)
(***************************************************************************)
SessionRight ==
  /\ participants \subseteq Parties
  /\ RoundsRight(rounds, Parties, N) /\ Len(rounds) <= Ready - 1
  /\ version \in Nat /\ sharedKey \in BOOLEAN
  /\ rounds = <<>> => participants = {} /\ version = 0

FaultsRight ==
  /\ timeouts \in Nat /\ losses \in Nat /\ timeouts + losses <= MaxFaults
  /\ broken \in BOOLEAN

(* A client that has passed a round has its message stored.                *)
ClientRight(p) ==
  /\ client[p].at = "out" => client[p].round = 0
  /\ client[p].at = "post" => client[p].round \in RoundNumbers
  /\ client[p].at \in {"store", "create", "join", "tell", "secret", "done"} =>
       client[p].round = Ready
  /\ client[p].at = "secret" => p # Creator
  /\ client[p].at \in {"create", "tell"} => p = Creator
  /\ client[p].round > 0 => p \in participants
  /\ \A r \in RoundNumbers : client[p].round > r => p \in Senders(rounds, r)

ClientsRight ==
  /\ client \in [Parties -> ClientRec]
  /\ \A p \in Parties : ClientRight(p)

(* What a request has read of the session is what is stored as long as the *)
(* version is the same; a client waits for one request, of its own round.  *)
PostRight(post) ==
  /\ post.version <= version
  /\ post.at \in {"participant", "push"} =>
       /\ rounds # <<>> /\ post.view # <<>>
       /\ post.version = version => post.view = rounds
  /\ post.at = "push" => post.party \in participants
  /\ post.at = "insert" => post.round = 0
  /\ post.round <= client[post.party].round
  /\ post.awaited => client[post.party].at = "post" /\ client[post.party].round = post.round

PostsRight ==
  /\ posts \subseteq PostRec
  /\ \A post \in posts : PostRight(post)
  /\ \A post, other \in posts :
       post.party = other.party /\ post.awaited /\ other.awaited => post = other

KeyInv == SessionRight /\ FaultsRight /\ ClientsRight /\ PostsRight

LEMMA Numbers ==
  /\ N \in Nat \ {0, 1} /\ Ready \in Nat \ {0, 1} /\ MaxFaults \in Nat
  /\ Parties \subseteq Int /\ Creator \in Parties
  /\ 0 \in RoundNumbers /\ RoundNumbers \subseteq Nat
  BY KeyGenAssumption DEF Parties, Creator, RoundNumbers

LEMMA PartiesCounted == IsFiniteSet(Parties) /\ Cardinality(Parties) = N
  BY KeyGenAssumption, FS_Interval DEF Parties

(* What every step does to the session.                                    *)
Grows ==
  /\ participants \subseteq participants'
  /\ \A r \in RoundNumbers : Senders(rounds, r) \subseteq Senders(rounds', r)
  /\ version <= version'
  /\ rounds # <<>> => rounds' # <<>>
  /\ version' = version => rounds' = rounds \/ rounds = <<>>

LEMMA Unmoved ==
  ASSUME SessionRight, UNCHANGED <<participants, rounds, version>> PROVE Grows
  BY DEF SessionRight, Grows

LEMMA ClientsMoved ==
  ASSUME ClientsRight, Grows, NEW p \in Parties,
         client' \in [Parties -> ClientRec],
         \A q \in Parties \ {p} : client'[q] = client[q],
         ClientRight(p)'
  PROVE  ClientsRight'
<1>1. ASSUME NEW q \in Parties PROVE ClientRight(q)'
  <2>1. CASE q = p
    BY <2>1
  <2>2. CASE q # p
    <3>1. client'[q] = client[q] /\ ClientRight(q)
      BY <2>2 DEF ClientsRight
    <3> QED
      BY <3>1 DEF ClientRight, Grows
  <2> QED
    BY <2>1, <2>2
<1> QED
  BY <1>1 DEF ClientsRight

LEMMA PostKept ==
  ASSUME Grows, SessionRight, SessionRight', NEW post \in PostRec, PostRight(post),
         client \in [Parties -> ClientRec], client' \in [Parties -> ClientRec],
         client[post.party].round <= client'[post.party].round,
         post.awaited => client'[post.party].at = client[post.party].at
                         /\ client'[post.party].round = client[post.party].round
  PROVE  PostRight(post)'
<1>1. /\ post.version \in Nat /\ post.round \in Nat /\ version \in Nat /\ version' \in Nat
      /\ post.party \in Parties
      /\ client[post.party].round \in Nat /\ client'[post.party].round \in Nat
  <2>1. /\ post.version \in Nat /\ post.round \in RoundNumbers /\ post.party \in Parties
        /\ version \in Nat /\ version' \in Nat
    BY DEF PostRec, SessionRight
  <2>2. client[post.party] \in ClientRec /\ client'[post.party] \in ClientRec
    BY <2>1
  <2>3. client[post.party].round \in 0..Ready /\ client'[post.party].round \in 0..Ready
    BY <2>2 DEF ClientRec
  <2>4. post.round \in Nat
    BY <2>1, Numbers
  <2>5. Ready \in Nat
    BY Numbers
  <2>6. client[post.party].round \in Nat /\ client'[post.party].round \in Nat
    BY <2>3, <2>5
  <2> QED
    BY <2>1, <2>4, <2>6
<1>2. post.version <= version' /\ post.round <= client'[post.party].round
  BY <1>1 DEF PostRight, Grows
<1>3. ASSUME post.at \in {"participant", "push"}
      PROVE  /\ rounds' # <<>> /\ post.view # <<>>
             /\ post.version = version' => post.view = rounds'
  <2>1. /\ rounds # <<>> /\ post.view # <<>> /\ post.version <= version
        /\ post.version = version => post.view = rounds
    BY <1>3 DEF PostRight
  <2>2. rounds' # <<>> /\ version <= version' /\ (version' = version => rounds' = rounds)
    BY <2>1 DEF Grows
  <2> QED
    BY <1>1, <2>1, <2>2
<1>4. /\ post.at = "push" => post.party \in participants'
      /\ post.at = "insert" => post.round = 0
      /\ post.awaited => client'[post.party].at = "post" /\ client'[post.party].round = post.round
  BY DEF PostRight, Grows
<1> QED
  BY <1>2, <1>3, <1>4 DEF PostRight

(* A request that is new, or moved on, among those that are left.          *)
LEMMA PostsMoved ==
  ASSUME NEW kept, NEW new, posts' = kept \cup {new}, kept \subseteq posts,
         KeyInv, SessionRight', Grows, client' \in [Parties -> ClientRec],
         new \in PostRec, PostRight(new)',
         \A post \in kept :
           /\ client[post.party].round <= client'[post.party].round
           /\ post.awaited => client'[post.party].at = client[post.party].at
                              /\ client'[post.party].round = client[post.party].round
           /\ post.awaited /\ new.awaited => post.party # new.party
  PROVE  PostsRight'
<1>1. ASSUME NEW post \in posts' PROVE post \in PostRec /\ PostRight(post)'
  <2>1. CASE post = new
    BY <2>1
  <2>2. CASE post \in kept
    <3>1. post \in PostRec /\ PostRight(post)
      BY <2>2 DEF KeyInv, PostsRight
    <3>2. SessionRight /\ client \in [Parties -> ClientRec]
      BY DEF KeyInv, ClientsRight
    <3> QED
      BY <2>2, <3>1, <3>2, PostKept
  <2> QED
    BY <2>1, <2>2
<1>2. ASSUME NEW post \in posts', NEW other \in posts',
             post.party = other.party, post.awaited, other.awaited
      PROVE  post = other
  BY <1>2 DEF KeyInv, PostsRight
<1> QED
  BY <1>1, <1>2 DEF PostsRight

LEMMA PostsLeft ==
  ASSUME KeyInv, SessionRight', Grows, client' \in [Parties -> ClientRec],
         posts' \subseteq posts,
         \A post \in posts' :
           /\ client[post.party].round <= client'[post.party].round
           /\ post.awaited => client'[post.party].at = client[post.party].at
                              /\ client'[post.party].round = client[post.party].round
  PROVE  PostsRight'
<1>1. ASSUME NEW post \in posts' PROVE post \in PostRec /\ PostRight(post)'
  <2>1. post \in PostRec /\ PostRight(post)
    BY DEF KeyInv, PostsRight
  <2>2. SessionRight /\ client \in [Parties -> ClientRec]
    BY DEF KeyInv, ClientsRight
  <2> QED
    BY <2>1, <2>2, PostKept
<1> QED
  BY <1>1 DEF KeyInv, PostsRight
-----------------------------------------------------------------------------
(* The client of a party moves on, with and without its round.             *)
LEMMA ClientStep ==
  ASSUME client \in [Parties -> ClientRec], NEW p \in Parties, NEW step \in ClientSteps,
         client' = At(p, step)
  PROVE  /\ client' \in [Parties -> ClientRec]
         /\ \A q \in Parties \ {p} : client'[q] = client[q]
         /\ client'[p].at = step /\ client'[p].round = client[p].round
         /\ client'[p].wallet = client[p].wallet
<1>1. client' = [client EXCEPT ![p] = [client[p] EXCEPT !.at = step]]
  BY DEF At
<1> DEFINE moved == [client[p] EXCEPT !.at = step]
<1>2. moved \in ClientRec /\ moved.at = step /\ moved.round = client[p].round
      /\ moved.wallet = client[p].wallet
  <2>1. client[p] \in ClientRec
    OBVIOUS
  <2> QED
    BY <2>1 DEF ClientRec
<1> HIDE DEF moved
<1>3. client' = [client EXCEPT ![p] = moved]
  BY <1>1 DEF moved
<1> QED
  BY <1>2, <1>3

LEMMA ClientRound ==
  ASSUME NEW p, NEW step, NEW r,
         client' = [client EXCEPT ![p] = [[client[p] EXCEPT !.at = step] EXCEPT !.round = r]],
         client \in [Parties -> ClientRec], p \in Parties, step \in ClientSteps, r \in 0..Ready
  PROVE  /\ client' \in [Parties -> ClientRec]
         /\ \A q \in Parties \ {p} : client'[q] = client[q]
         /\ client'[p].at = step /\ client'[p].round = r
         /\ client'[p].wallet = client[p].wallet
<1> DEFINE moved == [[client[p] EXCEPT !.at = step] EXCEPT !.round = r]
<1>2. moved \in ClientRec /\ moved.at = step /\ moved.round = r
      /\ moved.wallet = client[p].wallet
  <2>1. client[p] \in ClientRec
    OBVIOUS
  <2> QED
    BY <2>1 DEF ClientRec
<1> HIDE DEF moved
<1>3. client' = [client EXCEPT ![p] = moved]
  BY DEF moved
<1> QED
  BY <1>2, <1>3

LEMMA PostFacts ==
  ASSUME KeyInv, NEW post \in posts
  PROVE  /\ post \in PostRec /\ PostRight(post) /\ post.party \in Parties
         /\ post.round \in RoundNumbers /\ post.round \in Nat /\ post.round + 1 \in 0..Ready
         /\ post.version \in Nat /\ post.awaited \in BOOLEAN
         /\ client[post.party] \in ClientRec
<1>1. post \in PostRec /\ PostRight(post)
  BY DEF KeyInv, PostsRight
<1>2. post.party \in Parties /\ post.round \in RoundNumbers /\ post.version \in Nat
      /\ post.awaited \in BOOLEAN
  BY <1>1 DEF PostRec
<1>3. post.round \in Nat /\ post.round + 1 \in 0..Ready
  BY <1>2, Numbers DEF RoundNumbers
<1> QED
  BY <1>1, <1>2, <1>3 DEF KeyInv, ClientsRight

(* An answer, whatever became of the message: its client has moved on if   *)
(* it is stored, and is back where it was if not.                          *)
LEMMA AnswerKeeps ==
  ASSUME KeyInv, SessionRight', FaultsRight', Grows,
         NEW post \in posts, NEW accepted \in BOOLEAN, Answer(post, accepted),
         accepted => /\ post.party \in participants'
                     /\ post.party \in Senders(rounds', post.round)
  PROVE  KeyInv'
<1> DEFINE p == post.party
<1>1. /\ p \in Parties /\ post.round \in RoundNumbers /\ post.round + 1 \in 0..Ready
      /\ client \in [Parties -> ClientRec] /\ ClientRight(p) /\ client[p] \in ClientRec
      /\ PostRight(post) /\ post.round \in Nat /\ p = post.party
  BY PostFacts DEF KeyInv, ClientsRight
<1> HIDE DEF p
<1>2. CASE ~ post.awaited
  <2>1. client' = client /\ posts' = posts \ {post}
    BY <1>2 DEF Answer
  <2>2. ClientRight(p)'
    BY <1>1, <2>1 DEF ClientRight, Grows
  <2>3. ClientsRight'
    BY <1>1, <2>1, <2>2, ClientsMoved DEF KeyInv
  <2>4. PostsRight'
    <3>1. \A other \in posts' : client[other.party].round <= client'[other.party].round
      BY <2>1, PostFacts, Numbers DEF ClientRec
    <3> QED
      BY <1>1, <2>1, <3>1, PostsLeft
  <2> QED
    BY <2>3, <2>4 DEF KeyInv
<1>3. CASE post.awaited
  <2>1. client[p].at = "post" /\ client[p].round = post.round
    BY <1>1, <1>3 DEF PostRight
  <2>2. posts' = posts \ {post}
    BY DEF Answer
  <2>3. /\ client' \in [Parties -> ClientRec]
        /\ \A q \in Parties \ {p} : client'[q] = client[q]
        /\ client[p].round <= client'[p].round
        /\ ClientRight(p)'
    <3>1. CASE accepted
      <4>1. client' = [client EXCEPT ![p] =
                         [[client[p] EXCEPT !.at = "wait"] EXCEPT !.round = post.round + 1]]
        BY <1>1, <1>3, <3>1 DEF Answer
      <4>2. /\ client' \in [Parties -> ClientRec]
            /\ \A q \in Parties \ {p} : client'[q] = client[q]
            /\ client'[p].at = "wait" /\ client'[p].round = post.round + 1
        <5>1. PICK moved : moved = [[client[p] EXCEPT !.at = "wait"] EXCEPT !.round = post.round + 1]
          OBVIOUS
        <5>2. moved \in ClientRec /\ moved.at = "wait" /\ moved.round = post.round + 1
          BY <1>1, <5>1 DEF ClientRec, ClientSteps
        <5>3. client' = [client EXCEPT ![p] = moved]
          BY <4>1, <5>1
        <5> QED
          BY <1>1, <5>2, <5>3
      <4>3. ASSUME NEW r \in RoundNumbers, post.round + 1 > r PROVE p \in Senders(rounds', r)
        <5>1. CASE r = post.round
          BY <1>1, <3>1, <5>1
        <5>2. CASE r < post.round
          BY <1>1, <2>1, <5>2 DEF ClientRight, Grows
        <5> QED
          BY <1>1, <4>3, <5>1, <5>2, Numbers
      <4> QED
        BY <1>1, <2>1, <3>1, <4>2, <4>3 DEF ClientRight
    <3>2. CASE ~ accepted
      <4>1. client' = At(p, Idle(p)) /\ Idle(p) \in ClientSteps
        BY <1>1, <1>3, <3>2 DEF Answer, Idle, ClientSteps
      <4>2. /\ client' \in [Parties -> ClientRec]
            /\ \A q \in Parties \ {p} : client'[q] = client[q]
            /\ client'[p].at = Idle(p) /\ client'[p].round = post.round
        BY <1>1, <2>1, <4>1, ClientStep
      <4>3. Idle(p) \in {"out", "wait"} /\ (Idle(p) = "out" => post.round = 0)
        BY <2>1 DEF Idle
      <4>4. /\ post.round > 0 => p \in participants'
            /\ \A r \in RoundNumbers : post.round > r => p \in Senders(rounds', r)
        BY <1>1, <2>1 DEF ClientRight, Grows
      <4> QED
        BY <1>1, <2>1, <4>2, <4>3, <4>4 DEF ClientRight
    <3> QED
      BY <3>1, <3>2
  <2>4. ClientsRight'
    BY <1>1, <2>3, ClientsMoved DEF KeyInv
  <2>5. PostsRight'
    <3>1. ASSUME NEW other \in posts'
          PROVE  /\ client[other.party].round <= client'[other.party].round
                 /\ other.awaited => client'[other.party].at = client[other.party].at
                                     /\ client'[other.party].round = client[other.party].round
      <4>1. other \in posts /\ other # post
        BY <2>2
      <4>2. CASE other.party = p
        BY <1>1, <1>3, <2>3, <4>1, <4>2 DEF KeyInv, PostsRight
      <4>3. CASE other.party # p
        <5>1. client'[other.party] = client[other.party]
          BY <2>3, <4>1, <4>3, PostFacts
        <5> QED
          BY <4>1, <5>1, PostFacts, Numbers DEF ClientRec
      <4> QED
        BY <4>2, <4>3
    <3> QED
      BY <2>2, <2>3, <3>1, PostsLeft
  <2> QED
    BY <2>4, <2>5 DEF KeyInv
<1> QED
  BY <1>2, <1>3
-----------------------------------------------------------------------------
(* The steps of the clients.                                               *)
LEMMA PostingKeeps ==
  ASSUME KeyInv, NEW p \in Parties, client[p].at \in {"out", "wait"},
         client[p].round \in RoundNumbers, Posting(p),
         UNCHANGED <<participants, rounds, version, sharedKey, faultVars>>
  PROVE  KeyInv'
<1>1. client \in [Parties -> ClientRec] /\ ClientRight(p) /\ client[p] \in ClientRec
  BY DEF KeyInv, ClientsRight
<1>2. SessionRight' /\ FaultsRight' /\ Grows
  BY Unmoved DEF KeyInv, SessionRight, FaultsRight, faultVars
<1>3. /\ client' \in [Parties -> ClientRec]
      /\ \A q \in Parties \ {p} : client'[q] = client[q]
      /\ client'[p].at = "post" /\ client'[p].round = client[p].round
  BY <1>1, ClientStep DEF Posting, ClientSteps
<1>4. ClientRight(p)'
  BY <1>1, <1>2, <1>3 DEF ClientRight, Grows
<1>5. ClientsRight'
  BY <1>1, <1>2, <1>3, <1>4, ClientsMoved DEF KeyInv
<1>6. PICK new : new = [party |-> p, round |-> client[p].round, at |-> "fetch", view |-> <<>>,
                        version |-> 0, awaited |-> TRUE, tag |-> timeouts]
  OBVIOUS
<1>7. new \in PostRec /\ new.party = p
  BY <1>6 DEF PostRec, PostSteps, KeyInv, FaultsRight
<1>10. PostRight(new)'
  <2>1. version' \in Nat /\ client'[p].round \in Nat
    BY <1>2, <1>3, Numbers DEF SessionRight
  <2> QED
    BY <1>3, <1>6, <2>1 DEF PostRight
<1>8. posts' = posts \cup {new}
  BY <1>6 DEF Posting
<1>9. ASSUME NEW post \in posts
      PROVE  /\ client[post.party].round <= client'[post.party].round
             /\ post.awaited => client'[post.party].at = client[post.party].at
                                /\ client'[post.party].round = client[post.party].round
             /\ post.awaited /\ new.awaited => post.party # new.party
  <2>1. /\ post.party \in Parties /\ client[post.party].round \in 0..Ready
        /\ post.awaited => client[post.party].at = "post"
    BY PostFacts DEF PostRight, ClientRec
  <2>2. client[post.party].round \in Int
    BY <2>1, Numbers
  <2>3. post.awaited => post.party # p
    BY <2>1
  <2> QED
    BY <1>3, <1>7, <2>1, <2>2, <2>3
<1>11. PostsRight'
  BY <1>2, <1>3, <1>7, <1>8, <1>9, <1>10, PostsMoved
<1> QED
  BY <1>2, <1>5, <1>11 DEF KeyInv

(* A client that moves on without a message, none of whose requests it     *)
(* waits for.                                                              *)
LEMMA ClientKeeps ==
  ASSUME KeyInv, SessionRight', FaultsRight', Grows, UNCHANGED posts,
         NEW p \in Parties, client[p].at # "post",
         client' \in [Parties -> ClientRec],
         \A q \in Parties \ {p} : client'[q] = client[q],
         client[p].round <= client'[p].round, ClientRight(p)'
  PROVE  KeyInv'
<1>1. ClientsRight'
  BY ClientsMoved DEF KeyInv
<1>2. ASSUME NEW post \in posts'
      PROVE  /\ client[post.party].round <= client'[post.party].round
             /\ post.awaited => client'[post.party].at = client[post.party].at
                                /\ client'[post.party].round = client[post.party].round
  <2>1. /\ post.party \in Parties /\ client[post.party].round \in 0..Ready
        /\ post.awaited => client[post.party].at = "post"
    BY PostFacts DEF PostRight, ClientRec
  <2>2. client[post.party].round \in Int
    BY <2>1, Numbers
  <2> QED
    BY <2>1, <2>2
<1>3. PostsRight'
  BY <1>2, PostsLeft
<1> QED
  BY <1>1, <1>3 DEF KeyInv

LEMMA JoinKeeps ==
  ASSUME KeyInv, NEW p \in Parties, Join(p) PROVE KeyInv'
<1>1. client[p].round \in RoundNumbers
  BY Numbers DEF Join, KeyInv, ClientsRight, ClientRight
<1> QED
  BY <1>1, PostingKeeps DEF Join

LEMMA PollKeeps ==
  ASSUME KeyInv, NEW p \in Parties, Poll(p) PROVE KeyInv'
<1>1. client \in [Parties -> ClientRec] /\ ClientRight(p) /\ client[p].round \in 0..Ready
  BY DEF KeyInv, ClientsRight, ClientRec
<1>2. SessionRight' /\ FaultsRight' /\ Grows
  BY Unmoved DEF Poll, KeyInv, SessionRight, FaultsRight, faultVars
<1>3. CASE client[p].round < Ready - 1 /\ Posting(p)
  <2>1. client[p].round \in RoundNumbers
    BY <1>1, <1>3, Numbers DEF RoundNumbers
  <2> QED
    BY <1>3, <2>1, PostingKeeps DEF Poll
<1>4. CASE /\ client[p].round = Ready - 1
           /\ client' = [client EXCEPT ![p].round = Ready,
                           ![p].at = IF sharedKey THEN AfterKey(p) ELSE "store"]
           /\ UNCHANGED posts
  <2> DEFINE step == IF sharedKey THEN AfterKey(p) ELSE "store"
  <2>1. step \in {"store", "create", "secret"} /\ (step = "secret" => p # Creator)
        /\ (step = "create" => p = Creator)
    BY DEF AfterKey
  <2>2. client' = [client EXCEPT ![p] = [[client[p] EXCEPT !.at = step] EXCEPT !.round = Ready]]
    BY <1>1, <1>4 DEF ClientRec
  <2> HIDE DEF step
  <2>3. step \in ClientSteps /\ Ready \in 0..Ready
    BY <2>1, Numbers DEF ClientSteps
  <2>4. /\ client' \in [Parties -> ClientRec]
        /\ \A q \in Parties \ {p} : client'[q] = client[q]
        /\ client'[p].at = step /\ client'[p].round = Ready
    BY <1>1, <2>2, <2>3, ClientRound
  <2>5. ASSUME NEW r \in RoundNumbers PROVE p \in Senders(rounds', r)
    BY <1>1, <1>2, <1>4, Numbers DEF ClientRight, Grows, RoundNumbers
  <2>6. p \in participants'
    BY <1>1, <1>2, <1>4, Numbers DEF ClientRight, Grows
  <2>7. ClientRight(p)'
    BY <2>1, <2>4, <2>5, <2>6 DEF ClientRight
  <2>8. client[p].round <= client'[p].round
    BY <1>4, <2>4, Numbers
  <2> QED
    BY <1>2, <1>4, <2>4, <2>7, <2>8, ClientKeeps DEF Poll
<1>5. CASE client[p].round = Ready /\ client' = At(p, "store") /\ UNCHANGED posts
  <2>1. /\ client' \in [Parties -> ClientRec]
        /\ \A q \in Parties \ {p} : client'[q] = client[q]
        /\ client'[p].at = "store" /\ client'[p].round = Ready
    BY <1>1, <1>5, ClientStep DEF ClientSteps
  <2>2. ClientRight(p)'
    BY <1>1, <1>2, <1>5, <2>1 DEF ClientRight, Grows
  <2>3. client[p].round <= client'[p].round
    BY <1>5, <2>1, Numbers
  <2> QED
    BY <1>2, <1>5, <2>1, <2>2, <2>3, ClientKeeps DEF Poll
<1> QED
  BY <1>3, <1>4, <1>5 DEF Poll

(* The steps of a client after its last round.                             *)
LEMMA LaterStepKeeps ==
  ASSUME KeyInv, SessionRight', FaultsRight', Grows, UNCHANGED posts,
         NEW p \in Parties, client[p].round = Ready, client[p].at # "post",
         NEW step \in ClientSteps, step \notin {"out", "post"},
         step \in {"create", "tell"} => p = Creator, step = "secret" => p # Creator,
         client' \in [Parties -> ClientRec],
         \A q \in Parties \ {p} : client'[q] = client[q],
         client'[p].at = step, client'[p].round = client[p].round
  PROVE  KeyInv'
<1>1. ClientRight(p)
  BY DEF KeyInv, ClientsRight
<1>2. ClientRight(p)'
  BY <1>1 DEF ClientRight, Grows
<1>3. client[p].round <= client'[p].round
  BY Numbers
<1> QED
  BY <1>2, <1>3, ClientKeeps

LEMMA StoreKeyKeeps ==
  ASSUME KeyInv, NEW p \in Parties, StoreKey(p) \/ LoseStore(p) PROVE KeyInv'
<1>1. client \in [Parties -> ClientRec] /\ client[p].at = "store" /\ client[p].round = Ready
  BY DEF KeyInv, ClientsRight, ClientRight, StoreKey, LoseStore
<1>2. SessionRight' /\ Grows /\ UNCHANGED posts
  BY Unmoved DEF StoreKey, LoseStore, KeyInv, SessionRight
<1>3. FaultsRight'
  <2>1. CASE StoreKey(p)
    BY <2>1 DEF StoreKey, KeyInv, FaultsRight, faultVars
  <2>2. CASE LoseStore(p)
    BY <2>2, Numbers DEF LoseStore, KeyInv, FaultsRight
  <2> QED
    BY <2>1, <2>2
<1>4. PICK step \in {"wait", AfterKey(p)} : client' = At(p, step)
  BY DEF StoreKey, LoseStore
<1>5. /\ step \in ClientSteps /\ step \notin {"out", "post"}
      /\ step \in {"create", "tell"} => p = Creator
      /\ step = "secret" => p # Creator
  BY DEF AfterKey, ClientSteps
<1>6. /\ client' \in [Parties -> ClientRec]
      /\ \A q \in Parties \ {p} : client'[q] = client[q]
      /\ client'[p].at = step /\ client'[p].round = client[p].round
  BY <1>1, <1>4, <1>5, ClientStep
<1> QED
  BY <1>1, <1>2, <1>3, <1>5, <1>6, LaterStepKeeps
-----------------------------------------------------------------------------
(* The steps of BWS.                                                       *)
LEMMA MovedKeeps ==
  ASSUME NEW post, NEW moved, posts' = (posts \ {post}) \cup {moved}, post \in posts,
         KeyInv, SessionRight', FaultsRight', Grows, UNCHANGED client,
         moved \in PostRec, moved.party = post.party, moved.awaited = post.awaited,
         PostRight(moved)'
  PROVE  KeyInv'
<1>1. client' \in [Parties -> ClientRec] /\ client' = client
  BY DEF KeyInv, ClientsRight
<1>2. ClientsRight'
  <2>1. ASSUME NEW q \in Parties PROVE ClientRight(q)'
    <3>1. ClientRight(q)
      BY DEF KeyInv, ClientsRight
    <3> QED
      BY <1>1, <3>1 DEF ClientRight, Grows
  <2> QED
    BY <1>1, <2>1 DEF ClientsRight
<1>3. ASSUME NEW other \in posts \ {post}
      PROVE  /\ client[other.party].round <= client'[other.party].round
             /\ other.awaited => client'[other.party].at = client[other.party].at
                                 /\ client'[other.party].round = client[other.party].round
             /\ other.awaited /\ moved.awaited => other.party # moved.party
  <2>1. client[other.party].round \in Int
    BY PostFacts, Numbers DEF ClientRec
  <2>2. other.awaited /\ moved.awaited => other.party # moved.party
    BY DEF KeyInv, PostsRight
  <2> QED
    BY <1>1, <2>1, <2>2
<1>4. posts \ {post} \subseteq posts
  OBVIOUS
<1>5. PostsRight'
  <2> DEFINE kept == posts \ {post}
  <2>1. /\ posts' = kept \cup {moved} /\ kept \subseteq posts
        /\ \A other \in kept :
             /\ client[other.party].round <= client'[other.party].round
             /\ other.awaited => client'[other.party].at = client[other.party].at
                                 /\ client'[other.party].round = client[other.party].round
             /\ other.awaited /\ moved.awaited => other.party # moved.party
    BY <1>3
  <2>2. PICK left : left = kept
    OBVIOUS
  <2> HIDE DEF kept
  <2> QED
    BY <1>1, <2>1, <2>2, PostsMoved
<1> QED
  BY <1>2, <1>5 DEF KeyInv

(* A request that has read the session.                                    *)
LEMMA ReadKeeps ==
  ASSUME NEW post, NEW step, posts' = Moved(post, step), post \in posts,
         step \in {"insert", "participant", "push"},
         KeyInv, UNCHANGED <<participants, rounds, version, sharedKey, client, faultVars>>,
         step = "insert" => post.round = 0,
         step # "insert" => rounds # <<>>,
         step = "push" => post.party \in participants
  PROVE  KeyInv'
<1>1. PICK moved : moved = [post EXCEPT !.at = step, !.view = rounds, !.version = version]
  OBVIOUS
<1>2. /\ post \in PostRec /\ post.party \in Parties /\ PostRight(post)
      /\ version \in Nat /\ rounds \in Seq(Seq(Parties))
  BY PostFacts DEF KeyInv, SessionRight, RoundsRight
<1>3. /\ moved.party = post.party /\ moved.round = post.round /\ moved.at = step
      /\ moved.view = rounds /\ moved.version = version /\ moved.awaited = post.awaited
      /\ moved \in PostRec
  BY <1>1, <1>2 DEF PostRec, PostSteps
<1>4. posts' = (posts \ {post}) \cup {moved}
  BY <1>1 DEF Moved
<1>5. SessionRight' /\ FaultsRight' /\ Grows
  BY Unmoved DEF KeyInv, SessionRight, FaultsRight, faultVars
<1>6. PostRight(moved)'
  <2>1. /\ post.round <= client[post.party].round
        /\ post.awaited => client[post.party].at = "post"
                           /\ client[post.party].round = post.round
    BY <1>2 DEF PostRight
  <2> QED
    BY <1>2, <1>3, <2>1 DEF PostRight
<1> QED
  BY <1>3, <1>4, <1>5, <1>6, MovedKeeps

LEMMA FetchKeeps ==
  ASSUME KeyInv, NEW post \in posts, Fetch(post) PROVE KeyInv'
<1>1. SessionRight' /\ FaultsRight' /\ Grows
  BY Unmoved DEF Fetch, KeyInv, SessionRight, FaultsRight, faultVars
<1>2. CASE /\ rounds # <<>> /\ UNCHANGED client
           /\ posts' = Moved(post, IF post.party \in participants THEN "push" ELSE "participant")
  <2>1. CASE post.party \in participants
    BY <1>2, <2>1, ReadKeeps DEF Fetch
  <2>2. CASE post.party \notin participants
    BY <1>2, <2>2, ReadKeeps DEF Fetch
  <2> QED
    BY <2>1, <2>2
<1>3. CASE /\ rounds = <<>> /\ post.round = 0
           /\ posts' = Moved(post, "insert") /\ UNCHANGED client
  BY <1>3, ReadKeeps DEF Fetch
<1>4. CASE Answer(post, FALSE)
  BY <1>1, <1>4, AnswerKeeps
<1> QED
  BY <1>2, <1>3, <1>4 DEF Fetch

LEMMA InsertKeeps ==
  ASSUME KeyInv, NEW post \in posts, Insert(post) PROVE KeyInv'
<1>1. /\ post.party \in Parties /\ post.round \in RoundNumbers /\ PostRight(post)
      /\ post.at = "insert" /\ post.round = 0
  BY PostFacts DEF PostRight, Insert
<1>2. FaultsRight'
  BY DEF Insert, KeyInv, FaultsRight, faultVars
<1>3. CASE /\ rounds = <<>> /\ rounds' = << <<post.party>> >>
           /\ participants' = {post.party} /\ Answer(post, TRUE)
  <2>1. /\ RoundsRight(rounds', Parties, N) /\ rounds' # <<>> /\ Len(rounds') = 1
        /\ Senders(rounds', 0) = {post.party}
    BY <1>1, <1>3, Numbers, FirstRound
  <2>2. 1 <= Ready - 1
    BY Numbers
  <2>3. UNCHANGED <<version, sharedKey>>
    BY DEF Insert
  <2>4. SessionRight'
    BY <1>1, <1>3, <2>1, <2>2, <2>3 DEF KeyInv, SessionRight
  <2>5. \A r \in RoundNumbers : Senders(rounds, r) = {}
    <3>1. \A r \in RoundNumbers : ~ (r < Len(rounds))
      BY <1>3, Numbers
    <3> QED
      BY <3>1 DEF Senders
  <2>6. Grows
    BY <1>3, <2>1, <2>3, <2>4, <2>5 DEF Grows, KeyInv, SessionRight
  <2>7. post.party \in participants' /\ post.party \in Senders(rounds', post.round)
    BY <1>1, <1>3, <2>1
  <2> QED
    BY <1>2, <1>3, <2>4, <2>6, <2>7, AnswerKeeps
<1>4. CASE Answer(post, FALSE) /\ UNCHANGED <<rounds, participants>>
  <2>1. SessionRight' /\ Grows
    BY <1>4, Unmoved DEF Insert, KeyInv, SessionRight
  <2> QED
    BY <1>2, <1>4, <2>1, AnswerKeeps
<1> QED
  BY <1>3, <1>4 DEF Insert

LEMMA StoreParticipantKeeps ==
  ASSUME KeyInv, NEW post \in posts, StoreParticipant(post) PROVE KeyInv'
<1>1. PICK moved : moved = [post EXCEPT !.at = "push"]
  OBVIOUS
<1>2. post \in PostRec /\ post.party \in Parties /\ PostRight(post) /\ post.at = "participant"
  BY PostFacts DEF StoreParticipant
<1>3. /\ moved.party = post.party /\ moved.round = post.round /\ moved.at = "push"
      /\ moved.view = post.view /\ moved.version = post.version /\ moved.awaited = post.awaited
      /\ moved \in PostRec
  BY <1>1, <1>2 DEF PostRec, PostSteps
<1>4. /\ participants' = participants \cup {post.party}
      /\ posts' = (posts \ {post}) \cup {moved}
      /\ UNCHANGED <<rounds, version, sharedKey, client, faultVars>>
  BY <1>1 DEF StoreParticipant
<1>5. SessionRight' /\ FaultsRight' /\ Grows
  BY <1>2, <1>4 DEF KeyInv, SessionRight, FaultsRight, faultVars, PostRight, Grows
<1>6. PostRight(moved)'
  BY <1>2, <1>3, <1>4 DEF PostRight
<1> QED
  BY <1>3, <1>4, <1>5, <1>6, MovedKeeps

(* A message that is accepted in the round of its session that is stored.  *)
LEMMA PushedSession ==
  ASSUME NEW p, NEW r, SessionRight, rounds # <<>>, Accepts(rounds, r, p, N),
         p \in Parties, r \in RoundNumbers, p \in participants,
         rounds' = Pushed(rounds, r, p, TRUE), version' = version + 1,
         UNCHANGED <<participants, sharedKey>>
  PROVE  /\ SessionRight' /\ Grows
         /\ Senders(rounds', r) = Senders(rounds, r) \cup {p}
         /\ \A q \in Nat \ {r} : Senders(rounds', q) = Senders(rounds, q)
<1>1. RoundsRight(rounds, Parties, N) /\ r \in Nat /\ version \in Nat
  BY Numbers DEF SessionRight
<1>7. IsPushed(rounds', rounds, Parties, N, r, p)
  BY <1>1, PushedRight
<1>2. /\ RoundsRight(rounds', Parties, N) /\ rounds' # <<>>
      /\ Len(rounds') = IF r = Len(rounds) THEN Len(rounds) + 1 ELSE Len(rounds)
      /\ Senders(rounds', r) = Senders(rounds, r) \cup {p}
      /\ \A q \in Nat \ {r} : Senders(rounds', q) = Senders(rounds, q)
  BY <1>7 DEF IsPushed
<1>3. Len(rounds') <= Ready - 1
  <2>1. Len(rounds) \in Nat /\ Len(rounds) <= Ready - 1
    BY LenProperties DEF SessionRight, RoundsRight
  <2>2. r <= Ready - 2 /\ Ready \in Nat
    BY Numbers DEF RoundNumbers
  <2>3. Len(rounds) + 1 <= Ready - 1 \/ r # Len(rounds)
    BY <1>1, <2>1, <2>2
  <2> QED
    BY <1>2, <2>1, <2>3, Zenon
<1>4. SessionRight'
  <2>1. version' \in Nat
    BY <1>1
  <2> QED
    BY <1>2, <1>3, <2>1, Zenon DEF SessionRight
<1>5. \A q \in RoundNumbers : Senders(rounds, q) \subseteq Senders(rounds', q)
  BY <1>2, Numbers
<1>6. Grows
  <2>1. version <= version' /\ version' # version
    BY <1>1
  <2>2. participants \subseteq participants'
    OBVIOUS
  <2> QED
    BY <1>2, <1>5, <2>1, <2>2, Zenon DEF Grows
<1> QED
  BY <1>2, <1>4, <1>6

LEMMA PushKeeps ==
  ASSUME KeyInv, NEW post \in posts, Push(post) PROVE KeyInv'
<1>1. /\ post \in PostRec /\ post.party \in Parties /\ post.round \in RoundNumbers
      /\ PostRight(post) /\ post.at = "push"
  BY PostFacts DEF Push
<1>2. rounds # <<>> /\ post.party \in participants /\ (post.version = version => post.view = rounds)
  BY <1>1 DEF PostRight
<1>3. FaultsRight'
  BY DEF Push, KeyInv, FaultsRight, faultVars
<1>4. CASE Answer(post, FALSE) /\ UNCHANGED <<rounds, version>>
  <2>1. SessionRight' /\ Grows
    BY <1>4, Unmoved DEF Push, KeyInv, SessionRight
  <2> QED
    BY <1>3, <1>4, <2>1, AnswerKeeps
<1>5. CASE /\ Accepts(post.view, post.round, post.party, N) /\ UpToDate(post)
           /\ rounds' = Pushed(rounds, post.round, post.party, TRUE)
           /\ version' = version + 1 /\ Answer(post, TRUE)
  <2>1. Accepts(rounds, post.round, post.party, N)
    BY <1>2, <1>5 DEF UpToDate
  <2>2. /\ SessionRight' /\ Grows
        /\ Senders(rounds', post.round) = Senders(rounds, post.round) \cup {post.party}
    BY <1>1, <1>2, <1>5, <2>1, PushedSession DEF Push, KeyInv
  <2>3. post.party \in participants' /\ post.party \in Senders(rounds', post.round)
    BY <1>2, <2>2 DEF Push
  <2> QED
    BY <1>3, <1>5, <2>2, <2>3, AnswerKeeps
<1>6. CASE posts' = Moved(post, "push") /\ UNCHANGED <<rounds, version, client>>
  BY <1>2, <1>6, ReadKeeps DEF Push
<1> QED
  BY <1>4, <1>5, <1>6 DEF Push

LEMMA LosePostKeeps ==
  ASSUME KeyInv, NEW post \in posts, LosePost(post) PROVE KeyInv'
<1>1. SessionRight' /\ Grows
  BY Unmoved DEF LosePost, KeyInv, SessionRight
<1>2. FaultsRight'
  BY Numbers DEF LosePost, KeyInv, FaultsRight
<1> QED
  BY <1>1, <1>2, AnswerKeeps DEF LosePost

LEMMA GiveUpKeeps ==
  ASSUME KeyInv, NEW post \in posts, GiveUp(post) PROVE KeyInv'
<1>1. PICK moved : moved = [post EXCEPT !.awaited = FALSE]
  OBVIOUS
<1>2. PICK p : p = post.party
  OBVIOUS
<1>3. /\ post \in PostRec /\ p \in Parties /\ PostRight(post) /\ post.awaited
      /\ client \in [Parties -> ClientRec] /\ ClientRight(p)
      /\ client[p].at = "post" /\ client[p].round = post.round
  BY <1>2, PostFacts DEF GiveUp, KeyInv, ClientsRight, PostRight
<1>4. /\ moved.party = p /\ moved.round = post.round /\ moved.at = post.at
      /\ moved.view = post.view /\ moved.version = post.version /\ moved.awaited = FALSE
      /\ moved \in PostRec
  BY <1>1, <1>2, <1>3 DEF PostRec
<1>5. /\ posts' = (posts \ {post}) \cup {moved}
      /\ client' = At(p, Idle(p))
      /\ UNCHANGED <<participants, rounds, version, sharedKey, losses>>
  BY <1>1, <1>2 DEF GiveUp
<1>6. SessionRight' /\ Grows
  BY <1>5, Unmoved DEF KeyInv, SessionRight
<1>7. FaultsRight'
  BY Numbers DEF GiveUp, KeyInv, FaultsRight
<1>8. Idle(p) \in {"out", "wait"} /\ (Idle(p) = "out" => client[p].round = 0)
  BY DEF Idle
<1>9. /\ client' \in [Parties -> ClientRec]
      /\ \A q \in Parties \ {p} : client'[q] = client[q]
      /\ client'[p].at = Idle(p) /\ client'[p].round = client[p].round
  <2>1. Idle(p) \in ClientSteps
    BY <1>8 DEF ClientSteps
  <2> QED
    BY <1>3, <1>5, <2>1, ClientStep
<1>10. ClientRight(p)'
  BY <1>3, <1>6, <1>8, <1>9 DEF ClientRight, Grows
<1>11. ClientsRight'
  BY <1>3, <1>6, <1>9, <1>10, ClientsMoved DEF KeyInv
<1>12. PostRight(moved)'
  <2>1. /\ moved.version <= version' /\ rounds' = rounds /\ version' = version
        /\ participants' = participants
    BY <1>3, <1>4, <1>5 DEF PostRight
  <2>2. moved.round <= client'[moved.party].round
    BY <1>3, <1>4, <1>9 DEF PostRight
  <2> QED
    BY <1>2, <1>3, <1>4, <2>1, <2>2 DEF PostRight
<1>13. PICK kept : kept = posts \ {post}
  OBVIOUS
<1>14. ASSUME NEW other \in kept
       PROVE  /\ client[other.party].round <= client'[other.party].round
              /\ other.awaited => client'[other.party].at = client[other.party].at
                                  /\ client'[other.party].round = client[other.party].round
              /\ other.awaited /\ moved.awaited => other.party # moved.party
  <2>1. other \in posts /\ other # post
    BY <1>13
  <2>2. other.party \in Parties /\ client[other.party].round \in Int
    BY <2>1, PostFacts, Numbers DEF ClientRec
  <2>3. other.awaited => other.party # p
    BY <1>2, <1>3, <2>1 DEF KeyInv, PostsRight
  <2>4. client'[other.party].round = client[other.party].round
    BY <1>9, <2>2
  <2> QED
    BY <1>4, <1>9, <2>2, <2>3, <2>4
<1>15. PostsRight'
  <2>1. posts' = kept \cup {moved} /\ kept \subseteq posts
    BY <1>5, <1>13
  <2> QED
    BY <1>4, <1>6, <1>9, <1>12, <1>14, <2>1, PostsMoved
<1> QED
  BY <1>6, <1>7, <1>11, <1>15 DEF KeyInv
-----------------------------------------------------------------------------
(***************************************************************************)
(* The inductive invariant of the wallet.                                  *)
(***************************************************************************)
JoinSteps == {"lock", "delete", "insert", "store"}

JoinRec == [party : Parties, wallet : Nat \ {0}, at : JoinSteps, copayers : Seq(Parties),
            awaited : BOOLEAN, tag : Nat]

Members(w) == {<<p, w>> : p \in ToSet(wallets[w])}

LookupsOf(w) == {lookup \in lookups : lookup[2] = w}

WalletTyped ==
  /\ wallets \in Seq(Seq(Parties)) /\ Len(wallets) <= MaxWallets
  /\ lookups \subseteq Parties \X Wallets
  /\ secret \in {0} \cup Wallets
  /\ joins \subseteq JoinRec

(* Under the lock the copy of the wallet is the wallet with one copayer    *)
(* more, who is not in it.                                                 *)
JoinRight(join) ==
  /\ join.wallet \in Wallets /\ join.party \in participants
  /\ join.awaited => client[join.party].at = "join"
  /\ join.at # "lock" =>
       /\ join.copayers = Append(wallets[join.wallet], join.party)
       /\ join.party \notin ToSet(wallets[join.wallet])
  /\ join.party = Creator => Creator \notin ToSet(wallets[join.wallet])

(* One join has the lock of a wallet, its creator has asked once to join   *)
(* it, and a client waits for one join.                                    *)
OneOf(join, other) ==
  \/ join = other
  \/ /\ ~ (join.wallet = other.wallet /\ join.at # "lock" /\ other.at # "lock")
     /\ ~ (join.wallet = other.wallet /\ join.party = Creator /\ other.party = Creator)
     /\ ~ (join.party = other.party /\ join.awaited /\ other.awaited)

JoinsRight ==
  /\ \A join \in joins : JoinRight(join)
  /\ \A join, other \in joins : OneOf(join, other)

MemberRight(p) ==
  /\ client[p].wallet # 0 =>
       client[p].wallet \in Wallets /\ p \in ToSet(wallets[client[p].wallet])
  /\ client[p].at \in {"tell", "done"} => client[p].wallet # 0

WalletsRight ==
  /\ \A w \in Wallets : IsInjective(wallets[w]) /\ ToSet(wallets[w]) \subseteq participants
  /\ \A p \in Parties : MemberRight(p)

(* As long as nothing was lost that cannot be repeated, the wallet of the  *)
(* secret is the only one that has been joined.                            *)
SecretRight ==
  \/ broken
  \/ /\ secret # 0 => client[Creator].at = "done"
     /\ client[Creator].at = "done" => client[Creator].wallet = secret
     /\ \A join \in joins : join.party # Creator => join.wallet = secret
     /\ \A p \in Parties \ {Creator} : client[p].wallet # 0 => client[p].wallet = secret

(* What the lookups of a wallet are at each step of a join.                *)
JoinLookups(join) ==
  /\ join.at = "delete" => LookupsOf(join.wallet) = Members(join.wallet)
  /\ join.at = "insert" => LookupsOf(join.wallet) = {}
  /\ join.at = "store" => LookupsOf(join.wallet) = Lookups(join)

LookupsRight ==
  losses = 0 =>
    /\ \A w \in Wallets : ~ Locked(w) => LookupsOf(w) = Members(w)
    /\ \A join \in joins : JoinLookups(join)

WalletInv == WalletTyped /\ JoinsRight /\ WalletsRight /\ SecretRight /\ LookupsRight

LEMMA JoinFacts ==
  ASSUME WalletInv, NEW join \in joins
  PROVE  /\ join \in JoinRec /\ JoinRight(join) /\ join.party \in Parties
         /\ join.wallet \in Nat \ {0} /\ join.wallet \in Wallets
         /\ join.awaited \in BOOLEAN /\ join.at \in JoinSteps
         /\ \A other \in joins : OneOf(join, other)
  BY DEF WalletInv, WalletTyped, JoinsRight, JoinRec, JoinRight

LEMMA WalletNumbers ==
  ASSUME WalletTyped
  PROVE  /\ Wallets = 1..Len(wallets) /\ Len(wallets) \in Nat
         /\ \A w \in Wallets : wallets[w] \in Seq(Parties)
  BY LenProperties DEF WalletTyped, Wallets

-----------------------------------------------------------------------------
(* Steps that leave the wallet alone: those of key generation, of the      *)
(* signers, and those of a client that has nothing to wait for.            *)
WalletLeft ==
  /\ participants \subseteq participants'
  /\ \A p \in Parties :
       /\ client'[p].wallet = client[p].wallet
       /\ client[p].at = "join" => client'[p].at = "join"
       /\ client[p].at = "done" => client'[p].at = "done"
       /\ client'[p].at \in {"tell", "done"} => client'[p].at = client[p].at
  /\ broken => broken'
  /\ losses' = 0 => losses = 0
  /\ UNCHANGED walletVars

LEMMA WalletLeftKeeps ==
  ASSUME WalletInv, WalletLeft PROVE WalletInv'
<1> USE DEF WalletLeft, walletVars
<1>1. WalletTyped'
  BY DEF WalletInv, WalletTyped, Wallets
<1>2. JoinsRight'
  <2>1. ASSUME NEW join \in joins PROVE JoinRight(join)'
    BY JoinFacts DEF JoinRight, Wallets
  <2>2. \A join, other \in joins : OneOf(join, other)
    BY DEF WalletInv, JoinsRight
  <2> QED
    BY <2>1, <2>2 DEF JoinsRight, OneOf
<1>3. WalletsRight'
  <2>1. ASSUME NEW p \in Parties PROVE MemberRight(p)'
    BY DEF WalletInv, WalletsRight, MemberRight, Wallets
  <2> QED
    BY <2>1 DEF WalletInv, WalletsRight, Wallets
<1>4. SecretRight'
  BY Numbers DEF WalletInv, SecretRight
<1>5. LookupsRight'
  <2>1. \A w : Locked(w)' = Locked(w) /\ LookupsOf(w)' = LookupsOf(w) /\ Members(w)' = Members(w)
    BY DEF Locked, LookupsOf, Members
  <2>2. ASSUME NEW join \in joins, JoinLookups(join) PROVE JoinLookups(join)'
    BY <2>1, <2>2 DEF JoinLookups, Lookups
  <2> QED
    BY <2>1, <2>2 DEF WalletInv, LookupsRight, Wallets
<1> QED
  BY <1>1, <1>2, <1>3, <1>4, <1>5 DEF WalletInv

LEMMA LossCounts ==
  ASSUME KeyInv, losses' = losses + 1 PROVE losses' # 0
  BY DEF KeyInv, FaultsRight

LEMMA OneLeaves ==
  ASSUME NEW p \in Parties, \A q \in Parties \ {p} : client'[q] = client[q],
         client'[p].wallet = client[p].wallet, client[p].at \notin {"join", "done"},
         client'[p].at \notin {"tell", "done"},
         participants \subseteq participants', broken => broken', losses' = 0 => losses = 0,
         UNCHANGED walletVars
  PROVE  WalletLeft
<1>1. ASSUME NEW q \in Parties
      PROVE  /\ client'[q].wallet = client[q].wallet
             /\ client[q].at = "join" => client'[q].at = "join"
             /\ client[q].at = "done" => client'[q].at = "done"
             /\ client'[q].at \in {"tell", "done"} => client'[q].at = client[q].at
  <2>1. q = p \/ client'[q] = client[q]
    OBVIOUS
  <2> QED
    BY <2>1
<1> QED
  BY <1>1 DEF WalletLeft

LEMMA NoneLeaves ==
  ASSUME client' = client, participants \subseteq participants', broken => broken',
         losses' = 0 => losses = 0, UNCHANGED walletVars
  PROVE  WalletLeft
  BY DEF WalletLeft

LEMMA StepLeaves ==
  ASSUME KeyInv, NEW p \in Parties, NEW step \in ClientSteps, step \notin {"tell", "done"},
         client[p].at \notin {"join", "done"}, client' = At(p, step),
         participants \subseteq participants', broken => broken', losses' = 0 => losses = 0,
         UNCHANGED walletVars
  PROVE  WalletLeft
<1>1. /\ \A q \in Parties \ {p} : client'[q] = client[q]
      /\ client'[p].at = step /\ client'[p].wallet = client[p].wallet
  BY ClientStep DEF KeyInv, ClientsRight
<1> QED
  BY <1>1, OneLeaves

LEMMA AnswerLeaves ==
  ASSUME KeyInv, NEW post \in posts, NEW accepted \in BOOLEAN, Answer(post, accepted),
         participants \subseteq participants', broken => broken', losses' = 0 => losses = 0,
         UNCHANGED walletVars
  PROVE  WalletLeft
<1>1. PICK p : p = post.party
  OBVIOUS
<1>2. /\ p \in Parties /\ client \in [Parties -> ClientRec] /\ client[p] \in ClientRec
      /\ post.awaited => client[p].at = "post"
  BY <1>1, PostFacts DEF KeyInv, ClientsRight, PostRight
<1>3. CASE ~ post.awaited
  BY <1>3, NoneLeaves DEF Answer
<1>4. CASE post.awaited /\ accepted
  <2>1. PICK moved : moved = [[client[p] EXCEPT !.at = "wait"] EXCEPT !.round = post.round + 1]
    OBVIOUS
  <2>2. moved.at = "wait" /\ moved.wallet = client[p].wallet
    BY <1>2, <2>1 DEF ClientRec
  <2>3. client' = [client EXCEPT ![p] = moved]
    BY <1>1, <1>2, <1>4, <2>1 DEF Answer
  <2> QED
    BY <1>2, <1>4, <2>2, <2>3, OneLeaves
<1>5. CASE post.awaited /\ ~ accepted
  <2>1. client' = At(p, Idle(p)) /\ Idle(p) \in ClientSteps \ {"tell", "done"}
    BY <1>1, <1>5 DEF Answer, Idle, ClientSteps
  <2> QED
    BY <1>2, <1>5, <2>1, StepLeaves
<1> QED
  BY <1>3, <1>4, <1>5

LEMMA ServeLeaves ==
  ASSUME KeyInv, NEW post \in posts, UNCHANGED walletVars,
         Fetch(post) \/ Insert(post) \/ StoreParticipant(post) \/ Push(post)
  PROVE  WalletLeft
<1>1. UNCHANGED <<losses, broken>>
  BY DEF Fetch, Insert, StoreParticipant, Push, faultVars
<1>2. participants \subseteq participants'
  BY DEF Fetch, Insert, StoreParticipant, Push, KeyInv, SessionRight
<1>3. client' = client \/ Answer(post, TRUE) \/ Answer(post, FALSE)
  BY DEF Fetch, Insert, StoreParticipant, Push
<1> QED
  BY <1>1, <1>2, <1>3, NoneLeaves, AnswerLeaves

LEMMA ClientLeaves ==
  ASSUME KeyInv, NEW p \in Parties, Join(p) \/ Poll(p) \/ StoreKey(p) \/ LoseStore(p),
         UNCHANGED walletVars
  PROVE  WalletLeft
<1>1. client \in [Parties -> ClientRec] /\ client[p] \in ClientRec
  BY DEF KeyInv, ClientsRight
<1>2. UNCHANGED <<participants, broken>> /\ (losses' = 0 => losses = 0)
  <2>1. UNCHANGED <<participants, broken>> /\ (losses' = losses \/ losses' = losses + 1)
    BY DEF Join, Poll, StoreKey, LoseStore, faultVars
  <2> QED
    BY <2>1, LossCounts
<1>3. client[p].at \notin {"join", "done"}
  BY DEF Join, Poll, StoreKey, LoseStore
<1>4. CASE \E step \in {"post", "store", "wait", AfterKey(p)} : client' = At(p, step)
  <2>1. PICK step \in {"post", "store", "wait", AfterKey(p)} : client' = At(p, step)
    BY <1>4
  <2>2. step \in ClientSteps \ {"tell", "done"}
    BY DEF AfterKey, ClientSteps
  <2> QED
    BY <1>2, <1>3, <2>1, <2>2, StepLeaves
<1>5. CASE client' = [client EXCEPT ![p].round = Ready,
                        ![p].at = IF sharedKey THEN AfterKey(p) ELSE "store"]
  <2>1. PICK step : step = IF sharedKey THEN AfterKey(p) ELSE "store"
    OBVIOUS
  <2>2. step \notin {"tell", "done"}
    BY <2>1 DEF AfterKey
  <2>3. client' = [client EXCEPT ![p].round = Ready, ![p].at = step]
    BY <1>5, <2>1
  <2>4. /\ \A q \in Parties \ {p} : client'[q] = client[q]
        /\ client'[p].at = step /\ client'[p].wallet = client[p].wallet
    BY <1>1, <2>3 DEF ClientRec
  <2> QED
    BY <1>2, <1>3, <2>2, <2>4, OneLeaves
<1> QED
  BY <1>4, <1>5 DEF Join, Poll, StoreKey, LoseStore, Posting

LEMMA KeyNextKeeps ==
  ASSUME KeyInv, WalletInv, NEW p \in Parties, KeyNext(p) PROVE KeyInv' /\ WalletInv'
<1>1. UNCHANGED walletVars
  BY DEF KeyNext
<1>2. CASE Join(p) \/ Poll(p) \/ StoreKey(p) \/ LoseStore(p)
  <2>1. KeyInv'
    BY <1>2, JoinKeeps, PollKeeps, StoreKeyKeeps
  <2> QED
    BY <1>1, <1>2, <2>1, ClientLeaves, WalletLeftKeeps
<1>3. CASE Serve(p)
  <2>1. PICK post \in posts :
          Fetch(post) \/ Insert(post) \/ StoreParticipant(post) \/ Push(post)
    BY <1>3 DEF Serve
  <2>2. KeyInv'
    BY <2>1, FetchKeeps, InsertKeeps, StoreParticipantKeeps, PushKeeps
  <2> QED
    BY <1>1, <2>1, <2>2, ServeLeaves, WalletLeftKeeps
<1>4. CASE \E post \in posts : LosePost(post)
  <2>1. PICK post \in posts : LosePost(post)
    BY <1>4
  <2>2. /\ Answer(post, FALSE) /\ participants' = participants /\ broken' = broken
        /\ losses' = 0 => losses = 0
    BY <2>1, LossCounts DEF LosePost
  <2> QED
    BY <1>1, <2>1, <2>2, LosePostKeeps, AnswerLeaves, WalletLeftKeeps
<1>5. CASE \E post \in posts : GiveUp(post)
  <2>1. PICK post \in posts : GiveUp(post)
    BY <1>5
  <2>2. PICK q : q = post.party
    OBVIOUS
  <2>3. /\ client' = At(q, Idle(q)) /\ Idle(q) \in ClientSteps \ {"tell", "done"}
        /\ participants' = participants /\ broken' /\ losses' = losses
    BY <2>1, <2>2 DEF GiveUp, Idle, ClientSteps
  <2>4. q \in Parties /\ client[q].at = "post"
    BY <2>1, <2>2, PostFacts DEF GiveUp, PostRight
  <2> QED
    BY <1>1, <2>1, <2>3, <2>4, GiveUpKeeps, StepLeaves, WalletLeftKeeps
<1> QED
  BY <1>2, <1>3, <1>4, <1>5 DEF KeyNext, KeyStep, KeyFailure
-----------------------------------------------------------------------------
(* The steps of the wallet, and the invariant of key generation.           *)
LEMMA LaterMove ==
  ASSUME KeyInv, UNCHANGED keyVars, FaultsRight', NEW p \in Parties,
         client' \in [Parties -> ClientRec],
         \A q \in Parties \ {p} : client'[q] = client[q],
         client[p].at \in {"create", "join", "tell", "secret"},
         client'[p].at \in {"join", "wait", "tell", "done"},
         client'[p].at = "tell" => p = Creator,
         client'[p].round = client[p].round
  PROVE  KeyInv'
<1>1. SessionRight' /\ Grows /\ UNCHANGED posts
  BY Unmoved DEF KeyInv, SessionRight, keyVars
<1>2. client[p].round = Ready
  BY DEF KeyInv, ClientsRight, ClientRight
<1>3. PICK step : step = client'[p].at
  OBVIOUS
<1>4. /\ step \in ClientSteps /\ step \notin {"out", "post"}
      /\ step \in {"create", "tell"} => p = Creator
      /\ step = "secret" => p # Creator
  BY <1>3 DEF ClientSteps
<1> QED
  BY <1>1, <1>2, <1>3, <1>4, LaterStepKeeps

LEMMA NoMove ==
  ASSUME KeyInv, UNCHANGED <<keyVars, client>>, FaultsRight' PROVE KeyInv'
<1>1. SessionRight' /\ Grows /\ UNCHANGED posts /\ client' = client
  BY Unmoved DEF KeyInv, SessionRight, keyVars
<1>2. ClientsRight'
  <2>1. ASSUME NEW q \in Parties PROVE ClientRight(q)'
    <3>1. ClientRight(q)
      BY DEF KeyInv, ClientsRight
    <3> QED
      BY <1>1, <3>1 DEF ClientRight, Grows
  <2> QED
    BY <1>1, <2>1 DEF ClientsRight, KeyInv
<1>3. PostsRight'
  <2>1. ASSUME NEW post \in posts'
        PROVE  client[post.party].round <= client'[post.party].round
    <3>1. client[post.party].round \in 0..Ready /\ Ready \in Nat
      BY <1>1, PostFacts, Numbers DEF ClientRec
    <3> QED
      BY <1>1, <3>1
  <2>2. client' \in [Parties -> ClientRec]
    BY <1>1 DEF KeyInv, ClientsRight
  <2> QED
    BY <1>1, <2>1, <2>2, PostsLeft
<1> QED
  BY <1>1, <1>2, <1>3 DEF KeyInv

LEMMA JoinAnswerMoves ==
  ASSUME KeyInv, WalletInv, NEW join \in joins, NEW accepted \in BOOLEAN,
         JoinAnswer(join, accepted), NEW p, p = join.party
  PROVE  /\ p \in Parties /\ joins' = joins \ {join}
         /\ client' \in [Parties -> ClientRec]
         /\ \A q \in Parties \ {p} : client'[q] = client[q]
         /\ client'[p].round = client[p].round
         /\ ~ join.awaited => client' = client
         /\ join.awaited => client[p].at = "join"
         /\ join.awaited /\ accepted =>
              /\ client'[p].at = (IF p = Creator THEN "tell" ELSE "done")
              /\ client'[p].wallet = join.wallet
         /\ join.awaited /\ ~ accepted =>
              client'[p].at = "wait" /\ client'[p].wallet = client[p].wallet
<1>1. /\ p \in Parties /\ client \in [Parties -> ClientRec] /\ client[p] \in ClientRec
      /\ join.awaited => client[p].at = "join"
      /\ join.wallet \in Nat /\ joins' = joins \ {join}
  BY JoinFacts DEF KeyInv, ClientsRight, JoinRight, JoinAnswer
<1>2. CASE ~ join.awaited
  <2>1. client' = client
    BY <1>2 DEF JoinAnswer
  <2> QED
    BY <1>1, <1>2, <2>1
<1>3. CASE join.awaited /\ accepted
  <2>1. PICK step : step = IF p = Creator THEN "tell" ELSE "done"
    OBVIOUS
  <2>2. PICK moved : moved = [[client[p] EXCEPT !.wallet = join.wallet] EXCEPT !.at = step]
    OBVIOUS
  <2>3. /\ moved \in ClientRec /\ moved.at = step /\ moved.wallet = join.wallet
        /\ moved.round = client[p].round
    <3>1. step \in ClientSteps
      BY <2>1 DEF ClientSteps
    <3> QED
      BY <1>1, <2>2, <3>1 DEF ClientRec
  <2>4. client' = [client EXCEPT ![p] = moved]
    BY <1>1, <1>3, <2>1, <2>2 DEF JoinAnswer
  <2> QED
    BY <1>1, <1>3, <2>1, <2>3, <2>4
<1>4. CASE join.awaited /\ ~ accepted
  <2>1. client' = At(p, "wait") /\ "wait" \in ClientSteps
    BY <1>4 DEF JoinAnswer, ClientSteps
  <2>2. /\ client' \in [Parties -> ClientRec]
        /\ \A q \in Parties \ {p} : client'[q] = client[q]
        /\ client'[p].at = "wait" /\ client'[p].round = client[p].round
        /\ client'[p].wallet = client[p].wallet
    BY <1>1, <2>1, ClientStep
  <2> QED
    BY <1>1, <1>4, <2>2
<1> QED
  BY <1>2, <1>3, <1>4

LEMMA JoinAnswerKeepsKey ==
  ASSUME KeyInv, WalletInv, UNCHANGED keyVars, FaultsRight',
         NEW join \in joins, NEW accepted \in BOOLEAN, JoinAnswer(join, accepted)
  PROVE  KeyInv'
<1>1. PICK p : p = join.party
  OBVIOUS
<1>2. /\ p \in Parties
      /\ client' \in [Parties -> ClientRec]
      /\ \A q \in Parties \ {p} : client'[q] = client[q]
      /\ client'[p].round = client[p].round
      /\ ~ join.awaited => client' = client
      /\ join.awaited => client[p].at = "join" /\ client'[p].at \in {"wait", "tell", "done"}
      /\ join.awaited /\ client'[p].at = "tell" => p = Creator
  BY <1>1, JoinAnswerMoves
<1>3. CASE join.awaited
  BY <1>2, <1>3, LaterMove
<1>4. CASE ~ join.awaited
  BY <1>2, <1>4, NoMove
<1> QED
  BY <1>3, <1>4
-----------------------------------------------------------------------------
(* The steps of BWS that joins a copayer.  A join that is refused or lost. *)
LEMMA DroppedKeeps ==
  ASSUME KeyInv, WalletInv, NEW join \in joins, JoinAnswer(join, FALSE),
         UNCHANGED <<keyVars, wallets, lookups, secret>>, broken => broken',
         losses' # 0 \/ (losses' = losses /\ join.at = "lock")
  PROVE  WalletInv'
<1>1. PICK p : p = join.party
  OBVIOUS
<1>2. /\ p \in Parties /\ joins' = joins \ {join}
      /\ \A q \in Parties \ {p} : client'[q] = client[q]
      /\ ~ join.awaited => client' = client
      /\ join.awaited => /\ client[p].at = "join" /\ client'[p].at = "wait"
                         /\ client'[p].wallet = client[p].wallet
  BY <1>1, JoinAnswerMoves
<1>3. WalletTyped'
  BY <1>2 DEF WalletInv, WalletTyped, Wallets
<1>4. JoinsRight'
  <2>1. ASSUME NEW other \in joins' PROVE JoinRight(other)'
    <3>1. other \in joins /\ other # join /\ JoinRight(other) /\ OneOf(join, other)
          /\ other.party \in Parties
      BY <1>2, JoinFacts
    <3>2. other.awaited => client'[other.party].at = "join"
      <4>1. CASE other.party = p
        BY <1>1, <1>2, <3>1, <4>1 DEF OneOf, JoinRight
      <4>2. CASE other.party # p
        BY <1>2, <3>1, <4>2 DEF JoinRight
      <4> QED
        BY <4>1, <4>2
    <3> QED
      BY <3>1, <3>2 DEF JoinRight, Wallets, keyVars
  <2>2. \A other, third \in joins' : OneOf(other, third)
    BY <1>2 DEF WalletInv, JoinsRight
  <2> QED
    BY <2>1, <2>2 DEF JoinsRight, OneOf
<1>5. WalletsRight'
  <2>1. ASSUME NEW q \in Parties PROVE MemberRight(q)'
    <3>1. MemberRight(q) /\ client'[q].wallet = client[q].wallet
          /\ (client'[q].at \in {"tell", "done"} => client'[q].at = client[q].at)
      BY <1>2 DEF WalletInv, WalletsRight
    <3> QED
      BY <3>1 DEF MemberRight, Wallets
  <2> QED
    BY <2>1 DEF WalletInv, WalletsRight, Wallets, keyVars
<1>6. SecretRight'
  <2>1. /\ client[Creator].at = "done" <=> client'[Creator].at = "done"
        /\ \A q \in Parties : client'[q].wallet = client[q].wallet
    BY <1>2, Numbers
  <2> QED
    BY <1>2, <2>1, Numbers DEF WalletInv, SecretRight
<1>7. LookupsRight'
  <2>1. CASE losses' # 0
    BY <2>1 DEF LookupsRight
  <2>2. CASE losses' = losses /\ join.at = "lock"
    <3>1. \A w : Locked(w)' = Locked(w)
      BY <1>2, <2>2 DEF Locked
    <3>2. \A w : LookupsOf(w)' = LookupsOf(w) /\ Members(w)' = Members(w)
      BY DEF LookupsOf, Members
    <3>3. ASSUME NEW other \in joins', JoinLookups(other) PROVE JoinLookups(other)'
      BY <3>2, <3>3 DEF JoinLookups, Lookups
    <3> QED
      BY <1>2, <2>2, <3>1, <3>2, <3>3 DEF WalletInv, LookupsRight, Wallets
  <2> QED
    BY <2>1, <2>2
<1> QED
  BY <1>3, <1>4, <1>5, <1>6, <1>7 DEF WalletInv

(* A join under the lock takes its next step.                              *)
LEMMA ReplacedKeeps ==
  ASSUME NEW join, NEW moved, joins' = (joins \ {join}) \cup {moved}, join \in joins,
         WalletInv, UNCHANGED <<keyVars, faultVars, client, wallets, secret>>,
         lookups' \subseteq Parties \X Wallets,
         moved \in JoinRec, moved.at # "lock", moved.party = join.party,
         moved.wallet = join.wallet, moved.awaited = join.awaited,
         moved.copayers = Append(wallets[join.wallet], join.party),
         join.party \notin ToSet(wallets[join.wallet]),
         join.at # "lock" \/ ~ Locked(join.wallet),
         \A w \in Wallets \ {join.wallet} : LookupsOf(w)' = LookupsOf(w),
         losses = 0 => JoinLookups(moved)'
  PROVE  WalletInv'
<1>1. /\ join \in JoinRec /\ JoinRight(join) /\ join.party \in Parties /\ join.wallet \in Wallets
      /\ \A other \in joins : OneOf(join, other) /\ OneOf(other, join)
  BY JoinFacts DEF OneOf
<1>2. WalletTyped'
  BY DEF WalletInv, WalletTyped, Wallets
<1>3. \A other \in joins \ {join} :
        ~ (other.wallet = join.wallet /\ other.at # "lock")
  BY <1>1 DEF Locked, OneOf
<1>4. JoinsRight'
  <2>1. ASSUME NEW other \in joins' PROVE JoinRight(other)'
    <3>1. CASE other = moved
      BY <1>1, <3>1 DEF JoinRight, Wallets, keyVars
    <3>2. CASE other # moved
      <4>1. JoinRight(other)
        BY <3>2, JoinFacts
      <4> QED
        BY <4>1 DEF JoinRight, Wallets, keyVars
    <3> QED
      BY <3>1, <3>2
  <2>2. ASSUME NEW other \in joins', NEW third \in joins' PROVE OneOf(other, third)
    <3>1. CASE other = moved /\ third # moved
      <4>1. third \in joins \ {join} /\ OneOf(join, third)
        BY <1>1, <3>1
      <4> QED
        BY <1>3, <3>1, <4>1 DEF OneOf
    <3>2. CASE other # moved /\ third = moved
      <4>1. other \in joins \ {join} /\ OneOf(other, join)
        BY <1>1, <3>2
      <4> QED
        BY <1>3, <3>2, <4>1 DEF OneOf
    <3>3. CASE other # moved /\ third # moved
      BY <3>3 DEF WalletInv, JoinsRight
    <3> QED
      BY <3>1, <3>2, <3>3 DEF OneOf
  <2> QED
    BY <2>1, <2>2 DEF JoinsRight, OneOf
<1>5. WalletsRight'
  BY DEF WalletInv, WalletsRight, MemberRight, Wallets, keyVars
<1>6. SecretRight'
  BY DEF WalletInv, SecretRight, faultVars
<1>7. LookupsRight'
  <2>1. CASE losses # 0
    BY <2>1 DEF LookupsRight, faultVars
  <2>2. CASE losses = 0
    <3>1. \A w : Members(w)' = Members(w)
      BY DEF Members
    <3>2. ASSUME NEW w \in Wallets, ~ Locked(w)' PROVE LookupsOf(w)' = Members(w)'
      <4>1. w # join.wallet /\ ~ Locked(w)
        BY <3>2 DEF Locked
      <4> QED
        BY <2>2, <3>1, <4>1 DEF WalletInv, LookupsRight
    <3>3. ASSUME NEW other \in joins' PROVE JoinLookups(other)'
      <4>1. CASE other = moved
        BY <2>2, <4>1
      <4>2. CASE other # moved /\ other.wallet = join.wallet
        BY <1>3, <4>2 DEF JoinLookups
      <4>3. CASE other # moved /\ other.wallet # join.wallet
        <5>1. JoinLookups(other) /\ other.wallet \in Wallets
          BY <2>2, <4>3, JoinFacts DEF WalletInv, LookupsRight
        <5>2. LookupsOf(other.wallet)' = LookupsOf(other.wallet)
          BY <4>3, <5>1
        <5> QED
          BY <3>1, <5>1, <5>2 DEF JoinLookups, Lookups
      <4> QED
        BY <4>1, <4>2, <4>3
    <3> QED
      BY <3>2, <3>3 DEF LookupsRight, Wallets
  <2> QED
    BY <2>1, <2>2
<1> QED
  BY <1>2, <1>4, <1>5, <1>6, <1>7 DEF WalletInv

LEMMA JoinCheckedKeeps ==
  ASSUME KeyInv, WalletInv, NEW join \in joins, JoinChecked(join) PROVE KeyInv' /\ WalletInv'
<1>1. FaultsRight'
  BY DEF JoinChecked, KeyInv, FaultsRight, faultVars
<1>2. CASE JoinAnswer(join, FALSE)
  BY <1>1, <1>2, JoinAnswerKeepsKey, DroppedKeeps DEF JoinChecked, faultVars
<1>3. CASE MayJoin(join) /\ client' = client
  <2>1. PICK moved : moved = [join EXCEPT !.at = "delete",
                                          !.copayers = Append(wallets[join.wallet], join.party)]
    OBVIOUS
  <2>2. /\ join \in JoinRec /\ JoinRight(join) /\ join.party \in Parties /\ join.wallet \in Wallets
        /\ wallets[join.wallet] \in Seq(Parties)
    BY JoinFacts, WalletNumbers DEF WalletInv
  <2>3. /\ moved \in JoinRec /\ moved.at = "delete" /\ moved.party = join.party
        /\ moved.wallet = join.wallet /\ moved.awaited = join.awaited
        /\ moved.copayers = Append(wallets[join.wallet], join.party)
    <3>1. Append(wallets[join.wallet], join.party) \in Seq(Parties)
      BY <2>2
    <3> QED
      BY <2>1, <2>2, <3>1 DEF JoinRec, JoinSteps
  <2>4. /\ joins' = (joins \ {join}) \cup {moved} /\ ~ Locked(join.wallet)
        /\ UNCHANGED <<keyVars, faultVars, client, wallets, secret, lookups>>
    BY <1>3, <2>1 DEF JoinChecked
  <2>5. join.party \notin ToSet(wallets[join.wallet])
    BY <1>3, <2>2 DEF MayJoin, JoinRight
  <2>6. \A w : LookupsOf(w)' = LookupsOf(w) /\ Members(w)' = Members(w)
    BY <2>4 DEF LookupsOf, Members
  <2>7. losses = 0 => JoinLookups(moved)'
    BY <2>2, <2>3, <2>4, <2>6 DEF WalletInv, LookupsRight, JoinLookups
  <2>8. lookups' \subseteq Parties \X Wallets
    BY <2>4 DEF WalletInv, WalletTyped
  <2>9. WalletInv'
    BY <2>3, <2>4, <2>5, <2>6, <2>7, <2>8, ReplacedKeeps
  <2> QED
    BY <1>1, <2>4, <2>9, NoMove
<1> QED
  BY <1>2, <1>3 DEF JoinChecked

LEMMA DeleteLookupsKeeps ==
  ASSUME KeyInv, WalletInv, NEW join \in joins, DeleteLookups(join) PROVE KeyInv' /\ WalletInv'
<1>1. PICK moved : moved = [join EXCEPT !.at = "insert"]
  OBVIOUS
<1>2. join \in JoinRec /\ JoinRight(join) /\ join.at = "delete"
  BY JoinFacts DEF DeleteLookups
<1>3. /\ moved \in JoinRec /\ moved.at = "insert" /\ moved.party = join.party
      /\ moved.wallet = join.wallet /\ moved.awaited = join.awaited
      /\ moved.copayers = join.copayers
  BY <1>1, <1>2 DEF JoinRec, JoinSteps
<1>4. /\ joins' = (joins \ {join}) \cup {moved}
      /\ lookups' = {lookup \in lookups : lookup[2] # join.wallet}
      /\ UNCHANGED <<keyVars, faultVars, client, wallets, secret>>
  BY <1>1 DEF DeleteLookups, JoinMoved
<1>5. \A w \in Wallets \ {join.wallet} : LookupsOf(w)' = LookupsOf(w)
  BY <1>4 DEF LookupsOf
<1>6. JoinLookups(moved)'
  BY <1>3, <1>4 DEF JoinLookups, LookupsOf
<1>7. lookups' \subseteq Parties \X Wallets
  BY <1>4 DEF WalletInv, WalletTyped
<1>8. WalletInv'
  BY <1>2, <1>3, <1>4, <1>5, <1>6, <1>7, ReplacedKeeps DEF JoinRight
<1>9. FaultsRight'
  BY <1>4 DEF KeyInv, FaultsRight, faultVars
<1> QED
  BY <1>4, <1>8, <1>9, NoMove

LEMMA InsertLookupsKeeps ==
  ASSUME KeyInv, WalletInv, NEW join \in joins, InsertLookups(join) PROVE KeyInv' /\ WalletInv'
<1>1. PICK moved : moved = [join EXCEPT !.at = "store"]
  OBVIOUS
<1>2. /\ join \in JoinRec /\ JoinRight(join) /\ join.at = "insert" /\ join.wallet \in Wallets
      /\ join.copayers \in Seq(Parties)
  BY JoinFacts DEF InsertLookups, JoinRec
<1>3. /\ moved \in JoinRec /\ moved.at = "store" /\ moved.party = join.party
      /\ moved.wallet = join.wallet /\ moved.awaited = join.awaited
      /\ moved.copayers = join.copayers
  BY <1>1, <1>2 DEF JoinRec, JoinSteps
<1>4. /\ joins' = (joins \ {join}) \cup {moved}
      /\ lookups' = lookups \cup Lookups(join)
      /\ UNCHANGED <<keyVars, faultVars, client, wallets, secret>>
  BY <1>1 DEF InsertLookups, JoinMoved
<1>5. ASSUME NEW lookup \in Lookups(join)
      PROVE  lookup \in Parties \X Wallets /\ lookup[2] = join.wallet
  BY <1>2 DEF Lookups, ToSet
<1>6. \A w \in Wallets \ {join.wallet} : LookupsOf(w)' = LookupsOf(w)
  BY <1>4, <1>5 DEF LookupsOf
<1>7. losses = 0 => JoinLookups(moved)'
  <2>1. losses = 0 => LookupsOf(join.wallet) = {}
    BY <1>2 DEF WalletInv, LookupsRight, JoinLookups
  <2>2. losses = 0 => LookupsOf(join.wallet)' = Lookups(join)
    BY <1>4, <1>5, <2>1 DEF LookupsOf
  <2>3. Lookups(moved) = Lookups(join)
    BY <1>3 DEF Lookups
  <2> QED
    BY <1>3, <2>2, <2>3 DEF JoinLookups
<1>8. lookups' \subseteq Parties \X Wallets
  BY <1>4, <1>5 DEF WalletInv, WalletTyped
<1>9. WalletInv'
  BY <1>2, <1>3, <1>4, <1>6, <1>7, <1>8, ReplacedKeeps DEF JoinRight
<1>10. FaultsRight'
  BY <1>4 DEF KeyInv, FaultsRight, faultVars
<1> QED
  BY <1>4, <1>9, <1>10, NoMove

LEMMA LoseJoinKeeps ==
  ASSUME KeyInv, WalletInv, NEW join \in joins, LoseJoin(join) PROVE KeyInv' /\ WalletInv'
<1>1. FaultsRight'
  BY Numbers DEF LoseJoin, KeyInv, FaultsRight
<1> QED
  BY <1>1, LossCounts, JoinAnswerKeepsKey, DroppedKeeps DEF LoseJoin

LEMMA GiveUpJoinKeeps ==
  ASSUME KeyInv, WalletInv, NEW join \in joins, GiveUpJoin(join) PROVE KeyInv' /\ WalletInv'
<1>1. PICK p : p = join.party
  OBVIOUS
<1>2. PICK moved : moved = [join EXCEPT !.awaited = FALSE]
  OBVIOUS
<1>3. /\ join \in JoinRec /\ JoinRight(join) /\ p \in Parties /\ join.awaited
      /\ client[p].at = "join" /\ client \in [Parties -> ClientRec]
      /\ \A other \in joins : OneOf(join, other) /\ OneOf(other, join)
  BY <1>1, JoinFacts DEF GiveUpJoin, JoinRight, OneOf, KeyInv, ClientsRight
<1>4. /\ moved \in JoinRec /\ moved.at = join.at /\ moved.party = p
      /\ moved.wallet = join.wallet /\ moved.awaited = FALSE
      /\ moved.copayers = join.copayers
  BY <1>1, <1>2, <1>3 DEF JoinRec
<1>5. /\ joins' = (joins \ {join}) \cup {moved}
      /\ client' = At(p, "wait") /\ broken'
      /\ UNCHANGED <<keyVars, losses, wallets, lookups, secret>>
  BY <1>1, <1>2 DEF GiveUpJoin
<1>6. /\ client' \in [Parties -> ClientRec]
      /\ \A q \in Parties \ {p} : client'[q] = client[q]
      /\ client'[p].at = "wait" /\ client'[p].round = client[p].round
      /\ client'[p].wallet = client[p].wallet
  BY <1>3, <1>5, ClientStep DEF ClientSteps
<1>7. FaultsRight'
  BY Numbers DEF GiveUpJoin, KeyInv, FaultsRight
<1>8. KeyInv'
  BY <1>3, <1>5, <1>6, <1>7, LaterMove
<1>9. WalletTyped'
  BY <1>4, <1>5 DEF WalletInv, WalletTyped, Wallets
<1>10. JoinsRight'
  <2>1. ASSUME NEW other \in joins' PROVE JoinRight(other)'
    <3>1. CASE other = moved
      BY <1>1, <1>3, <1>4, <1>5, <3>1 DEF JoinRight, Wallets, keyVars
    <3>2. CASE other # moved
      <4>1. other \in joins /\ other # join /\ JoinRight(other) /\ OneOf(join, other)
            /\ other.party \in Parties
        BY <1>3, <1>5, <3>2, JoinFacts
      <4>2. other.awaited => other.party # p
        BY <1>1, <1>3, <4>1 DEF OneOf
      <4>3. other.awaited => client'[other.party].at = "join"
        BY <1>6, <4>1, <4>2 DEF JoinRight
      <4> QED
        BY <1>5, <4>1, <4>3 DEF JoinRight, Wallets, keyVars
    <3> QED
      BY <3>1, <3>2
  <2>2. ASSUME NEW other \in joins', NEW third \in joins' PROVE OneOf(other, third)
    <3>1. CASE other = moved /\ third # moved
      <4>1. third \in joins \ {join} /\ OneOf(join, third)
        BY <1>3, <1>5, <3>1
      <4> QED
        BY <1>1, <1>4, <3>1, <4>1 DEF OneOf
    <3>2. CASE other # moved /\ third = moved
      <4>1. other \in joins \ {join} /\ OneOf(other, join)
        BY <1>3, <1>5, <3>2
      <4> QED
        BY <1>1, <1>4, <3>2, <4>1 DEF OneOf
    <3>3. CASE other # moved /\ third # moved
      BY <1>5, <3>3 DEF WalletInv, JoinsRight
    <3> QED
      BY <3>1, <3>2, <3>3 DEF OneOf
  <2> QED
    BY <2>1, <2>2 DEF JoinsRight, OneOf
<1>11. WalletsRight'
  <2>1. ASSUME NEW q \in Parties PROVE MemberRight(q)'
    <3>1. MemberRight(q) /\ client'[q].wallet = client[q].wallet
          /\ (client'[q].at \in {"tell", "done"} => client'[q].at = client[q].at)
      BY <1>6 DEF WalletInv, WalletsRight
    <3> QED
      BY <1>5, <3>1 DEF MemberRight, Wallets
  <2> QED
    BY <1>5, <2>1 DEF WalletInv, WalletsRight, Wallets, keyVars
<1>12. SecretRight'
  BY <1>5 DEF SecretRight
<1>13. LookupsRight'
  <2>1. \A w : LookupsOf(w)' = LookupsOf(w) /\ Members(w)' = Members(w)
    BY <1>5 DEF LookupsOf, Members
  <2>2. \A w : Locked(w)' = Locked(w)
    BY <1>4, <1>5 DEF Locked
  <2>3. ASSUME NEW other \in joins, JoinLookups(other) PROVE JoinLookups(other)'
    BY <2>1, <2>3 DEF JoinLookups, Lookups
  <2>4. JoinLookups(join) => JoinLookups(moved)'
    BY <1>4, <2>1 DEF JoinLookups, Lookups
  <2> QED
    BY <1>5, <2>1, <2>2, <2>3, <2>4 DEF WalletInv, LookupsRight, Wallets
<1> QED
  BY <1>8, <1>9, <1>10, <1>11, <1>12, <1>13 DEF WalletInv

(* The join is stored, and its copayer is a member.                        *)
LEMMA StoreWalletKeeps ==
  ASSUME KeyInv, WalletInv, NEW join \in joins, StoreWallet(join) PROVE KeyInv' /\ WalletInv'
<1>1. PICK p : p = join.party
  OBVIOUS
<1>2. PICK w : w = join.wallet
  OBVIOUS
<1>3. /\ join \in JoinRec /\ JoinRight(join) /\ p \in Parties /\ w \in Wallets
      /\ join.at = "store" /\ join.copayers = Append(wallets[w], p) /\ p \notin ToSet(wallets[w])
      /\ \A other \in joins : OneOf(join, other) /\ OneOf(other, join)
  BY <1>1, <1>2, JoinFacts DEF StoreWallet, JoinRight, OneOf
<1>4. /\ Wallets = 1..Len(wallets) /\ wallets \in Seq(Seq(Parties))
      /\ wallets[w] \in Seq(Parties) /\ IsInjective(wallets[w])
      /\ ToSet(wallets[w]) \subseteq participants
  BY <1>3, WalletNumbers DEF WalletInv, WalletTyped, WalletsRight
<1>5. /\ join.copayers \in Seq(Parties) /\ IsInjective(join.copayers)
      /\ ToSet(join.copayers) = ToSet(wallets[w]) \cup {p}
  BY <1>3, <1>4, AppendAdds
<1>6. /\ wallets' \in Seq(Seq(Parties)) /\ Len(wallets') = Len(wallets)
      /\ Wallets' = Wallets /\ wallets'[w] = join.copayers
      /\ \A v \in Wallets \ {w} : wallets'[v] = wallets[v]
  <2>1. wallets' = [wallets EXCEPT ![w] = join.copayers]
    BY <1>2 DEF StoreWallet
  <2> QED
    BY <1>3, <1>4, <1>5, <2>1, ExceptSeq DEF Wallets
<1>7. /\ joins' = joins \ {join}
      /\ \A q \in Parties \ {p} : client'[q] = client[q]
      /\ ~ join.awaited => client' = client
      /\ join.awaited => /\ client[p].at = "join"
                         /\ client'[p].at = (IF p = Creator THEN "tell" ELSE "done")
                         /\ client'[p].wallet = w
  BY <1>1, <1>2, JoinAnswerMoves DEF StoreWallet
<1>8. UNCHANGED <<keyVars, faultVars, lookups, secret>>
  BY DEF StoreWallet
<1>9. FaultsRight'
  BY <1>8 DEF KeyInv, FaultsRight, faultVars
<1>10. KeyInv'
  BY <1>8, <1>9, JoinAnswerKeepsKey DEF StoreWallet
<1>11. WalletTyped'
  BY <1>6, <1>7, <1>8 DEF WalletInv, WalletTyped
<1>12. JoinsRight'
  <2>1. ASSUME NEW other \in joins' PROVE JoinRight(other)'
    <3>1. other \in joins /\ other # join /\ JoinRight(other) /\ OneOf(join, other)
          /\ other.party \in Parties /\ other.wallet \in Wallets
      BY <1>7, JoinFacts
    <3>2. other.awaited => client'[other.party].at = "join"
      <4>1. CASE other.party = p
        BY <1>1, <1>7, <3>1, <4>1 DEF OneOf, JoinRight
      <4>2. CASE other.party # p
        BY <1>7, <3>1, <4>2 DEF JoinRight
      <4> QED
        BY <4>1, <4>2
    <3>3. CASE other.wallet = w
      <4>1. other.at = "lock"
        BY <1>2, <1>3, <3>1, <3>3 DEF OneOf
      <4>2. other.party = Creator => Creator \notin ToSet(wallets[w]) /\ p # Creator
        BY <1>1, <1>2, <3>1, <3>3 DEF OneOf, JoinRight
      <4>3. other.party = Creator => Creator \notin ToSet(wallets'[w])
        BY <1>5, <1>6, <4>2
      <4> QED
        BY <1>6, <1>8, <3>1, <3>2, <3>3, <4>1, <4>3 DEF JoinRight, keyVars
    <3>4. CASE other.wallet # w
      <4>1. wallets'[other.wallet] = wallets[other.wallet]
        BY <1>6, <3>1, <3>4
      <4> QED
        BY <1>6, <1>8, <3>1, <3>2, <4>1 DEF JoinRight, keyVars
    <3> QED
      BY <3>3, <3>4
  <2>2. \A other, third \in joins' : OneOf(other, third)
    BY <1>7 DEF WalletInv, JoinsRight
  <2> QED
    BY <2>1, <2>2 DEF JoinsRight, OneOf
<1>13. WalletsRight'
  <2>1. ASSUME NEW q \in Parties PROVE MemberRight(q)'
    <3>1. MemberRight(q)
      BY DEF WalletInv, WalletsRight
    <3>2. \A v \in Wallets : ToSet(wallets[v]) \subseteq ToSet(wallets'[v])
      BY <1>5, <1>6
    <3>3. CASE q = p /\ join.awaited
      <4>1. client'[q].wallet = w /\ w # 0 /\ q \in ToSet(wallets'[w])
        BY <1>3, <1>4, <1>5, <1>6, <1>7, <3>3
      <4> QED
        BY <1>3, <1>6, <4>1 DEF MemberRight
    <3>4. CASE ~ (q = p /\ join.awaited)
      <4>1. client'[q] = client[q]
        BY <1>7, <3>4
      <4> QED
        BY <1>6, <3>1, <3>2, <4>1 DEF MemberRight
    <3> QED
      BY <3>3, <3>4
  <2>2. p \in participants
    BY <1>1, <1>3 DEF JoinRight
  <2>3. ASSUME NEW v \in Wallets
        PROVE  IsInjective(wallets'[v]) /\ ToSet(wallets'[v]) \subseteq participants
    <3>1. CASE v = w
      BY <1>4, <1>5, <1>6, <2>2, <3>1
    <3>2. CASE v # w
      <4>1. wallets'[v] = wallets[v]
        BY <1>6, <3>2
      <4> QED
        BY <4>1 DEF WalletInv, WalletsRight
    <3> QED
      BY <3>1, <3>2
  <2> QED
    BY <1>6, <1>8, <2>1, <2>3 DEF WalletsRight, keyVars
<1>14. SecretRight'
  <2>1. CASE broken
    BY <1>8, <2>1 DEF SecretRight, faultVars
  <2>2. CASE ~ broken
    <3>1. /\ secret # 0 => client[Creator].at = "done"
          /\ client[Creator].at = "done" => client[Creator].wallet = secret
          /\ \A other \in joins : other.party # Creator => other.wallet = secret
          /\ \A q \in Parties \ {Creator} : client[q].wallet # 0 => client[q].wallet = secret
      BY <2>2 DEF WalletInv, SecretRight
    <3>2. CASE p = Creator
      <4>1. /\ client'[Creator].at = "done" <=> client[Creator].at = "done"
            /\ client[Creator].at = "done" => client'[Creator] = client[Creator]
            /\ \A q \in Parties \ {Creator} : client'[q] = client[q]
        BY <1>7, <3>2
      <4> QED
        BY <1>7, <1>8, <3>1, <4>1 DEF SecretRight
    <3>3. CASE p # Creator
      <4>1. client'[Creator] = client[Creator] /\ w = secret
        BY <1>1, <1>2, <1>7, <3>1, <3>3, Numbers
      <4>2. ASSUME NEW q \in Parties \ {Creator}, client'[q].wallet # 0
            PROVE  client'[q].wallet = secret
        BY <1>7, <3>1, <4>1, <4>2
      <4> QED
        BY <1>7, <1>8, <3>1, <4>1, <4>2 DEF SecretRight
    <3> QED
      BY <3>2, <3>3
  <2> QED
    BY <2>1, <2>2
<1>15. LookupsRight'
  <2>1. CASE losses # 0
    BY <1>8, <2>1 DEF LookupsRight, faultVars
  <2>2. CASE losses = 0
    <3>1. \A v : LookupsOf(v)' = LookupsOf(v)
      BY <1>8 DEF LookupsOf
    <3>2. ASSUME NEW v \in Wallets, ~ Locked(v)' PROVE LookupsOf(v)' = Members(v)'
      <4>1. CASE v = w
        <5>1. LookupsOf(w) = Lookups(join)
          BY <1>2, <1>3, <2>2 DEF WalletInv, LookupsRight, JoinLookups
        <5>2. Lookups(join) = Members(w)'
          BY <1>2, <1>6 DEF Lookups, Members
        <5> QED
          BY <3>1, <4>1, <5>1, <5>2
      <4>2. CASE v # w
        <5>1. ~ Locked(v)
          BY <1>2, <1>7, <3>2, <4>2 DEF Locked
        <5>2. Members(v)' = Members(v)
          BY <1>6, <4>2 DEF Members
        <5> QED
          BY <2>2, <3>1, <5>1, <5>2 DEF WalletInv, LookupsRight
      <4> QED
        BY <4>1, <4>2
    <3>3. ASSUME NEW other \in joins' PROVE JoinLookups(other)'
      <4>1. other \in joins /\ other # join /\ OneOf(join, other) /\ JoinLookups(other)
            /\ other.wallet \in Wallets
        BY <1>7, <2>2, JoinFacts DEF WalletInv, LookupsRight
      <4>2. CASE other.wallet = w
        <5>1. other.at = "lock"
          BY <1>2, <1>3, <4>1, <4>2 DEF OneOf
        <5> QED
          BY <5>1 DEF JoinLookups
      <4>3. CASE other.wallet # w
        <5>1. Members(other.wallet)' = Members(other.wallet)
          BY <1>6, <4>1, <4>3 DEF Members
        <5> QED
          BY <3>1, <4>1, <5>1 DEF JoinLookups, Lookups
      <4> QED
        BY <4>2, <4>3
    <3> QED
      BY <1>6, <3>2, <3>3 DEF LookupsRight
  <2> QED
    BY <2>1, <2>2
<1> QED
  BY <1>10, <1>11, <1>12, <1>13, <1>14, <1>15 DEF WalletInv
-----------------------------------------------------------------------------
(* The steps of the client.                                                *)

(* A wallet is stored.  Nobody is in it yet, and it has no lookups.        *)
LEMMA Appended ==
  ASSUME WalletInv, wallets' = Append(wallets, <<>>), Len(wallets) < MaxWallets
  PROVE  /\ wallets' \in Seq(Seq(Parties)) /\ Len(wallets') <= MaxWallets
         /\ Wallets' = Wallets \cup {Len(wallets) + 1}
         /\ Len(wallets) + 1 \notin Wallets /\ Len(wallets) + 1 \in Nat \ {0}
         /\ \A w \in Wallets : wallets'[w] = wallets[w]
         /\ wallets'[Len(wallets) + 1] = <<>>
         /\ IsInjective(<<>>) /\ ToSet(<<>>) = {}
<1>1. /\ wallets \in Seq(Seq(Parties)) /\ Len(wallets) \in Nat /\ Wallets = 1..Len(wallets)
  BY WalletNumbers DEF WalletInv, WalletTyped
<1>2. <<>> \in Seq(Parties) /\ IsInjective(<<>>) /\ ToSet(<<>>) = {}
  BY DEF IsInjective, ToSet
<1>3. /\ wallets' \in Seq(Seq(Parties)) /\ Len(wallets') = Len(wallets) + 1
      /\ \A w \in 1..Len(wallets) : wallets'[w] = wallets[w]
      /\ wallets'[Len(wallets) + 1] = <<>>
  BY <1>1, <1>2, AppendProperties
<1>4. Wallets' = 1..Len(wallets) + 1
  BY <1>3 DEF Wallets
<1>5. Len(wallets') <= MaxWallets
  BY <1>1, <1>3, WalletAssumption, Numbers
<1> QED
  BY <1>1, <1>2, <1>3, <1>4, <1>5

LEMMA AppendedKeeps ==
  ASSUME NEW p, NEW extra, joins' = joins \cup extra, p = Creator, p \in Parties,
         KeyInv, WalletInv, wallets' = Append(wallets, <<>>), Len(wallets) < MaxWallets,
         client[p].at = "create", client'[p].at \in {"join", "wait"},
         client'[p].wallet = client[p].wallet,
         \A q \in Parties \ {p} : client'[q] = client[q],
         UNCHANGED <<keyVars, lookups, secret, broken>>, losses' # 0 \/ losses' = losses,
         extra \subseteq JoinRec,
         \A join \in extra : /\ join.wallet = Len(wallets) + 1 /\ join.party = p
                             /\ join.at = "lock" /\ client'[p].at = "join"
                             /\ \A other \in extra : join = other
  PROVE  WalletInv'
<1>1. PICK new : new = Len(wallets) + 1
  OBVIOUS
<1>2. /\ wallets' \in Seq(Seq(Parties)) /\ Len(wallets') <= MaxWallets
      /\ Wallets' = Wallets \cup {new} /\ new \notin Wallets /\ new \in Nat \ {0}
      /\ \A w \in Wallets : wallets'[w] = wallets[w]
      /\ wallets'[new] = <<>> /\ IsInjective(wallets'[new]) /\ ToSet(wallets'[new]) = {}
  BY <1>1, Appended
<1>3. p \in participants
  <2>1. ClientRight(p)
    BY DEF KeyInv, ClientsRight
  <2> QED
    BY <2>1, Numbers DEF ClientRight
<1>4. WalletTyped'
  <2>1. lookups' \subseteq Parties \X Wallets'
    BY <1>2 DEF WalletInv, WalletTyped
  <2> QED
    BY <1>2, <2>1 DEF WalletInv, WalletTyped
<1>5. \A join \in joins : join.wallet \in Wallets /\ join.wallet # new
                          /\ ~ (join.party = p /\ join.awaited)
  BY <1>2, JoinFacts DEF JoinRight
<1>6. JoinsRight'
  <2>1. ASSUME NEW join \in joins' PROVE JoinRight(join)'
    <3>1. CASE join \in extra
      BY <1>1, <1>2, <1>3, <3>1 DEF JoinRight, keyVars
    <3>2. CASE join \in joins
      <4>1. JoinRight(join) /\ join.party \in Parties /\ wallets'[join.wallet] = wallets[join.wallet]
        BY <1>2, <1>5, <3>2, JoinFacts
      <4>2. join.awaited => client'[join.party] = client[join.party]
        BY <1>5, <3>2, <4>1
      <4> QED
        BY <1>2, <4>1, <4>2 DEF JoinRight, keyVars
    <3> QED
      BY <3>1, <3>2
  <2>2. ASSUME NEW join \in joins', NEW other \in joins' PROVE OneOf(join, other)
    BY <1>1, <1>5 DEF OneOf, WalletInv, JoinsRight
  <2> QED
    BY <2>1, <2>2 DEF JoinsRight, OneOf
<1>7. WalletsRight'
  <2>1. ASSUME NEW q \in Parties PROVE MemberRight(q)'
    <3>1. MemberRight(q) /\ client'[q].wallet = client[q].wallet
          /\ (client'[q].at \in {"tell", "done"} => client'[q].at = client[q].at)
      BY DEF WalletInv, WalletsRight
    <3> QED
      BY <1>2, <3>1 DEF MemberRight
  <2> QED
    BY <1>2, <2>1 DEF WalletInv, WalletsRight, keyVars
<1>8. SecretRight'
  BY <1>5, Numbers DEF WalletInv, SecretRight
<1>9. LookupsRight'
  <2>1. CASE losses' # 0
    BY <2>1 DEF LookupsRight
  <2>2. CASE losses' = losses /\ losses = 0
    <3>1. \A w : LookupsOf(w)' = LookupsOf(w)
      BY DEF LookupsOf
    <3>2. \A w \in Wallets : Members(w)' = Members(w)
      BY <1>2 DEF Members
    <3>3. ASSUME NEW w \in Wallets', ~ Locked(w)' PROVE LookupsOf(w)' = Members(w)'
      <4>1. CASE w = new
        <5>1. LookupsOf(new) = {}
          BY <1>2 DEF LookupsOf, WalletInv, WalletTyped
        <5>2. Members(new)' = {}
          BY <1>2 DEF Members
        <5> QED
          BY <3>1, <4>1, <5>1, <5>2
      <4>2. CASE w \in Wallets
        <5>1. ~ Locked(w)
          BY <3>3 DEF Locked
        <5> QED
          BY <2>2, <3>1, <3>2, <4>2, <5>1 DEF WalletInv, LookupsRight
      <4> QED
        BY <1>2, <4>1, <4>2
    <3>4. ASSUME NEW join \in joins' PROVE JoinLookups(join)'
      <4>1. CASE join \in extra
        BY <4>1 DEF JoinLookups
      <4>2. CASE join \in joins
        <5>1. JoinLookups(join) /\ join.wallet \in Wallets
          BY <1>5, <2>2, <4>2 DEF WalletInv, LookupsRight
        <5> QED
          BY <3>1, <3>2, <5>1 DEF JoinLookups, Lookups
      <4> QED
        BY <4>1, <4>2
    <3> QED
      BY <3>3, <3>4 DEF LookupsRight
  <2> QED
    BY <2>1, <2>2 DEF LookupsRight
<1> QED
  BY <1>4, <1>6, <1>7, <1>8, <1>9 DEF WalletInv

(* A client that goes back to the last round.                              *)
LEMMA BackKeeps ==
  ASSUME KeyInv, WalletInv, NEW p \in Parties, client[p].at \in {"create", "tell", "secret"},
         client' = At(p, "wait"), UNCHANGED <<keyVars, walletVars>>, FaultsRight',
         broken => broken', losses' = 0 => losses = 0
  PROVE  KeyInv' /\ WalletInv'
<1>1. /\ client' \in [Parties -> ClientRec]
      /\ \A q \in Parties \ {p} : client'[q] = client[q]
      /\ client'[p].at = "wait" /\ client'[p].round = client[p].round
      /\ client'[p].wallet = client[p].wallet
  BY ClientStep DEF KeyInv, ClientsRight, ClientSteps
<1>2. KeyInv'
  BY <1>1, LaterMove
<1>3. WalletLeft
  BY <1>1, OneLeaves DEF keyVars
<1> QED
  BY <1>2, <1>3, WalletLeftKeeps

LEMMA CreateWalletKeeps ==
  ASSUME KeyInv, WalletInv, NEW p \in Parties, CreateWallet(p) PROVE KeyInv' /\ WalletInv'
<1>1. /\ client[p].at = "create" /\ p = Creator /\ client \in [Parties -> ClientRec]
      /\ client[p].round = Ready
  BY DEF CreateWallet, KeyInv, ClientsRight, ClientRight
<1>2. FaultsRight'
  BY DEF CreateWallet, KeyInv, FaultsRight, faultVars
<1>3. CASE client' = At(p, "wait") /\ UNCHANGED <<wallets, joins>>
  BY <1>1, <1>2, <1>3, BackKeeps DEF CreateWallet, walletVars, faultVars
<1>4. CASE wallets' = Append(wallets, <<>>) /\ Joining(p, Len(wallets) + 1)
  <2>1. PICK new : new = [party |-> p, wallet |-> Len(wallets) + 1, at |-> "lock",
                          copayers |-> <<>>, awaited |-> TRUE, tag |-> timeouts]
    OBVIOUS
  <2>2. new \in JoinRec
    BY <2>1, Appended, <1>4 DEF JoinRec, JoinSteps, CreateWallet, KeyInv, FaultsRight
  <2>3. /\ client' \in [Parties -> ClientRec]
        /\ \A q \in Parties \ {p} : client'[q] = client[q]
        /\ client'[p].at = "join" /\ client'[p].round = client[p].round
        /\ client'[p].wallet = client[p].wallet
    BY <1>1, <1>4, ClientStep DEF Joining, ClientSteps
  <2>4. joins' = joins \cup {new}
    BY <1>4, <2>1 DEF Joining
  <2>5. /\ UNCHANGED <<keyVars, lookups, secret, broken, losses>> /\ Len(wallets) < MaxWallets
    BY DEF CreateWallet, faultVars
  <2>6. KeyInv'
    BY <1>1, <1>2, <2>3, <2>5, LaterMove
  <2>7. PICK extra : extra = {new}
    OBVIOUS
  <2>8. /\ joins' = joins \cup extra /\ extra \subseteq JoinRec
        /\ \A join \in extra : /\ join.wallet = Len(wallets) + 1 /\ join.party = p
                               /\ join.at = "lock" /\ client'[p].at = "join"
                               /\ \A other \in extra : join = other
    BY <2>1, <2>2, <2>3, <2>4, <2>7
  <2>9. WalletInv'
    BY <1>1, <1>4, <2>3, <2>5, <2>8, AppendedKeeps
  <2> QED
    BY <2>6, <2>9
<1> QED
  BY <1>3, <1>4 DEF CreateWallet

LEMMA LoseCreateKeeps ==
  ASSUME KeyInv, WalletInv, NEW p \in Parties, LoseCreate(p) PROVE KeyInv' /\ WalletInv'
<1>1. /\ client[p].at = "create" /\ p = Creator /\ client' = At(p, "wait")
      /\ client \in [Parties -> ClientRec] /\ losses' # 0 /\ Len(wallets) < MaxWallets
      /\ UNCHANGED <<keyVars, timeouts, broken, lookups, secret, joins>>
  BY LossCounts DEF LoseCreate, KeyInv, ClientsRight, ClientRight
<1>2. FaultsRight'
  BY Numbers DEF LoseCreate, KeyInv, FaultsRight
<1>3. CASE wallets' = wallets
  BY <1>1, <1>2, <1>3, BackKeeps DEF walletVars
<1>4. CASE wallets' = Append(wallets, <<>>)
  <2>1. /\ client' \in [Parties -> ClientRec]
        /\ \A q \in Parties \ {p} : client'[q] = client[q]
        /\ client'[p].at = "wait" /\ client'[p].round = client[p].round
        /\ client'[p].wallet = client[p].wallet
    BY <1>1, ClientStep DEF ClientSteps
  <2>2. KeyInv'
    BY <1>1, <1>2, <2>1, LaterMove
  <2>3. PICK extra : extra = {}
    OBVIOUS
  <2>4. /\ joins' = joins \cup extra /\ extra \subseteq JoinRec
        /\ \A join \in extra : /\ join.wallet = Len(wallets) + 1 /\ join.party = p
                               /\ join.at = "lock" /\ client'[p].at = "join"
                               /\ \A other \in extra : join = other
    BY <1>1, <2>3
  <2>5. WalletInv'
    BY <1>1, <1>4, <2>1, <2>4, AppendedKeeps
  <2> QED
    BY <2>2, <2>5
<1> QED
  BY <1>3, <1>4 DEF LoseCreate

(* The creator, when it has joined, and the secret for the others.         *)
LEMMA SecretKeeps ==
  ASSUME KeyInv, WalletInv, NEW p \in Parties, PostSecret(p) \/ LoseSecret(p)
  PROVE  KeyInv' /\ WalletInv'
<1>1. PICK step \in {"done", "wait"} : client' = At(p, step) /\ (step = "wait" => broken')
  BY DEF PostSecret, LoseSecret
<1>2. /\ client[p].at = "tell" /\ p = Creator /\ client \in [Parties -> ClientRec]
      /\ MemberRight(p) /\ secret' \in {secret, client[p].wallet}
      /\ UNCHANGED <<keyVars, timeouts, wallets, lookups, joins>>
  BY DEF PostSecret, LoseSecret, KeyInv, ClientsRight, ClientRight, WalletInv, WalletsRight,
         faultVars
<1>3. client[p].wallet # 0 /\ client[p].wallet \in Wallets
  BY <1>2 DEF MemberRight
<1>4. FaultsRight' /\ (losses' = 0 => losses' = losses)
  <2>1. CASE PostSecret(p)
    BY <2>1 DEF PostSecret, KeyInv, FaultsRight, faultVars
  <2>2. CASE LoseSecret(p)
    BY <2>2, Numbers DEF LoseSecret, KeyInv, FaultsRight
  <2> QED
    BY <2>1, <2>2
<1>5. /\ client' \in [Parties -> ClientRec]
      /\ \A q \in Parties \ {p} : client'[q] = client[q]
      /\ client'[p].at = step /\ client'[p].round = client[p].round
      /\ client'[p].wallet = client[p].wallet
  <2>1. step \in ClientSteps
    BY DEF ClientSteps
  <2> QED
    BY <1>1, <1>2, <2>1, ClientStep
<1>6. KeyInv'
  BY <1>2, <1>4, <1>5, LaterMove
<1>7. WalletTyped'
  BY <1>2, <1>3 DEF WalletInv, WalletTyped, Wallets
<1>8. JoinsRight'
  <2>1. ASSUME NEW join \in joins' PROVE JoinRight(join)'
    <3>1. JoinRight(join) /\ join.party \in Parties
      BY <1>2, JoinFacts
    <3>2. join.awaited => client'[join.party].at = "join"
      BY <1>2, <1>5, <3>1 DEF JoinRight
    <3> QED
      BY <1>2, <3>1, <3>2 DEF JoinRight, Wallets, keyVars
  <2> QED
    BY <1>2, <2>1 DEF WalletInv, JoinsRight, OneOf
<1>9. WalletsRight'
  <2>1. ASSUME NEW q \in Parties PROVE MemberRight(q)'
    <3>1. MemberRight(q) /\ client'[q].wallet = client[q].wallet
          /\ (client'[q].at \in {"tell", "done"} => client[q].wallet # 0)
      BY <1>3, <1>5 DEF WalletInv, WalletsRight, MemberRight
    <3> QED
      BY <1>2, <3>1 DEF MemberRight, Wallets
  <2> QED
    BY <1>2, <2>1 DEF WalletInv, WalletsRight, Wallets, keyVars
<1>10. SecretRight'
  <2>1. CASE broken'
    BY <2>1 DEF SecretRight
  <2>2. CASE ~ broken'
    <3>1. step = "done" /\ ~ broken /\ secret' = client[p].wallet
      BY <1>1, <1>2, <2>2 DEF PostSecret, LoseSecret, faultVars
    <3>2. secret = 0
      BY <1>2, <3>1 DEF WalletInv, SecretRight
    <3>3. \A join \in joins : join.party = Creator
      BY <3>1, <3>2, JoinFacts DEF WalletInv, SecretRight
    <3>4. \A q \in Parties \ {Creator} : client[q].wallet = 0
      BY <3>1, <3>2 DEF WalletInv, SecretRight
    <3> QED
      BY <1>2, <1>5, <3>1, <3>3, <3>4 DEF SecretRight
  <2> QED
    BY <2>1, <2>2
<1>11. LookupsRight'
  <2>1. \A w : Locked(w)' = Locked(w) /\ LookupsOf(w)' = LookupsOf(w) /\ Members(w)' = Members(w)
    BY <1>2 DEF Locked, LookupsOf, Members
  <2>2. ASSUME NEW join \in joins, JoinLookups(join) PROVE JoinLookups(join)'
    BY <2>1, <2>2 DEF JoinLookups, Lookups
  <2> QED
    BY <1>2, <1>4, <2>1, <2>2 DEF WalletInv, LookupsRight, Wallets
<1> QED
  BY <1>6, <1>7, <1>8, <1>9, <1>10, <1>11 DEF WalletInv

(* Another party that has the secret.                                      *)
LEMMA GetSecretKeeps ==
  ASSUME KeyInv, WalletInv, NEW p \in Parties, GetSecret(p) PROVE KeyInv' /\ WalletInv'
<1>1. /\ client[p].at = "secret" /\ p # Creator /\ client \in [Parties -> ClientRec]
      /\ p \in participants
      /\ UNCHANGED <<keyVars, faultVars, wallets, lookups, secret>>
  BY Numbers DEF GetSecret, KeyInv, ClientsRight, ClientRight
<1>2. FaultsRight'
  BY <1>1 DEF KeyInv, FaultsRight, faultVars
<1>3. CASE client' = At(p, "wait") /\ UNCHANGED joins
  BY <1>1, <1>2, <1>3, BackKeeps DEF walletVars, faultVars
<1>4. CASE secret # 0 /\ Joining(p, secret)
  <2>1. PICK new : new = [party |-> p, wallet |-> secret, at |-> "lock",
                          copayers |-> <<>>, awaited |-> TRUE, tag |-> timeouts]
    OBVIOUS
  <2>2. secret \in Wallets /\ secret \in Nat \ {0}
    BY <1>4, WalletNumbers DEF WalletInv, WalletTyped
  <2>3. /\ new \in JoinRec /\ new.party = p /\ new.wallet = secret /\ new.at = "lock"
    BY <2>1, <2>2 DEF JoinRec, JoinSteps, KeyInv, FaultsRight
  <2>4. /\ client' \in [Parties -> ClientRec]
        /\ \A q \in Parties \ {p} : client'[q] = client[q]
        /\ client'[p].at = "join" /\ client'[p].round = client[p].round
        /\ client'[p].wallet = client[p].wallet
    BY <1>1, <1>4, ClientStep DEF Joining, ClientSteps
  <2>5. joins' = joins \cup {new}
    BY <1>4, <2>1 DEF Joining
  <2>6. KeyInv'
    BY <1>1, <1>2, <2>4, LaterMove
  <2>7. WalletTyped'
    BY <1>1, <2>3, <2>5 DEF WalletInv, WalletTyped, Wallets
  <2>8. \A join \in joins : ~ (join.party = p /\ join.awaited)
    BY <1>1, JoinFacts DEF JoinRight
  <2>9. JoinsRight'
    <3>1. ASSUME NEW join \in joins' PROVE JoinRight(join)'
      <4>1. CASE join = new
        BY <1>1, <2>2, <2>3, <2>4, <4>1 DEF JoinRight, Wallets, keyVars
      <4>2. CASE join \in joins
        <5>1. JoinRight(join) /\ join.party \in Parties
          BY <4>2, JoinFacts
        <5>2. join.awaited => client'[join.party].at = "join"
          BY <2>4, <2>8, <4>2, <5>1 DEF JoinRight
        <5> QED
          BY <1>1, <5>1, <5>2 DEF JoinRight, Wallets, keyVars
      <4> QED
        BY <2>5, <4>1, <4>2
    <3>2. ASSUME NEW join \in joins', NEW other \in joins' PROVE OneOf(join, other)
      BY <1>1, <2>3, <2>5, <2>8 DEF OneOf, WalletInv, JoinsRight
    <3> QED
      BY <3>1, <3>2 DEF JoinsRight, OneOf
  <2>10. WalletsRight'
    <3>1. ASSUME NEW q \in Parties PROVE MemberRight(q)'
      <4>1. MemberRight(q) /\ client'[q].wallet = client[q].wallet
            /\ (client'[q].at \in {"tell", "done"} => client'[q].at = client[q].at)
        BY <2>4 DEF WalletInv, WalletsRight
      <4> QED
        BY <1>1, <4>1 DEF MemberRight, Wallets
    <3> QED
      BY <1>1, <3>1 DEF WalletInv, WalletsRight, Wallets, keyVars
  <2>11. SecretRight'
    <3>1. client'[Creator] = client[Creator]
      BY <1>1, <2>4, Numbers
    <3>2. \A q \in Parties : client'[q].wallet = client[q].wallet
      BY <2>4
    <3> QED
      BY <1>1, <2>3, <2>5, <3>1, <3>2 DEF WalletInv, SecretRight, faultVars
  <2>12. LookupsRight'
    <3>1. \A w : Locked(w)' = Locked(w) /\ LookupsOf(w)' = LookupsOf(w) /\ Members(w)' = Members(w)
      BY <1>1, <2>3, <2>5 DEF Locked, LookupsOf, Members
    <3>2. ASSUME NEW join \in joins, JoinLookups(join) PROVE JoinLookups(join)'
      BY <3>1, <3>2 DEF JoinLookups, Lookups
    <3>3. JoinLookups(new)'
      BY <2>3 DEF JoinLookups
    <3> QED
      BY <1>1, <2>5, <3>1, <3>2, <3>3 DEF WalletInv, LookupsRight, Wallets, faultVars
  <2> QED
    BY <2>6, <2>7, <2>9, <2>10, <2>11, <2>12 DEF WalletInv
<1> QED
  BY <1>3, <1>4 DEF GetSecret

LEMMA WalletNextKeeps ==
  ASSUME KeyInv, WalletInv, NEW p \in Parties, WalletNext(p) PROVE KeyInv' /\ WalletInv'
<1>1. CASE WalletServe(p)
  BY <1>1, JoinCheckedKeeps, DeleteLookupsKeeps, InsertLookupsKeeps, StoreWalletKeeps DEF WalletServe
<1>2. CASE \E join \in joins : LoseJoin(join) \/ GiveUpJoin(join)
  BY <1>2, LoseJoinKeeps, GiveUpJoinKeeps
<1>3. CASE CreateWallet(p) \/ PostSecret(p) \/ GetSecret(p) \/ LoseCreate(p) \/ LoseSecret(p)
  BY <1>3, CreateWalletKeeps, SecretKeeps, GetSecretKeeps, LoseCreateKeeps
<1> QED
  BY <1>1, <1>2, <1>3 DEF WalletNext, WalletStep, WalletFailure
-----------------------------------------------------------------------------
(* The signers leave the key and the wallet alone; their requests that are *)
(* lost are counted with the others.                                       *)
SignLeaves ==
  /\ UNCHANGED <<keyVars, client, walletVars>>
  /\ \/ UNCHANGED faultVars
     \/ losses' = losses + 1 /\ losses + timeouts < MaxFaults /\ UNCHANGED <<timeouts, broken>>
     \/ /\ timeouts' = timeouts + 1 /\ losses + timeouts < MaxFaults
        /\ UNCHANGED losses /\ broken' = TRUE

LEMMA SignNextLeaves ==
  ASSUME NEW p \in Parties, SignNext(p) PROVE SignLeaves
<1>1. CASE SignStart(p) \/ SignPoll(p) \/ StoreSignature(p)
  BY <1>1 DEF SignStart, SignPoll, StoreSignature, SignLeaves
<1>2. CASE \E post \in sposts :
             SigFetch(post) \/ SigInsert(post) \/ SigParticipant(post) \/ SigPush(post)
  BY <1>2 DEF SigFetch, SigInsert, SigParticipant, SigPush, SignLeaves
<1>3. CASE LoseSignature(p)
  BY <1>3 DEF LoseSignature, SignLeaves
<1>4. CASE \E post \in sposts : SigLosePost(post) \/ SigGiveUp(post)
  BY <1>4 DEF SigLosePost, SigGiveUp, SignLeaves
<1> QED
  BY <1>1, <1>2, <1>3, <1>4 DEF SignNext, SignStep, SignServe, SignFailure

LEMMA SignLeavesKeeps ==
  ASSUME KeyInv, WalletInv, SignLeaves PROVE KeyInv' /\ WalletInv'
<1>1. FaultsRight'
  <2>1. /\ timeouts \in Nat /\ losses \in Nat /\ MaxFaults \in Nat /\ broken \in BOOLEAN
        /\ timeouts + losses <= MaxFaults
    BY Numbers DEF KeyInv, FaultsRight
  <2>2. CASE UNCHANGED faultVars
    BY <2>1, <2>2 DEF FaultsRight, faultVars
  <2>3. CASE losses' = losses + 1 /\ losses + timeouts < MaxFaults /\ UNCHANGED <<timeouts, broken>>
    <3>1. losses + 1 \in Nat /\ timeouts + (losses + 1) <= MaxFaults
      BY <2>1, <2>3
    <3> QED
      BY <2>1, <2>3, <3>1 DEF FaultsRight
  <2>4. CASE timeouts' = timeouts + 1 /\ losses + timeouts < MaxFaults /\ losses' = losses /\ broken' = TRUE
    <3>1. timeouts + 1 \in Nat /\ (timeouts + 1) + losses <= MaxFaults
      BY <2>1, <2>4
    <3> QED
      BY <2>1, <2>4, <3>1 DEF FaultsRight
  <2> QED
    BY <2>2, <2>3, <2>4 DEF SignLeaves
<1>2. (broken => broken') /\ (losses' = 0 => losses = 0)
  BY LossCounts DEF SignLeaves, faultVars
<1>3. UNCHANGED <<keyVars, client, walletVars>>
  BY DEF SignLeaves
<1>4. KeyInv'
  BY <1>1, <1>3, NoMove
<1>5. WalletLeft
  BY <1>2, <1>3, NoneLeaves DEF keyVars
<1> QED
  BY <1>4, <1>5, WalletLeftKeeps

LEMMA InitWallet == Init => KeyInv /\ WalletInv
<1> SUFFICES ASSUME Init PROVE KeyInv /\ WalletInv
  OBVIOUS
<1> USE DEF Init, KeyInit, WalletInit
<1>1. SessionRight
  <2>1. <<>> \in Seq(Seq(Parties)) /\ DOMAIN <<>> = {} /\ Len(<<>>) = 0
    OBVIOUS
  <2>2. RoundsRight(rounds, Parties, N)
    BY <2>1, Numbers DEF RoundsRight
  <2>3. 0 <= Ready - 1 /\ 0 \in Nat
    BY Numbers
  <2>4. Len(rounds) <= Ready - 1
    BY <2>1, <2>3
  <2>5. participants \subseteq Parties /\ version \in Nat /\ sharedKey \in BOOLEAN
        /\ participants = {} /\ version = 0
    BY <2>3
  <2> QED
    BY <2>2, <2>4, <2>5 DEF SessionRight
<1>2. FaultsRight
  <2>1. timeouts = 0 /\ losses = 0 /\ broken = FALSE
    OBVIOUS
  <2>2. 0 \in Nat /\ 0 + 0 <= MaxFaults
    BY Numbers
  <2> QED
    BY <2>1, <2>2 DEF FaultsRight
<1>3. ClientsRight
  <2>1. client \in [Parties -> ClientRec]
    BY Numbers DEF ClientRec, ClientSteps
  <2>2. \A p \in Parties : client[p].at = "out" /\ client[p].round = 0 /\ client[p].wallet = 0
    OBVIOUS
  <2>3. \A r \in RoundNumbers : ~ (0 > r)
    BY Numbers
  <2>4. \A p \in Parties : ClientRight(p)
    BY <2>2, <2>3 DEF ClientRight
  <2> QED
    BY <2>1, <2>4 DEF ClientsRight
<1>4. PostsRight
  BY DEF PostsRight
<1>5. WalletTyped /\ Wallets = {}
  BY Numbers, WalletAssumption DEF WalletTyped, Wallets
<1>6. joins = {} /\ secret = 0
      /\ \A p \in Parties : client[p].at = "out" /\ client[p].wallet = 0
  OBVIOUS
<1>7. JoinsRight
  BY <1>6 DEF JoinsRight
<1>8. WalletsRight
  BY <1>5, <1>6 DEF WalletsRight, MemberRight
<1>9. SecretRight
  BY <1>6, Numbers DEF SecretRight
<1>10. LookupsRight
  BY <1>5, <1>6 DEF LookupsRight
<1> QED
  BY <1>1, <1>2, <1>3, <1>4, <1>5, <1>7, <1>8, <1>9, <1>10 DEF KeyInv, WalletInv

LEMMA NextWallet == KeyInv /\ WalletInv /\ [Next]_vars => KeyInv' /\ WalletInv'
<1> SUFFICES ASSUME KeyInv, WalletInv, [Next]_vars PROVE KeyInv' /\ WalletInv'
  OBVIOUS
<1>1. CASE Next
  <2>1. PICK p \in Parties : KeyNext(p) \/ WalletNext(p) \/ SignNext(p)
    BY <1>1 DEF Next
  <2> QED
    BY <2>1, KeyNextKeeps, WalletNextKeeps, SignNextLeaves, SignLeavesKeeps
<1>2. CASE UNCHANGED vars
  <2>1. SignLeaves
    BY <1>2 DEF vars, SignLeaves
  <2> QED
    BY <2>1, SignLeavesKeeps
<1> QED
  BY <1>1, <1>2

(* The invariants of key generation and of the wallet.                     *)
THEOREM WalletInvariant == Spec => [](KeyInv /\ WalletInv)
  BY InitWallet, NextWallet, PTL DEF Spec
-----------------------------------------------------------------------------
(* What a party takes for sent is stored once (TssKeyGen.SentIsStored).    *)
LEMMA SentOnce == KeyInv => SentIsStored
<1> SUFFICES ASSUME KeyInv PROVE SentIsStored
  OBVIOUS
<1>1. KeyTypeOK
  <2>1. /\ participants \subseteq Parties /\ Len(rounds) <= Ready - 1
        /\ \A i \in DOMAIN rounds : rounds[i] \in Seq(Parties) /\ Len(rounds[i]) <= N
    BY DEF KeyInv, SessionRight, RoundsRight
  <2>2. sharedKey \in BOOLEAN /\ broken \in BOOLEAN
    BY DEF KeyInv, SessionRight, FaultsRight
  <2>3. \A p \in Parties : client[p].at \in ClientSteps /\ client[p].round \in 0..Ready
    BY DEF KeyInv, ClientsRight, ClientRec
  <2>4. \A post \in posts :
          /\ post.party \in Parties /\ post.round \in 0..Ready - 2
          /\ post.at \in PostSteps /\ post.awaited \in BOOLEAN
    BY DEF KeyInv, PostsRight, PostRec, RoundNumbers
  <2>5. timeouts \in 0..MaxFaults /\ losses \in 0..MaxFaults
    BY Numbers DEF KeyInv, FaultsRight
  <2> QED
    BY <2>1, <2>2, <2>3, <2>4, <2>5 DEF KeyTypeOK
<1>2. ASSUME NEW p \in Parties, NEW r \in 0..Ready - 2, client[p].round > r
      PROVE  Cardinality({i \in DOMAIN rounds[r + 1] : rounds[r + 1][i] = p}) = 1
  <2>1. p \in Senders(rounds, r) /\ r \in Nat /\ RoundsRight(rounds, Parties, N)
    BY <1>2, Numbers DEF KeyInv, ClientsRight, ClientRight, RoundNumbers, SessionRight
  <2>2. r < Len(rounds)
    BY <2>1 DEF Senders
  <2>3. IsInjective(rounds[r + 1]) /\ p \in ToSet(rounds[r + 1])
    BY <2>1, <2>2, RoundFacts
  <2>4. PICK i \in DOMAIN rounds[r + 1] : rounds[r + 1][i] = p
    BY <2>3 DEF ToSet
  <2>5. {j \in DOMAIN rounds[r + 1] : rounds[r + 1][j] = p} = {i}
    BY <2>3, <2>4 DEF IsInjective
  <2> QED
    BY <2>5, FS_Singleton
<1> QED
  BY <1>1, <1>2 DEF SentIsStored

(* What a party takes for sent is in the session, once, whatever was lost  *)
(* or sent again (TssKeyGen.SentIsStored).                                 *)
THEOREM SentStays == Spec => []SentIsStored
  BY WalletInvariant, SentOnce, PTL

(* Nobody is in a wallet twice, and whoever was told that it has joined    *)
(* stays in the wallet (TssWallet.MembersKept).                            *)
LEMMA MembersThere == KeyInv /\ WalletInv => MembersKept
<1> SUFFICES ASSUME KeyInv, WalletInv PROVE MembersKept
  OBVIOUS
<1>1. ASSUME NEW p \in Parties, client[p].at = "done"
      PROVE  /\ p \in ToSet(wallets[client[p].wallet])
             /\ client[p].wallet = secret \/ broken
  <2>1. client[p].wallet # 0 /\ p \in ToSet(wallets[client[p].wallet])
    BY <1>1 DEF WalletInv, WalletsRight, MemberRight
  <2>2. client[p].wallet = secret \/ broken
    BY <1>1, <2>1 DEF WalletInv, SecretRight
  <2> QED
    BY <2>1, <2>2
<1> QED
  BY <1>1 DEF WalletInv, WalletsRight, MembersKept

(* Nobody is in a wallet twice, and whoever was told that it has joined    *)
(* stays in it, whatever other joins store (TssWallet.MembersKept).        *)
THEOREM MembersStay == Spec => []MembersKept
  BY WalletInvariant, MembersThere, PTL

(* The lookups of a wallet that nobody joins are its members               *)
(* (TssWallet.LookupsMatch).                                               *)
LEMMA LookupsThere == WalletInv => LookupsMatch
<1> SUFFICES ASSUME WalletInv PROVE LookupsMatch
  OBVIOUS
<1>1. WalletTypeOK
  <2>1. \A join \in joins :
          /\ join.party \in Parties /\ join.wallet \in Wallets /\ join.awaited \in BOOLEAN
          /\ join.at \in {"lock", "delete", "insert", "store"} /\ join.copayers \in Seq(Parties)
    BY JoinFacts DEF JoinRec, JoinSteps
  <2> QED
    BY <2>1, WalletNumbers DEF WalletTypeOK, WalletInv, WalletTyped
<1>2. \A w \in Wallets : ~ Locked(w) /\ losses = 0 => LookupsOf(w) = Members(w)
  BY DEF WalletInv, LookupsRight
<1> QED
  BY <1>1, <1>2 DEF LookupsMatch, LookupsOf, Members

(* The look-ups of a wallet that nobody joins are its members, although    *)
(* three calls write them (TssWallet.LookupsMatch).                        *)
THEOREM LookupsStay == Spec => []LookupsMatch
  BY WalletInvariant, LookupsThere, PTL
-----------------------------------------------------------------------------
(***************************************************************************)
(* The rounds of the key are those of a barrier (RoundBarrier).            *)
(***************************************************************************)
KeySent == [r \in 0..Ready - 2 |-> Senders(rounds, r)]

LEMMA KeyCardinality == \A S : KeyRounds!Cardinality(S) = Cardinality(S)
  BY DEF KeyRounds!Cardinality, Cardinality

(* The message of a party is stored: its round is not complete, and all    *)
(* parties have sent theirs of the rounds before it.                       *)
KeySends(p, r) ==
  /\ p \notin Senders(rounds, r) /\ Cardinality(Senders(rounds, r)) # N
  /\ \A q \in 0..r - 1 : Senders(rounds, q) = Parties
  /\ Senders(rounds', r) = Senders(rounds, r) \cup {p}
  /\ \A q \in RoundNumbers \ {r} : Senders(rounds', q) = Senders(rounds, q)

LEMMA InsertSends ==
  ASSUME KeyInv, NEW post \in posts, Insert(post)
  PROVE  rounds' = rounds \/ KeySends(post.party, 0)
<1>1. post.party \in Parties /\ 0..(0 - 1) = {}
  BY PostFacts
<1>2. CASE rounds = <<>>
  <2>1. rounds' = << <<post.party>> >>
    BY <1>2 DEF Insert
  <2>2. Senders(rounds', 0) = {post.party} /\ \A q \in Nat \ {0} : Senders(rounds', q) = {}
    BY <1>1, <2>1, Numbers, FirstRound
  <2>3. \A q \in Nat : Senders(rounds, q) = {}
    BY <1>2 DEF Senders
  <2>4. Cardinality({}) = 0 /\ N # 0 /\ 0 \in Nat
    BY FS_EmptySet, Numbers
  <2> QED
    BY <1>1, <2>2, <2>3, <2>4, Numbers DEF KeySends
<1>3. CASE rounds # <<>>
  BY <1>3 DEF Insert
<1> QED
  BY <1>2, <1>3

LEMMA PushSends ==
  ASSUME KeyInv, NEW post \in posts, Push(post)
  PROVE  rounds' = rounds \/ KeySends(post.party, post.round)
<1>1. /\ post.party \in Parties /\ post.round \in RoundNumbers /\ post.round \in Nat
      /\ PostRight(post) /\ post.at = "push"
  BY PostFacts DEF Push
<1>2. rounds # <<>> /\ post.party \in participants /\ (post.version = version => post.view = rounds)
  BY <1>1 DEF PostRight
<1>3. RoundsRight(rounds, Parties, N)
  BY DEF KeyInv, SessionRight
<1>4. CASE /\ Accepts(post.view, post.round, post.party, N) /\ UpToDate(post)
           /\ rounds' = Pushed(rounds, post.round, post.party, TRUE)
           /\ version' = version + 1
  <2>1. Accepts(rounds, post.round, post.party, N)
    BY <1>2, <1>4 DEF UpToDate
  <2>2. /\ Senders(rounds', post.round) = Senders(rounds, post.round) \cup {post.party}
        /\ \A q \in Nat \ {post.round} : Senders(rounds', q) = Senders(rounds, q)
    BY <1>1, <1>2, <1>4, <2>1, PushedSession DEF Push, KeyInv
  <2>3. /\ post.party \notin Senders(rounds, post.round)
        /\ Cardinality(Senders(rounds, post.round)) # N
    BY <1>1, <1>2, <1>3, <2>1, AcceptedRound
  <2>4. ASSUME NEW q \in 0..post.round - 1 PROVE Senders(rounds, q) = Parties
    <3>1. q < Len(rounds) /\ Cardinality(Senders(rounds, q)) = N /\ q \in Nat
      BY <1>1, <1>2, <1>3, <2>1, AcceptedRound
    <3>2. Senders(rounds, q) \subseteq Parties
      BY <1>3, <3>1, RoundFacts
    <3> QED
      BY <3>1, <3>2, PartiesCounted, FS_Subset
  <2> QED
    BY <2>2, <2>3, <2>4, Numbers DEF KeySends
<1>5. CASE UNCHANGED rounds
  BY <1>5
<1> QED
  BY <1>4, <1>5 DEF Push

LEMMA NextSends ==
  ASSUME KeyInv, [Next]_vars
  PROVE  rounds' = rounds \/ \E p \in Parties, r \in RoundNumbers : KeySends(p, r)
<1>1. CASE UNCHANGED vars
  BY <1>1 DEF vars, keyVars
<1>2. CASE Next
  <2>1. PICK p \in Parties : KeyNext(p) \/ WalletNext(p) \/ SignNext(p)
    BY <1>2 DEF Next
  <2>2. CASE WalletNext(p)
    BY <2>2 DEF WalletNext, WalletStep, WalletFailure, WalletServe, CreateWallet, PostSecret,
       GetSecret, LoseCreate, LoseSecret, JoinChecked, DeleteLookups, InsertLookups,
       StoreWallet, LoseJoin, GiveUpJoin, keyVars
  <2>3. CASE SignNext(p)
    BY <2>3, SignNextLeaves DEF SignLeaves, keyVars
  <2>4. CASE Join(p) \/ Poll(p) \/ StoreKey(p) \/ LoseStore(p)
    BY <2>4 DEF Join, Poll, StoreKey, LoseStore
  <2>5. CASE \E post \in posts : Fetch(post) \/ StoreParticipant(post) \/ LosePost(post) \/ GiveUp(post)
    BY <2>5 DEF Fetch, StoreParticipant, LosePost, GiveUp
  <2>6. CASE \E post \in posts : Insert(post) \/ Push(post)
    BY <2>6, InsertSends, PushSends, PostFacts, Numbers
  <2> QED
    BY <2>1, <2>2, <2>3, <2>4, <2>5, <2>6 DEF KeyNext, KeyStep, KeyFailure, Serve
<1> QED
  BY <1>1, <1>2

(* Every step that stores a message is a step of the barrier, every other  *)
(* one leaves it as it is.                                                 *)
LEMMA NextIsBarrier ==
  ASSUME KeyInv, [Next]_vars PROVE [KeyRounds!Next]_KeySent
<1>1. (Ready - 1) - 1 = Ready - 2
  BY Numbers
<1>2. CASE rounds' = rounds
  BY <1>2 DEF KeySent
<1>3. ASSUME NEW p \in Parties, NEW r \in RoundNumbers, KeySends(p, r) PROVE KeyRounds!Next
  <2>1. \A q \in RoundNumbers : KeySent[q] = Senders(rounds, q) /\ KeySent'[q] = Senders(rounds', q)
    BY DEF KeySent, RoundNumbers
  <2>2. p \notin KeySent[r] /\ Cardinality(KeySent[r]) # N
    BY <1>3, <2>1 DEF KeySends
  <2>3. ASSUME NEW q \in 0..r - 1 PROVE Cardinality(KeySent[q]) = N /\ p \in KeySent[q]
    <3>1. q \in RoundNumbers
      BY Numbers DEF RoundNumbers
    <3> QED
      BY <1>3, <2>1, <3>1, PartiesCounted DEF KeySends
  <2>4. KeySent' = [KeySent EXCEPT ![r] = KeySent[r] \cup {p}]
    <3>1. \A q \in RoundNumbers :
            KeySent'[q] = IF q = r THEN KeySent[r] \cup {p} ELSE KeySent[q]
      BY <1>3, <2>1 DEF KeySends
    <3> QED
      BY <3>1 DEF KeySent, RoundNumbers
  <2>5. /\ p \notin KeySent[r] /\ ~ Cardinality(KeySent[r]) = N
        /\ \A q \in 0..r - 1 : Cardinality(KeySent[q]) = N /\ p \in KeySent[q]
        /\ KeySent' = [KeySent EXCEPT ![r] = KeySent[r] \cup {p}]
    BY <2>2, <2>3, <2>4
  <2>6. KeyRounds!Send(p, r)
    BY <2>5, KeyCardinality, Zenon DEF KeyRounds!Send, KeyRounds!Complete, KeySent
  <2> QED
    BY <1>1, <2>6 DEF KeyRounds!Next, RoundNumbers
<1> QED
  BY <1>2, <1>3, NextSends

LEMMA InitIsBarrier == Init => KeyRounds!Init
<1> SUFFICES ASSUME Init PROVE KeyRounds!Init
  OBVIOUS
<1>1. rounds = <<>> /\ (Ready - 1) - 1 = Ready - 2
  BY Numbers DEF Init, KeyInit
<1>2. \A r \in 0..Ready - 2 : Senders(rounds, r) = {}
  BY <1>1 DEF Senders
<1> QED
  BY <1>1, <1>2 DEF KeyRounds!Init

(* The stored rounds of the key are those of a barrier for all parties     *)
(* (TssKeyGen.IsKeyBarrier).                                               *)
THEOREM KeyIsBarrier == Spec => IsKeyBarrier
<1>1. KeyInv /\ [Next]_vars => [KeyRounds!Next]_KeySent
  BY NextIsBarrier
<1> QED
  BY <1>1, InitIsBarrier, WalletInvariant, PTL DEF Spec, IsKeyBarrier, KeyRounds!Spec, KeySent

-----------------------------------------------------------------------------
(* The signature.                                                          *)

(* The first of the documents that an update may match.                    *)
LEMMA LeastNumber ==
  ASSUME NEW S \in SUBSET Nat, S # {}
  PROVE  \E i \in S : \A j \in S : i <= j
<1>1. PICK R : R = {ss \in Nat \X Nat : ss[1] < ss[2]}
  OBVIOUS
<1>2. IsWellFoundedOn(R, Nat)
  BY <1>1, NatLessThanWellFounded DEF OpToRel
<1>3. PICK i \in S : \A j \in S : ~ (<<j, i>> \in R)
  BY <1>2, WFMin
<1>4. ASSUME NEW j \in S PROVE i <= j
  <2>1. <<j, i>> \in Nat \X Nat /\ <<j, i>>[1] = j /\ <<j, i>>[2] = i
    OBVIOUS
  <2>2. ~ (j < i)
    BY <1>1, <1>3, <2>1
  <2> QED
    BY <2>2
<1> QED
  BY <1>4

LEMMA FirstIsLeast ==
  ASSUME NEW S \in SUBSET Nat, S # {}
  PROVE  First(S) \in S /\ \A j \in S : First(S) <= j
  BY LeastNumber DEF First

(* The rounds of a document that is not the first have their type.         *)
LEMMA PushedTyped ==
  ASSUME NEW parties \in SUBSET Int, NEW s \in Seq(Seq(parties)), NEW r \in Nat, NEW p \in parties
  PROVE  Pushed(s, r, p, FALSE) \in Seq(Seq(parties))
<1>1. CASE r = Len(s)
  <2>1. <<p>> \in Seq(parties)
    OBVIOUS
  <2>2. Append(s, <<p>>) \in Seq(Seq(parties))
    BY <2>1, AppendProperties
  <2> QED
    BY <1>1, <2>2 DEF Pushed
<1>2. CASE r # Len(s)
  <2>1. Pushed(s, r, p, FALSE) = [s EXCEPT ![r + 1] = Sorted(s[r + 1], p)]
    BY <1>2 DEF Pushed
  <2>2. CASE r + 1 \in 1..Len(s)
    <3>1. s[r + 1] \in Seq(parties)
      BY <2>2
    <3>2. PICK t : t = Sorted(s[r + 1], p)
      OBVIOUS
    <3>3. t \in Seq(parties)
      BY <3>1, <3>2, SortedAdds
    <3>4. [s EXCEPT ![r + 1] = t] \in Seq(Seq(parties))
      BY <2>2, <3>3, ExceptSeq
    <3> QED
      BY <2>1, <3>2, <3>4
  <2>3. CASE r + 1 \notin 1..Len(s)
    <3>1. r + 1 \notin DOMAIN s
      BY <2>3, LenProperties
    <3>2. [s EXCEPT ![r + 1] = Sorted(s[r + 1], p)] = s
      BY <3>1
    <3> QED
      BY <2>1, <3>2
  <2> QED
    BY <2>2, <2>3
<1> QED
  BY <1>1, <1>2

(* The parties of a round, whether it is there or not.                     *)
LEMMA RoundSize ==
  ASSUME NEW parties, NEW s, NEW size, RoundsRight(s, parties, size), NEW r \in Nat
  PROVE  /\ Senders(s, r) \subseteq parties /\ IsFiniteSet(Senders(s, r))
         /\ Cardinality(Senders(s, r)) \in 0..size
<1>1. size \in Nat
  BY DEF RoundsRight
<1>2. CASE r < Len(s)
  BY <1>1, <1>2, RoundFacts
<1>3. CASE ~ (r < Len(s))
  BY <1>1, <1>3, NoRound, FS_EmptySet
<1> QED
  BY <1>2, <1>3

(* A party that is in every round for sure: the last one is complete and   *)
(* nobody is in it who is not in the first.                                *)
LEMMA LastComplete ==
  ASSUME NEW parties, NEW s, NEW size, RoundsRight(s, parties, size),
         NEW last \in Nat, Cardinality(Senders(s, last)) = size,
         \A r \in 0..last : Senders(s, r) \subseteq Senders(s, 0)
  PROVE  \A r \in 0..last : Senders(s, r) = Senders(s, 0)
<1>1. size \in Nat \ {0} /\ Len(s) \in Nat
  BY LenProperties DEF RoundsRight
<1>2. last < Len(s)
  BY <1>1, NoRound, FS_EmptySet
<1>3. ASSUME NEW r \in 0..last PROVE Cardinality(Senders(s, r)) = size
  <2>1. CASE r = last
    BY <2>1
  <2>2. CASE r # last
    <3>1. r \in Nat /\ r < Len(s) /\ r + 1 < Len(s)
      BY <1>1, <1>2, <2>2
    <3> QED
      BY <3>1, RoundFacts
  <2> QED
    BY <2>1, <2>2
<1>4. ASSUME NEW r \in 0..last PROVE Senders(s, r) = Senders(s, 0)
  <2>1. 0 \in 0..last /\ 0 \in Nat
    OBVIOUS
  <2>2. Cardinality(Senders(s, r)) = Cardinality(Senders(s, 0)) /\ IsFiniteSet(Senders(s, 0))
    BY <1>3, <2>1, RoundSize
  <2> QED
    BY <2>2, FS_Subset
<1> QED
  BY <1>4
-----------------------------------------------------------------------------
(***************************************************************************)
(* The inductive invariant of signing.  The document that is read is the   *)
(* first one: only its last round may be incomplete, and who is in a round *)
(* is in the first.                                                        *)
(***************************************************************************)
SigRec == [participants : Seq(Parties), rounds : Seq(Seq(Parties)), version : Nat,
           signature : BOOLEAN]

SignerSteps == {"out", "post", "wait", "store", "done"}

SignerRec == [at : SignerSteps, round : 0..Ready]

SigSessionRight ==
  /\ sigs \in Seq(SigRec)
  /\ sigs # <<>> =>
       /\ RoundsRight(sigs[1].rounds, Parties, M) /\ sigs[1].rounds # <<>>
       /\ Len(sigs[1].rounds) <= Ready - 1
  /\ \A r \in RoundNumbers : SigSenders(r) \subseteq SigSenders(0)

SigComplete == Cardinality(SigSenders(Ready - 2)) = M

SignatureRight == Len(sigs) = 1 /\ sigs[1].signature => SigComplete

(* While there is one document, what a signer takes for sent is in it; a   *)
(* signer whose rounds are over has seen the last one complete.            *)
SignerRight(p) ==
  /\ signer[p].at = "out" => signer[p].round = 0
  /\ signer[p].at = "post" => signer[p].round \in RoundNumbers
  /\ signer[p].at = "store" => signer[p].round = Ready
  /\ signer[p].at \in {"store", "done"} => sigs # <<>>
  /\ sigs = <<>> => signer[p].round = 0
  /\ Len(sigs) = 1 =>
       /\ \A r \in RoundNumbers : signer[p].round > r => p \in SigSenders(r)
       /\ signer[p].round = Ready => SigComplete
       /\ signer[p].at = "done" => sigs[1].signature

SignersRight ==
  /\ signer \in [Parties -> SignerRec]
  /\ \A p \in Parties : SignerRight(p)
  /\ SignatureRight

(* What a request has read is the first document as long as that one has   *)
(* the version; only a party of the first round sends in later ones.       *)
SigPostRight(post) ==
  /\ post.at \in {"participant", "push"} =>
       /\ sigs # <<>>
       /\ post.version <= sigs[1].version
       /\ post.version = sigs[1].version => post.view = sigs[1].rounds
  /\ post.awaited => signer[post.party].at = "post" /\ signer[post.party].round = post.round
  /\ post.at = "insert" => post.round = 0
  /\ post.round > 0 => post.party \in SigSenders(0)

SigPostsRight ==
  /\ sposts \subseteq PostRec /\ IsFiniteSet(sposts)
  /\ \A post \in sposts : SigPostRight(post)
  /\ \A post, other \in sposts :
       post.party = other.party /\ post.awaited /\ other.awaited => post = other

(* Every document has been inserted for a party that has sent its first    *)
(* message since, or by a request that its client gave up.                 *)
Unawaited == {post \in sposts : ~ post.awaited}

Beginners == {p \in Parties : signer[p].round = 0}

DocumentsCounted ==
  Len(sigs) + Cardinality(Unawaited) + Cardinality(Beginners) <= N + timeouts

SignInv == SigSessionRight /\ SignersRight /\ SigPostsRight /\ DocumentsCounted

LEMMA Signers == M \in Nat \ {0} /\ M <= N /\ Ready - 2 \in RoundNumbers
  BY SignAssumption, KeyGenAssumption DEF RoundNumbers

(* What every step does to the documents.                                  *)
SigGrows ==
  /\ sigs # <<>> =>
       /\ sigs' # <<>> /\ sigs[1].version <= sigs'[1].version
       /\ sigs'[1].version = sigs[1].version => sigs'[1].rounds = sigs[1].rounds
  /\ \A r \in RoundNumbers : SigSenders(r) \subseteq SigSenders(r)'
  /\ Len(sigs') = 1 =>
       \/ sigs = <<>>
       \/ Len(sigs) = 1 /\ (sigs[1].signature => sigs'[1].signature)

LEMMA FirstDocument ==
  ASSUME SigSessionRight, sigs # <<>>
  PROVE  /\ sigs[1] \in SigRec /\ 1 \in 1..Len(sigs) /\ Len(sigs) \in Nat \ {0}
         /\ sigs[1].version \in Nat /\ sigs[1].rounds \in Seq(Seq(Parties))
         /\ \A r : SigSenders(r) = Senders(sigs[1].rounds, r)
<1>1. sigs \in Seq(SigRec)
  BY DEF SigSessionRight
<1>2. 1 \in 1..Len(sigs) /\ Len(sigs) \in Nat \ {0}
  BY <1>1, LenProperties, EmptySeq
<1>3. sigs[1] \in SigRec
  BY <1>1, <1>2
<1> QED
  BY <1>2, <1>3 DEF SigRec, SigSenders

LEMMA SigUnmoved ==
  ASSUME SigSessionRight, sigs' = sigs PROVE SigSessionRight' /\ SigGrows
<1>1. SigSessionRight'
  BY DEF SigSessionRight, SigSenders
<1>2. sigs # <<>> => sigs[1].version <= sigs[1].version
  BY FirstDocument
<1>3. Len(sigs) = 1 => sigs # <<>>
  <2>1. Len(<<>>) # 1
    OBVIOUS
  <2> QED
    BY <2>1
<1> QED
  BY <1>1, <1>2, <1>3 DEF SigGrows, SigSenders

(* A round that is complete stays so.                                      *)
LEMMA CompleteStays ==
  ASSUME SigSessionRight, SigSessionRight', SigGrows, SigComplete PROVE SigComplete'
<1>1. sigs # <<>>
  <2>1. sigs = <<>> => SigSenders(Ready - 2) = {}
    BY DEF SigSenders
  <2> QED
    BY <2>1, FS_EmptySet, Signers DEF SigComplete
<1>2. sigs' # <<>>
  BY <1>1 DEF SigGrows
<1> DEFINE before == Senders(sigs[1].rounds, Ready - 2)
           after == Senders(sigs'[1].rounds, Ready - 2)
<1>3. RoundsRight(sigs[1].rounds, Parties, M) /\ RoundsRight(sigs'[1].rounds, Parties, M)
      /\ Ready - 2 \in Nat
  BY <1>1, <1>2, Signers, Numbers DEF SigSessionRight
<1>4. IsFiniteSet(after) /\ Cardinality(after) \in 0..M
  BY <1>3, RoundSize
<1>5. before \subseteq after /\ Cardinality(before) = M
  BY <1>1, <1>2, Signers DEF SigGrows, SigSenders, SigComplete
<1>6. Cardinality(before) <= Cardinality(after)
  BY <1>4, <1>5, FS_Subset
<1>7. Cardinality(after) = M
  BY <1>4, <1>5, <1>6, Signers
<1> QED
  BY <1>2, <1>7 DEF SigComplete, SigSenders

LEMMA SignersMoved ==
  ASSUME SigSessionRight, SignersRight, SigSessionRight', SigGrows, NEW p \in Parties,
         signer' \in [Parties -> SignerRec],
         \A q \in Parties \ {p} : signer'[q] = signer[q],
         SignerRight(p)', SignatureRight'
  PROVE  SignersRight'
<1>1. ASSUME NEW q \in Parties PROVE SignerRight(q)'
  <2>1. CASE q = p
    BY <2>1
  <2>2. CASE q # p
    <3>1. signer'[q] = signer[q] /\ SignerRight(q)
      BY <2>2 DEF SignersRight
    <3>2. /\ signer'[q].at = "out" => signer'[q].round = 0
          /\ signer'[q].at = "post" => signer'[q].round \in RoundNumbers
          /\ signer'[q].at = "store" => signer'[q].round = Ready
          /\ signer'[q].at \in {"store", "done"} => sigs' # <<>>
          /\ sigs' = <<>> => signer'[q].round = 0
      BY <3>1 DEF SignerRight, SigGrows
    <3>3. ASSUME Len(sigs') = 1
          PROVE  /\ \A r \in RoundNumbers : signer'[q].round > r => q \in SigSenders(r)'
                 /\ signer'[q].round = Ready => SigComplete'
                 /\ signer'[q].at = "done" => sigs'[1].signature
      <4>1. CASE sigs = <<>>
        <5>1. signer'[q].round = 0 /\ signer'[q].at # "done"
          BY <3>1, <4>1 DEF SignerRight
        <5>2. 0 # Ready /\ \A r \in RoundNumbers : ~ (0 > r)
          BY Numbers
        <5> QED
          BY <5>1, <5>2
      <4>2. CASE Len(sigs) = 1 /\ (sigs[1].signature => sigs'[1].signature)
        BY <3>1, <4>2, CompleteStays DEF SignerRight, SigGrows
      <4> QED
        BY <3>3, <4>1, <4>2 DEF SigGrows
    <3> QED
      BY <3>2, <3>3 DEF SignerRight
  <2> QED
    BY <2>1, <2>2
<1> QED
  BY <1>1 DEF SignersRight

LEMMA SignersStay ==
  ASSUME SigSessionRight, SignersRight, SigSessionRight', SigGrows, SignatureRight',
         signer' = signer
  PROVE  SignersRight'
<1>1. SignerRight(Creator) /\ Creator \in Parties /\ signer \in [Parties -> SignerRec]
  BY Numbers DEF SignersRight
<1>2. SignerRight(Creator)'
  <2>1. CASE sigs = <<>>
    <3>1. signer'[Creator].round = 0 /\ signer'[Creator].at \notin {"store", "done"}
      BY <1>1, <2>1 DEF SignerRight
    <3>2. 0 # Ready /\ 0 \in RoundNumbers /\ \A r \in RoundNumbers : ~ (0 > r)
      BY Numbers
    <3> QED
      BY <3>1, <3>2 DEF SignerRight
  <2>2. CASE sigs # <<>>
    <3>1. Len(sigs') = 1 => Len(sigs) = 1 /\ (sigs[1].signature => sigs'[1].signature)
      BY <2>2 DEF SigGrows
    <3> QED
      BY <1>1, <2>2, <3>1, CompleteStays DEF SignerRight, SigGrows
  <2> QED
    BY <2>1, <2>2
<1> QED
  BY <1>1, <1>2, SignersMoved

(* A step that inserts no document and takes none of its signatures.       *)
LEMMA SignatureStays ==
  ASSUME SigSessionRight, SigSessionRight', SigGrows, SignatureRight, sigs # <<>>,
         Len(sigs') = 1 => sigs'[1].signature = sigs[1].signature
  PROVE  SignatureRight'
  BY CompleteStays DEF SignatureRight, SigGrows

LEMMA SigPostKept ==
  ASSUME SigGrows, SigSessionRight, SigSessionRight', NEW post \in PostRec, SigPostRight(post),
         post.awaited => signer'[post.party].at = signer[post.party].at
                         /\ signer'[post.party].round = signer[post.party].round
  PROVE  SigPostRight(post)'
<1>1. ASSUME post.at \in {"participant", "push"}
      PROVE  /\ sigs' # <<>> /\ post.version <= sigs'[1].version
             /\ post.version = sigs'[1].version => post.view = sigs'[1].rounds
  <2>1. /\ sigs # <<>> /\ post.version <= sigs[1].version
        /\ post.version = sigs[1].version => post.view = sigs[1].rounds
    BY <1>1 DEF SigPostRight
  <2>2. /\ sigs' # <<>> /\ sigs[1].version <= sigs'[1].version
        /\ sigs'[1].version = sigs[1].version => sigs'[1].rounds = sigs[1].rounds
    BY <2>1 DEF SigGrows
  <2>3. sigs[1].version \in Nat /\ post.version \in Nat
    BY <2>1, FirstDocument DEF PostRec
  <2>4. sigs'[1].version \in Nat
    <3>1. sigs' \in Seq(SigRec)
      BY DEF SigSessionRight
    <3>2. sigs'[1] \in SigRec
      BY <2>2, <3>1, EmptySeq, LenProperties
    <3> QED
      BY <3>2 DEF SigRec
  <2> QED
    BY <2>1, <2>2, <2>3, <2>4
<1>2. post.round > 0 => post.party \in SigSenders(0)'
  BY Numbers DEF SigPostRight, SigGrows
<1> QED
  BY <1>1, <1>2 DEF SigPostRight
-----------------------------------------------------------------------------
(* The requests after a step: one more or moved on, or one fewer.          *)
LEMMA SigPostsMoved ==
  ASSUME NEW kept, NEW new, sposts' = kept \cup {new}, kept \subseteq sposts,
         SigPostsRight, SigSessionRight, SigSessionRight', SigGrows,
         new \in PostRec, SigPostRight(new)',
         \A post \in kept :
           /\ post.awaited => signer'[post.party].at = signer[post.party].at
                              /\ signer'[post.party].round = signer[post.party].round
           /\ post.awaited /\ new.awaited => post.party # new.party
  PROVE  SigPostsRight'
<1>1. ASSUME NEW post \in sposts' PROVE post \in PostRec /\ SigPostRight(post)'
  <2>1. CASE post = new
    BY <2>1
  <2>2. CASE post \in kept
    <3>1. post \in PostRec /\ SigPostRight(post)
      BY <2>2 DEF SigPostsRight
    <3> QED
      BY <2>2, <3>1, SigPostKept
  <2> QED
    BY <2>1, <2>2
<1>2. ASSUME NEW post \in sposts', NEW other \in sposts',
             post.party = other.party, post.awaited, other.awaited
      PROVE  post = other
  BY <1>2 DEF SigPostsRight
<1>3. IsFiniteSet(sposts')
  <2>1. IsFiniteSet(kept)
    BY FS_Subset DEF SigPostsRight
  <2> QED
    BY <2>1, FS_AddElement
<1> QED
  BY <1>1, <1>2, <1>3 DEF SigPostsRight

LEMMA SigPostsLeft ==
  ASSUME SigPostsRight, SigSessionRight, SigSessionRight', SigGrows, sposts' \subseteq sposts,
         \A post \in sposts' :
           post.awaited => signer'[post.party].at = signer[post.party].at
                           /\ signer'[post.party].round = signer[post.party].round
  PROVE  SigPostsRight'
<1>1. ASSUME NEW post \in sposts' PROVE post \in PostRec /\ SigPostRight(post)'
  <2>1. post \in PostRec /\ SigPostRight(post)
    BY DEF SigPostsRight
  <2> QED
    BY <2>1, SigPostKept
<1>2. IsFiniteSet(sposts')
  BY FS_Subset DEF SigPostsRight
<1> QED
  BY <1>1, <1>2 DEF SigPostsRight

LEMMA UnawaitedFinite ==
  ASSUME SigPostsRight
  PROVE  IsFiniteSet(Unawaited) /\ Cardinality(Unawaited) \in Nat
<1>1. Unawaited \subseteq sposts
  BY DEF Unawaited
<1> QED
  BY <1>1, FS_Subset, FS_CardinalityType DEF SigPostsRight

LEMMA FewerUnawaited ==
  ASSUME SigPostsRight, Unawaited' \subseteq Unawaited
  PROVE  Cardinality(Unawaited') \in Nat /\ Cardinality(Unawaited') <= Cardinality(Unawaited)
<1>1. IsFiniteSet(Unawaited)
  BY UnawaitedFinite
<1> QED
  BY <1>1, FS_Subset, FS_CardinalityType

LEMMA UnawaitedMoved ==
  ASSUME NEW post, NEW new, sposts' = (sposts \ {post}) \cup {new}, SigPostsRight,
         post \in sposts, new.awaited = post.awaited
  PROVE  Cardinality(Unawaited') \in Nat /\ Cardinality(Unawaited') <= Cardinality(Unawaited)
<1>1. CASE post.awaited
  <2>1. Unawaited' \subseteq Unawaited
    BY <1>1 DEF Unawaited
  <2> QED
    BY <2>1, FewerUnawaited
<1>2. CASE ~ post.awaited
  <2>1. Unawaited' = (Unawaited \ {post}) \cup {new} /\ post \in Unawaited
    BY <1>2 DEF Unawaited
  <2>2. IsFiniteSet(Unawaited) /\ Cardinality(Unawaited) \in Nat
    BY UnawaitedFinite
  <2>3. /\ IsFiniteSet(Unawaited \ {post})
        /\ Cardinality(Unawaited \ {post}) = Cardinality(Unawaited) - 1
    BY <2>1, <2>2, FS_RemoveElement
  <2>4. /\ IsFiniteSet(Unawaited')
        /\ \/ Cardinality(Unawaited') = Cardinality(Unawaited \ {post})
           \/ Cardinality(Unawaited') = Cardinality(Unawaited \ {post}) + 1
    BY <2>1, <2>3, FS_AddElement
  <2>5. Cardinality(Unawaited') \in Nat
    BY <2>4, FS_CardinalityType
  <2> QED
    BY <2>2, <2>3, <2>4, <2>5
<1> QED
  BY <1>1, <1>2

LEMMA UnawaitedTaken ==
  ASSUME NEW post, sposts' = sposts \ {post}, SigPostsRight, post \in sposts
  PROVE  /\ Cardinality(Unawaited') \in Nat /\ Cardinality(Unawaited') <= Cardinality(Unawaited)
         /\ ~ post.awaited => Cardinality(Unawaited') = Cardinality(Unawaited) - 1
<1>1. Unawaited' \subseteq Unawaited
  BY DEF Unawaited
<1>2. ASSUME ~ post.awaited PROVE Cardinality(Unawaited') = Cardinality(Unawaited) - 1
  <2>1. Unawaited' = Unawaited \ {post} /\ post \in Unawaited
    BY <1>2 DEF Unawaited
  <2>2. IsFiniteSet(Unawaited)
    BY UnawaitedFinite
  <2> QED
    BY <2>1, <2>2, FS_RemoveElement
<1> QED
  BY <1>1, <1>2, FewerUnawaited

LEMMA BeginnersLeft ==
  ASSUME \A p \in Parties : signer'[p].round = 0 => signer[p].round = 0
  PROVE  /\ Cardinality(Beginners') \in Nat /\ Cardinality(Beginners) \in Nat
         /\ Cardinality(Beginners') <= Cardinality(Beginners)
<1>1. Beginners \subseteq Parties /\ Beginners' \subseteq Beginners
  BY DEF Beginners
<1>2. IsFiniteSet(Beginners)
  BY <1>1, PartiesCounted, FS_Subset
<1> QED
  BY <1>1, <1>2, FS_Subset, FS_CardinalityType

LEMMA NoDocumentMore ==
  ASSUME SigSessionRight, SigSessionRight', FaultsRight, FaultsRight', SigPostsRight, DocumentsCounted,
         Len(sigs') = Len(sigs), timeouts <= timeouts',
         Cardinality(Unawaited') \in Nat, Cardinality(Unawaited') <= Cardinality(Unawaited),
         \A p \in Parties : signer'[p].round = 0 => signer[p].round = 0
  PROVE  DocumentsCounted'
<1>1. /\ Cardinality(Beginners') \in Nat /\ Cardinality(Beginners) \in Nat
      /\ Cardinality(Beginners') <= Cardinality(Beginners)
  BY BeginnersLeft
<1>2. Cardinality(Unawaited) \in Nat
  BY UnawaitedFinite
<1>3. Len(sigs) \in Nat /\ timeouts \in Nat /\ timeouts' \in Nat /\ N \in Nat
  BY LenProperties, Numbers DEF SigSessionRight, FaultsRight
<1>4. Len(sigs) + Cardinality(Unawaited) + Cardinality(Beginners) <= N + timeouts
  BY DEF DocumentsCounted
<1>5. Len(sigs') + Cardinality(Unawaited') + Cardinality(Beginners') <= N + timeouts'
  BY <1>1, <1>2, <1>3, <1>4
<1> QED
  BY <1>5 DEF DocumentsCounted
-----------------------------------------------------------------------------
(* A signer moves on, with and without its round.                          *)
LEMMA SignerRound ==
  ASSUME NEW p, NEW step, NEW r,
         signer' = [signer EXCEPT ![p] = [[signer[p] EXCEPT !.at = step] EXCEPT !.round = r]],
         signer \in [Parties -> SignerRec], p \in Parties, step \in SignerSteps, r \in 0..Ready
  PROVE  /\ signer' \in [Parties -> SignerRec]
         /\ \A q \in Parties \ {p} : signer'[q] = signer[q]
         /\ signer'[p].at = step /\ signer'[p].round = r
<1>1. PICK moved : moved = [[signer[p] EXCEPT !.at = step] EXCEPT !.round = r]
  OBVIOUS
<1>2. moved \in SignerRec /\ moved.at = step /\ moved.round = r
  <2>1. signer[p] \in SignerRec
    OBVIOUS
  <2> QED
    BY <1>1, <2>1 DEF SignerRec
<1>3. signer' = [signer EXCEPT ![p] = moved]
  BY <1>1
<1> QED
  BY <1>2, <1>3

LEMMA SignerStep ==
  ASSUME NEW p, NEW step, signer' = SignerAt(p, step),
         signer \in [Parties -> SignerRec], p \in Parties, step \in SignerSteps
  PROVE  /\ signer' \in [Parties -> SignerRec]
         /\ \A q \in Parties \ {p} : signer'[q] = signer[q]
         /\ signer'[p].at = step /\ signer'[p].round = signer[p].round
<1>1. signer' = [signer EXCEPT ![p] = [signer[p] EXCEPT !.at = step]]
  BY DEF SignerAt
<1>2. PICK moved : moved = [signer[p] EXCEPT !.at = step]
  OBVIOUS
<1>3. moved \in SignerRec /\ moved.at = step /\ moved.round = signer[p].round
  <2>1. signer[p] \in SignerRec
    OBVIOUS
  <2> QED
    BY <1>2, <2>1 DEF SignerRec
<1>4. signer' = [signer EXCEPT ![p] = moved]
  BY <1>1, <1>2
<1> QED
  BY <1>3, <1>4

LEMMA SigPostFacts ==
  ASSUME SigPostsRight, SignersRight, NEW post \in sposts
  PROVE  /\ post \in PostRec /\ SigPostRight(post) /\ post.party \in Parties
         /\ post.round \in RoundNumbers /\ post.round \in Nat /\ post.round + 1 \in 1..Ready
         /\ post.version \in Nat /\ post.awaited \in BOOLEAN /\ post.view \in Seq(Seq(Parties))
         /\ SignerRight(post.party)
<1>1. post \in PostRec /\ SigPostRight(post)
  BY DEF SigPostsRight
<1>2. post.party \in Parties /\ post.round \in RoundNumbers /\ post.version \in Nat
      /\ post.awaited \in BOOLEAN /\ post.view \in Seq(Seq(Parties))
  BY <1>1 DEF PostRec
<1>3. post.round \in Nat /\ post.round + 1 \in 1..Ready
  BY <1>2, Numbers DEF RoundNumbers
<1> QED
  BY <1>1, <1>2, <1>3 DEF SignersRight
-----------------------------------------------------------------------------
(* An answer, whatever became of the message: its client has moved on if   *)
(* it is stored, and is back where it was if not.                          *)
LEMMA SigAnswerKeeps ==
  ASSUME SigSessionRight, SignersRight, SigPostsRight, SigSessionRight', SigGrows, SignatureRight',
         NEW post \in sposts, NEW accepted \in BOOLEAN, SigAnswer(post, accepted),
         accepted => /\ sigs' # <<>>
                     /\ Len(sigs') = 1 => post.party \in SigSenders(post.round)'
  PROVE  /\ SignersRight' /\ SigPostsRight' /\ sposts' = sposts \ {post}
         /\ \A q \in Parties : signer'[q].round = 0 => signer[q].round = 0
         /\ accepted /\ post.awaited =>
              signer[post.party].round = post.round /\ signer'[post.party].round # 0
<1>1. PICK p : p = post.party
  OBVIOUS
<1>2. /\ p \in Parties /\ post.round \in RoundNumbers /\ post.round \in Nat
      /\ post.round + 1 \in 1..Ready /\ SignerRight(p) /\ SigPostRight(post)
      /\ signer \in [Parties -> SignerRec]
  BY <1>1, SigPostFacts DEF SignersRight
<1>3. sposts' = sposts \ {post}
  BY DEF SigAnswer
<1>4. CASE ~ post.awaited
  <2>1. signer' = signer
    BY <1>4 DEF SigAnswer
  <2>3. SignersRight'
    BY <2>1, SignersStay
  <2>4. SigPostsRight'
    BY <1>3, <2>1, SigPostsLeft
  <2> QED
    BY <1>3, <1>4, <2>1, <2>3, <2>4
<1>5. CASE post.awaited
  <2>1. signer[p].at = "post" /\ signer[p].round = post.round
    BY <1>1, <1>2, <1>5 DEF SigPostRight
  <2>2. /\ signer' \in [Parties -> SignerRec]
        /\ \A q \in Parties \ {p} : signer'[q] = signer[q]
        /\ signer'[p].round = 0 => signer[p].round = 0
        /\ accepted => signer'[p].round # 0
        /\ SignerRight(p)'
    <3>1. CASE accepted
      <4>1. signer' = [signer EXCEPT ![p] =
                         [[signer[p] EXCEPT !.at = "wait"] EXCEPT !.round = post.round + 1]]
        BY <1>1, <1>5, <3>1 DEF SigAnswer
      <4>2. "wait" \in SignerSteps /\ post.round + 1 \in 0..Ready
        BY <1>2 DEF SignerSteps
      <4>3. /\ signer' \in [Parties -> SignerRec]
            /\ \A q \in Parties \ {p} : signer'[q] = signer[q]
            /\ signer'[p].at = "wait" /\ signer'[p].round = post.round + 1
        BY <1>2, <4>1, <4>2, SignerRound
      <4>4. ASSUME Len(sigs') = 1, NEW r \in RoundNumbers, post.round + 1 > r
            PROVE  p \in SigSenders(r)'
        <5>1. CASE r = post.round
          BY <1>1, <3>1, <4>4, <5>1
        <5>2. CASE r < post.round
          <6>1. sigs # <<>>
            BY <1>2, <2>1, <5>2, Numbers DEF SignerRight
          <6>2. Len(sigs) = 1
            BY <4>4, <6>1 DEF SigGrows
          <6> QED
            BY <1>2, <2>1, <5>2, <6>2 DEF SignerRight, SigGrows
        <5> QED
          BY <1>2, <4>4, <5>1, <5>2, Numbers
      <4>5. post.round + 1 # Ready /\ post.round + 1 # 0
        BY <1>2, Numbers DEF RoundNumbers
      <4>6. SignerRight(p)'
        BY <3>1, <4>3, <4>4, <4>5 DEF SignerRight
      <4> QED
        BY <4>3, <4>5, <4>6
    <3>2. CASE ~ accepted
      <4>1. signer' = SignerAt(p, SignerIdle(p))
        BY <1>1, <1>5, <3>2 DEF SigAnswer
      <4>2. SignerIdle(p) \in {"out", "wait"} /\ (SignerIdle(p) = "out" => post.round = 0)
        BY <2>1 DEF SignerIdle
      <4>3. /\ signer' \in [Parties -> SignerRec]
            /\ \A q \in Parties \ {p} : signer'[q] = signer[q]
            /\ signer'[p].at = SignerIdle(p) /\ signer'[p].round = post.round
        <5>1. SignerIdle(p) \in SignerSteps
          BY <4>2 DEF SignerSteps
        <5> QED
          BY <1>2, <2>1, <4>1, <5>1, SignerStep
      <4>4. ASSUME Len(sigs') = 1, NEW r \in RoundNumbers, post.round > r
            PROVE  p \in SigSenders(r)'
        <5>1. sigs # <<>>
          BY <1>2, <2>1, <4>4, Numbers DEF SignerRight
        <5>2. Len(sigs) = 1
          BY <4>4, <5>1 DEF SigGrows
        <5> QED
          BY <1>2, <2>1, <4>4, <5>2 DEF SignerRight, SigGrows
      <4>5. post.round # Ready
        BY <1>2, Numbers DEF RoundNumbers
      <4>6. sigs' = <<>> => post.round = 0
        BY <1>2, <2>1 DEF SignerRight, SigGrows
      <4>7. SignerRight(p)'
        BY <4>2, <4>3, <4>4, <4>5, <4>6 DEF SignerRight
      <4> QED
        BY <2>1, <3>2, <4>3, <4>7
    <3> QED
      BY <3>1, <3>2
  <2>3. SignersRight'
    BY <1>2, <2>2, SignersMoved
  <2>4. ASSUME NEW other \in sposts', other.awaited
        PROVE  signer'[other.party] = signer[other.party]
    <3>1. other \in sposts /\ other # post
      BY <1>3
    <3>2. other.party # p /\ other.party \in Parties
      BY <1>1, <1>5, <2>4, <3>1, SigPostFacts DEF SigPostsRight
    <3> QED
      BY <2>2, <3>2
  <2>5. SigPostsRight'
    BY <1>3, <2>4, SigPostsLeft
  <2> QED
    BY <1>1, <1>3, <2>1, <2>2, <2>3, <2>5
<1> QED
  BY <1>2, <1>4, <1>5, SigPostFacts
-----------------------------------------------------------------------------
(* A signer goes on in its round.                                          *)
LEMMA SignerGoes ==
  ASSUME NEW p, NEW step, signer' = SignerAt(p, step), p \in Parties, step \in SignerSteps,
         SigSessionRight, SignersRight, SigSessionRight', SigGrows, SignatureRight',
         step = "out" => signer[p].round = 0,
         step = "post" => signer[p].round \in RoundNumbers,
         step = "store" => signer[p].round = Ready,
         step \in {"store", "done"} => sigs # <<>>,
         step = "done" /\ Len(sigs') = 1 => sigs'[1].signature
  PROVE  /\ SignersRight'
         /\ \A q \in Parties \ {p} : signer'[q] = signer[q]
         /\ \A q \in Parties : signer'[q].round = signer[q].round
<1>1. /\ signer' \in [Parties -> SignerRec]
      /\ \A q \in Parties \ {p} : signer'[q] = signer[q]
      /\ signer'[p].at = step /\ signer'[p].round = signer[p].round
  BY SignerStep DEF SignersRight
<1>2. SignerRight(p)
  BY DEF SignersRight
<1>3. ASSUME Len(sigs') = 1
      PROVE  /\ \A r \in RoundNumbers : signer[p].round > r => p \in SigSenders(r)'
             /\ signer[p].round = Ready => SigComplete'
  <2>1. CASE sigs = <<>>
    <3>1. signer[p].round = 0 /\ 0 # Ready /\ \A r \in RoundNumbers : ~ (0 > r)
      BY <1>2, <2>1, Numbers DEF SignerRight
    <3> QED
      BY <3>1
  <2>2. CASE sigs # <<>>
    <3>1. Len(sigs) = 1
      BY <1>3, <2>2 DEF SigGrows
    <3> QED
      BY <1>2, <3>1, CompleteStays DEF SignerRight, SigGrows
  <2> QED
    BY <2>1, <2>2
<1>4. sigs' = <<>> => signer[p].round = 0
  BY <1>2 DEF SignerRight, SigGrows
<1>5. SignerRight(p)'
  BY <1>1, <1>3, <1>4 DEF SignerRight, SigGrows
<1> QED
  BY <1>1, <1>5, SignersMoved

LEMMA SigPostingKeeps ==
  ASSUME SignInv, FaultsRight, NEW p, SigPosting(p, signer), p \in Parties,
         UNCHANGED <<sigs, faultVars>>,
         signer[p].at # "post", signer[p].round \in RoundNumbers,
         signer[p].round > 0 => p \in SigSenders(0)
  PROVE  SignInv'
<1>1. SigSessionRight /\ SignersRight /\ SigPostsRight /\ DocumentsCounted
  BY DEF SignInv
<1>2. SigSessionRight' /\ SigGrows /\ SignatureRight' /\ FaultsRight'
  BY <1>1, SigUnmoved DEF SignersRight, SignatureRight, SigComplete, SigSenders, FaultsRight, faultVars
<1>3. signer' = SignerAt(p, "post") /\ "post" \in SignerSteps
  BY DEF SigPosting, SignerAt, SignerSteps
<1>4. /\ SignersRight'
      /\ \A q \in Parties \ {p} : signer'[q] = signer[q]
      /\ \A q \in Parties : signer'[q].round = signer[q].round
  BY <1>1, <1>2, <1>3, SignerGoes
<1>5. PICK new : new = [party |-> p, round |-> signer[p].round, at |-> "fetch", version |-> 0,
                        view |-> <<>>, awaited |-> TRUE, tag |-> timeouts]
  OBVIOUS
<1>6. sposts' = sposts \cup {new}
  BY <1>5 DEF SigPosting
<1>7. /\ new.party = p /\ new.round = signer[p].round /\ new.at = "fetch" /\ new.awaited = TRUE
      /\ new \in PostRec
  <2>1. <<>> \in Seq(Seq(Parties)) /\ timeouts \in Nat /\ 0 \in Nat
    BY DEF FaultsRight
  <2> QED
    BY <1>5, <2>1 DEF PostRec, PostSteps
<1>8. signer'[p].at = "post"
  BY <1>1, <1>3, SignerStep DEF SignersRight
<1>9. SigPostRight(new)'
  <2>1. new.round > 0 => new.party \in SigSenders(0)'
    BY <1>7 DEF SigSenders
  <2>2. new.awaited => signer'[new.party].at = "post" /\ signer'[new.party].round = new.round
    BY <1>4, <1>7, <1>8
  <2> QED
    BY <1>7, <2>1, <2>2 DEF SigPostRight
<1>10. ASSUME NEW post \in sposts, post.awaited
       PROVE  signer'[post.party] = signer[post.party] /\ post.party # p
  BY <1>1, <1>4, <1>10, SigPostFacts DEF SigPostRight
<1>11. SigPostsRight'
  BY <1>1, <1>2, <1>6, <1>7, <1>9, <1>10, SigPostsMoved
<1>12. DocumentsCounted'
  <2>1. Unawaited' \subseteq Unawaited
    BY <1>6, <1>7 DEF Unawaited
  <2>2. Cardinality(Unawaited') \in Nat /\ Cardinality(Unawaited') <= Cardinality(Unawaited)
    BY <1>1, <2>1, FewerUnawaited
  <2>3. timeouts <= timeouts' /\ Len(sigs') = Len(sigs)
    BY DEF FaultsRight, faultVars
  <2> QED
    BY <1>1, <1>2, <1>4, <2>2, <2>3, NoDocumentMore
<1> QED
  BY <1>2, <1>4, <1>11, <1>12 DEF SignInv

LEMMA SignStartKeeps ==
  ASSUME SignInv, FaultsRight, NEW p \in Parties, SignStart(p) PROVE SignInv'
<1>1. signer[p].at = "out" /\ signer[p].round = 0
  BY DEF SignStart, SignInv, SignersRight, SignerRight
<1>2. SigPosting(p, signer) /\ UNCHANGED <<sigs, faultVars>>
  BY DEF SignStart
<1>3. 0 \in RoundNumbers /\ ~ (0 > 0)
  BY Numbers
<1> QED
  BY <1>1, <1>2, <1>3, SigPostingKeeps

(* A document that is signed has all messages of its signers.              *)
LEMMA AllRounds ==
  ASSUME SigSessionRight, sigs # <<>>, SigComplete
  PROVE  \A r \in RoundNumbers : SigSenders(r) = SigSenders(0)
<1>1. /\ RoundsRight(sigs[1].rounds, Parties, M) /\ Ready - 2 \in Nat
      /\ RoundNumbers = 0..Ready - 2
  BY Signers, Numbers DEF SigSessionRight, RoundNumbers
<1>2. /\ \A r \in RoundNumbers : SigSenders(r) = Senders(sigs[1].rounds, r)
      /\ SigSenders(0) = Senders(sigs[1].rounds, 0)
  BY FirstDocument
<1>3. Cardinality(Senders(sigs[1].rounds, Ready - 2)) = M
  BY <1>2, Signers DEF SigComplete
<1>4. \A r \in 0..Ready - 2 : Senders(sigs[1].rounds, r) \subseteq Senders(sigs[1].rounds, 0)
  BY <1>1, <1>2 DEF SigSessionRight
<1> QED
  BY <1>1, <1>2, <1>3, <1>4, LastComplete

(* A party that has all messages of the others and has sent its own.       *)
LEMMA OthersComplete ==
  ASSUME SigSessionRight, sigs # <<>>, NEW p, p \in SigSenders(Ready - 2),
         FromOthers(sigs[1].rounds, Ready - 2, p) = M - 1
  PROVE  SigComplete
<1>1. /\ RoundsRight(sigs[1].rounds, Parties, M) /\ Ready - 2 \in Nat
      /\ SigSenders(Ready - 2) = Senders(sigs[1].rounds, Ready - 2)
  BY Signers, Numbers, FirstDocument DEF SigSessionRight
<1>2. Ready - 2 < Len(sigs[1].rounds)
  BY <1>1, NoRound
<1>3. FromOthers(sigs[1].rounds, Ready - 2, p) = Cardinality(SigSenders(Ready - 2)) - 1
  BY <1>1, <1>2, OthersCounted
<1>4. Cardinality(SigSenders(Ready - 2)) \in Nat
  BY <1>1, RoundSize, Signers
<1> QED
  BY <1>3, <1>4, Signers DEF SigComplete
-----------------------------------------------------------------------------
(* A step of a signer that leaves the requests alone.                      *)
LEMMA SignerAlone ==
  ASSUME SignInv, FaultsRight', NEW p \in Parties, SigSessionRight', SigGrows, SignersRight',
         timeouts <= timeouts', FaultsRight, Len(sigs') = Len(sigs), sposts' = sposts,
         signer[p].at # "post",
         \A q \in Parties \ {p} : signer'[q] = signer[q],
         signer'[p].round = 0 => signer[p].round = 0
  PROVE  SignInv'
<1>1. SigSessionRight /\ SignersRight /\ SigPostsRight /\ DocumentsCounted
  BY DEF SignInv
<1>2. ASSUME NEW post \in sposts, post.awaited PROVE signer'[post.party] = signer[post.party]
  BY <1>1, <1>2, SigPostFacts DEF SigPostRight
<1>3. SigPostsRight'
  BY <1>1, <1>2, SigPostsLeft
<1>4. DocumentsCounted'
  <2>1. Unawaited' \subseteq Unawaited
    BY DEF Unawaited
  <2>2. Cardinality(Unawaited') \in Nat /\ Cardinality(Unawaited') <= Cardinality(Unawaited)
    BY <1>1, <2>1, FewerUnawaited
  <2> QED
    BY <1>1, <2>2, NoDocumentMore
<1> QED
  BY <1>3, <1>4 DEF SignInv

LEMMA SignPollKeeps ==
  ASSUME SignInv, FaultsRight, NEW p \in Parties, SignPoll(p) PROVE SignInv'
<1>1. SigSessionRight /\ SignersRight /\ SigPostsRight /\ DocumentsCounted /\ SignerRight(p)
      /\ signer \in [Parties -> SignerRec] /\ signer[p].round \in 0..Ready
  BY DEF SignInv, SignersRight, SignerRec
<1>2. /\ signer[p].at = "wait" /\ sigs # <<>> /\ p \in Senders(sigs[1].rounds, 0)
      /\ sigs' = sigs /\ UNCHANGED faultVars
  BY DEF SignPoll, SignerAuthenticates
<1>3. /\ SigSessionRight' /\ SigGrows /\ SignatureRight' /\ FaultsRight'
      /\ timeouts <= timeouts' /\ Len(sigs') = Len(sigs)
  BY <1>1, <1>2, SigUnmoved
     DEF SignersRight, SignatureRight, SigComplete, SigSenders, FaultsRight, faultVars
<1>4. p \in SigSenders(0) /\ Ready \in Nat
  BY <1>1, <1>2, FirstDocument, Numbers
<1>5. CASE /\ signer[p].round < Ready /\ sigs[1].signature /\ sposts' = sposts
           /\ signer' = [signer EXCEPT ![p].at = "done", ![p].round = @ + 1]
  <2>1. PICK next : next = signer[p].round + 1
    OBVIOUS
  <2>2. "done" \in SignerSteps /\ next \in 0..Ready /\ next # 0
    BY <1>1, <1>4, <1>5, <2>1 DEF SignerSteps
  <2>3. /\ signer' \in [Parties -> SignerRec]
        /\ \A q \in Parties \ {p} : signer'[q] = signer[q]
        /\ signer'[p].at = "done" /\ signer'[p].round = next
    <3>1. signer' = [signer EXCEPT ![p] =
                       [[signer[p] EXCEPT !.at = "done"] EXCEPT !.round = next]]
      BY <1>5, <2>1
    <3> QED
      BY <1>1, <2>2, <3>1, SignerRound
  <2>4. ASSUME Len(sigs) = 1 PROVE SigComplete /\ \A r \in RoundNumbers : p \in SigSenders(r)
    <3>1. SigComplete
      BY <1>1, <1>5, <2>4 DEF SignersRight, SignatureRight
    <3> QED
      BY <1>1, <1>2, <1>4, <3>1, AllRounds
  <2>5. SignerRight(p)'
    BY <1>2, <1>5, <2>2, <2>3, <2>4 DEF SignerRight, SigComplete, SigSenders
  <2>6. SignersRight'
    BY <1>1, <1>3, <2>3, <2>5, SignersMoved
  <2> QED
    BY <1>2, <1>3, <1>5, <2>2, <2>3, <2>6, SignerAlone
<1>6. CASE signer[p].round < Ready - 1 /\ SigPosting(p, signer)
  <2>1. signer[p].round \in RoundNumbers
    BY <1>1, <1>4, <1>6 DEF RoundNumbers
  <2> QED
    BY <1>2, <1>4, <1>6, <2>1, SigPostingKeeps
<1>7. CASE /\ signer[p].round = Ready - 1 /\ OthersSigned(p) /\ sposts' = sposts
           /\ signer' = [signer EXCEPT ![p].at = "store", ![p].round = Ready]
  <2>1. signer' = [signer EXCEPT ![p] =
                     [[signer[p] EXCEPT !.at = "store"] EXCEPT !.round = Ready]]
    BY <1>7
  <2>2. "store" \in SignerSteps /\ Ready \in 0..Ready /\ Ready # 0
    BY Numbers DEF SignerSteps
  <2>3. /\ signer' \in [Parties -> SignerRec]
        /\ \A q \in Parties \ {p} : signer'[q] = signer[q]
        /\ signer'[p].at = "store" /\ signer'[p].round = Ready
    BY <1>1, <2>1, <2>2, SignerRound
  <2>4. ASSUME Len(sigs) = 1 PROVE SigComplete /\ \A r \in RoundNumbers : p \in SigSenders(r)
    <3>1. Ready - 1 > Ready - 2 /\ (Ready - 1) - 1 = Ready - 2
      BY <1>4
    <3>2. p \in SigSenders(Ready - 2)
      BY <1>1, <1>7, <2>4, <3>1, Signers DEF SignerRight
    <3>3. FromOthers(sigs[1].rounds, Ready - 2, p) = M - 1
      BY <1>7, <3>1 DEF OthersSigned
    <3>4. SigComplete
      BY <1>1, <1>2, <3>2, <3>3, OthersComplete
    <3> QED
      BY <1>1, <1>2, <1>4, <3>4, AllRounds
  <2>5. SignerRight(p)'
    BY <1>2, <2>2, <2>3, <2>4 DEF SignerRight, SigComplete, SigSenders
  <2>6. SignersRight'
    BY <1>1, <1>3, <2>3, <2>5, SignersMoved
  <2> QED
    BY <1>2, <1>3, <1>7, <2>2, <2>3, <2>6, SignerAlone
<1>8. CASE signer[p].round = Ready /\ signer' = SignerAt(p, "store") /\ sposts' = sposts
  <2>1. "store" \in SignerSteps
    BY DEF SignerSteps
  <2>2. /\ SignersRight'
        /\ \A q \in Parties \ {p} : signer'[q] = signer[q]
        /\ \A q \in Parties : signer'[q].round = signer[q].round
    BY <1>1, <1>2, <1>3, <1>8, <2>1, SignerGoes
  <2> QED
    BY <1>2, <1>3, <1>8, <2>2, SignerAlone
<1> QED
  BY <1>5, <1>6, <1>7, <1>8 DEF SignPoll

(* The signature of the first document is set, or left as it was.          *)
LEMMA SignatureSet ==
  ASSUME SignInv, NEW stored \in BOOLEAN, sigs # <<>>, sigs' = [sigs EXCEPT ![1].signature = stored],
         sigs[1].signature => stored, stored => Len(sigs) # 1 \/ SigComplete
  PROVE  /\ SigSessionRight' /\ SigGrows /\ SignatureRight' /\ Len(sigs') = Len(sigs)
         /\ sigs'[1].signature = stored
<1>1. SigSessionRight
  BY DEF SignInv
<1>2. /\ sigs[1] \in SigRec /\ 1 \in 1..Len(sigs) /\ Len(sigs) \in Nat \ {0}
      /\ sigs[1].version \in Nat /\ sigs \in Seq(SigRec)
  BY <1>1, FirstDocument DEF SigSessionRight
<1>3. PICK doc : doc = [sigs[1] EXCEPT !.signature = stored]
  OBVIOUS
<1>4. /\ doc \in SigRec /\ doc.signature = stored /\ doc.rounds = sigs[1].rounds
      /\ doc.version = sigs[1].version
  BY <1>2, <1>3 DEF SigRec
<1>5. sigs' = [sigs EXCEPT ![1] = doc]
  BY <1>3
<1>6. sigs' \in Seq(SigRec) /\ Len(sigs') = Len(sigs) /\ sigs'[1] = doc
  BY <1>2, <1>4, <1>5, ExceptSeq
<1>7. sigs' # <<>>
  BY <1>2, <1>6, EmptySeq
<1>8. \A r : SigSenders(r)' = SigSenders(r)
  BY <1>4, <1>6, <1>7 DEF SigSenders
<1>9. SigSessionRight'
  BY <1>1, <1>4, <1>6, <1>7, <1>8 DEF SigSessionRight
<1>10. SigGrows
  BY <1>2, <1>4, <1>6, <1>7, <1>8 DEF SigGrows
<1>11. SignatureRight'
  BY <1>4, <1>6, <1>8 DEF SignatureRight, SigComplete
<1> QED
  BY <1>4, <1>6, <1>9, <1>10, <1>11

LEMMA StoreSignatureKeeps ==
  ASSUME SignInv, FaultsRight, NEW p \in Parties, StoreSignature(p) PROVE SignInv'
<1>1. SigSessionRight /\ SignersRight /\ SigPostsRight /\ DocumentsCounted /\ SignerRight(p)
  BY DEF SignInv, SignersRight
<1>2. /\ signer[p].at = "store" /\ sigs # <<>> /\ signer' = SignerAt(p, "done")
      /\ sigs' = [sigs EXCEPT ![1].signature = TRUE] /\ UNCHANGED <<faultVars, sposts>>
  BY DEF StoreSignature, SignerAuthenticates
<1>3. Len(sigs) # 1 \/ SigComplete
  BY <1>1, <1>2 DEF SignerRight
<1>4. /\ SigSessionRight' /\ SigGrows /\ SignatureRight' /\ Len(sigs') = Len(sigs)
      /\ sigs'[1].signature = TRUE
  BY <1>2, <1>3, SignatureSet
<1>5. "done" \in SignerSteps
  BY DEF SignerSteps
<1>6. /\ SignersRight'
      /\ \A q \in Parties \ {p} : signer'[q] = signer[q]
      /\ \A q \in Parties : signer'[q].round = signer[q].round
  BY <1>1, <1>2, <1>4, <1>5, SignerGoes
<1>7. FaultsRight' /\ timeouts <= timeouts'
  BY <1>2 DEF FaultsRight, faultVars
<1> QED
  BY <1>2, <1>4, <1>6, <1>7, SignerAlone

LEMMA LoseSignatureKeeps ==
  ASSUME SignInv, FaultsRight, FaultsRight', NEW p \in Parties, LoseSignature(p) PROVE SignInv'
<1>1. SigSessionRight /\ SignersRight /\ SigPostsRight /\ DocumentsCounted /\ SignerRight(p)
  BY DEF SignInv, SignersRight
<1>2. /\ signer[p].at = "store" /\ signer' = SignerAt(p, "wait") /\ sposts' = sposts
      /\ timeouts' = timeouts
  BY DEF LoseSignature
<1>3. PICK stored \in {sigs[1].signature, TRUE} : sigs' = [sigs EXCEPT ![1].signature = stored]
  BY DEF LoseSignature
<1>4. sigs # <<>> /\ (Len(sigs) # 1 \/ SigComplete)
  BY <1>1, <1>2 DEF SignerRight
<1>5. stored \in BOOLEAN
  BY <1>1, <1>4, FirstDocument DEF SigRec
<1>6. SigSessionRight' /\ SigGrows /\ SignatureRight' /\ Len(sigs') = Len(sigs)
  BY <1>3, <1>4, <1>5, SignatureSet
<1>7. "wait" \in SignerSteps
  BY DEF SignerSteps
<1>8. /\ SignersRight'
      /\ \A q \in Parties \ {p} : signer'[q] = signer[q]
      /\ \A q \in Parties : signer'[q].round = signer[q].round
  BY <1>1, <1>2, <1>6, <1>7, SignerGoes
<1>9. timeouts <= timeouts'
  BY <1>2 DEF FaultsRight
<1> QED
  BY <1>2, <1>6, <1>8, <1>9, SignerAlone
-----------------------------------------------------------------------------
(* BWS goes on with a request, whose client still waits, or not.           *)
LEMMA SigReplaced ==
  ASSUME NEW post, NEW new, sposts' = (sposts \ {post}) \cup {new},
         SignInv, FaultsRight, FaultsRight', timeouts <= timeouts',
         SigSessionRight', SigGrows, SignatureRight', Len(sigs') = Len(sigs), signer' = signer,
         post \in sposts, new \in PostRec, SigPostRight(new)',
         new.awaited = post.awaited, new.party = post.party
  PROVE  SignInv'
<1>1. SigSessionRight /\ SignersRight /\ SigPostsRight /\ DocumentsCounted
  BY DEF SignInv
<1>2. SignersRight'
  BY <1>1, SignersStay
<1>3. PICK kept : kept = sposts \ {post}
  OBVIOUS
<1>4. SigPostsRight'
  <2>1. ASSUME NEW other \in kept, other.awaited, new.awaited PROVE other.party # new.party
    BY <1>1, <1>3, <2>1 DEF SigPostsRight
  <2> QED
    BY <1>1, <1>3, <2>1, SigPostsMoved
<1>5. Cardinality(Unawaited') \in Nat /\ Cardinality(Unawaited') <= Cardinality(Unawaited)
  BY <1>1, UnawaitedMoved
<1>6. DocumentsCounted'
  BY <1>1, <1>5, NoDocumentMore
<1> QED
  BY <1>2, <1>4, <1>6 DEF SignInv

LEMMA SigAnswerCounts ==
  ASSUME SignInv, FaultsRight, FaultsRight', timeouts <= timeouts',
         SigSessionRight', SigGrows, SignatureRight', Len(sigs') = Len(sigs),
         NEW post \in sposts, NEW accepted \in BOOLEAN, SigAnswer(post, accepted),
         accepted => /\ sigs' # <<>>
                     /\ Len(sigs') = 1 => post.party \in SigSenders(post.round)'
  PROVE  SignInv'
<1>1. SigSessionRight /\ SignersRight /\ SigPostsRight /\ DocumentsCounted
  BY DEF SignInv
<1>2. /\ SignersRight' /\ SigPostsRight' /\ sposts' = sposts \ {post}
      /\ \A q \in Parties : signer'[q].round = 0 => signer[q].round = 0
  BY <1>1, SigAnswerKeeps
<1>3. Cardinality(Unawaited') \in Nat /\ Cardinality(Unawaited') <= Cardinality(Unawaited)
  BY <1>1, <1>2, UnawaitedTaken
<1>4. DocumentsCounted'
  BY <1>1, <1>2, <1>3, NoDocumentMore
<1> QED
  BY <1>2, <1>4 DEF SignInv

LEMMA SigLosePostKeeps ==
  ASSUME SignInv, FaultsRight, FaultsRight', NEW post \in sposts, SigLosePost(post) PROVE SignInv'
<1>1. SigAnswer(post, FALSE) /\ sigs' = sigs /\ timeouts' = timeouts
  BY DEF SigLosePost
<1>2. SigSessionRight' /\ SigGrows /\ SignatureRight'
  BY <1>1, SigUnmoved DEF SignInv, SignersRight, SignatureRight, SigComplete, SigSenders
<1>3. timeouts <= timeouts' /\ Len(sigs') = Len(sigs)
  BY <1>1 DEF FaultsRight
<1> QED
  BY <1>1, <1>2, <1>3, SigAnswerCounts

(* What is given up may still insert a document: it is counted as one.     *)
LEMMA SigGiveUpKeeps ==
  ASSUME SignInv, FaultsRight, FaultsRight', NEW post \in sposts, SigGiveUp(post) PROVE SignInv'
<1>1. SigSessionRight /\ SignersRight /\ SigPostsRight /\ DocumentsCounted
  BY DEF SignInv
<1>2. PICK p : p = post.party
  OBVIOUS
<1>3. /\ post.awaited /\ timeouts' = timeouts + 1 /\ sigs' = sigs
      /\ signer' = SignerAt(p, SignerIdle(p))
  BY <1>2 DEF SigGiveUp
<1>4. PICK new : new = [post EXCEPT !.awaited = FALSE]
  OBVIOUS
<1>5. PICK kept : kept = sposts \ {post}
  OBVIOUS
<1>6. sposts' = kept \cup {new}
  BY <1>4, <1>5 DEF SigGiveUp
<1>7. /\ p \in Parties /\ post \in PostRec /\ SigPostRight(post) /\ signer[p].at = "post"
      /\ signer[p].round = post.round
  BY <1>1, <1>2, <1>3, SigPostFacts DEF SigPostRight
<1>8. /\ new \in PostRec /\ new.awaited = FALSE /\ new.party = p /\ new.round = post.round
      /\ new.at = post.at /\ new.version = post.version /\ new.view = post.view
  BY <1>2, <1>4, <1>7 DEF PostRec
<1>9. SigSessionRight' /\ SigGrows /\ SignatureRight'
  BY <1>1, <1>3, SigUnmoved DEF SignersRight, SignatureRight, SigComplete, SigSenders
<1>10. SignerIdle(p) \in {"out", "wait"} /\ (SignerIdle(p) = "out" => signer[p].round = 0)
  BY DEF SignerIdle
<1>11. /\ SignersRight'
       /\ \A q \in Parties \ {p} : signer'[q] = signer[q]
       /\ \A q \in Parties : signer'[q].round = signer[q].round
  <2>1. SignerIdle(p) \in SignerSteps
    BY <1>10 DEF SignerSteps
  <2> QED
    BY <1>1, <1>3, <1>7, <1>9, <1>10, <2>1, SignerGoes
<1>12. SigPostRight(new)'
  BY <1>2, <1>3, <1>7, <1>8 DEF SigPostRight, SigSenders
<1>13. ASSUME NEW other \in kept, other.awaited PROVE signer'[other.party] = signer[other.party]
  <2>1. other.party # p /\ other.party \in Parties
    BY <1>1, <1>2, <1>3, <1>5, <1>13, SigPostFacts DEF SigPostsRight
  <2> QED
    BY <1>11, <2>1
<1>14. SigPostsRight'
  <2>1. kept \subseteq sposts
    BY <1>5
  <2> QED
    BY <1>1, <1>6, <1>8, <1>9, <1>12, <1>13, <2>1, SigPostsMoved
<1>15. DocumentsCounted'
  <2>1. Unawaited' \subseteq Unawaited \cup {new}
    BY <1>5, <1>6 DEF Unawaited
  <2>2. IsFiniteSet(Unawaited) /\ Cardinality(Unawaited) \in Nat
    BY <1>1, UnawaitedFinite
  <2>3. /\ IsFiniteSet(Unawaited \cup {new})
        /\ Cardinality(Unawaited \cup {new}) <= Cardinality(Unawaited) + 1
        /\ Cardinality(Unawaited \cup {new}) \in Nat
    BY <2>2, FS_AddElement, FS_CardinalityType
  <2>4. Cardinality(Unawaited') \in Nat /\ Cardinality(Unawaited') <= Cardinality(Unawaited) + 1
    <3>1. /\ IsFiniteSet(Unawaited')
          /\ Cardinality(Unawaited') <= Cardinality(Unawaited \cup {new})
      BY <2>1, <2>3, FS_Subset
    <3>2. Cardinality(Unawaited') \in Nat
      BY <3>1, FS_CardinalityType
    <3> QED
      BY <2>2, <2>3, <3>1, <3>2
  <2>5. Beginners' = Beginners
    BY <1>11 DEF Beginners
  <2>6. Cardinality(Beginners) \in Nat
    BY BeginnersLeft, <1>11
  <2>7. Len(sigs) \in Nat /\ timeouts \in Nat /\ N \in Nat
    BY <1>1, LenProperties, Numbers DEF SigSessionRight, FaultsRight
  <2>8. Len(sigs) + Cardinality(Unawaited) + Cardinality(Beginners) <= N + timeouts
    BY <1>1 DEF DocumentsCounted
  <2>9. Len(sigs) + Cardinality(Unawaited') + Cardinality(Beginners) <= N + (timeouts + 1)
    BY <2>2, <2>4, <2>6, <2>7, <2>8
  <2> QED
    BY <1>3, <2>5, <2>9 DEF DocumentsCounted
<1> QED
  BY <1>9, <1>11, <1>14, <1>15 DEF SignInv
-----------------------------------------------------------------------------
(* A request reads the first document.                                     *)
LEMMA SigMovedKeeps ==
  ASSUME SignInv, FaultsRight, NEW post \in sposts, NEW step, SigMoved(post, step),
         step \in {"participant", "push"}, sigs # <<>>, UNCHANGED <<sigs, signer, faultVars>>
  PROVE  SignInv'
<1>1. SigSessionRight /\ SignersRight /\ SigPostsRight
  BY DEF SignInv
<1>2. PICK new : new = [post EXCEPT !.at = step, !.view = sigs[1].rounds, !.version = sigs[1].version]
  OBVIOUS
<1>3. sposts' = (sposts \ {post}) \cup {new}
  BY <1>2 DEF SigMoved
<1>4. /\ post \in PostRec /\ SigPostRight(post)
      /\ sigs[1].version \in Nat /\ sigs[1].rounds \in Seq(Seq(Parties))
  BY <1>1, SigPostFacts, FirstDocument
<1>5. /\ new \in PostRec /\ new.at = step /\ new.view = sigs[1].rounds
      /\ new.version = sigs[1].version /\ new.awaited = post.awaited /\ new.party = post.party
      /\ new.round = post.round
  BY <1>2, <1>4 DEF PostRec, PostSteps
<1>6. SigSessionRight' /\ SigGrows /\ SignatureRight'
  BY <1>1, SigUnmoved DEF SignersRight, SignatureRight, SigComplete, SigSenders
<1>7. sigs[1].version <= sigs[1].version /\ step # "insert"
  BY <1>4
<1>8. SigPostRight(new)'
  BY <1>4, <1>5, <1>7 DEF SigPostRight, SigSenders
<1>9. FaultsRight' /\ timeouts <= timeouts' /\ Len(sigs') = Len(sigs)
  BY DEF FaultsRight, faultVars
<1> QED
  BY <1>3, <1>5, <1>6, <1>8, <1>9, SigReplaced

LEMMA SigFetchKeeps ==
  ASSUME SignInv, FaultsRight, NEW post \in sposts, SigFetch(post) PROVE SignInv'
<1>1. SigSessionRight /\ SignersRight /\ SigPostsRight
  BY DEF SignInv
<1>2. sigs' = sigs /\ UNCHANGED faultVars
  BY DEF SigFetch
<1>3. SigSessionRight' /\ SigGrows /\ SignatureRight' /\ Len(sigs') = Len(sigs)
  BY <1>1, <1>2, SigUnmoved DEF SignersRight, SignatureRight, SigComplete, SigSenders
<1>4. FaultsRight' /\ timeouts <= timeouts'
  BY <1>2 DEF FaultsRight, faultVars
<1>5. CASE /\ sigs = <<>> /\ post.round = 0 /\ signer' = signer
           /\ sposts' = (sposts \ {post}) \cup {[post EXCEPT !.at = "insert"]}
  <2>1. PICK new : new = [post EXCEPT !.at = "insert"]
    OBVIOUS
  <2>2. post \in PostRec /\ SigPostRight(post)
    BY <1>1, SigPostFacts
  <2>3. /\ new \in PostRec /\ new.at = "insert" /\ new.awaited = post.awaited
        /\ new.party = post.party /\ new.round = 0
    BY <1>5, <2>1, <2>2 DEF PostRec, PostSteps
  <2>4. SigPostRight(new)'
    BY <1>5, <2>2, <2>3 DEF SigPostRight
  <2> QED
    BY <1>3, <1>4, <1>5, <2>1, <2>3, <2>4, SigReplaced
<1>6. CASE sigs # <<>> /\ signer' = signer /\ (SigMoved(post, "push") \/ SigMoved(post, "participant"))
  BY <1>2, <1>6, SigMovedKeeps
<1>7. CASE SigAnswer(post, FALSE)
  BY <1>3, <1>4, <1>7, SigAnswerCounts
<1> QED
  BY <1>5, <1>6, <1>7 DEF SigFetch
-----------------------------------------------------------------------------
(* A party's message is new in the document that is read: its round is not *)
(* complete, the ones before it are, and the party has sent in each.       *)
SigSends(p, r) ==
  /\ p \notin SigSenders(r) /\ Cardinality(SigSenders(r)) # M
  /\ \A q \in 0..r - 1 : Cardinality(SigSenders(q)) = M /\ p \in SigSenders(q)
  /\ SigSenders(r)' = SigSenders(r) \cup {p}
  /\ \A q \in RoundNumbers \ {r} : SigSenders(q)' = SigSenders(q)

(* A document is inserted: the first one, or one that nobody reads.        *)
LEMMA InsertedDocument ==
  ASSUME SigSessionRight, NEW post \in sposts, post.party \in Parties, SigInsert(post)
  PROVE  /\ SigSessionRight' /\ SigGrows /\ SignatureRight' /\ sigs' # <<>>
         /\ Len(sigs') = Len(sigs) + 1
         /\ Len(sigs') = 1 => post.party \in SigSenders(0)'
         /\ IF sigs = <<>> THEN SigSends(post.party, 0) ELSE \A r : SigSenders(r)' = SigSenders(r)
<1>1. PICK p : p = post.party
  OBVIOUS
<1>2. PICK doc : doc = [participants |-> <<p>>, rounds |-> << <<p>> >>, version |-> 0, signature |-> FALSE]
  OBVIOUS
<1>3. sigs' = Append(sigs, doc)
  BY <1>1, <1>2 DEF SigInsert
<1>4. p \in Parties /\ sigs \in Seq(SigRec) /\ Len(sigs) \in Nat
  BY <1>1, LenProperties DEF SigSessionRight
<1>5. /\ doc \in SigRec /\ doc.rounds = << <<p>> >> /\ doc.version = 0 /\ doc.signature = FALSE
  <2>1. <<p>> \in Seq(Parties) /\ << <<p>> >> \in Seq(Seq(Parties)) /\ 0 \in Nat
    BY <1>4
  <2> QED
    BY <1>2, <2>1 DEF SigRec
<1>6. /\ sigs' \in Seq(SigRec) /\ Len(sigs') = Len(sigs) + 1
      /\ \A i \in 1..Len(sigs) : sigs'[i] = sigs[i]
      /\ sigs'[Len(sigs) + 1] = doc
  BY <1>3, <1>4, <1>5, AppendProperties
<1>7. sigs' # <<>>
  BY <1>4, <1>6, EmptySeq
<1>8. CASE sigs = <<>>
  <2>1. Len(sigs) = 0 /\ sigs'[1] = doc
    BY <1>6, <1>8
  <2>2. /\ RoundsRight(doc.rounds, Parties, M) /\ doc.rounds # <<>> /\ Len(doc.rounds) = 1
        /\ Senders(doc.rounds, 0) = {p} /\ \A q \in Nat \ {0} : Senders(doc.rounds, q) = {}
    <3>1. /\ RoundsRight(<< <<p>> >>, Parties, M) /\ << <<p>> >> # <<>> /\ Len(<< <<p>> >>) = 1
          /\ Senders(<< <<p>> >>, 0) = {p} /\ \A q \in Nat \ {0} : Senders(<< <<p>> >>, q) = {}
      BY <1>4, Numbers, Signers, FirstRound
    <3> QED
      BY <1>5, <3>1, Zenon
  <2>3. Len(doc.rounds) <= Ready - 1
    BY <2>2, Numbers
  <2>4. /\ \A r : SigSenders(r)' = Senders(doc.rounds, r)
        /\ \A r : SigSenders(r) = {}
    BY <1>7, <1>8, <2>1 DEF SigSenders
  <2>5. SigSenders(0)' = {p} /\ \A r \in RoundNumbers \ {0} : SigSenders(r)' = {}
    BY <2>2, <2>4, Numbers
  <2>6. SigSessionRight'
    BY <1>6, <2>1, <2>2, <2>3, <2>5 DEF SigSessionRight
  <2>7. SigGrows
    BY <1>8, <2>4 DEF SigGrows
  <2>8. SignatureRight'
    BY <1>5, <2>1 DEF SignatureRight
  <2>9. SigSends(p, 0)
    <3>1. Cardinality({}) = 0 /\ M # 0 /\ 0..0 - 1 = {}
      BY FS_EmptySet, Signers
    <3> QED
      BY <2>4, <2>5, <3>1 DEF SigSends
  <2> QED
    BY <1>1, <1>6, <1>7, <1>8, <2>5, <2>6, <2>7, <2>8, <2>9
<1>9. CASE sigs # <<>>
  <2>1. 1 \in 1..Len(sigs) /\ Len(sigs) # 0 /\ sigs[1].version \in Nat
    BY <1>9, FirstDocument
  <2>2. sigs'[1] = sigs[1] /\ Len(sigs') # 1 /\ sigs[1].version <= sigs[1].version
    BY <1>4, <1>6, <2>1
  <2>3. \A r : SigSenders(r)' = SigSenders(r)
    BY <1>7, <1>9, <2>2 DEF SigSenders
  <2>4. SigSessionRight'
    BY <1>6, <1>9, <2>2, <2>3 DEF SigSessionRight
  <2>5. SigGrows /\ SignatureRight'
    BY <1>7, <2>2, <2>3 DEF SigGrows, SignatureRight
  <2> QED
    BY <1>6, <1>7, <1>9, <2>2, <2>3, <2>4, <2>5
<1> QED
  BY <1>8, <1>9

LEMMA SigInsertKeeps ==
  ASSUME SignInv, FaultsRight, NEW post \in sposts, SigInsert(post) PROVE SignInv'
<1>1. SigSessionRight /\ SignersRight /\ SigPostsRight /\ DocumentsCounted
  BY DEF SignInv
<1>2. /\ post.party \in Parties /\ post.round = 0 /\ post.awaited \in BOOLEAN
  BY <1>1, SigPostFacts DEF SigPostRight, SigInsert
<1>3. /\ SigSessionRight' /\ SigGrows /\ SignatureRight' /\ sigs' # <<>>
      /\ Len(sigs') = Len(sigs) + 1
      /\ Len(sigs') = 1 => post.party \in SigSenders(0)'
  BY <1>1, <1>2, InsertedDocument
<1>4. SigAnswer(post, TRUE) /\ timeouts' = timeouts
  BY DEF SigInsert, faultVars
<1>5. /\ SignersRight' /\ SigPostsRight' /\ sposts' = sposts \ {post}
      /\ \A q \in Parties : signer'[q].round = 0 => signer[q].round = 0
      /\ post.awaited => signer[post.party].round = 0 /\ signer'[post.party].round # 0
  BY <1>1, <1>2, <1>3, <1>4, SigAnswerKeeps
<1>6. /\ Cardinality(Unawaited') \in Nat /\ Cardinality(Unawaited') <= Cardinality(Unawaited)
      /\ ~ post.awaited => Cardinality(Unawaited') = Cardinality(Unawaited) - 1
      /\ Cardinality(Unawaited) \in Nat
  BY <1>1, <1>5, UnawaitedTaken, UnawaitedFinite
<1>7. /\ Cardinality(Beginners') \in Nat /\ Cardinality(Beginners) \in Nat
      /\ Cardinality(Beginners') <= Cardinality(Beginners)
  BY <1>5, BeginnersLeft
<1>8. post.awaited => Cardinality(Beginners') <= Cardinality(Beginners) - 1
  <2>1. SUFFICES ASSUME post.awaited PROVE Cardinality(Beginners') <= Cardinality(Beginners) - 1
    OBVIOUS
  <2>2. Beginners' \subseteq Beginners \ {post.party} /\ post.party \in Beginners
    BY <1>2, <1>5, <2>1 DEF Beginners
  <2>3. IsFiniteSet(Beginners)
    BY PartiesCounted, FS_Subset DEF Beginners
  <2>4. /\ IsFiniteSet(Beginners \ {post.party})
        /\ Cardinality(Beginners \ {post.party}) = Cardinality(Beginners) - 1
    BY <2>2, <2>3, FS_RemoveElement
  <2>5. Cardinality(Beginners') <= Cardinality(Beginners \ {post.party})
    BY <2>2, <2>4, FS_Subset
  <2> QED
    BY <2>4, <2>5
<1>9. Len(sigs) \in Nat /\ timeouts \in Nat /\ N \in Nat
  BY <1>1, LenProperties, Numbers DEF SigSessionRight, FaultsRight
<1>10. Len(sigs) + Cardinality(Unawaited) + Cardinality(Beginners) <= N + timeouts
  BY <1>1 DEF DocumentsCounted
<1>11. (Len(sigs) + 1) + Cardinality(Unawaited') + Cardinality(Beginners') <= N + timeouts
  <2>1. CASE post.awaited
    BY <1>6, <1>7, <1>8, <1>9, <1>10, <2>1
  <2>2. CASE ~ post.awaited
    BY <1>6, <1>7, <1>9, <1>10, <2>2
  <2> QED
    BY <1>2, <2>1, <2>2
<1>12. DocumentsCounted'
  BY <1>3, <1>4, <1>11 DEF DocumentsCounted
<1> QED
  BY <1>3, <1>5, <1>12 DEF SignInv
-----------------------------------------------------------------------------
(* The document that an update finds.                                      *)
LEMMA FoundDocument ==
  ASSUME SigSessionRight, NEW post, Matching(post) # {}
  PROVE  /\ First(Matching(post)) \in 1..Len(sigs) /\ sigs # <<>>
         /\ sigs[First(Matching(post))].version = post.version
         /\ sigs[First(Matching(post))] \in SigRec
<1>1. sigs \in Seq(SigRec) /\ DOMAIN sigs = 1..Len(sigs) /\ Len(sigs) \in Nat
  BY LenProperties DEF SigSessionRight
<1>2. Matching(post) \in SUBSET Nat
  BY <1>1 DEF Matching
<1>3. First(Matching(post)) \in Matching(post)
  BY <1>2, FirstIsLeast
<1>4. First(Matching(post)) \in 1..Len(sigs) /\ sigs[First(Matching(post))].version = post.version
  BY <1>1, <1>3 DEF Matching
<1>5. sigs # <<>>
  BY <1>1, <1>4, EmptySeq
<1> QED
  BY <1>1, <1>4, <1>5

LEMMA UpdatedDocument ==
  ASSUME NEW i, NEW doc, sigs' = [sigs EXCEPT ![i] = doc], SigSessionRight,
         i \in 1..Len(sigs), doc \in SigRec
  PROVE  /\ sigs' \in Seq(SigRec) /\ Len(sigs') = Len(sigs) /\ sigs # <<>> /\ sigs' # <<>>
         /\ sigs'[1] = IF i = 1 THEN doc ELSE sigs[1]
<1>1. sigs \in Seq(SigRec) /\ Len(sigs) \in Nat
  BY LenProperties DEF SigSessionRight
<1>2. /\ sigs' \in Seq(SigRec) /\ Len(sigs') = Len(sigs)
      /\ \A j \in 1..Len(sigs) : sigs'[j] = IF j = i THEN doc ELSE sigs[j]
  BY <1>1, ExceptSeq
<1>3. 1 \in 1..Len(sigs) /\ Len(sigs) # 0
  BY <1>1
<1> QED
  BY <1>2, <1>3, EmptySeq

(* Another document is updated, or the participants of the first.          *)
LEMMA SameRounds ==
  ASSUME SigSessionRight, SignatureRight, sigs' \in Seq(SigRec), Len(sigs') = Len(sigs),
         sigs # <<>>, sigs' # <<>>,
         sigs'[1].rounds = sigs[1].rounds, sigs'[1].version = sigs[1].version,
         sigs'[1].signature = sigs[1].signature
  PROVE  SigSessionRight' /\ SigGrows /\ SignatureRight' /\ \A r : SigSenders(r)' = SigSenders(r)
<1>1. \A r : SigSenders(r)' = SigSenders(r)
  BY DEF SigSenders
<1>2. SigSessionRight'
  BY <1>1 DEF SigSessionRight
<1>3. sigs[1].version <= sigs[1].version
  BY FirstDocument
<1>4. SigGrows
  BY <1>1, <1>3 DEF SigGrows
<1>5. SignatureRight'
  BY <1>1 DEF SignatureRight, SigComplete
<1> QED
  BY <1>1, <1>2, <1>4, <1>5

LEMMA SigParticipantFound ==
  ASSUME SigSessionRight, SignatureRight, NEW post, Matching(post) # {}, post.party \in Parties,
         sigs' = [sigs EXCEPT ![First(Matching(post))].participants = Sorted(@, post.party)]
  PROVE  /\ SigSessionRight' /\ SigGrows /\ SignatureRight' /\ Len(sigs') = Len(sigs)
         /\ sigs # <<>> /\ sigs' # <<>> /\ sigs'[1].version = sigs[1].version
         /\ sigs'[1].rounds = sigs[1].rounds /\ \A r : SigSenders(r)' = SigSenders(r)
<1>1. PICK i : i = First(Matching(post))
  OBVIOUS
<1>2. i \in 1..Len(sigs) /\ sigs # <<>> /\ sigs[i] \in SigRec
  BY <1>1, FoundDocument
<1>3. PICK more : more = Sorted(sigs[i].participants, post.party)
  OBVIOUS
<1>4. PICK doc : doc = [sigs[i] EXCEPT !.participants = more]
  OBVIOUS
<1>5. sigs' = [sigs EXCEPT ![i] = doc]
  BY <1>1, <1>3, <1>4
<1>6. more \in Seq(Parties)
  <2>1. sigs[i].participants \in Seq(Parties)
    BY <1>2 DEF SigRec
  <2> QED
    BY <1>3, <2>1, SortedAdds, Numbers
<1>7. /\ doc \in SigRec /\ doc.rounds = sigs[i].rounds /\ doc.version = sigs[i].version
      /\ doc.signature = sigs[i].signature
  BY <1>2, <1>4, <1>6 DEF SigRec
<1>8. /\ sigs' \in Seq(SigRec) /\ Len(sigs') = Len(sigs) /\ sigs # <<>> /\ sigs' # <<>>
      /\ sigs'[1] = IF i = 1 THEN doc ELSE sigs[1]
  BY <1>2, <1>5, <1>7, UpdatedDocument
<1>9. /\ sigs'[1].rounds = sigs[1].rounds /\ sigs'[1].version = sigs[1].version
      /\ sigs'[1].signature = sigs[1].signature
  BY <1>7, <1>8
<1> QED
  BY <1>8, <1>9, SameRounds
LEMMA SigParticipantKeeps ==
  ASSUME SignInv, FaultsRight, NEW post \in sposts, SigParticipant(post) PROVE SignInv'
<1>1. SigSessionRight /\ SignersRight /\ SigPostsRight /\ SignatureRight
  BY DEF SignInv, SignersRight
<1>2. post \in PostRec /\ SigPostRight(post) /\ post.party \in Parties
  BY <1>1, SigPostFacts
<1>3. FaultsRight' /\ timeouts <= timeouts' /\ signer' = signer /\ post.at = "participant"
  BY DEF SigParticipant, FaultsRight, faultVars
<1>4. CASE Matching(post) # {}
  <2>1. PICK new : new = [post EXCEPT !.at = "push"]
    OBVIOUS
  <2>2. sposts' = (sposts \ {post}) \cup {new}
        /\ sigs' = [sigs EXCEPT ![First(Matching(post))].participants = Sorted(@, post.party)]
    BY <1>4, <2>1 DEF SigParticipant
  <2>3. /\ new \in PostRec /\ new.at = "push" /\ new.awaited = post.awaited
        /\ new.party = post.party /\ new.round = post.round /\ new.version = post.version
        /\ new.view = post.view
    BY <1>2, <2>1 DEF PostRec, PostSteps
  <2>4. /\ SigSessionRight' /\ SigGrows /\ SignatureRight' /\ Len(sigs') = Len(sigs)
        /\ sigs # <<>> /\ sigs' # <<>> /\ sigs'[1].version = sigs[1].version
        /\ sigs'[1].rounds = sigs[1].rounds /\ \A r : SigSenders(r)' = SigSenders(r)
    BY <1>1, <1>2, <1>4, <2>2, SigParticipantFound
  <2>5. SigPostRight(new)'
    BY <1>2, <1>3, <2>3, <2>4 DEF SigPostRight
  <2> QED
    BY <1>3, <2>2, <2>3, <2>4, <2>5, SigReplaced
<1>5. CASE Matching(post) = {}
  <2>1. PICK new : new = [post EXCEPT !.at = "fetch"]
    OBVIOUS
  <2>2. sposts' = (sposts \ {post}) \cup {new} /\ sigs' = sigs
    BY <1>5, <2>1 DEF SigParticipant
  <2>3. /\ new \in PostRec /\ new.at = "fetch" /\ new.awaited = post.awaited
        /\ new.party = post.party /\ new.round = post.round
    BY <1>2, <2>1 DEF PostRec, PostSteps
  <2>4. SigSessionRight' /\ SigGrows /\ SignatureRight' /\ Len(sigs') = Len(sigs)
    BY <1>1, <2>2, SigUnmoved DEF SignatureRight, SigComplete, SigSenders
  <2>5. SigPostRight(new)'
    BY <1>2, <1>3, <2>2, <2>3 DEF SigPostRight, SigSenders
  <2> QED
    BY <1>3, <2>2, <2>3, <2>4, <2>5, SigReplaced
<1> QED
  BY <1>4, <1>5
-----------------------------------------------------------------------------
(* A message is stored in the document that is read.  Its version is the   *)
(* one that was read, so that what was accepted is what is there.          *)
LEMMA FirstPushed ==
  ASSUME NEW r, NEW p, sigs' = [sigs EXCEPT ![1] = SigPushed(sigs[1], r, p)],
         SigSessionRight, SignatureRight, sigs # <<>>,
         p \in Parties, r \in RoundNumbers, r > 0 => p \in SigSenders(0),
         Accepts(sigs[1].rounds, r, p, M)
  PROVE  /\ SigSessionRight' /\ SigGrows /\ SignatureRight' /\ Len(sigs') = Len(sigs)
         /\ sigs' # <<>> /\ p \in SigSenders(r)' /\ SigSends(p, r)
<1>1. /\ sigs[1] \in SigRec /\ 1 \in 1..Len(sigs) /\ sigs[1].version \in Nat
      /\ \A q : SigSenders(q) = Senders(sigs[1].rounds, q)
      /\ RoundsRight(sigs[1].rounds, Parties, M) /\ sigs[1].rounds # <<>>
      /\ Len(sigs[1].rounds) <= Ready - 1 /\ r \in Nat
  BY FirstDocument, Numbers DEF SigSessionRight
<1>2. PICK pushed : pushed = Pushed(sigs[1].rounds, r, p, FALSE)
  OBVIOUS
<1>3. IsPushed(pushed, sigs[1].rounds, Parties, M, r, p)
  BY <1>1, <1>2, PushedRight
<1>4. /\ RoundsRight(pushed, Parties, M) /\ pushed # <<>>
      /\ Len(pushed) = IF r = Len(sigs[1].rounds) THEN Len(sigs[1].rounds) + 1 ELSE Len(sigs[1].rounds)
      /\ Senders(pushed, r) = Senders(sigs[1].rounds, r) \cup {p}
      /\ \A q \in Nat \ {r} : Senders(pushed, q) = Senders(sigs[1].rounds, q)
  BY <1>3 DEF IsPushed
<1>5. pushed \in Seq(Seq(Parties))
  BY <1>4 DEF RoundsRight
<1>6. PICK doc : doc = [[sigs[1] EXCEPT !.rounds = pushed] EXCEPT !.version = sigs[1].version + 1]
  OBVIOUS
<1>7. sigs' = [sigs EXCEPT ![1] = doc]
  BY <1>2, <1>6 DEF SigPushed
<1>8. /\ doc \in SigRec /\ doc.rounds = pushed /\ doc.version = sigs[1].version + 1
      /\ doc.signature = sigs[1].signature
  <2>1. sigs[1].version + 1 \in Nat
    BY <1>1
  <2> QED
    BY <1>1, <1>5, <1>6, <2>1 DEF SigRec
<1>9. sigs' \in Seq(SigRec) /\ Len(sigs') = Len(sigs) /\ sigs' # <<>> /\ sigs'[1] = doc
  BY <1>1, <1>7, <1>8, UpdatedDocument
<1>10. \A q : SigSenders(q)' = Senders(pushed, q)
  BY <1>8, <1>9 DEF SigSenders
<1>11. Len(pushed) <= Ready - 1
  <2>1. Len(sigs[1].rounds) \in Nat
    BY <1>1, LenProperties DEF RoundsRight
  <2>2. r <= Ready - 2 /\ Ready \in Nat
    BY Numbers DEF RoundNumbers
  <2>3. Len(sigs[1].rounds) + 1 <= Ready - 1 \/ r # Len(sigs[1].rounds)
    BY <1>1, <2>1, <2>2
  <2> QED
    BY <1>1, <1>4, <2>3, Zenon
<1>12. /\ SigSenders(r)' = SigSenders(r) \cup {p}
       /\ \A q \in RoundNumbers \ {r} : SigSenders(q)' = SigSenders(q)
  BY <1>1, <1>4, <1>10, Numbers
<1>13. \A q \in RoundNumbers : SigSenders(q)' \subseteq SigSenders(0)'
  <2>1. \A q \in RoundNumbers : SigSenders(q) \subseteq SigSenders(0)
    BY DEF SigSessionRight
  <2>2. p \in SigSenders(0)' /\ SigSenders(0) \subseteq SigSenders(0)'
    BY <1>1, <1>12, Numbers
  <2> QED
    BY <1>12, <2>1, <2>2
<1>14. SigSessionRight'
  BY <1>4, <1>8, <1>9, <1>11, <1>13 DEF SigSessionRight
<1>15. SigGrows
  <2>1. sigs[1].version <= sigs'[1].version /\ sigs'[1].version # sigs[1].version
    BY <1>1, <1>8, <1>9
  <2>2. \A q \in RoundNumbers : SigSenders(q) \subseteq SigSenders(q)'
    BY <1>12
  <2> QED
    BY <1>8, <1>9, <2>1, <2>2 DEF SigGrows
<1>16. SignatureRight'
  BY <1>8, <1>9, <1>14, <1>15, SignatureStays
<1>17. SigSends(p, r)
  <2>1. /\ p \notin SigSenders(r) /\ Cardinality(SigSenders(r)) # M
        /\ \A q \in 0..r - 1 : Cardinality(SigSenders(q)) = M
    BY <1>1, AcceptedRound
  <2>2. ASSUME NEW q \in 0..r - 1 PROVE p \in SigSenders(q)
    <3>1. q \in RoundNumbers /\ 0 \in 0..r - 1 /\ r > 0 /\ 0 \in Nat
      BY <1>1, Numbers DEF RoundNumbers
    <3>2. SigSenders(q) \subseteq SigSenders(0) /\ p \in SigSenders(0)
      BY <3>1 DEF SigSessionRight
    <3>3. Cardinality(SigSenders(q)) = Cardinality(SigSenders(0))
      BY <2>1, <3>1
    <3>4. IsFiniteSet(SigSenders(0))
      BY <1>1, <3>1, RoundSize
    <3> QED
      BY <3>2, <3>3, <3>4, FS_Subset
  <2> QED
    BY <1>12, <2>1, <2>2 DEF SigSends
<1> QED
  BY <1>9, <1>12, <1>14, <1>15, <1>16, <1>17

(* A message is stored in a document that was inserted later.              *)
LEMMA OtherPushed ==
  ASSUME NEW i, NEW r, NEW p, sigs' = [sigs EXCEPT ![i] = SigPushed(sigs[i], r, p)],
         SigSessionRight, SignatureRight, i \in 1..Len(sigs), i # 1, p \in Parties, r \in Nat
  PROVE  /\ SigSessionRight' /\ SigGrows /\ SignatureRight' /\ Len(sigs') = Len(sigs)
         /\ sigs' # <<>> /\ Len(sigs') # 1 /\ \A q : SigSenders(q)' = SigSenders(q)
<1>1. sigs \in Seq(SigRec) /\ Len(sigs) \in Nat
  BY LenProperties DEF SigSessionRight
<1>2. sigs[i] \in SigRec
  BY <1>1
<1>3. sigs[i].rounds \in Seq(Seq(Parties)) /\ sigs[i].version \in Nat
  BY <1>2 DEF SigRec
<1>4. PICK pushed : pushed = Pushed(sigs[i].rounds, r, p, FALSE)
  OBVIOUS
<1>5. pushed \in Seq(Seq(Parties)) /\ sigs[i].version + 1 \in Nat
  <2>1. Parties \in SUBSET Int
    BY Numbers
  <2>2. \A s \in Seq(Seq(Parties)) : Pushed(s, r, p, FALSE) \in Seq(Seq(Parties))
    BY <2>1, PushedTyped
  <2>3. pushed \in Seq(Seq(Parties))
    BY <1>3, <1>4, <2>2, Zenon
  <2> QED
    BY <1>3, <2>3
<1>6. PICK doc : doc = [[sigs[i] EXCEPT !.rounds = pushed] EXCEPT !.version = sigs[i].version + 1]
  OBVIOUS
<1>7. doc \in SigRec
  BY <1>2, <1>5, <1>6 DEF SigRec
<1>8. sigs' = [sigs EXCEPT ![i] = doc]
  BY <1>4, <1>6 DEF SigPushed
<1>9. /\ sigs' \in Seq(SigRec) /\ Len(sigs') = Len(sigs) /\ sigs # <<>> /\ sigs' # <<>>
      /\ sigs'[1] = sigs[1]
  BY <1>7, <1>8, UpdatedDocument
<1>10. Len(sigs) # 1
  BY <1>1
<1> QED
  BY <1>9, <1>10, SameRounds

LEMMA MessagePushed ==
  ASSUME SigSessionRight, SignatureRight, NEW post \in sposts, SigPostRight(post),
         post.party \in Parties, post.round \in RoundNumbers, post.at = "push",
         Accepts(post.view, post.round, post.party, M), Matching(post) # {},
         sigs' = [sigs EXCEPT ![First(Matching(post))] = SigPushed(@, post.round, post.party)]
  PROVE  /\ SigSessionRight' /\ SigGrows /\ SignatureRight' /\ Len(sigs') = Len(sigs)
         /\ sigs' # <<>> /\ (Len(sigs') = 1 => post.party \in SigSenders(post.round)')
         /\ SigSends(post.party, post.round) \/ \A q : SigSenders(q)' = SigSenders(q)
<1>1. PICK i : i = First(Matching(post))
  OBVIOUS
<1>2. PICK r, p : r = post.round /\ p = post.party
  OBVIOUS
<1>3. /\ i \in 1..Len(sigs) /\ sigs # <<>> /\ sigs[i].version = post.version
      /\ p \in Parties /\ r \in RoundNumbers /\ r \in Nat
  BY <1>1, <1>2, FoundDocument, Numbers
<1>4. sigs' = [sigs EXCEPT ![i] = SigPushed(sigs[i], r, p)]
  BY <1>1, <1>2
<1>5. CASE i = 1
  <2>1. post.view = sigs[1].rounds
    BY <1>3, <1>5 DEF SigPostRight
  <2>2. Accepts(sigs[1].rounds, r, p, M) /\ (r > 0 => p \in SigSenders(0))
    BY <1>2, <2>1 DEF SigPostRight
  <2>3. sigs' = [sigs EXCEPT ![1] = SigPushed(sigs[1], r, p)]
    BY <1>4, <1>5
  <2>4. /\ SigSessionRight' /\ SigGrows /\ SignatureRight' /\ Len(sigs') = Len(sigs)
        /\ sigs' # <<>> /\ p \in SigSenders(r)' /\ SigSends(p, r)
    BY <1>3, <2>2, <2>3, FirstPushed
  <2> QED
    BY <1>2, <2>4
<1>6. CASE i # 1
  <2>1. /\ SigSessionRight' /\ SigGrows /\ SignatureRight' /\ Len(sigs') = Len(sigs)
        /\ sigs' # <<>> /\ Len(sigs') # 1 /\ \A q : SigSenders(q)' = SigSenders(q)
    BY <1>3, <1>4, <1>6, OtherPushed
  <2> QED
    BY <2>1
<1> QED
  BY <1>5, <1>6

LEMMA SigPushKeeps ==
  ASSUME SignInv, FaultsRight, NEW post \in sposts, SigPush(post) PROVE SignInv'
<1>1. SigSessionRight /\ SignersRight /\ SigPostsRight /\ SignatureRight
  BY DEF SignInv, SignersRight
<1>2. /\ SigPostRight(post) /\ post.party \in Parties /\ post.round \in RoundNumbers
      /\ post.at = "push" /\ sigs # <<>>
  BY <1>1, SigPostFacts DEF SigPush, SigPostRight
<1>3. FaultsRight' /\ timeouts <= timeouts' /\ UNCHANGED faultVars
  BY DEF SigPush, FaultsRight, faultVars
<1>4. CASE SigAnswer(post, FALSE) /\ sigs' = sigs
  <2>1. SigSessionRight' /\ SigGrows /\ SignatureRight' /\ Len(sigs') = Len(sigs)
    BY <1>1, <1>4, SigUnmoved DEF SignatureRight, SigComplete, SigSenders
  <2> QED
    BY <1>3, <1>4, <2>1, SigAnswerCounts
<1>5. CASE /\ Accepts(post.view, post.round, post.party, M) /\ Matching(post) # {}
           /\ sigs' = [sigs EXCEPT ![First(Matching(post))] = SigPushed(@, post.round, post.party)]
           /\ SigAnswer(post, TRUE)
  <2>1. /\ SigSessionRight' /\ SigGrows /\ SignatureRight' /\ Len(sigs') = Len(sigs)
        /\ sigs' # <<>> /\ (Len(sigs') = 1 => post.party \in SigSenders(post.round)')
    BY <1>1, <1>2, <1>5, MessagePushed
  <2> QED
    BY <1>3, <1>5, <2>1, SigAnswerCounts
<1>6. CASE SigMoved(post, "push") /\ UNCHANGED <<sigs, signer>>
  BY <1>2, <1>3, <1>6, SigMovedKeeps
<1> QED
  BY <1>4, <1>5, <1>6 DEF SigPush
-----------------------------------------------------------------------------
(* Key generation and joins leave the signing session alone.               *)
LEMMA OthersLeave ==
  ASSUME FaultsRight, NEW p \in Parties, KeyNext(p) \/ WalletNext(p)
  PROVE  UNCHANGED signVars /\ timeouts <= timeouts'
<1>1. UNCHANGED signVars
  BY DEF KeyNext, WalletNext
<1>2. timeouts \in Nat
  BY DEF FaultsRight
<1>3. timeouts' = timeouts \/ timeouts' = timeouts + 1
  <2>1. CASE Join(p) \/ Poll(p) \/ StoreKey(p) \/ LoseStore(p)
    BY <2>1 DEF Join, Poll, StoreKey, LoseStore, faultVars
  <2>2. CASE \E post \in posts :
               \/ Fetch(post) \/ Insert(post) \/ StoreParticipant(post) \/ Push(post)
               \/ LosePost(post) \/ GiveUp(post)
    BY <2>2 DEF Fetch, Insert, StoreParticipant, Push, LosePost, GiveUp, faultVars
  <2>3. CASE CreateWallet(p) \/ PostSecret(p) \/ GetSecret(p) \/ LoseCreate(p) \/ LoseSecret(p)
    BY <2>3 DEF CreateWallet, PostSecret, GetSecret, LoseCreate, LoseSecret, faultVars
  <2>4. CASE \E join \in joins :
               \/ JoinChecked(join) \/ DeleteLookups(join) \/ InsertLookups(join)
               \/ StoreWallet(join) \/ LoseJoin(join) \/ GiveUpJoin(join)
    BY <2>4 DEF JoinChecked, DeleteLookups, InsertLookups, StoreWallet, LoseJoin, GiveUpJoin,
       faultVars
  <2> QED
    BY <2>1, <2>2, <2>3, <2>4
       DEF KeyNext, KeyStep, KeyFailure, Serve, WalletNext, WalletStep, WalletFailure, WalletServe
<1> QED
  BY <1>1, <1>2, <1>3

LEMMA SignAlone ==
  ASSUME SignInv, FaultsRight, FaultsRight', UNCHANGED signVars, timeouts <= timeouts'
  PROVE  SignInv'
<1>1. SigSessionRight /\ SignersRight /\ SigPostsRight /\ DocumentsCounted
  BY DEF SignInv
<1>2. sigs' = sigs /\ signer' = signer /\ sposts' = sposts
  BY DEF signVars
<1>3. SigSessionRight' /\ SigGrows /\ SignatureRight' /\ Len(sigs') = Len(sigs)
  BY <1>1, <1>2, SigUnmoved DEF SignersRight, SignatureRight, SigComplete, SigSenders
<1>4. SignersRight'
  BY <1>1, <1>2, <1>3, SignersStay
<1>5. SigPostsRight'
  BY <1>1, <1>2, <1>3, SigPostsLeft
<1>6. DocumentsCounted'
  <2>1. Unawaited' \subseteq Unawaited
    BY <1>2 DEF Unawaited
  <2>2. Cardinality(Unawaited') \in Nat /\ Cardinality(Unawaited') <= Cardinality(Unawaited)
    BY <1>1, <2>1, FewerUnawaited
  <2> QED
    BY <1>1, <1>2, <1>3, <2>2, NoDocumentMore
<1> QED
  BY <1>3, <1>4, <1>5, <1>6 DEF SignInv

LEMMA SignNextKeeps ==
  ASSUME SignInv, FaultsRight, FaultsRight', NEW p \in Parties, SignNext(p) PROVE SignInv'
<1>1. CASE SignStart(p) \/ SignPoll(p) \/ StoreSignature(p) \/ LoseSignature(p)
  BY <1>1, SignStartKeeps, SignPollKeeps, StoreSignatureKeeps, LoseSignatureKeeps
<1>2. CASE \E post \in sposts :
             SigFetch(post) \/ SigInsert(post) \/ SigParticipant(post) \/ SigPush(post)
  BY <1>2, SigFetchKeeps, SigInsertKeeps, SigParticipantKeeps, SigPushKeeps
<1>3. CASE \E post \in sposts : SigLosePost(post) \/ SigGiveUp(post)
  BY <1>3, SigLosePostKeeps, SigGiveUpKeeps
<1> QED
  BY <1>1, <1>2, <1>3 DEF SignNext, SignStep, SignServe, SignFailure

LEMMA InitSign == Init => SignInv
<1> SUFFICES ASSUME Init PROVE SignInv
  OBVIOUS
<1>1. /\ sigs = <<>> /\ sposts = {} /\ timeouts = 0
      /\ signer = [p \in Parties |-> [at |-> "out", round |-> 0]]
  BY DEF Init, SignInit, KeyInit
<1>2. \A r : SigSenders(r) = {}
  BY <1>1 DEF SigSenders
<1>3. SigSessionRight
  BY <1>1, <1>2 DEF SigSessionRight
<1>4. 0 \in 0..Ready /\ 0 # Ready /\ \A r \in RoundNumbers : ~ (0 > r)
  BY Numbers
<1>5. Len(sigs) = 0
  BY <1>1
<1>6. SignersRight
  <2>1. signer \in [Parties -> SignerRec]
    BY <1>1, <1>4 DEF SignerRec, SignerSteps
  <2>2. \A p \in Parties : signer[p].at = "out" /\ signer[p].round = 0
    BY <1>1
  <2>3. \A p \in Parties : SignerRight(p)
    BY <1>5, <2>2 DEF SignerRight
  <2> QED
    BY <1>5, <2>1, <2>3 DEF SignersRight, SignatureRight
<1>7. SigPostsRight
  BY <1>1, FS_EmptySet DEF SigPostsRight
<1>8. DocumentsCounted
  <2>1. Unawaited = {} /\ Cardinality({}) = 0
    BY <1>1, FS_EmptySet DEF Unawaited
  <2>2. Beginners \subseteq Parties
    BY DEF Beginners
  <2>3. Cardinality(Beginners) <= N /\ Cardinality(Beginners) \in Nat
    BY <2>2, PartiesCounted, FS_Subset, FS_CardinalityType
  <2>4. 0 + 0 + Cardinality(Beginners) <= N + 0
    BY <2>3, Numbers
  <2> QED
    BY <1>1, <1>5, <2>1, <2>4 DEF DocumentsCounted
<1> QED
  BY <1>3, <1>6, <1>7, <1>8 DEF SignInv

ThresholdInv == KeyInv /\ WalletInv /\ SignInv

LEMMA NextSigns == ThresholdInv /\ [Next]_vars => ThresholdInv'
<1> SUFFICES ASSUME KeyInv, WalletInv, SignInv, [Next]_vars PROVE ThresholdInv'
  BY DEF ThresholdInv
<1>1. KeyInv' /\ WalletInv'
  BY NextWallet
<1>2. FaultsRight /\ FaultsRight'
  BY <1>1 DEF KeyInv
<1>3. CASE Next
  <2>1. PICK p \in Parties : KeyNext(p) \/ WalletNext(p) \/ SignNext(p)
    BY <1>3 DEF Next
  <2>2. CASE SignNext(p)
    BY <1>1, <1>2, <2>2, SignNextKeeps DEF ThresholdInv
  <2>3. CASE KeyNext(p) \/ WalletNext(p)
    BY <1>1, <1>2, <2>3, OthersLeave, SignAlone DEF ThresholdInv
  <2> QED
    BY <2>1, <2>2, <2>3
<1>4. CASE UNCHANGED vars
  <2>1. UNCHANGED signVars /\ timeouts <= timeouts'
    BY <1>2, <1>4 DEF vars, faultVars, FaultsRight
  <2> QED
    BY <1>1, <1>2, <2>1, SignAlone DEF ThresholdInv
<1> QED
  BY <1>3, <1>4

(* The inductive invariant of a threshold wallet, from its key to a        *)
(* signature.                                                              *)
THEOREM ThresholdInvariant == Spec => []ThresholdInv
<1>1. Init => ThresholdInv
  BY InitWallet, InitSign DEF ThresholdInv
<1> QED
  BY <1>1, NextSigns, PTL DEF Spec
-----------------------------------------------------------------------------
(* The documents of a session are bounded, and one that is signed, or      *)
(* taken for signed, has the messages of M parties in all rounds as long   *)
(* as it is the only one (TssSign.SignedByQuorum).                         *)
LEMMA QuorumThere == ThresholdInv => SignedByQuorum
<1> SUFFICES ASSUME KeyInv, SignInv PROVE SignedByQuorum
  BY DEF ThresholdInv
<1>1. SigSessionRight /\ SignersRight /\ SigPostsRight /\ DocumentsCounted
  BY DEF SignInv
<1>2. sigs \in Seq(SigRec) /\ Len(sigs) \in Nat
  BY <1>1, LenProperties DEF SigSessionRight
<1>3. Len(sigs) <= N + MaxFaults
  <2>1. Cardinality(Unawaited) \in Nat /\ Cardinality(Beginners) \in Nat
    <3>1. Beginners \subseteq Parties
      BY DEF Beginners
    <3> QED
      BY <1>1, <3>1, UnawaitedFinite, PartiesCounted, FS_Subset, FS_CardinalityType
  <2>2. /\ timeouts \in Nat /\ losses \in Nat /\ timeouts + losses <= MaxFaults
        /\ N \in Nat /\ MaxFaults \in Nat
    BY Numbers DEF KeyInv, FaultsRight
  <2>3. Len(sigs) + Cardinality(Unawaited) + Cardinality(Beginners) <= N + timeouts
    BY <1>1 DEF DocumentsCounted
  <2> QED
    BY <1>2, <2>1, <2>2, <2>3
<1>4. ASSUME NEW i \in DOMAIN sigs
      PROVE  /\ sigs[i].participants \in Seq(Parties) /\ sigs[i].signature \in BOOLEAN
             /\ \A r \in DOMAIN sigs[i].rounds : sigs[i].rounds[r] \in Seq(Parties)
  <2>1. sigs[i] \in SigRec
    BY <1>2
  <2>2. sigs[i].rounds \in Seq(Seq(Parties))
    BY <2>1 DEF SigRec
  <2> QED
    BY <2>1, <2>2 DEF SigRec
<1>5. \A p \in Parties : signer[p].round \in 0..Ready /\ signer[p].at \in SignerSteps
  BY <1>1 DEF SignersRight, SignerRec
<1>6. ASSUME NEW post \in sposts
      PROVE  /\ post.party \in Parties /\ post.round \in 0..Ready - 2 /\ post.awaited \in BOOLEAN
             /\ post.at \in {"fetch", "insert", "participant", "push"} /\ post.version \in Nat
  <2>1. post \in PostRec
    BY <1>1 DEF SigPostsRight
  <2> QED
    BY <2>1 DEF PostRec, RoundNumbers, PostSteps
<1>7. SignTypeOK
  BY <1>3, <1>4, <1>5, <1>6 DEF SignTypeOK, SignerSteps
<1>8. Len(sigs) = 1 =>
        /\ sigs[1].signature => Cardinality(SigSenders(Ready - 2)) = M
        /\ \A p \in Parties : signer[p].at = "done" => sigs[1].signature
  BY <1>1 DEF SignersRight, SignatureRight, SignerRight, SigComplete
<1> QED
  BY <1>7, <1>8 DEF SignedByQuorum

(* A stored signature has the messages of M signers in the last round, and *)
(* who is done has it stored (TssSign.SignedByQuorum).                     *)
THEOREM QuorumSigns == Spec => []SignedByQuorum
  BY ThresholdInvariant, QuorumThere, PTL
-----------------------------------------------------------------------------
(***************************************************************************)
(* The rounds of the document that is read are those of a barrier for M    *)
(* parties (RoundBarrier), also when updates go to another document.       *)
(***************************************************************************)
SignSent == [r \in 0..Ready - 2 |-> SigSenders(r)]

LEMMA SignCardinality == \A S : SignRounds!Cardinality(S) = Cardinality(S)
  BY DEF SignRounds!Cardinality, Cardinality

(* The steps that leave the rounds of the first document alone.            *)
RoundsStay == \A r \in RoundNumbers : SigSenders(r)' = SigSenders(r)

LEMMA SignatureAlone ==
  ASSUME SignInv, NEW p \in Parties, StoreSignature(p) \/ LoseSignature(p) PROVE RoundsStay
<1>1. SigSessionRight /\ SignerRight(p)
  BY DEF SignInv, SignersRight
<1>2. signer[p].at = "store" /\ sigs # <<>>
  BY <1>1 DEF StoreSignature, LoseSignature, SignerRight
<1>3. sigs[1] \in SigRec /\ 1 \in 1..Len(sigs) /\ sigs \in Seq(SigRec)
  BY <1>1, <1>2, FirstDocument DEF SigSessionRight
<1>4. PICK stored \in {sigs[1].signature, TRUE} : sigs' = [sigs EXCEPT ![1].signature = stored]
  BY DEF StoreSignature, LoseSignature
<1>5. PICK doc : doc = [sigs[1] EXCEPT !.signature = stored]
  OBVIOUS
<1>6. doc \in SigRec /\ doc.rounds = sigs[1].rounds
  BY <1>3, <1>4, <1>5 DEF SigRec
<1>7. sigs' # <<>> /\ sigs'[1] = doc
  <2>1. sigs' = [sigs EXCEPT ![1] = doc]
    BY <1>4, <1>5
  <2> QED
    BY <1>1, <1>3, <1>6, <2>1, UpdatedDocument
<1> QED
  BY <1>2, <1>6, <1>7 DEF RoundsStay, SigSenders

LEMMA NextSigSends ==
  ASSUME ThresholdInv, [Next]_vars
  PROVE  RoundsStay \/ \E p \in Parties, r \in RoundNumbers : SigSends(p, r)
<1>1. /\ SignInv /\ SigSessionRight /\ SignatureRight /\ SigPostsRight /\ SignersRight
      /\ FaultsRight /\ 0 \in RoundNumbers
  BY Numbers DEF ThresholdInv, SignInv, SignersRight, KeyInv
<1>2. CASE sigs' = sigs
  BY <1>2 DEF RoundsStay, SigSenders
<1>3. CASE UNCHANGED vars
  BY <1>2, <1>3 DEF vars, signVars
<1>4. CASE Next
  <2>1. PICK p \in Parties : KeyNext(p) \/ WalletNext(p) \/ SignNext(p)
    BY <1>4 DEF Next
  <2>2. CASE KeyNext(p) \/ WalletNext(p)
    BY <1>1, <1>2, <2>2, OthersLeave DEF signVars
  <2>3. CASE SignStart(p) \/ SignPoll(p)
    BY <1>2, <2>3 DEF SignStart, SignPoll
  <2>4. CASE StoreSignature(p) \/ LoseSignature(p)
    BY <1>1, <2>4, SignatureAlone
  <2>5. CASE \E post \in sposts : SigFetch(post) \/ SigLosePost(post) \/ SigGiveUp(post)
    BY <1>2, <2>5 DEF SigFetch, SigLosePost, SigGiveUp
  <2>6. ASSUME NEW post \in sposts, SigInsert(post) \/ SigParticipant(post) \/ SigPush(post)
        PROVE  RoundsStay \/ \E q \in Parties, r \in RoundNumbers : SigSends(q, r)
    <3>1. post.party \in Parties /\ post.round \in RoundNumbers /\ SigPostRight(post)
      BY <1>1, SigPostFacts
    <3>2. CASE SigInsert(post)
      BY <1>1, <3>1, <3>2, InsertedDocument DEF RoundsStay
    <3>3. CASE SigParticipant(post)
      <4>1. CASE Matching(post) # {}
        <5>1. sigs' = [sigs EXCEPT ![First(Matching(post))].participants = Sorted(@, post.party)]
          BY <3>3, <4>1 DEF SigParticipant
        <5> QED
          BY <1>1, <3>1, <4>1, <5>1, SigParticipantFound DEF RoundsStay
      <4>2. CASE Matching(post) = {}
        BY <1>2, <3>3, <4>2 DEF SigParticipant
      <4> QED
        BY <4>1, <4>2
    <3>4. CASE SigPush(post)
      <4>1. CASE /\ Accepts(post.view, post.round, post.party, M) /\ Matching(post) # {}
                 /\ sigs' = [sigs EXCEPT ![First(Matching(post))] =
                               SigPushed(@, post.round, post.party)]
        <5>1. post.at = "push"
          BY <3>4 DEF SigPush
        <5>2. SigSends(post.party, post.round) \/ \A q : SigSenders(q)' = SigSenders(q)
          BY <1>1, <3>1, <4>1, <5>1, MessagePushed
        <5> QED
          BY <3>1, <5>2 DEF RoundsStay
      <4>2. CASE sigs' = sigs
        BY <1>2, <4>2
      <4> QED
        BY <3>4, <4>1, <4>2 DEF SigPush
    <3> QED
      BY <2>6, <3>2, <3>3, <3>4
  <2> QED
    BY <2>1, <2>2, <2>3, <2>4, <2>5, <2>6 DEF SignNext, SignStep, SignServe, SignFailure
<1> QED
  BY <1>3, <1>4

LEMMA NextIsSignBarrier ==
  ASSUME ThresholdInv, [Next]_vars PROVE [SignRounds!Next]_SignSent
<1>1. (Ready - 1) - 1 = Ready - 2
  BY Numbers
<1>2. CASE RoundsStay
  BY <1>2 DEF RoundsStay, SignSent, RoundNumbers
<1>3. ASSUME NEW p \in Parties, NEW r \in RoundNumbers, SigSends(p, r) PROVE SignRounds!Next
  <2>1. \A q \in RoundNumbers : SignSent[q] = SigSenders(q) /\ SignSent'[q] = SigSenders(q)'
    BY DEF SignSent, RoundNumbers
  <2>2. p \notin SignSent[r] /\ ~ Cardinality(SignSent[r]) = M
    BY <1>3, <2>1 DEF SigSends
  <2>3. \A q \in 0..r - 1 : Cardinality(SignSent[q]) = M /\ p \in SignSent[q]
    <3>1. \A q \in 0..r - 1 : q \in RoundNumbers
      BY Numbers DEF RoundNumbers
    <3> QED
      BY <1>3, <2>1, <3>1 DEF SigSends
  <2>4. SignSent' = [SignSent EXCEPT ![r] = SignSent[r] \cup {p}]
    <3>1. \A q \in RoundNumbers :
            SignSent'[q] = IF q = r THEN SignSent[r] \cup {p} ELSE SignSent[q]
      BY <1>3, <2>1 DEF SigSends
    <3> QED
      BY <3>1 DEF SignSent, RoundNumbers
  <2>5. SignRounds!Send(p, r)
    BY <2>2, <2>3, <2>4, SignCardinality, Zenon DEF SignRounds!Send, SignRounds!Complete, SignSent
  <2> QED
    BY <1>1, <2>5 DEF SignRounds!Next, RoundNumbers
<1> QED
  BY <1>2, <1>3, NextSigSends

LEMMA InitIsSignBarrier == Init => SignRounds!Init
<1> SUFFICES ASSUME Init PROVE SignRounds!Init
  OBVIOUS
<1>1. sigs = <<>> /\ (Ready - 1) - 1 = Ready - 2
  BY Numbers DEF Init, SignInit
<1>2. \A r \in 0..Ready - 2 : SigSenders(r) = {}
  BY <1>1 DEF SigSenders
<1> QED
  BY <1>1, <1>2 DEF SignRounds!Init

(* The stored rounds of the document that is read are those of a barrier   *)
(* (TssSign.IsSignBarrier).                                                *)
THEOREM SignIsBarrier == Spec => IsSignBarrier
<1>1. ThresholdInv /\ [Next]_vars => [SignRounds!Next]_SignSent
  BY NextIsSignBarrier
<1> QED
  BY <1>1, InitIsSignBarrier, ThresholdInvariant, PTL DEF Spec, IsSignBarrier, SignRounds!Spec, SignSent
=============================================================================
