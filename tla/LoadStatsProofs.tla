--------------------------- MODULE LoadStatsProofs ---------------------------
(* What the arithmetic of LoadStats guarantees, for any loads and any limits. *)
EXTENDS LoadStats, TLAPS

\* Floor division by a positive number.
LEMMA DivBounds ==
    ASSUME NEW a \in Int, NEW b \in Nat, b > 0
    PROVE  /\ a \div b \in Int
           /\ b * (a \div b) <= a
           /\ a < b * (a \div b) + b
OBVIOUS

LEMMA NextMultiple ==
    ASSUME NEW c \in Nat, NEW u \in Int
    PROVE  (c + 1) * u = c * u + u
OBVIOUS

\* An integer quotient is at most u when the dividend is at most b times u.
LEMMA DivAtMost ==
    ASSUME NEW a \in Int, NEW b \in Nat, b > 0, NEW u \in Int, a <= b * u
    PROVE  a \div b <= u
<1> DEFINE q == a \div b
<1>1. q \in Int /\ b * q <= b * u
  BY DivBounds
<1> HIDE DEF q
<1>2. q <= u
  BY <1>1
<1> QED
  BY <1>2 DEF q

LEMMA DivAtLeast ==
    ASSUME NEW a \in Int, NEW b \in Nat, b > 0, NEW d \in Int, b * d <= a
    PROVE  d <= a \div b
<1> DEFINE q == a \div b
<1>1. q \in Int /\ b * d < b * q + b
  BY DivBounds
<1> HIDE DEF q
<1>2. b * d < b * (q + 1)
  BY <1>1
<1>3. d < q + 1
  BY <1>1, <1>2
<1> QED
  BY <1>1, <1>3 DEF q

\* The average of samples none of which exceeds u does not exceed u: the total is at
\* most u for each sample counted, whichever way the division rounds.
LEMMA AverageAtMost ==
    ASSUME NEW stat \in Stat, NEW u \in Int, stat.count > 0, stat.sum <= stat.count * u
    PROVE  Average(stat) \in Int /\ Average(stat) <= u
<1> DEFINE s == stat.sum
           c == stat.count
<1>1. s \in Int /\ c \in Nat /\ c > 0 /\ s <= c * u
  BY DEF Stat
<1>2. Average(stat) = IF s >= 0 THEN s \div c ELSE -((-s) \div c)
  BY DEF Average, GoDiv
<1> HIDE DEF s, c
<1>3. s \div c <= u /\ s \div c \in Int
  BY <1>1, DivAtMost, DivBounds
<1>4. -u <= (-s) \div c /\ (-s) \div c \in Int
  <2>1. -s \in Int /\ -u \in Int /\ c * (-u) <= -s
    BY <1>1
  <2> QED
    BY <1>1, <2>1, DivAtLeast, DivBounds
<1> QED
  BY <1>2, <1>3, <1>4

\* The average of samples none of which is below d is not below d.
LEMMA AverageAtLeast ==
    ASSUME NEW stat \in Stat, NEW d \in Int, stat.count > 0, stat.count * d <= stat.sum
    PROVE  Average(stat) \in Int /\ d <= Average(stat)
<1> DEFINE s == stat.sum
           c == stat.count
<1>1. s \in Int /\ c \in Nat /\ c > 0 /\ c * d <= s
  BY DEF Stat
<1>2. Average(stat) = IF s >= 0 THEN s \div c ELSE -((-s) \div c)
  BY DEF Average, GoDiv
<1> HIDE DEF s, c
<1>3. d <= s \div c /\ s \div c \in Int
  BY <1>1, DivAtLeast, DivBounds
<1>4. (-s) \div c <= -d /\ (-s) \div c \in Int
  <2>1. -s \in Int /\ -d \in Int /\ -s <= c * (-d)
    BY <1>1
  <2> QED
    BY <1>1, <2>1, DivAtMost, DivBounds
<1> QED
  BY <1>2, <1>3, <1>4

\* Adding a sample within a limit keeps a total within that limit per sample.
LEMMA AddSampleAtMost ==
    ASSUME NEW stat \in Stat, NEW u \in Int, NEW l \in Int,
           stat.sum <= stat.count * u, l <= u
    PROVE  AddSample(stat, l).sum <= AddSample(stat, l).count * u
BY NextMultiple DEF Stat, AddSample

LEMMA AddSampleAtLeast ==
    ASSUME NEW stat \in Stat, NEW d \in Int, NEW l \in Int,
           stat.count * d <= stat.sum, d <= l
    PROVE  AddSample(stat, l).count * d <= AddSample(stat, l).sum
BY NextMultiple DEF Stat, AddSample
==============================================================================
