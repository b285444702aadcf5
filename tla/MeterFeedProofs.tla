--------------------------- MODULE MeterFeedProofs ---------------------------
(***************************************************************************)
(* Proofs that no validator refuses a reading of a meter, that each one    *)
(* refuses a wrong current, and that alarms come at their hours, for every *)
(* grain, base load, noise and voltage.                                    *)
(***************************************************************************)
EXTENDS MeterFeed, TLAPS

\* A factor that is positive can be cancelled.
LEMMA Cancel ==
    ASSUME NEW a \in Int, NEW b \in Int, NEW q \in Int, q > 0, a * q <= b * q
    PROVE  a <= b
BY SMT

\* A larger factor gives a larger product.
LEMMA Scale ==
    ASSUME NEW a \in Int, NEW b \in Int, NEW q \in Int, q >= 0, a <= b
    PROVE  a * q <= b * q
BY SMT

\* A rounded quotient times its divisor is off by at most half a divisor.
LEMMA Rounded ==
    ASSUME NEW a \in Nat, NEW b \in Nat \ {0}, NEW n \in Roundings(a, b)
    PROVE  /\ n \in Nat
           /\ 2 * (n * b) <= 2 * a + b
           /\ 2 * a <= 2 * (n * b) + b
<1>1. n \in Nat
  BY SMT DEF Roundings
<1>2. n * b \in Nat
  BY <1>1, SMT
<1>3. 2 * Distance(n * b, a) <= b
  BY DEF Roundings
<1> QED
  BY <1>1, <1>2, <1>3, SMT DEF Distance

\* Every hour has one of four factors.
LEMMA Factors ==
    ASSUME NEW h \in 0 .. 23
    PROVE  TimeFactor(h) \in {6, 10, 13, 15}
BY SMT DEF TimeFactor
-----------------------------------------------------------------------------
\* The energy of a reading before rounding, in parts of 1000 * G * G.
Bounded(X) == X \in Nat /\ 108000 * (G * G) <= X /\ X <= 1650000 * (G * G)

\* A reading rounded from the energy X and a voltage.
Shows(X, volts, k, v, i) ==
    /\ k \in Roundings(X, 1000 * G * G)
    /\ v \in Roundings(volts, G)
    /\ i \in Roundings(10 * X, G * volts)

\* What is known of the kWh, volts and amperes that a reading shows.
Consistent(k, v, i) ==
    /\ k \in 108 .. 1650
    /\ v \in 2150 .. 2250
    /\ i \in 480 .. 7675
    /\ Distance(v * i, 10000 * k) <= 3 * k + 6127

LEMMA EnergyBounds ==
    ASSUME NEW load \in 200 * G .. 1000 * G,
           NEW factor \in {6, 10, 13, 15},
           NEW noise \in -(10 * G) .. 10 * G
    PROVE  Bounded(load * factor * (100 * G + noise))
<1> DEFINE L == load * factor
           N == 100 * G + noise
<1>1. G \in Nat /\ G > 0
  BY GrainAssumption
<1>2. L \in Int /\ 1200 * G <= L /\ L <= 15000 * G
  BY <1>1, SMT
<1>3. N \in Int /\ 90 * G <= N /\ N <= 110 * G
  BY <1>1, SMT
<1>. HIDE DEF L, N
<1>4. (1200 * G) * (90 * G) <= L * (90 * G) /\ L * (110 * G) <= (15000 * G) * (110 * G)
  BY <1>1, <1>2, Scale, SMT
<1>5. (90 * G) * L <= N * L /\ N * L <= (110 * G) * L
  BY <1>1, <1>2, <1>3, Scale, SMT
<1>6. L * N \in Int /\ G * G \in Nat
  BY <1>1, <1>2, <1>3, SMT
<1>7. L * N \in Nat /\ 108000 * (G * G) <= L * N /\ L * N <= 1650000 * (G * G)
  BY <1>1, <1>2, <1>3, <1>4, <1>5, <1>6, SMT
<1> QED
  BY <1>7 DEF L, N, Bounded

\* What a reading shows, given the energy X and the voltage before rounding.
LEMMA ShownBounds ==
    ASSUME NEW X, Bounded(X), NEW volts \in 2150 * G .. 2250 * G,
           NEW k, NEW v, NEW i, Shows(X, volts, k, v, i)
    PROVE  Consistent(k, v, i)
<1>0. /\ X \in Nat /\ 108000 * (G * G) <= X /\ X <= 1650000 * (G * G)
      /\ k \in Roundings(X, 1000 * G * G)
      /\ v \in Roundings(volts, G)
      /\ i \in Roundings(10 * X, G * volts)
  BY DEF Bounded, Shows
<1> DEFINE Q == G * G
           W == G * volts
<1>1. G \in Nat /\ G > 0
  BY GrainAssumption
<1>2. Q \in Nat /\ Q > 0 /\ 1000 * G * G = 1000 * Q
  BY <1>1, SMT
<1>3. volts \in Nat /\ W \in Nat /\ 2150 * Q <= W /\ W <= 2250 * Q /\ W > 0
  <2>1. volts \in Nat
    BY <1>1, SMT
  <2>2. (2150 * G) * G <= volts * G /\ volts * G <= (2250 * G) * G
    BY <1>1, <2>1, Scale, SMT
  <2> QED
    BY <1>1, <1>2, <2>1, <2>2, SMT
<1>4. /\ k \in Nat
      /\ 2 * (k * (1000 * Q)) <= 2 * X + 1000 * Q
      /\ 2 * X <= 2 * (k * (1000 * Q)) + 1000 * Q
  <2>1. 1000 * Q \in Nat \ {0} /\ k \in Roundings(X, 1000 * Q)
    BY <1>0, <1>2, SMT
  <2>. HIDE DEF Q
  <2> QED
    BY <1>0, <2>1, Rounded
<1>5. /\ v \in Nat
      /\ 2 * (v * G) <= 2 * volts + G
      /\ 2 * volts <= 2 * (v * G) + G
  BY <1>0, <1>1, <1>3, Rounded
<1>6. /\ i \in Nat
      /\ 2 * (i * W) <= 2 * (10 * X) + W
      /\ 2 * (10 * X) <= 2 * (i * W) + W
  <2>. HIDE DEF W
  <2>1. 10 * X \in Nat /\ W \in Nat \ {0}
    BY <1>0, <1>3, SMT
  <2>2. i \in Roundings(10 * X, W)
    BY <1>0 DEF W
  <2> QED
    BY <2>1, <2>2, Rounded
<1>7. X \in Nat /\ 108000 * Q <= X /\ X <= 1650000 * Q
  BY <1>0
<1>. HIDE DEF Q, W
<1>8. k \in 108 .. 1650
  <2>1. (2 * k * 1000) * Q <= 3301000 * Q /\ 216000 * Q <= (2 * k * 1000 + 1000) * Q
    BY <1>2, <1>4, <1>7, SMT
  <2>2. 2 * k * 1000 <= 3301000 /\ 216000 <= 2 * k * 1000 + 1000
    BY <1>2, <1>4, <2>1, Cancel, SMT
  <2> QED
    BY <1>7, <1>4, <2>2, SMT
<1>9. v \in 2150 .. 2250
  <2>1. (2 * v) * G <= 4501 * G /\ 4300 * G <= (2 * v + 1) * G
    BY <1>1, <1>3, <1>5, SMT
  <2>2. 2 * v <= 4501 /\ 4300 <= 2 * v + 1
    BY <1>1, <1>5, <2>1, Cancel, SMT
  <2> QED
    BY <1>7, <1>5, <2>2, SMT
<1>10. i \in 480 .. 7675
  <2>1. (2 * i) * W <= 15350 * W /\ 960 * W <= (2 * i + 1) * W
    BY <1>2, <1>3, <1>6, <1>7, SMT
  <2>2. 2 * i <= 15350 /\ 960 <= 2 * i + 1
    BY <1>3, <1>6, <2>1, Cancel, SMT
  <2> QED
    BY <1>7, <1>6, <2>2, SMT
<1> DEFINE e1 == i * W - 10 * X       \* the errors of rounding
           e2 == v * G - volts
           e3 == 1000 * (k * Q) - X
           P == G * W
           D == v * i - 10000 * k
<1>11. /\ e1 \in Int /\ 2 * e1 <= W /\ -W <= 2 * e1
       /\ e2 \in Int /\ 2 * e2 <= G /\ -G <= 2 * e2
       /\ e3 \in Int /\ e3 <= 500 * Q /\ -(500 * Q) <= e3
  BY <1>7, <1>1, <1>2, <1>3, <1>4, <1>5, <1>6, SMT
<1>12. P \in Int /\ P > 0 /\ P = Q * volts /\ 2150 * (Q * G) <= P
  <2>1. P \in Int /\ P > 0
    BY <1>1, <1>3, SMT
  <2>2. P = Q * volts
    BY <1>1, <1>3, SMT DEF Q, W
  <2>3. (2150 * G) * Q <= volts * Q
    BY <1>1, <1>2, <1>3, Scale, SMT
  <2> QED
    BY <1>7, <1>1, <1>2, <1>3, <2>1, <2>2, <2>3, SMT
<1>13. D \in Int /\ D * P = 10 * (X * e2) + (v * G) * e1 - 10 * (volts * e3)
  <2>1. (v * i) * P = (v * G) * (i * W)
    BY <1>1, <1>3, <1>9, <1>10, SMT
  <2>2. (v * G) * (i * W) = (volts + e2) * (10 * X) + (v * G) * e1
    <3>1. i * W = 10 * X + e1 /\ v * G = volts + e2 /\ i * W \in Int /\ v * G \in Int
      BY <1>7, <1>1, <1>3, <1>9, <1>10, SMT
    <3>. HIDE DEF e1, e2
    <3>2. (v * G) * (i * W) = (v * G) * (10 * X) + (v * G) * e1
      BY <1>7, <1>11, <3>1, SMT
    <3> QED
      BY <3>1, <3>2, SMT
  <2>3. (10000 * k) * P = 10 * (volts * (X + e3))
    BY <1>7, <1>2, <1>3, <1>8, <1>12, SMT
  <2>4. D \in Int /\ D * P = (v * i) * P - (10000 * k) * P
    BY <1>7, <1>8, <1>9, <1>10, <1>12, SMT
  <2>. HIDE DEF e1, e2, e3, D, P
  <2>5. (volts + e2) * (10 * X) = 10 * (X * volts) + 10 * (X * e2)
    BY <1>7, <1>3, <1>11, SMT
  <2>6. 10 * (volts * (X + e3)) = 10 * (X * volts) + 10 * (volts * e3)
    BY <1>7, <1>3, <1>11, SMT
  <2>7. X * volts \in Int /\ X * e2 \in Int /\ volts * e3 \in Int /\ (v * G) * e1 \in Int
    BY <1>7, <1>1, <1>3, <1>9, <1>11, SMT
  <2> QED
    BY <2>1, <2>2, <2>3, <2>4, <2>5, <2>6, <2>7, SMT
<1>. HIDE DEF e1, e2, e3, D, P
<1>14. 10 * (X * e2) <= (3 * k + 2) * P /\ -((3 * k + 2) * P) <= 10 * (X * e2)
  <2> DEFINE a1 == X * G
             a2 == (1000 * (k * Q) + 500 * Q) * G
             a3 == (5000 * k + 2500) * (Q * G)
             a4 == ((3 * k + 2) * 2150) * (Q * G)
             a5 == P * (3 * k + 2)
  <2>1. 2 * e2 * X <= G * X /\ (-G) * X <= 2 * e2 * X
    BY <1>7, <1>1, <1>11, Scale, SMT
  <2>2. a1 <= a2
    BY <1>7, <1>1, <1>2, <1>4, <1>8, Scale, SMT
  <2>3. 5 * a2 = a3
    BY <1>7, <1>1, <1>2, <1>8, SMT
  <2>4. a3 <= a4
    BY <1>7, <1>1, <1>2, <1>8, Scale, SMT
  <2>5. Q * G \in Int /\ a1 \in Int /\ X * e2 \in Int /\ a2 \in Int
    BY <1>7, <1>1, <1>2, <1>8, <1>11, SMT
  <2>6. a4 <= a5
    <3>1. (2150 * (Q * G)) * (3 * k + 2) <= P * (3 * k + 2)
      BY <1>1, <1>2, <1>8, <1>12, Scale, SMT
    <3>2. a4 = (2150 * (Q * G)) * (3 * k + 2)
      BY <1>7, <1>8, <2>5, SMT
    <3> QED
      BY <3>1, <3>2
  <2>7. a3 \in Int /\ a4 \in Int /\ a5 \in Int /\ a5 = (3 * k + 2) * P
    BY <1>7, <1>8, <1>12, <2>5, SMT
  <2>8. 10 * (X * e2) <= 5 * a1 /\ -(5 * a1) <= 10 * (X * e2)
    BY <1>7, <1>1, <1>11, <2>1, SMT
  <2> DEFINE a6 == X * e2
  <2>9. 10 * a6 <= a5 /\ -a5 <= 10 * a6
    <3>. HIDE DEF a1, a2, a3, a4, a5, a6
    <3>1. a6 \in Int /\ 10 * a6 <= 5 * a1 /\ -(5 * a1) <= 10 * a6
      BY <2>5, <2>8 DEF a6
    <3> QED
      BY <2>2, <2>3, <2>4, <2>5, <2>6, <2>7, <3>1, SMT
  <2> QED
    BY <2>7, <2>9
<1>15. (v * G) * e1 <= 1125 * P /\ -(1125 * P) <= (v * G) * e1
  <2>1. v * G \in Nat /\ v * G <= 2250 * G
    BY <1>1, <1>9, Scale, SMT
  <2>2. (2 * e1) * (v * G) <= W * (v * G) /\ (-W) * (v * G) <= (2 * e1) * (v * G)
    BY <1>3, <1>11, <2>1, Scale, SMT
  <2>3. (v * G) * W <= (2250 * G) * W
    BY <1>1, <1>3, <2>1, Scale, SMT
  <2>4. (2250 * G) * W = 2250 * P
    BY <1>1, <1>3, SMT DEF P
  <2> QED
    BY <1>3, <1>11, <1>12, <2>1, <2>2, <2>3, <2>4, SMT
<1>16. 10 * (volts * e3) <= 5000 * P /\ -(5000 * P) <= 10 * (volts * e3)
  <2>1. e3 * volts <= (500 * Q) * volts /\ (-(500 * Q)) * volts <= e3 * volts
    BY <1>2, <1>3, <1>11, Scale, SMT
  <2>2. (500 * Q) * volts = 500 * P /\ (-(500 * Q)) * volts = -(500 * P)
    BY <1>2, <1>3, <1>12, SMT
  <2> QED
    BY <1>3, <1>11, <1>12, <2>1, <2>2, SMT
<1>17. (3 * k + 6127) * P = (3 * k + 2) * P + 1125 * P + 5000 * P
  BY <1>8, <1>12, SMT
<1>18. /\ D * P <= (3 * k + 6127) * P
       /\ (-(3 * k + 6127)) * P <= D * P
  <2>1. (3 * k + 2) * P \in Int
    BY <1>8, <1>12, SMT
  <2>2. (-(3 * k + 6127)) * P = -((3 * k + 6127) * P)
    BY <1>8, <1>12, SMT
  <2>3. X * e2 \in Int /\ volts * e3 \in Int /\ (v * G) * e1 \in Int
    BY <1>7, <1>1, <1>3, <1>9, <1>11, SMT
  <2> QED
    BY <1>7, <1>12, <1>13, <1>14, <1>15, <1>16, <1>17, <2>1, <2>2, <2>3, SMT
<1>19. D <= 3 * k + 6127 /\ -(3 * k + 6127) <= D
  BY <1>8, <1>12, <1>13, <1>18, Cancel, SMT
<1>20. Distance(v * i, 10000 * k) <= 3 * k + 6127
  <2>1. v * i \in Int
    BY <1>9, <1>10, SMT
  <2> QED
    BY <1>8, <1>19, <2>1, SMT DEF D, Distance
<1> QED
  BY <1>8, <1>9, <1>10, <1>20 DEF Consistent

-----------------------------------------------------------------------------
\* What a shown reading is known to be.
Sound(r) ==
    /\ r \in [kwh : Nat, voltage : Nat, current : Nat, hour : 0 .. 23]
    /\ Consistent(r.kwh, r.voltage, r.current)

\* The energy a reading shows is within a tenth, and the rounding, of what the base
\* load takes at its hour.
FitsLoad(r) ==
    /\ 1000 * (r.kwh * G) <= 110 * (baseLoad * TimeFactor(r.hour)) + 500 * G
    /\ 90 * (baseLoad * TimeFactor(r.hour)) <= 1000 * (r.kwh * G) + 500 * G

\* Hour h, or the one after it.
SameOrNext(h) == {h, (h + 1) % 24}

\* The meter is read at least once in an hour.
HoursFollow ==
    /\ current # NoReading => hour \in SameOrNext(current.hour)
    /\ current # NoReading /\ previous # NoReading =>
          current.hour \in SameOrNext(previous.hour)

IInv ==
    /\ baseLoad \in BaseLoads
    /\ hour \in 0 .. 23
    /\ \A r \in Shown : Sound(r) /\ FitsLoad(r)
    /\ HoursFollow

\* Of an energy that is rounded, given the load in tenths and the noise.
LEMMA EnergyShown ==
    ASSUME NEW L \in Nat, NEW noise \in -(10 * G) .. 10 * G,
           NEW k \in Roundings(L * (100 * G + noise), 1000 * G * G),
           L * (100 * G + noise) \in Nat
    PROVE  /\ 1000 * (k * G) <= 110 * L + 500 * G
           /\ 90 * L <= 1000 * (k * G) + 500 * G
<1> DEFINE X == L * (100 * G + noise)
<1>1. G \in Nat /\ G > 0 /\ 1000 * G * G \in Nat \ {0}
  BY GrainAssumption, SMT
<1>2. k \in Nat /\ 2 * (k * (1000 * G * G)) <= 2 * X + 1000 * G * G
      /\ 2 * X <= 2 * (k * (1000 * G * G)) + 1000 * G * G
  BY <1>1, Rounded
<1>3. (90 * G) * L <= (100 * G + noise) * L /\ (100 * G + noise) * L <= (110 * G) * L
  <2>1. 90 * G <= 100 * G + noise /\ 100 * G + noise <= 110 * G /\ noise \in Int
    BY <1>1, SMT
  <2> QED
    BY <1>1, <2>1, Scale, SMT
<1>4. X \in Int /\ X = (100 * G + noise) * L
  BY <1>1, SMT
<1> HIDE DEF X
<1>5. /\ k * (1000 * G * G) = (1000 * (k * G)) * G /\ 1000 * G * G = (1000 * G) * G
      /\ (90 * G) * L = (90 * L) * G /\ (110 * G) * L = (110 * L) * G
  BY <1>1, <1>2, SMT
<1>6. 1000 * (k * G) \in Int /\ 90 * L \in Int /\ 110 * L \in Int /\ 500 * G \in Int
  BY <1>1, <1>2, SMT
<1> DEFINE a == 1000 * (k * G)
           b == 90 * L
           c == 110 * L
           d == 500 * G
<1>7. /\ 2 * (a * G) <= 2 * X + 2 * (d * G) /\ 2 * X <= 2 * (a * G) + 2 * (d * G)
      /\ b * G <= X /\ X <= c * G
  BY <1>1, <1>2, <1>3, <1>4, <1>5, SMT
<1>8. a \in Int /\ b \in Int /\ c \in Int /\ d \in Int
  BY <1>6
<1> HIDE DEF a, b, c, d
<1>9. a * G <= (c + d) * G /\ b * G <= (a + d) * G
  BY <1>1, <1>4, <1>7, <1>8, SMT
<1>10. a <= c + d /\ b <= a + d
  BY <1>1, <1>8, <1>9, Cancel, SMT
<1> QED
  BY <1>10 DEF a, b, c, d

LEMMA ConsistentNumbers ==
    ASSUME NEW k, NEW v, NEW i, Consistent(k, v, i)
    PROVE  k \in Nat /\ v \in Nat /\ i \in Nat
<1>1. k \in 108 .. 1650 /\ v \in 2150 .. 2250 /\ i \in 480 .. 7675
  BY DEF Consistent
<1> QED
  BY <1>1

\* Every reading the meter generates is sound.
LEMMA GeneratedSound ==
    ASSUME baseLoad \in BaseLoads, NEW h \in 0 .. 23,
           NEW noise \in Noises, NEW volts \in Voltages,
           NEW r \in Readings(h, noise, volts)
    PROVE  Sound(r) /\ FitsLoad(r) /\ r.hour = h
<1> DEFINE X == Energy(TimeFactor(h), noise)
           L == baseLoad * TimeFactor(h)
<1>1. /\ TimeFactor(h) \in {6, 10, 13, 15}
      /\ baseLoad \in 200 * G .. 1000 * G /\ noise \in -(10 * G) .. 10 * G
      /\ volts \in 2150 * G .. 2250 * G
  BY Factors, RandomAssumption
<1>2. Bounded(X)
  BY <1>1, EnergyBounds DEF Energy
<1>3. /\ Shows(X, volts, r.kwh, r.voltage, r.current) /\ r.hour = h
      /\ r = [kwh |-> r.kwh, voltage |-> r.voltage, current |-> r.current, hour |-> r.hour]
  BY DEF Readings, Shows
<1>4. X = L * (100 * G + noise)
  BY DEF Energy
<1>5. L \in Nat
  <2>1. G \in Nat /\ G > 0
    BY GrainAssumption
  <2> QED
    BY <1>1, <2>1, SMT
<1>. HIDE DEF X, L
<1>6. Consistent(r.kwh, r.voltage, r.current)
  BY <1>1, <1>2, <1>3, ShownBounds
<1>7. r.kwh \in Nat /\ r.voltage \in Nat /\ r.current \in Nat
  BY <1>6, ConsistentNumbers
<1>8. Sound(r)
  BY <1>3, <1>6, <1>7 DEF Sound
<1>9. FitsLoad(r)
  <2>1. r.kwh \in Roundings(L * (100 * G + noise), 1000 * G * G)
    BY <1>3, <1>4 DEF Shows
  <2>2. L * (100 * G + noise) \in Nat
    BY <1>2, <1>4 DEF Bounded
  <2>3. /\ 1000 * (r.kwh * G) <= 110 * L + 500 * G
        /\ 90 * L <= 1000 * (r.kwh * G) + 500 * G
    BY <1>1, <1>5, <2>1, <2>2, EnergyShown
  <2> QED
    BY <1>3, <2>3 DEF FitsLoad, L
<1> QED
  BY <1>3, <1>8, <1>9

\* The checks a consistent reading passes.
LEMMA PassesChecks ==
    ASSUME NEW r, NEW k, NEW v, NEW i, Consistent(k, v, i),
           r.kwh = k, r.voltage = v, r.current = i
    PROVE  /\ InKwhRange(r) /\ InVoltageRange(r) /\ InCurrentRange(r)
           /\ ~PowerMismatch(r)
           /\ ~PyRaises(r)
<1>1. k \in 108 .. 1650 /\ v \in 2150 .. 2250 /\ i \in 480 .. 7675
  BY DEF Consistent
<1>2. InKwhRange(r) /\ InVoltageRange(r) /\ InCurrentRange(r)
  BY <1>1, SMT DEF InKwhRange, InVoltageRange, InCurrentRange
<1>3. ~(k < 0 \/ k > 5000) /\ ~(v < 2000 \/ v > 2400) /\ ~(i < 0 \/ i > 10000)
  BY <1>1, SMT
<1>4. ~(Distance(v * i, 10000 * k) > 1500 * k)
  <2> DEFINE d == Distance(v * i, 10000 * k)
  <2>1. v * i \in Int /\ 10000 * k \in Int
    BY <1>1, SMT
  <2>2. d \in Int
    BY <2>1, SMT DEF Distance
  <2>3. d <= 3 * k + 6127
    BY DEF Consistent
  <2>. HIDE DEF d
  <2>4. ~(d > 1500 * k)
    BY <1>1, <2>2, <2>3, SMT
  <2> QED
    BY <2>4 DEF d
<1>5. ~PowerMismatch(r)
  BY <1>4 DEF PowerMismatch
<1>6. ~PyRaises(r)
  BY <1>3, <1>4 DEF PyRaises, PyFails
<1> QED
  BY <1>2, <1>5, <1>6

LEMMA Inductive == Spec => []IInv
<1>1. Init => IInv
  BY DEF Init, IInv, Shown, HoursFollow
<1>2. IInv /\ [Next]_vars => IInv'
  <2> SUFFICES ASSUME IInv, [Next]_vars PROVE IInv'
    OBVIOUS
  <2>1. CASE GenerateReading
    <3>1. PICK noise \in Noises, volts \in Voltages :
              \E r \in Readings(hour, noise, volts) : current' = r
      BY <2>1 DEF GenerateReading
    <3>2. Sound(current') /\ FitsLoad(current') /\ current'.hour = hour
      BY <3>1, GeneratedSound DEF IInv
    <3>3. /\ Shown' \subseteq {current'} \cup Shown /\ UNCHANGED <<baseLoad, hour>>
          /\ previous' = current
      BY <2>1 DEF GenerateReading, Shown
    <3>4. \A r \in Shown' : Sound(r) /\ FitsLoad(r)'
      BY <3>2, <3>3 DEF IInv, FitsLoad
    <3>5. HoursFollow'
      BY <3>2, <3>3 DEF IInv, HoursFollow, SameOrNext
    <3> QED
      BY <3>3, <3>4, <3>5 DEF IInv
  <2>2. CASE HourPasses
    <3>1. hour' \in 0 .. 23
      BY <2>2, SMT DEF HourPasses, IInv
    <3>2. HoursFollow'
      BY <2>2 DEF HourPasses, IInv, HoursFollow, SameOrNext
    <3> QED
      BY <2>2, <3>1, <3>2 DEF HourPasses, IInv, Shown, FitsLoad
  <2>3. CASE UNCHANGED vars
    BY <2>3 DEF IInv, vars, Shown, HoursFollow, FitsLoad
  <2> QED
    BY <2>1, <2>2, <2>3 DEF Next
<1> QED
  BY <1>1, <1>2, PTL DEF Spec

\* No reading of a meter is refused by the Rust library, its Go wrappers or the
\* Python validator, however the random numbers fall and values are rounded.
THEOREM NeverRefused == Spec => []GeneratedAccepted
<1>1. IInv => GeneratedAccepted
  <2> SUFFICES ASSUME IInv, NEW r \in Shown
               PROVE  /\ validate_reading(r) = ERROR_NONE
                      /\ ~PyRaises(r)
                      /\ \A padding \in Padding :
                            /\ ~ValidateReading(r, padding)
                            /\ \A i \in 1 .. 2 : ~ValidateBatch(<<r, r>>, padding)[i]
    BY DEF GeneratedAccepted
  <2>1. Consistent(r.kwh, r.voltage, r.current)
    BY DEF IInv, Sound
  <2>2. /\ InKwhRange(r) /\ InVoltageRange(r) /\ InCurrentRange(r)
        /\ ~PowerMismatch(r)
        /\ ~PyRaises(r)
    BY <2>1, PassesChecks
  <2>3. validate_reading(r) = ERROR_NONE
    BY <2>2 DEF validate_reading
  <2>4. ASSUME NEW padding \in Padding
        PROVE  ~ToError(ERROR_NONE, padding)
    BY SMT DEF ToError, is_valid, ERROR_NONE, Padding
  <2>5. ASSUME NEW padding \in Padding, NEW i \in 1 .. 2
        PROVE  ~ValidateBatch(<<r, r>>, padding)[i]
    <3>1. <<r, r>> # <<>> /\ i \in DOMAIN <<r, r>> /\ <<r, r>>[i] = r
      BY SMT
    <3>2. ~ToError(validate_reading(r), padding)
      BY <2>3, <2>4
    <3> QED
      BY <3>1, <3>2, Zenon DEF ValidateBatch, validate_batch
  <2> QED
    BY <2>2, <2>3, <2>4, <2>5 DEF ValidateReading
<1> QED
  BY <1>1, Inductive, PTL

\* What a meter shows stays within what its base load allows.
THEOREM TypeCorrect == Spec => []TypeOK
<1>1. IInv => TypeOK
  <2>1. \A r : Sound(r) => /\ r.kwh \in 108 .. 1650 /\ r.voltage \in 2150 .. 2250
                           /\ r.current \in 480 .. 7675 /\ r.hour \in 0 .. 23
    BY DEF Sound, Consistent
  <2> QED
    BY <2>1 DEF IInv, TypeOK
<1> QED
  BY <1>1, Inductive, PTL

\* A current that is wrong by a fifth does not agree with the energy.
LEMMA WrongMismatch ==
    ASSUME NEW k, NEW v, NEW i, Consistent(k, v, i), NEW w \in Nat,
           10 * w <= 8 * i \/ 12 * i <= 10 * w
    PROVE  Distance(v * w, 10000 * k) > 1500 * k
<1>1. k \in 108 .. 1650 /\ v \in 2150 .. 2250 /\ i \in 480 .. 7675
  BY DEF Consistent
<1>2. /\ v * i \in Int /\ v * w \in Int /\ v \in Nat /\ k \in Nat /\ i \in Nat
      /\ v * (8 * i) = 8 * (v * i) /\ v * (12 * i) = 12 * (v * i)
      /\ v * (10 * w) = 10 * (v * w)
  BY <1>1, SMT
<1>3. v * i <= 10003 * k + 6127 /\ 9997 * k - 6127 <= v * i
  <2>1. Distance(v * i, 10000 * k) <= 3 * k + 6127
    BY DEF Consistent
  <2> DEFINE p == v * i
  <2>2. p \in Int
    BY <1>2
  <2>3. Distance(p, 10000 * k) <= 3 * k + 6127
    BY <2>1
  <2> HIDE DEF p
  <2>4. p <= 10003 * k + 6127 /\ 9997 * k - 6127 <= p
    BY <1>1, <2>2, <2>3, SMT DEF Distance
  <2> QED
    BY <2>4 DEF p
<1> DEFINE p == v * i
           q == v * w
<1>4. CASE 10 * w <= 8 * i
  <2>1. (10 * w) * v <= (8 * i) * v
    BY <1>2, <1>4, Scale
  <2>2. 10 * q <= 8 * p
    BY <1>2, <2>1, SMT
  <2>3. p \in Int /\ q \in Int /\ p <= 10003 * k + 6127
    BY <1>2, <1>3
  <2> HIDE DEF p, q
  <2>4. Distance(q, 10000 * k) > 1500 * k
    BY <1>1, <2>2, <2>3, SMT DEF Distance
  <2> QED
    BY <2>4 DEF q
<1>5. CASE 12 * i <= 10 * w
  <2>1. (12 * i) * v <= (10 * w) * v
    BY <1>2, <1>5, Scale
  <2>2. 12 * p <= 10 * q
    BY <1>2, <2>1, SMT
  <2>3. p \in Int /\ q \in Int /\ 9997 * k - 6127 <= p
    BY <1>2, <1>3
  <2> HIDE DEF p, q
  <2>4. Distance(q, 10000 * k) > 1500 * k
    BY <1>1, <2>2, <2>3, SMT DEF Distance
  <2> QED
    BY <2>4 DEF q
<1> QED
  BY <1>4, <1>5

\* A reading whose amperes are wrong by a fifth or more is refused by Rust and Python,
\* whatever the base load, the noise and the voltage were; Go's wrappers report it just
\* when the bytes of is_valid that Rust need not write are zero.
THEOREM WrongRefused == Spec => []WrongCurrentRefused
<1>1. ASSUME IInv, NEW r \in Shown, NEW percent \in {0, 50, 80, 120, 150}
      PROVE  LET wrong == [r EXCEPT !.current = (@ * percent) \div 100
                                                + (IF percent > 100 THEN 1 ELSE 0)]
             IN /\ validate_reading(wrong) # ERROR_NONE /\ PyRaises(wrong)
                /\ \A padding \in Padding :
                      /\ ValidateReading(wrong, padding) <=> padding = 0
                      /\ ValidateBatch(<<r, wrong>>, padding)[2] <=> padding = 0
  <2> DEFINE i == r.current
             w == (i * percent) \div 100 + (IF percent > 100 THEN 1 ELSE 0)
             wrong == [r EXCEPT !.current = w]
  <2>1. /\ Consistent(r.kwh, r.voltage, i) /\ i \in Nat
        /\ wrong.kwh = r.kwh /\ wrong.voltage = r.voltage /\ wrong.current = w
    BY <1>1 DEF IInv, Sound
  <2>2. w \in Nat /\ (10 * w <= 8 * i \/ 12 * i <= 10 * w)
    <3> HIDE DEF i
    <3>1. i \in Nat /\ percent \in {0, 50, 80, 120, 150}
      BY <2>1
    <3> QED
      BY <3>1, SMT
  <2> HIDE DEF w, wrong
  <2>3. Distance(wrong.voltage * wrong.current, 10000 * wrong.kwh) > 1500 * wrong.kwh
    BY <2>1, <2>2, WrongMismatch
  <2>4. validate_reading(wrong) # ERROR_NONE
    BY <2>3 DEF validate_reading, PowerMismatch, ERROR_NONE, ERROR_KWH_OUT_OF_RANGE,
                ERROR_VOLTAGE_OUT_OF_RANGE, ERROR_CURRENT_OUT_OF_RANGE, ERROR_POWER_MISMATCH
  <2>5. PyRaises(wrong)
    <3>1. ERROR_POWER_MISMATCH \in PyFails(wrong)
      BY <2>3 DEF PyFails, ERROR_POWER_MISMATCH, ERROR_KWH_OUT_OF_RANGE,
                  ERROR_VOLTAGE_OUT_OF_RANGE, ERROR_CURRENT_OUT_OF_RANGE
    <3> QED
      BY <3>1 DEF PyRaises
  <2>6. ASSUME NEW padding \in Padding
        PROVE  /\ ValidateReading(wrong, padding) <=> padding = 0
               /\ ValidateBatch(<<r, wrong>>, padding)[2] <=> padding = 0
    <3>1. ToError(validate_reading(wrong), padding) <=> padding = 0
      BY <2>4 DEF ToError, is_valid, Padding
    <3>2. <<r, wrong>> # <<>> /\ DOMAIN <<r, wrong>> = 1 .. 2 /\ <<r, wrong>>[2] = wrong
      OBVIOUS
    <3>3. validate_batch(<<r, wrong>>)[2] = validate_reading(wrong)
      BY <3>2 DEF validate_batch
    <3>4. ValidateBatch(<<r, wrong>>, padding)[2] = ToError(validate_batch(<<r, wrong>>)[2], padding)
      BY <3>2 DEF ValidateBatch
    <3> QED
      BY <3>1, <3>3, <3>4 DEF ValidateReading
  <2> QED
    BY <2>4, <2>5, <2>6 DEF w, wrong
<1>2. IInv => WrongCurrentRefused
  BY <1>1 DEF WrongCurrentRefused
<1> QED
  BY <1>2, Inductive, PTL

-----------------------------------------------------------------------------
(* Alarms *)

\* Two energies in parts of G, of a load B at the factors f and g, with the error
\* of the noise and of the rounding.
Around(x, B, f) ==
    1000 * x <= 110 * (B * f) + 500 * G /\ 90 * (B * f) <= 1000 * x + 500 * G

\* The energy may have risen by half only if the factor has by more than a fifth,
\* and it may have halved only at midnight.
LEMMA EnergySteps ==
    ASSUME NEW B \in 200 * G .. 1000 * G, NEW x \in Nat, NEW y \in Nat,
           NEW f \in {6, 10, 13, 15}, NEW g \in {6, 10, 13, 15},
           Around(x, B, f), Around(y, B, g)
    PROVE  /\ 2 * x > 3 * y => <<g, f>> \in {<<6, 10>>, <<6, 13>>, <<6, 15>>, <<10, 13>>, <<10, 15>>}
           /\ 2 * x < y => g > f /\ <<g, f>> # <<15, 10>> /\ <<g, f>> # <<13, 10>>
           /\ g = 6 /\ f = 13 => 2 * x > 3 * y
<1>1. G \in Nat /\ G > 0 /\ B \in Nat /\ 200 * G <= B
  BY GrainAssumption, SMT
<1>2. ASSUME 2 * x > 3 * y
      PROVE  <<g, f>> \in {<<6, 10>>, <<6, 13>>, <<6, 15>>, <<10, 13>>, <<10, 15>>}
  BY <1>1, <1>2, SMT DEF Around
<1>3. ASSUME 2 * x < y
      PROVE  g > f /\ <<g, f>> # <<15, 10>> /\ <<g, f>> # <<13, 10>>
  BY <1>1, <1>3, SMT DEF Around
<1>4. ASSUME g = 6, f = 13 PROVE 2 * x > 3 * y
  BY <1>1, <1>4, SMT DEF Around
<1> QED
  BY <1>2, <1>3, <1>4

\* A factor per hour, and the hours when it changes.
LEMMA FactorSteps ==
    ASSUME NEW p \in 0 .. 23, NEW c \in SameOrNext(p)
    PROVE  /\ c \in 0 .. 23
           /\ c # p /\ c = 6 => TimeFactor(p) = 6 /\ TimeFactor(c) = 13
           /\ \/ TimeFactor(c) = TimeFactor(p)
              \/ c # p /\ c \in {0, 6, 18}
              \/ c # p /\ <<TimeFactor(p), TimeFactor(c)>> \in {<<13, 10>>, <<15, 10>>}
BY SMT DEF SameOrNext, TimeFactor

\* Only the energy raises an alarm, by a change of more than half.
LEMMA AlarmMeans ==
    ASSUME NEW c, NEW p, Sound(c), Sound(p)
    PROVE  detect_anomaly(c, p) = ERROR_ANOMALY_DETECTED
               <=> 2 * c.kwh > 3 * p.kwh \/ 2 * c.kwh < p.kwh
<1>1. /\ c.kwh \in Nat /\ p.kwh \in Nat
      /\ c.voltage \in 2150 .. 2250 /\ p.voltage \in 2150 .. 2250
  BY ConsistentNumbers DEF Sound, Consistent
<1>2. ~Changed(c.voltage, p.voltage, 1)
  <2> DEFINE a == c.voltage
             b == p.voltage
  <2>1. a \in Int /\ b \in Int /\ a >= 2150 /\ a <= 2250 /\ b >= 2150 /\ b <= 2250
    BY <1>1
  <2> HIDE DEF a, b
  <2>2. 10 * (a - b) <= b /\ 10 * (b - a) <= b
    BY <2>1
  <2>3. ~Changed(a, b, 1)
    BY <2>1, <2>2 DEF Changed, Distance
  <2> QED BY <2>3 DEF a, b
<1>3. Changed(c.kwh, p.kwh, 5) <=> 2 * c.kwh > 3 * p.kwh \/ 2 * c.kwh < p.kwh
  BY <1>1, SMT DEF Changed, Distance
<1> QED
  BY <1>2, <1>3 DEF detect_anomaly, ERROR_ANOMALY_DETECTED, ERROR_NONE

\* A healthy meter raises an alarm only when the hour turns to 0, 6 or 18, and at
\* six in the morning it always does; Go adds no alarm to those of Rust.
THEOREM AlarmsAtTheirHours == Spec => []AlarmsExplained
<1>1. ASSUME IInv, current # NoReading, previous # NoReading
      PROVE  LET alarm == detect_anomaly(current, previous) = ERROR_ANOMALY_DETECTED
                 goAlarm == \E padding \in Padding : DetectAnomaly(current, previous, padding)
                 turned == current.hour # previous.hour
             IN /\ alarm \/ goAlarm => turned /\ current.hour \in {0, 6, 18}
                /\ turned /\ current.hour = 6 => alarm
  <2> DEFINE alarm == detect_anomaly(current, previous) = ERROR_ANOMALY_DETECTED
             goAlarm == \E padding \in Padding : DetectAnomaly(current, previous, padding)
             c == current.hour
             p == previous.hour
             x == current.kwh * G
             y == previous.kwh * G
  <2>1. /\ Sound(current) /\ Sound(previous) /\ FitsLoad(current) /\ FitsLoad(previous)
        /\ c \in SameOrNext(p) /\ baseLoad \in BaseLoads
    BY <1>1 DEF IInv, Shown, HoursFollow
  <2>2. p \in 0 .. 23 /\ c \in 0 .. 23 /\ current.kwh \in Nat /\ previous.kwh \in Nat
    BY <2>1, FactorSteps DEF Sound
  <2>3. G \in Nat /\ G > 0
    BY GrainAssumption
  <2>4. /\ x \in Nat /\ y \in Nat
        /\ 2 * current.kwh > 3 * previous.kwh <=> 2 * x > 3 * y
        /\ 2 * current.kwh < previous.kwh <=> 2 * x < y
    <3> DEFINE m == current.kwh
               n == previous.kwh
    <3>1. m \in Nat /\ n \in Nat
      BY <2>2
    <3>2. x = m * G /\ y = n * G
      OBVIOUS
    <3> HIDE DEF m, n, x, y
    <3>3. x \in Nat /\ y \in Nat
      BY <2>3, <3>1, <3>2, SMT
    <3>4. 2 * m > 3 * n => 2 * x > 3 * y
      <4>1. 2 * m > 3 * n => (3 * n + 1) * G <= (2 * m) * G
        BY <2>3, <3>1, Scale, SMT
      <4> QED
        BY <2>3, <3>1, <3>2, <4>1, SMT
    <3>5. 2 * x > 3 * y => 2 * m > 3 * n
      <4>1. 2 * m <= 3 * n => (2 * m) * G <= (3 * n) * G
        BY <2>3, <3>1, Scale, SMT
      <4> QED
        BY <2>3, <3>1, <3>2, <4>1, SMT
    <3>6. 2 * m < n => 2 * x < y
      <4>1. 2 * m < n => (2 * m + 1) * G <= n * G
        BY <2>3, <3>1, Scale, SMT
      <4> QED
        BY <2>3, <3>1, <3>2, <4>1, SMT
    <3>7. 2 * x < y => 2 * m < n
      <4>1. n <= 2 * m => n * G <= (2 * m) * G
        BY <2>3, <3>1, Scale, SMT
      <4> QED
        BY <2>3, <3>1, <3>2, <4>1, SMT
    <3> QED
      BY <3>3, <3>4, <3>5, <3>6, <3>7 DEF m, n
  <2>5. /\ TimeFactor(p) \in {6, 10, 13, 15} /\ TimeFactor(c) \in {6, 10, 13, 15}
        /\ baseLoad \in 200 * G .. 1000 * G
        /\ Around(x, baseLoad, TimeFactor(c)) /\ Around(y, baseLoad, TimeFactor(p))
    BY <2>1, <2>2, Factors, RandomAssumption DEF FitsLoad, Around
  <2>6. alarm <=> 2 * x > 3 * y \/ 2 * x < y
    BY <2>1, <2>4, AlarmMeans
  <2>7. goAlarm => alarm
    <3> SUFFICES ASSUME NEW padding \in Padding, DetectAnomaly(current, previous, padding)
                 PROVE  alarm
      OBVIOUS
    <3>1. detect_anomaly(current, previous) # ERROR_NONE
      BY SMT DEF DetectAnomaly, ToError, is_valid, Padding
    <3> QED
      BY <3>1 DEF detect_anomaly
  <2> DEFINE f == TimeFactor(c)
             g == TimeFactor(p)
  <2>8. /\ 2 * x > 3 * y => <<g, f>> \in {<<6, 10>>, <<6, 13>>, <<6, 15>>, <<10, 13>>, <<10, 15>>}
        /\ 2 * x < y => g > f /\ <<g, f>> # <<15, 10>> /\ <<g, f>> # <<13, 10>>
        /\ g = 6 /\ f = 13 => 2 * x > 3 * y
    BY <2>4, <2>5, EnergySteps
  <2>9. /\ c # p /\ c = 6 => g = 6 /\ f = 13
        /\ \/ f = g
           \/ c # p /\ c \in {0, 6, 18}
           \/ c # p /\ <<g, f>> \in {<<13, 10>>, <<15, 10>>}
    BY <2>1, <2>2, FactorSteps
  <2>10. f \in Int /\ g \in Int
    BY <2>5
  <2> HIDE DEF alarm, goAlarm, c, p, x, y, f, g
  <2>11. alarm => c # p /\ c \in {0, 6, 18}
    BY <2>6, <2>8, <2>9, <2>10
  <2>12. c # p /\ c = 6 => alarm
    BY <2>6, <2>8, <2>9
  <2> QED
    BY <2>7, <2>11, <2>12 DEF alarm, goAlarm, c, p
<1>2. IInv => AlarmsExplained
  BY <1>1 DEF AlarmsExplained
<1> QED
  BY <1>2, Inductive, PTL
=============================================================================
