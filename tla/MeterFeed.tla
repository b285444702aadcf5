------------------------------ MODULE MeterFeed ------------------------------
(***************************************************************************)
(* An emulated meter (pkg/meter/meter.go, and its twin in                  *)
(* python/async_collector.py), read again and again over the day, and what *)
(* the validators say of its readings.  The random parts of a reading are  *)
(* multiples of a grain 1/G of their unit: for a large G as fine as one    *)
(* likes.  Rounding to the digits a reading shows is exact; the rounding   *)
(* of floating point numbers is not modelled.                              *)
(***************************************************************************)
EXTENDS Validator

CONSTANTS
    G,           \* grains per unit
    BaseLoads,   \* base loads, in hundredths of a kWh
    Noises,      \* noise, in percent
    Voltages,    \* the voltage before rounding, in tenths of a volt
    NoReading

ASSUME GrainAssumption == G \in Nat \ {0}
ASSUME RandomAssumption ==
    /\ BaseLoads \subseteq 200 * G .. 1000 * G
    /\ Noises \subseteq -(10 * G) .. 10 * G
    /\ Voltages \subseteq 2150 * G .. 2250 * G

VARIABLES
    baseLoad,   \* of the meter
    hour,       \* of the clock
    current,    \* the last reading, with the hour it was made
    previous    \* the one before

vars == <<baseLoad, hour, current, previous>>

\* In tenths.
TimeFactor(h) ==
    CASE h \in 6 .. 8   -> 13
      [] h \in 18 .. 21 -> 15
      [] h \in 0 .. 5   -> 6
      [] OTHER          -> 10

\* The integers nearest to a / b: two when a / b is halfway.
Roundings(a, b) == {n \in {a \div b, a \div b + 1} : 2 * Distance(n * b, a) <= b}

\* A slip: the noise is ten times too large.
EnergyNoisy(factor, noise) == baseLoad * factor * (100 * G + 10 * noise)

\* The energy is base load * factor * (1 + noise), over 1000 * G * G here; the
\* current is the energy over the voltage.  Each is rounded on its own.
Energy(factor, noise) == baseLoad * factor * (100 * G + noise)

\* A slip: the current is that of the base load.
ReadingsOfBaseLoad(h, noise, volts) ==
    [ kwh     : Roundings(Energy(TimeFactor(h), noise), 1000 * G * G),
      voltage : Roundings(volts, G),
      current : Roundings(10 * Energy(10, noise), G * volts),
      hour    : {h} ]

Readings(h, noise, volts) ==
    [ kwh     : Roundings(Energy(TimeFactor(h), noise), 1000 * G * G),
      voltage : Roundings(volts, G),
      current : Roundings(10 * Energy(TimeFactor(h), noise), G * volts),
      hour    : {h} ]

Init ==
    /\ baseLoad \in BaseLoads
    /\ hour \in 0 .. 23
    /\ current = NoReading /\ previous = NoReading

GenerateReading ==
    /\ \E noise \in Noises, volts \in Voltages :
          \E r \in Readings(hour, noise, volts) : current' = r
    /\ previous' = current
    /\ UNCHANGED <<baseLoad, hour>>

\* The clock; meters are read every few seconds, at least once in an hour.
HourPasses ==
    /\ current # NoReading /\ current.hour = hour
    /\ hour' = (hour + 1) % 24
    /\ UNCHANGED <<baseLoad, current, previous>>

Next == GenerateReading \/ HourPasses

Spec == Init /\ [][Next]_vars
-----------------------------------------------------------------------------
Shown == {current, previous} \ {NoReading}

\* What the meter shows stays within what its base load allows.
TypeOK ==
    /\ baseLoad \in BaseLoads
    /\ hour \in 0 .. 23
    /\ \A r \in Shown :
          /\ r.kwh \in 108 .. 1650
          /\ r.voltage \in 2150 .. 2250
          /\ r.current \in 480 .. 7675
          /\ r.hour \in 0 .. 23

\* No validator refuses what a meter shows, although energy, voltage and current
\* are rounded one by one: not the Rust library, not the Python one, and not the
\* Go wrappers, whatever the padding holds.
GeneratedAccepted ==
    \A r \in Shown :
        /\ validate_reading(r) = ERROR_NONE
        /\ ~PyRaises(r)
        /\ \A padding \in Padding :
              /\ ~ValidateReading(r, padding)
              /\ \A i \in 1 .. 2 : ~ValidateBatch(<<r, r>>, padding)[i]

\* A reading of this meter whose amperes are wrong by a fifth or more, either way,
\* is refused by the Rust library and by the Python validator; the Go wrappers, alone
\* and in a batch, report it exactly when the bytes that Rust need not write are zero,
\* and let it pass when they are not (validate_reading, lines 63-72; validator.go:15,
\* 50 and 89 against lib.rs:13).
WrongCurrentRefused ==
    \A r \in Shown : \A percent \in {0, 50, 80, 120, 150} :
        LET wrong == [r EXCEPT !.current = (@ * percent) \div 100
                                           + (IF percent > 100 THEN 1 ELSE 0)]
        IN /\ validate_reading(wrong) # ERROR_NONE /\ PyRaises(wrong)
           /\ \A padding \in Padding :
                 /\ ValidateReading(wrong, padding) <=> padding = 0
                 /\ ValidateBatch(<<r, wrong>>, padding)[2] <=> padding = 0

\* A healthy meter is called anomalous only when the hour turns to one where
\* the load rises by half or falls by more than a third, and always at six in
\* the morning, when it more than doubles (detect_anomaly, lines 115-129, and
\* the Go wrapper, which may miss an alarm but adds none).
AlarmsExplained ==
    current # NoReading /\ previous # NoReading =>
        LET alarm == detect_anomaly(current, previous) = ERROR_ANOMALY_DETECTED
            goAlarm == \E padding \in Padding : DetectAnomaly(current, previous, padding)
            turned == current.hour # previous.hour
        IN /\ alarm \/ goAlarm => turned /\ current.hour \in {0, 6, 18}
           /\ turned /\ current.hour = 6 => alarm
=============================================================================
