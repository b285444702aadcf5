------------------------------ MODULE Validator ------------------------------
(***************************************************************************)
(* The validators: the Rust library (rust/src/lib.rs), its Go wrappers     *)
(* (pkg/validator/validator.go) and the Python one                         *)
(* (python/async_collector.py).  A reading shows kWh and amperes in        *)
(* hundredths and volts in tenths, as the meters round them; a result is   *)
(* an error code, ERROR_NONE being the only one with is_valid.             *)
(***************************************************************************)
EXTENDS Integers, Sequences

ERROR_NONE == 0
ERROR_KWH_OUT_OF_RANGE == 1
ERROR_VOLTAGE_OUT_OF_RANGE == 2
ERROR_CURRENT_OUT_OF_RANGE == 3
ERROR_POWER_MISMATCH == 4
ERROR_ANOMALY_DETECTED == 5

InKwhRange(r) == r.kwh \in 0 .. 5000
InVoltageRange(r) == r.voltage \in 2000 .. 2400
InCurrentRange(r) == r.current \in 0 .. 10000

Distance(x, y) == IF x >= y THEN x - y ELSE y - x

\* A slip: the difference is taken without its absolute value.
PowerMismatchAbove(r) ==
    r.voltage * r.current - 10000 * r.kwh > 1500 * r.kwh

\* |V * A / 1000 - kWh| > 0.15 kWh, times ten to the sixth.
PowerMismatch(r) ==
    Distance(r.voltage * r.current, 10000 * r.kwh) > 1500 * r.kwh

validate_reading(r) ==
    IF ~InKwhRange(r) THEN ERROR_KWH_OUT_OF_RANGE
    ELSE IF ~InVoltageRange(r) THEN ERROR_VOLTAGE_OUT_OF_RANGE
    ELSE IF ~InCurrentRange(r) THEN ERROR_CURRENT_OUT_OF_RANGE
    ELSE IF PowerMismatch(r) THEN ERROR_POWER_MISMATCH
    ELSE ERROR_NONE

\* The readings of a slice one by one; Go passes no empty one.
validate_batch(readings) ==
    [i \in DOMAIN readings |-> validate_reading(readings[i])]

\* |(c - p) / p| > limit / 10.  A change from zero to zero is not a number, and
\* no more than any limit.
Changed(c, p, limit) == 10 * Distance(c, p) > limit * p

\* A slip: the limits of energy and voltage are swapped.
detect_anomaly_swapped(current, previous) ==
    IF \/ Changed(current.kwh, previous.kwh, 1)
       \/ Changed(current.voltage, previous.voltage, 5)
    THEN ERROR_ANOMALY_DETECTED
    ELSE ERROR_NONE

detect_anomaly(current, previous) ==
    IF \/ Changed(current.kwh, previous.kwh, 5)
       \/ Changed(current.voltage, previous.voltage, 1)
    THEN ERROR_ANOMALY_DETECTED
    ELSE ERROR_NONE

-----------------------------------------------------------------------------
(***************************************************************************)
(* The Go wrappers declare is_valid a C int where Rust has a bool of one   *)
(* byte: the other bytes are padding, which Rust need not write.  An error *)
(* is the pair of a flag and a code; `padding' is what those bytes hold.   *)
(***************************************************************************)
Padding == {0, 1}

is_valid(code, padding) == (IF code = ERROR_NONE THEN 1 ELSE 0) + 256 * padding

ToError(code, padding) == is_valid(code, padding) = 0

ValidateReading(r, padding) == ToError(validate_reading(r), padding)

\* Of each reading, whether it has an error; no answer for an empty slice.
ValidateBatch(readings, padding) ==
    IF readings = <<>> THEN "error"
    ELSE [i \in DOMAIN readings |-> ToError(validate_batch(readings)[i], padding)]

DetectAnomaly(current, previous, padding) ==
    ToError(detect_anomaly(current, previous), padding)

-----------------------------------------------------------------------------
\* The checks of the Python validator; it raises the first that fails.
PyFails(r) ==
    { c \in 1 .. 4 :
        \/ c = ERROR_KWH_OUT_OF_RANGE /\ (r.kwh < 0 \/ r.kwh > 5000)
        \/ c = ERROR_VOLTAGE_OUT_OF_RANGE /\ (r.voltage < 2000 \/ r.voltage > 2400)
        \/ c = ERROR_CURRENT_OUT_OF_RANGE /\ (r.current < 0 \/ r.current > 10000)
        \/ c = ERROR_POWER_MISMATCH
           /\ Distance(r.voltage * r.current, 10000 * r.kwh) > 1500 * r.kwh }

PyRaises(r) == PyFails(r) # {}
=============================================================================
