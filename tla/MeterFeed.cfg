SPECIFICATION Spec
CONSTANTS
    G = 1
    BaseLoads <- SomeLoads
    Noises <- SomeNoises
    Voltages <- SomeVoltages
    NoReading = NoReading
INVARIANTS
    TypeOK
    GeneratedAccepted
    WrongCurrentRefused
    AlarmsExplained
