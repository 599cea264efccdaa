SPECIFICATION Spec
CONSTANTS
    MaxMeter = 4
    MaxRows = 2
    MaxFaults = 1
    Failing <- WhileRunning
    Garbled <- OnlyProgress
    MaxSessionEnergy = 4
    HasConnectionTimer = TRUE
    NoReading = NoReading
    NoSession = NoSession
INVARIANTS TypeOK SessionsPlausible BooksWhatItSaw NotifiedInTurn
PROPERTY ImplementsLedger
CHECK_DEADLOCK FALSE
