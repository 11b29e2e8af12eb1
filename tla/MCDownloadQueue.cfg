SPECIFICATION QSpec
CONSTANTS
    t1 = t1
    t2 = t2
    t3 = t3
    Task <- MCTask
    Id <- MCTask
    idOf <- MCidOf
    Slots = 2
    MaxReorders = 1
INVARIANTS
    QTypeOK
    SlotsConserved
    WaitingIsExact
    NoLostWakeup
PROPERTIES
    EventuallyAdmitted
    ImplementsAdmission
