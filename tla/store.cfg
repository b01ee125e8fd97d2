SPECIFICATION Spec
CONSTANTS
    r1 = r1
    d1 = d1
    Runs <- MCRuns
    Demo = d1
    Requests = {q1, q2}
    Tickets = {"T1", "T2", "T3"}
    Work <- MCWork
    MaxCalls = 1
    MaxCrashes = 1
    Nobody = Nobody
    NoRow = NoRow
    Broken = Broken
INVARIANTS
    StoreTypeOK
    CallsBacked
    RateWithinOne
    ExportCovers
SYMMETRY MCSymmetry
