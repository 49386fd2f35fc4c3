\* Three readers, among them validateTransaction in main, and four executions.
CONSTANTS
    r1 = r1  r2 = r2  r3 = r3
    Readers = {r1, r2, r3}
    NumExecutions = 4
    NoState = NoState
SPECIFICATION Spec
INVARIANTS SharedObjectKept NoPhantomHolder
