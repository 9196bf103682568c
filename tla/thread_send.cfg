SPECIFICATION FairSpec
CONSTANTS
    a = a
    b = b
    x = x
    y = y
    z = z
    Thread = {a, b}
    Handler = {x, y, z}
    Home <- ThreeHomes
    Quit = quit
    Nobody = nobody
    MaxCalls = 3
INVARIANTS ReadyIsAlive SleepIsJustified DeadIsNotCalled
PROPERTIES  QueuesAreServed
CHECK_DEADLOCK FALSE
