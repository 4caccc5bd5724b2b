SPECIFICATION Spec
CONSTANTS
    Threads = {main, t1}
    Main = main
    Earlier = {}
    NoThread = NoThread
    MaxSize = 2
    MaxEntries = 2
    ExitAlone = FALSE
INVARIANT FreedIsLeft
