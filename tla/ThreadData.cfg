SPECIFICATION Spec
CONSTANTS
    Threads = {main, t1, t2}
    Main = main
    Earlier = {t2}
    NoThread = NoThread
    MaxSize = 3
    MaxEntries = 2
    ExitAlone = TRUE
INVARIANT TypeOK
INVARIANT FreedIsLeft
INVARIANT OwnData
INVARIANT DataFits
