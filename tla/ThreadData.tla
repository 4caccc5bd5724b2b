------------------------------- MODULE ThreadData -------------------------------
(***************************************************************************)
(* The data each thread has of the C runtime (errno, strtok, the state of  *)
(* the language libraries), as built for Windows NT: the list of thread    *)
(* data in clib/mthread/c/trdlist.c, the start and end of threads          *)
(* (thredwnt.c; _LibMain for a DLL), __RegisterThreadDataSize, by which a  *)
(* library that is loaded asks for room in the data of every thread, and   *)
(* the end of the program (__FiniSema4s).                                  *)
(*                                                                         *)
(* A thread takes the semaphore of the list, or the lock under which       *)
(* Windows calls the entry points of DLLs, in one step, and does what it   *)
(* does under it in the steps that another thread could tell apart.        *)
(***************************************************************************)
EXTENDS Naturals, FiniteSets, SequencesExt, FiniteSetsExt

CONSTANTS
    Threads,    \* thread ids, which Windows gives to a new thread again
    Main,       \* the thread that runs the initializers
    Earlier,    \* the threads that are there before the DLL is loaded
    NoThread,
    MaxSize,    \* bound: of __ThreadDataSize, in registrations
    MaxEntries, \* bound: entries when a thread is created that will leave its own
    ExitAlone   \* exit is called when no other thread is left

ASSUME ThreadDataAssumption ==
    /\ Main \in Threads /\ Earlier \subseteq Threads \ {Main}
    /\ NoThread \notin Threads /\ IsFiniteSet(Threads)
    /\ {MaxSize, MaxEntries} \subseteq Nat \ {0} /\ ExitAlone \in BOOLEAN

VARIABLES
    Is_DLL,          \* the runtime is a DLL, or linked with the program
    ThreadDataSize,
    list,            \* the entries linked from __thread_data_list
    entry,           \* the thread_data_list structures there are
    data,            \* the thread_data structures there are
    tls,             \* what TlsGetValue gives each thread
    pc, mine,        \* the next statement, and the data the thread adds
    foreign,         \* the threads the runtime does not know, or attached to in vain
    tdl,             \* of each call of __FreeThreadDataList: the entry to free
    held,            \* the locks each thread has
    wild,            \* history: freed memory was read, written or freed
    over             \* ExitProcess was called, by exit or for a fatal error

shared == <<ThreadDataSize, list, entry, data>>
vars == <<Is_DLL, shared, tls, pc, mine, foreign, tdl, held, wild, over>>

NULL == 0
Objects == {"TDList", "Loader"}
Locks == INSTANCE ReentrantLocks

Labels == {"none", "idle", "alloc", "add", "link", "added", "failed", "attached",
           "realloc", "resize", "resized", "register", "grow", "mark",
           "registered", "detach", "remove", "find", "unlink", "removed", "fini"}

Exiting == \E t \in Threads : pc[t] = "fini"

\* Every structure, list and call is of its kind; until exit frees them, each entry
\* is listed, once.
TypeOK ==
    /\ Is_DLL \in BOOLEAN /\ ThreadDataSize \in 1..MaxSize
    /\ list \in Seq(Nat) /\ IsInjective(list)
    /\ ~Exiting => ToSet(list) = DOMAIN entry
    /\ \A e \in DOMAIN entry :
          entry[e] \in [tid : Threads, data : Nat \ {NULL}, allocated : BOOLEAN]
    /\ \A d \in DOMAIN data :
          data[d] \in [size : 1..MaxSize, resize : BOOLEAN, stack : Threads \cup {NoThread}]
    /\ tls \in [Threads -> Nat] /\ mine \in [Threads -> Nat]
    /\ pc \in [Threads -> Labels] /\ foreign \subseteq Threads
    /\ tdl \in [Threads -> Nat] /\ wild \in BOOLEAN /\ over \in BOOLEAN
    /\ held \in [Threads -> [Objects -> 0..2]]

\* The main thread's data is on its stack in a program (__NTMain) and on the
\* heap in a DLL; __InitMultipleThread has put it on the list.
Init ==
    /\ Is_DLL \in BOOLEAN
    /\ ThreadDataSize = 1
    /\ data = [d \in {1} |-> [size |-> 1, resize |-> FALSE,
                           stack |-> IF Is_DLL THEN NoThread ELSE Main]]
    /\ entry = [e \in {1} |-> [tid |-> Main, data |-> 1, allocated |-> Is_DLL]]
    /\ list = <<1>>
    /\ tls = [t \in Threads |-> IF t = Main THEN 1 ELSE NULL]
    /\ foreign = IF Is_DLL THEN Earlier ELSE {}
    /\ pc = [t \in Threads |-> IF t \in {Main} \cup foreign THEN "idle" ELSE "none"]
    /\ mine = [t \in Threads |-> NULL]
    /\ tdl = [t \in Threads |-> NULL]
    /\ held = [t \in Threads |-> [o \in Objects |-> 0]]
    /\ wild = FALSE /\ over = FALSE

At(t, label) == ~over /\ pc[t] = label
Goto(t, label) == pc' = [pc EXCEPT ![t] = label]

\* A structure the heap gives: one that nothing points to any more.
Unused(used) == CHOOSE n \in 1..(Cardinality(used) + 1) : n \notin used
NewData == Unused(DOMAIN data \cup Range(tls) \cup Range(mine)
                    \cup {entry[e].data : e \in DOMAIN entry})
NewEntry == Unused(DOMAIN entry \cup ToSet(list) \cup Range(tdl))

\* f with v for k, and f without k.
With(f, k, v) == [x \in DOMAIN f \cup {k} |-> IF x = k THEN v ELSE f[x]]
Without(f, k) == [x \in DOMAIN f \ {k} |-> f[x]]
Zeroed(t) == [size |-> ThreadDataSize, resize |-> FALSE, stack |-> t]

\* The first entry that t finds of its own, NULL when the search reaches the end.
Place(t) == SelectInSeq(list, LAMBDA e : e \in DOMAIN entry /\ entry[e].tid = t)
Entry(t) == IF Place(t) = 0 THEN NULL ELSE list[Place(t)]

\* A walk of the list, to the entry e or to its end, reads what is freed.
WildWalk(e) ==
    \E i \in DOMAIN list : /\ list[i] \notin DOMAIN entry
                           /\ e = NULL \/ \A j \in 1..i : list[j] # e

\* __fatal_runtime_error
Fatal == over' = TRUE /\ UNCHANGED <<Is_DLL, shared, tls, pc, mine, foreign, tdl, held, wild>>

-------------------------------------------------------------------------------
(***************************************************************************)
(* Threads start.                                                          *)
(***************************************************************************)
\* __CBeginThread: begin_thread_helper puts the data on the thread's stack.
Begin(t) ==
    /\ ~Is_DLL /\ At(t, "none")
    /\ data' = With(data, NewData, Zeroed(t))
    /\ mine' = [mine EXCEPT ![t] = NewData]
    /\ foreign' = foreign \ {t}
    /\ Goto(t, "add")
    /\ UNCHANGED <<Is_DLL, ThreadDataSize, list, entry, tls, tdl, held, wild, over>>

\* CreateThread in a program: the runtime learns of the thread when it calls.
Create(t) ==
    /\ ~Is_DLL /\ At(t, "none") /\ Len(list) < MaxEntries
    /\ foreign' = foreign \cup {t}
    /\ Goto(t, "idle")
    /\ UNCHANGED <<Is_DLL, shared, tls, mine, tdl, held, wild, over>>

\* DLL_THREAD_ATTACH, which Windows calls in the new thread, under its lock.
Attach(t) ==
    /\ Is_DLL /\ At(t, "none")
    /\ Locks!Lock(t, "Loader")
    /\ foreign' = foreign \ {t}
    /\ Goto(t, "alloc")
    /\ UNCHANGED <<Is_DLL, shared, tls, mine, tdl, wild, over>>

Attached(t) ==
    /\ At(t, "attached")
    /\ Locks!Unlock(t, "Loader")
    /\ Goto(t, "idle")
    /\ UNCHANGED <<Is_DLL, shared, tls, mine, foreign, tdl, wild, over>>

(***************************************************************************)
(* __MultipleThread, on each use of the data: a thread without data gets   *)
(* some (__GetThreadData), one whose data was marked has it reallocated.   *)
(***************************************************************************)
MultipleThread(t) ==
    /\ At(t, "idle")
    /\ \/ tls[t] = NULL /\ Goto(t, "alloc") /\ UNCHANGED wild
       \/ tls[t] \in DOMAIN data /\ data[tls[t]].resize
            /\ Goto(t, "realloc") /\ UNCHANGED wild
       \/ tls[t] \notin DOMAIN data \cup {NULL}
            /\ wild' = TRUE /\ UNCHANGED pc
    /\ UNCHANGED <<Is_DLL, shared, tls, mine, foreign, tdl, held, over>>

\* Without memory a DLL goes on (Windows ignores the FALSE of DLL_THREAD_ATTACH)
\* and the thread is tried again when it calls; __GetThreadData gives up then.
AddFails(t) ==
    IF t \in foreign THEN Fatal
    ELSE /\ foreign' = foreign \cup {t}
         /\ Goto(t, "attached")
         /\ UNCHANGED <<Is_DLL, shared, tls, mine, tdl, held, wild, over>>

\* __AllocInitThreadData
Alloc(t) ==
    /\ At(t, "alloc")
    /\ \/ /\ data' = With(data, NewData, Zeroed(NoThread))
          /\ mine' = [mine EXCEPT ![t] = NewData]
          /\ Goto(t, "add")
          /\ UNCHANGED <<Is_DLL, ThreadDataSize, list, entry, tls, foreign, tdl, held,
                         wild, over>>
       \/ AddFails(t)

\* __AddThreadData
Add(t) ==
    /\ At(t, "add")
    /\ Locks!Lock(t, "TDList")
    /\ Goto(t, "link")
    /\ UNCHANGED <<Is_DLL, shared, tls, mine, foreign, tdl, wild, over>>

\* Mutant: __AddThreadData links the entry at the end of the list.
LinkLast(t) ==
    /\ At(t, "link")
    /\ entry' = With(entry, NewEntry, [tid |-> t, data |-> mine[t],
                                       allocated |-> data[mine[t]].stack = NoThread])
    /\ list' = Append(list, NewEntry)
    /\ Goto(t, "added")
    /\ UNCHANGED <<Is_DLL, ThreadDataSize, data, tls, mine, foreign, tdl, held, wild, over>>

Link(t) ==
    /\ At(t, "link")
    /\ \/ /\ entry' = With(entry, NewEntry,
                             [tid |-> t, data |-> mine[t],
                              allocated |-> data[mine[t]].stack = NoThread])
          /\ list' = <<NewEntry>> \o list
          /\ Goto(t, "added")
       \/ UNCHANGED <<entry, list>> /\ Goto(t, "failed")
    /\ UNCHANGED <<Is_DLL, ThreadDataSize, data, tls, mine, foreign, tdl, held, wild, over>>

\* Where the thread goes on that has been added, or could not be.
Runs(t) == IF Is_DLL /\ t \notin foreign THEN "attached" ELSE "idle"

\* __NTAddThread, when __AddThreadData returns TRUE ...
Added(t) ==
    /\ At(t, "added")
    /\ Locks!Unlock(t, "TDList")
    /\ tls' = [tls EXCEPT ![t] = mine[t]]
    /\ mine' = [mine EXCEPT ![t] = NULL]
    /\ Goto(t, Runs(t))
    /\ UNCHANGED <<Is_DLL, shared, foreign, tdl, wild, over>>

\* ... or FALSE: the data is freed, and a thread of _beginthread is not run.
Failed(t) ==
    /\ At(t, "failed")
    /\ Locks!Unlock(t, "TDList")
    /\ data' = Without(data, mine[t])
    /\ mine' = [mine EXCEPT ![t] = NULL]
    /\ over' = (t \in foreign)
    /\ foreign' = foreign \cup {t}
    /\ Goto(t, IF Is_DLL THEN Runs(t) ELSE "none")
    /\ UNCHANGED <<Is_DLL, ThreadDataSize, list, entry, tls, tdl, wild>>

(***************************************************************************)
(* __ReallocThreadData                                                     *)
(***************************************************************************)
Realloc(t) ==
    /\ At(t, "realloc")
    /\ Locks!Lock(t, "TDList")
    /\ Goto(t, "resize")
    /\ UNCHANGED <<Is_DLL, shared, tls, mine, foreign, tdl, wild, over>>

\* Mutant: the entry keeps the data that was moved.
ResizeSlotOnly(t) ==
    LET e == Entry(t)
    IN  /\ At(t, "resize") /\ e # NULL
        /\ data' = With(Without(data, entry[e].data), NewData, Zeroed(NoThread))
        /\ tls' = [tls EXCEPT ![t] = NewData]
        /\ Goto(t, "resized")
        /\ UNCHANGED <<Is_DLL, ThreadDataSize, list, entry, mine, foreign, tdl, held, wild, over>>

\* The new data takes the place of the old in the entry and in the thread's slot;
\* data on the stack stays there, data on the heap is freed by lib_realloc.
Resize(t) ==
    LET e == Entry(t)
        kept == IF entry[e].allocated THEN Without(data, entry[e].data) ELSE data
    IN  /\ At(t, "resize") /\ e # NULL
        /\ data' = With(kept, NewData, Zeroed(NoThread))
        /\ entry' = [entry EXCEPT ![e].data = NewData, ![e].allocated = TRUE]
        /\ tls' = [tls EXCEPT ![t] = NewData]
        /\ wild' = (wild \/ WildWalk(e) \/ entry[e].data \notin DOMAIN data)
        /\ Goto(t, "resized")
        /\ UNCHANGED <<Is_DLL, ThreadDataSize, list, mine, foreign, tdl, held, over>>

\* "Thread has no thread-specific data", "Unable to resize thread-specific data"
ResizeFails(t) == At(t, "resize") /\ Fatal

Resized(t) ==
    /\ At(t, "resized")
    /\ Locks!Unlock(t, "TDList")
    /\ Goto(t, "idle")
    /\ UNCHANGED <<Is_DLL, shared, tls, mine, foreign, tdl, wild, over>>

(***************************************************************************)
(* __RegisterThreadDataSize, which initializers call: those of a program   *)
(* before any thread has data (INIT_PRIORITY_THREAD), those of a DLL that  *)
(* a thread loads under the lock of Windows.                               *)
(***************************************************************************)
LoadLibrary(t) ==
    /\ Is_DLL /\ At(t, "idle") /\ ThreadDataSize < MaxSize
    /\ Locks!Lock(t, "Loader")
    /\ Goto(t, "register")
    /\ UNCHANGED <<Is_DLL, shared, tls, mine, foreign, tdl, wild, over>>

Register(t) ==
    /\ At(t, "register")
    /\ Locks!Lock(t, "TDList")
    /\ Goto(t, "grow")
    /\ UNCHANGED <<Is_DLL, shared, tls, mine, foreign, tdl, wild, over>>

\* The size grows, and __ResizeThreadDataList takes the semaphore again.
Grow(t) ==
    /\ At(t, "grow")
    /\ ThreadDataSize' = ThreadDataSize + 1
    /\ Locks!Lock(t, "TDList")
    /\ Goto(t, "mark")
    /\ UNCHANGED <<Is_DLL, list, entry, data, tls, mine, foreign, tdl, wild, over>>

\* Mutant: the first entry, of the thread added last, is passed over.
MarkedButFirst == {entry[e].data : e \in ToSet(Tail(list)) \cap DOMAIN entry}

\* __ResizeThreadDataList marks the data of every entry, and returns.
Marked == {entry[e].data : e \in ToSet(list) \cap DOMAIN entry}

Mark(t) ==
    /\ At(t, "mark")
    /\ data' = [d \in DOMAIN data |->
                   IF d \in Marked THEN [data[d] EXCEPT !.resize = TRUE] ELSE data[d]]
    /\ wild' = (wild \/ WildWalk(NULL) \/ ~(Marked \subseteq DOMAIN data))
    /\ Locks!Unlock(t, "TDList")
    /\ Goto(t, "registered")
    /\ UNCHANGED <<Is_DLL, ThreadDataSize, list, entry, tls, mine, foreign, tdl, over>>

Registered(t) ==
    /\ At(t, "registered")
    /\ Locks!Unlock(t, "TDList")
    /\ Goto(t, "attached")
    /\ UNCHANGED <<Is_DLL, shared, tls, mine, foreign, tdl, wild, over>>

-------------------------------------------------------------------------------
(***************************************************************************)
(* Threads end.                                                            *)
(***************************************************************************)
\* _endthread, and the return of a function given to _beginthread.
EndThread(t) ==
    /\ ~Is_DLL /\ At(t, "idle") /\ t \notin foreign \cup {Main}
    /\ Goto(t, "remove")
    /\ UNCHANGED <<Is_DLL, shared, tls, mine, foreign, tdl, held, wild, over>>

\* A thread of CreateThread ends, and nobody tells the runtime of a program.
Leave(t) ==
    /\ ~Is_DLL /\ At(t, "idle") /\ t \in foreign
    /\ tls' = [tls EXCEPT ![t] = NULL]
    /\ Goto(t, "none")
    /\ UNCHANGED <<Is_DLL, shared, mine, foreign, tdl, held, wild, over>>

\* DLL_THREAD_DETACH, which Windows calls in every thread that ends.
Detach(t) ==
    /\ Is_DLL /\ At(t, "idle") /\ t # Main
    /\ Locks!Lock(t, "Loader")
    /\ Goto(t, "detach")
    /\ UNCHANGED <<Is_DLL, shared, tls, mine, foreign, tdl, wild, over>>

\* __NTRemoveThread returns when the thread has no data.
Detached(t) ==
    /\ At(t, "detach")
    /\ IF tls[t] # NULL THEN Goto(t, "remove") /\ UNCHANGED held
                        ELSE Locks!Unlock(t, "Loader") /\ Goto(t, "none")
    /\ UNCHANGED <<Is_DLL, shared, tls, mine, foreign, tdl, wild, over>>

\* __NTRemoveThread reads the data, and calls __RemoveThreadData.
RemoveThread(t) ==
    /\ At(t, "remove")
    /\ Locks!Lock(t, "TDList")
    /\ wild' = (wild \/ tls[t] \notin DOMAIN data)
    /\ Goto(t, "find")
    /\ UNCHANGED <<Is_DLL, shared, tls, mine, foreign, tdl, over>>

Find(t) ==
    LET e == Entry(t)
    IN  /\ At(t, "find")
        /\ IF e # NULL /\ entry[e].allocated
           THEN /\ data' = Without(data, entry[e].data)
                /\ wild' = (wild \/ WildWalk(e) \/ entry[e].data \notin DOMAIN data)
           ELSE /\ UNCHANGED data
                /\ wild' = (wild \/ WildWalk(e))
        /\ Goto(t, IF e = NULL THEN "removed" ELSE "unlink")
        /\ UNCHANGED <<Is_DLL, ThreadDataSize, list, entry, tls, mine, foreign, tdl, held, over>>

\* Mutant: the entry is freed and stays linked.
UnlinkFreeOnly(t) ==
    /\ At(t, "unlink")
    /\ entry' = Without(entry, Entry(t))
    /\ Goto(t, "removed")
    /\ UNCHANGED <<Is_DLL, ThreadDataSize, list, data, tls, mine, foreign, tdl, held, wild, over>>

Unlink(t) ==
    LET e == Entry(t)
    IN  /\ At(t, "unlink")
        /\ list' = RemoveAt(list, Place(t))
        /\ entry' = Without(entry, e)
        /\ wild' = (wild \/ e = NULL)
        /\ Goto(t, "removed")
        /\ UNCHANGED <<Is_DLL, ThreadDataSize, data, tls, mine, foreign, tdl, held, over>>

\* The thread's slot is cleared; in a program the thread ends, with all that is on
\* its stack, in a DLL when DLL_THREAD_DETACH returns.
Removed(t) ==
    /\ At(t, "removed")
    /\ Locks!Unlock(t, "TDList")
    /\ tls' = [tls EXCEPT ![t] = NULL]
    /\ IF Is_DLL
       THEN Goto(t, "detach") /\ UNCHANGED data
       ELSE /\ Goto(t, "none")
            /\ data' = [d \in {d \in DOMAIN data : data[d].stack # t} |-> data[d]]
    /\ UNCHANGED <<Is_DLL, ThreadDataSize, list, entry, mine, foreign, tdl, wild, over>>

(***************************************************************************)
(* exit of a program.                                                      *)
(***************************************************************************)
\* __FiniSema4s calls __FreeThreadDataList, without a semaphore; it is not marked
\* as run before it returns, so that a second exit meanwhile calls it again.
Exit(t) ==
    /\ ~Is_DLL /\ At(t, "idle")
    /\ ExitAlone => \A u \in Threads \ {t} : pc[u] = "none"
    /\ tdl' = [tdl EXCEPT ![t] = IF list = <<>> THEN NULL ELSE Head(list)]
    /\ Goto(t, "fini")
    /\ UNCHANGED <<Is_DLL, shared, tls, mine, foreign, held, wild, over>>

\* tdl->next
Following(e) ==
    LET i == SelectInSeq(list, LAMBDA x : x = e)
    IN  IF i \in {0, Len(list)} THEN NULL ELSE list[i + 1]

FreeEntry(t) ==
    /\ At(t, "fini") /\ tdl[t] # NULL
    /\ IF tdl[t] \in DOMAIN entry
       THEN LET d == entry[tdl[t]].data IN
            /\ data' = IF entry[tdl[t]].allocated THEN Without(data, d) ELSE data
            /\ wild' = (wild \/ (entry[tdl[t]].allocated /\ d \notin DOMAIN data))
            /\ entry' = Without(entry, tdl[t])
            /\ tdl' = [tdl EXCEPT ![t] = Following(@)]
       ELSE wild' = TRUE /\ UNCHANGED <<data, entry, tdl>>
    /\ UNCHANGED <<Is_DLL, ThreadDataSize, list, tls, pc, mine, foreign, held, over>>

\* __NTThreadFini gives the slots back, and ExitProcess ends the other threads.
ExitProcess(t) ==
    /\ At(t, "fini") /\ tdl[t] = NULL
    /\ over' = TRUE
    /\ UNCHANGED <<Is_DLL, shared, tls, pc, mine, foreign, tdl, held, wild>>

Step(t) ==
    \/ Begin(t) \/ Create(t) \/ Attach(t) \/ Attached(t)
    \/ MultipleThread(t) \/ Alloc(t) \/ Add(t) \/ Link(t) \/ Added(t) \/ Failed(t)
    \/ Realloc(t) \/ Resize(t) \/ ResizeFails(t) \/ Resized(t)
    \/ LoadLibrary(t) \/ Register(t) \/ Grow(t) \/ Mark(t) \/ Registered(t)
    \/ EndThread(t) \/ Leave(t) \/ Detach(t) \/ Detached(t)
    \/ RemoveThread(t) \/ Find(t) \/ Unlink(t) \/ Removed(t)
    \/ Exit(t) \/ FreeEntry(t) \/ ExitProcess(t)

Over == over /\ UNCHANGED vars

Next == Over \/ \E t \in Threads : Step(t)

Spec == Init /\ [][Next]_vars

-------------------------------------------------------------------------------
(***************************************************************************)
(* Properties.                                                             *)
(***************************************************************************)
\* No walk of the list, no marking, moving or freeing of data, and no use of its
\* data by a thread meets memory that was freed.
FreedIsLeft == ~wild

\* A thread outside the statements that remove it finds its own data under its
\* id, though entries of threads that ended untold stay there under that id; data
\* on the heap has one owner, which will free it: an entry or the thread that is
\* adding it.
Owners(d) ==
    {e \in DOMAIN entry : entry[e].data = d /\ entry[e].allocated}
Adding == {t \in Threads : pc[t] \in {"add", "link", "failed"}}
OwnData ==
    /\ \A t \in Threads :
          tls[t] # NULL /\ pc[t] \notin {"unlink", "removed"} /\ ~Exiting =>
             /\ Entry(t) # NULL /\ entry[Entry(t)].data = tls[t]
             /\ tls[t] \in DOMAIN data
    /\ \A d \in DOMAIN data : data[d].stack = NoThread =>
          Cardinality(Owners(d)) + Cardinality({t \in Adding : mine[t] = d}) = 1

\* The data of a thread has room for every library whose registration has ended,
\* or is marked for its thread to reallocate: but not always that of a thread of
\* the Earlier ones, which gets its data outside of the lock of Windows.
DataFits ==
    \A t \in Threads \ foreign :
        tls[t] \in DOMAIN data /\ (\A u \in Threads : pc[u] # "mark") =>
            data[tls[t]].resize \/ data[tls[t]].size = ThreadDataSize
===============================================================================
