--------------------------------- MODULE Sema4 ---------------------------------
(***************************************************************************)
(* The semaphores of the C runtime, clib/mthread/c/mthread.c, as built for *)
(* Windows NT: __AccessSemaphore and __ReleaseSemaphore, the creation of a *)
(* critical section at the first access, and the pool the sections come    *)
(* from.  A thread executes one statement that reads or writes shared data *)
(* per step.                                                               *)
(*                                                                         *)
(* A thread is inside at most two nested calls: an access to a semaphore   *)
(* without section accesses and releases InitSemaphore, and, when the pool *)
(* is used up, calls malloc, which accesses and releases the semaphore of  *)
(* the near heap.  obj is the semaphore of the inner call.                 *)
(***************************************************************************)
EXTENDS Naturals

CONSTANTS
    Threads,
    NoThread,              \* the owner 0
    Sems,                  \* the semaphores the library accesses, as numbers
    NHeap,                 \* NHeapSemaphore, the last in the library's order
    MAX_CRITICAL_SECTION,  \* size of critsect_cache
    MaxCalls               \* bound: accesses of one thread

InitSemaphore == 0

ASSUME SemaAssumption ==
    /\ NoThread \notin Threads
    /\ Sems \subseteq Nat \ {InitSemaphore}
    /\ NHeap \in Sems /\ \A s \in Sems : s <= NHeap
    /\ MAX_CRITICAL_SECTION \in Nat /\ MAX_CRITICAL_SECTION >= 2
    /\ MaxCalls \in Nat

Objects == Sems \cup {InitSemaphore}

VARIABLES
    owner, count, initialized, semaphore,  \* the fields of semaphore_object
    critsect_next, critsect_vectornext,    \* sections handed out so far
    inside,  \* the critical sections each thread is in
    pc,      \* the next statement of each thread
    obj,     \* the semaphore of the call the thread is in
    outer,   \* the semaphore of the access that made that call, 0 for none
    held,    \* history: accesses minus releases, of each thread
    calls    \* history: accesses of the library, what uses up MaxCalls

fields == <<owner, count, initialized, semaphore>>
pool == <<critsect_next, critsect_vectornext>>
vars == <<fields, pool, inside, pc, obj, outer, held, calls>>

Statements == {"idle", "access", "test", "retest", "create", "grow", "publish",
               "enter", "own", "count", "release", "decrement", "disown",
               "leave", "fatal"}

\* The fields of semaphore_object and the state of each call are of their kinds;
\* no more sections of the cache are given out than it has.
TypeOK ==
    /\ owner \in [Objects -> Threads \cup {NoThread}]
    /\ count \in [Objects -> Nat]
    /\ initialized \in [Objects -> BOOLEAN]
    /\ semaphore \in [Objects -> Nat]
    /\ critsect_next \in 2..MAX_CRITICAL_SECTION
    /\ critsect_vectornext \in Nat
    /\ inside \in [Threads -> SUBSET Nat]
    /\ pc \in [Threads -> Statements]
    /\ obj \in [Threads -> Objects]
    /\ outer \in [Threads -> Sems \cup {InitSemaphore}]
    /\ held \in [Threads -> [Objects -> Nat]]
    /\ calls \in [Threads -> 0..MaxCalls]

(***************************************************************************)
(* The state in which __CBeginThread starts the first thread: section 1    *)
(* was made for InitSemaphore by __InitMultipleThread and section 2 for    *)
(* the heap by the malloc before CreateThread.                             *)
(***************************************************************************)
Init ==
    /\ owner = [o \in Objects |-> NoThread]
    /\ count = [o \in Objects |-> 0]
    /\ initialized = [o \in Objects |-> o \in {InitSemaphore, NHeap}]
    /\ semaphore = [o \in Objects |-> CASE o = InitSemaphore -> 1
                                        [] o = NHeap -> 2
                                        [] OTHER -> 0]
    /\ critsect_next = 2 /\ critsect_vectornext = 0
    /\ inside = [t \in Threads |-> {}]
    /\ pc = [t \in Threads |-> "idle"]
    /\ obj = [t \in Threads |-> NHeap]
    /\ outer = [t \in Threads |-> InitSemaphore]
    /\ held = [t \in Threads |-> [o \in Objects |-> 0]]
    /\ calls = [t \in Threads |-> 0]

At(t, statement) == pc[t] = statement
Goto(t, statement) == pc' = [pc EXCEPT ![t] = statement]

\* From within the access to obj[t], a call about the semaphore o.
Call(t, statement, o) ==
    /\ Goto(t, statement)
    /\ outer' = [outer EXCEPT ![t] = obj[t]]
    /\ obj' = [obj EXCEPT ![t] = o]

\* The call t is in returns; to is where the access that made it goes on.
Return(t, to) ==
    IF outer[t] = InitSemaphore
    THEN Goto(t, "idle") /\ UNCHANGED <<obj, outer>>
    ELSE /\ Goto(t, to)
         /\ obj' = [obj EXCEPT ![t] = outer[t]]
         /\ outer' = [outer EXCEPT ![t] = InitSemaphore]

-------------------------------------------------------------------------------
(***************************************************************************)
(* The library: a thread accesses semaphores in one order, a semaphore it  *)
(* has again if it likes, and releases only what it has accessed.          *)
(***************************************************************************)
Access(t, s) ==
    /\ At(t, "idle")
    /\ calls[t] < MaxCalls
    /\ \A r \in Sems : held[t][r] > 0 => r <= s
    /\ calls' = [calls EXCEPT ![t] = @ + 1]
    /\ obj' = [obj EXCEPT ![t] = s]
    /\ Goto(t, "access")
    /\ UNCHANGED <<fields, pool, inside, outer, held>>

Release(t, s) ==
    /\ At(t, "idle")
    /\ held[t][s] > 0
    /\ obj' = [obj EXCEPT ![t] = s]
    /\ Goto(t, "release")
    /\ UNCHANGED <<fields, pool, inside, outer, held, calls>>

-------------------------------------------------------------------------------
(***************************************************************************)
(* __AccessSemaphore.                                                      *)
(***************************************************************************)
TestOwner(t) ==
    /\ At(t, "access")
    /\ Goto(t, IF owner[obj[t]] = t THEN "count" ELSE "test")
    /\ UNCHANGED <<fields, pool, inside, obj, outer, held, calls>>

TestInitialized(t) ==
    /\ At(t, "test")
    /\ IF initialized[obj[t]] THEN Goto(t, "enter") /\ UNCHANGED <<obj, outer>>
                              ELSE Call(t, "access", InitSemaphore)
    /\ UNCHANGED <<fields, pool, inside, held, calls>>

\* The second test, now that the thread has InitSemaphore.
NotSeen(o) == FALSE
Seen(o) == initialized[o]

Retest(t) ==
    /\ At(t, "retest")
    /\ IF Seen(obj[t]) THEN Call(t, "release", InitSemaphore)
                       ELSE Goto(t, "create") /\ UNCHANGED <<obj, outer>>
    /\ UNCHANGED <<fields, pool, inside, held, calls>>

\* __NTGetCriticalSection takes a section of the cache, or goes to the heap
\* for one: the calls of lib_calloc and lib_realloc are taken for one.
InCacheOrAtEnd == critsect_next <= MAX_CRITICAL_SECTION
InCache == critsect_next < MAX_CRITICAL_SECTION
NotAdvanced == critsect_next
Advanced == critsect_next + 1

CreateCached(t) ==
    /\ At(t, "create")
    /\ InCache
    /\ critsect_next' = Advanced
    /\ semaphore' = [semaphore EXCEPT ![obj[t]] = critsect_next + 1]
    /\ Goto(t, "publish")
    /\ UNCHANGED <<owner, count, initialized, critsect_vectornext, inside, obj,
                   outer, held, calls>>

CreateFromHeap(t) ==
    /\ At(t, "create")
    /\ ~InCache
    /\ Call(t, "access", NHeap)
    /\ UNCHANGED <<fields, pool, inside, held, calls>>

Grow(t) ==
    /\ At(t, "grow")
    /\ critsect_vectornext' = critsect_vectornext + 1
    /\ semaphore' = [semaphore EXCEPT ![obj[t]] =
                        MAX_CRITICAL_SECTION + critsect_vectornext + 1]
    /\ Goto(t, "publish")
    /\ UNCHANGED <<owner, count, initialized, critsect_next, inside, obj, outer,
                   held, calls>>

Publish(t) ==
    /\ At(t, "publish")
    /\ initialized' = [initialized EXCEPT ![obj[t]] = TRUE]
    /\ Call(t, "release", InitSemaphore)
    /\ UNCHANGED <<owner, count, semaphore, pool, inside, held, calls>>

\* EnterCriticalSection waits for the section.
Enter(t) ==
    /\ At(t, "enter")
    /\ \A u \in Threads : semaphore[obj[t]] \notin inside[u]
    /\ inside' = [inside EXCEPT ![t] = @ \cup {semaphore[obj[t]]}]
    /\ Goto(t, "own")
    /\ UNCHANGED <<fields, pool, obj, outer, held, calls>>

Own(t) ==
    /\ At(t, "own")
    /\ owner' = [owner EXCEPT ![obj[t]] = t]
    /\ Goto(t, "count")
    /\ UNCHANGED <<count, initialized, semaphore, pool, inside, obj, outer, held,
                   calls>>

\* obj->count++ and the return to the library, to the second test, or to
\* malloc, which ends with the release of the heap.
Count(t) ==
    /\ At(t, "count")
    /\ count' = [count EXCEPT ![obj[t]] = @ + 1]
    /\ held' = [held EXCEPT ![t][obj[t]] = @ + 1]
    /\ IF obj[t] = NHeap /\ outer[t] # InitSemaphore
       THEN Goto(t, "release") /\ UNCHANGED <<obj, outer>>
       ELSE Return(t, "retest")
    /\ UNCHANGED <<owner, initialized, semaphore, pool, inside, calls>>

-------------------------------------------------------------------------------
(***************************************************************************)
(* __ReleaseSemaphore.                                                     *)
(***************************************************************************)
TestRelease(t) ==
    /\ At(t, "release")
    /\ IF count[obj[t]] > 0
       THEN /\ Goto(t, IF owner[obj[t]] = t THEN "decrement" ELSE "fatal")
            /\ UNCHANGED <<obj, outer>>
       ELSE Return(t, IF obj[t] = NHeap THEN "grow" ELSE "enter")
    /\ UNCHANGED <<fields, pool, inside, held, calls>>

Decrement(t) ==
    /\ At(t, "decrement")
    /\ count' = [count EXCEPT ![obj[t]] = @ - 1]
    /\ held' = [held EXCEPT ![t][obj[t]] = @ - 1]
    /\ IF count[obj[t]] = 1
       THEN Goto(t, "disown") /\ UNCHANGED <<obj, outer>>
       ELSE Return(t, IF obj[t] = NHeap THEN "grow" ELSE "enter")
    /\ UNCHANGED <<owner, initialized, semaphore, pool, inside, calls>>

\* owner = 0, while the thread is still in the section.
Disown(t) ==
    /\ At(t, "disown")
    /\ owner' = [owner EXCEPT ![obj[t]] = NoThread]
    /\ Goto(t, "leave")
    /\ UNCHANGED <<count, initialized, semaphore, pool, inside, obj, outer, held,
                   calls>>

NotLeft(t) == inside[t]
Left(t) == inside[t] \ {semaphore[obj[t]]}

Leave(t) ==
    /\ At(t, "leave")
    /\ inside' = [inside EXCEPT ![t] = Left(t)]
    /\ Return(t, IF obj[t] = NHeap THEN "grow" ELSE "enter")
    /\ UNCHANGED <<fields, pool, held, calls>>

-------------------------------------------------------------------------------
Step(t) ==
    \/ TestOwner(t) \/ TestInitialized(t) \/ Retest(t) \/ CreateCached(t)
    \/ CreateFromHeap(t) \/ Grow(t) \/ Publish(t) \/ Enter(t) \/ Own(t)
    \/ Count(t) \/ TestRelease(t) \/ Decrement(t) \/ Disown(t) \/ Leave(t)

Next == \E t \in Threads :
            \/ Step(t)
            \/ \E s \in Sems : Access(t, s) \/ Release(t, s)

Spec == Init /\ [][Next]_vars

\* A thread that can run does run, and the library releases what it accesses.
Fairness == \A t \in Threads :
                WF_vars(Step(t) \/ \E s \in Sems : Release(t, s))

FairSpec == Spec /\ Fairness

-------------------------------------------------------------------------------
(***************************************************************************)
(* Properties.                                                             *)
(***************************************************************************)
Locks == INSTANCE ReentrantLocks

\* No thread returns from __AccessSemaphore while another has the semaphore,
\* though the owner is tested, and the section made, without a lock.
Exclusive == Locks!Spec

\* "Semaphore unlocked by wrong owner" never ends a program that releases only
\* what it has accessed.
NeverFatal == \A t \in Threads : pc[t] # "fatal"

\* Every section belongs to one semaphore, and stays its section once a thread
\* may have seen the semaphore initialized.
OwnSection ==
    \A o, q \in Objects : o # q /\ semaphore[o] = semaphore[q] => semaphore[o] = 0

\* The section of a semaphore is never replaced once it is initialized: a thread
\* leaves the section it has entered.
SectionKept ==
    [][\A o \in Objects : initialized[o] => semaphore'[o] = semaphore[o]]_vars

\* Every access and every release returns, when a pool that is used up sends
\* its caller to the heap included: no cycle of waiting threads is possible.
CallsReturn == \A t \in Threads : pc[t] # "idle" ~> pc[t] = "idle"
===============================================================================
